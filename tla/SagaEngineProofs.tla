--------------------------- MODULE SagaEngineProofs ---------------------------
(***************************************************************************)
(* The saga engine implements SagaSteps, for every plan, and does not      *)
(* repeat a step its journal recorded as finished.                         *)
(*                                                                         *)
(* The inductive invariant says of both copies of the journal, the one on  *)
(* disk and the one in memory, that what they call finished was acted on   *)
(* by its handler; of the engine, that the steps before its index are      *)
(* finished in the journal in memory; and of the executable, that the      *)
(* old one never comes back, and that on Posix it is the target as soon as *)
(* the step that installs it acted.  On Windows nothing of the kind holds, *)
(* and none of the theorems says it.                                       *)
(***************************************************************************)
EXTENDS SagaEngine, TLAPS

\* What a journal says is true.
Truthful(j) ==
    /\ Finished(j) \subseteq done
    /\ j.status = "completed" => done = Step \/ version

\* The engine is among the steps, and where it is.
EngineInv ==
    /\ at \in {"loop", "run"} => next = at
    /\ at # "idle" /\ next \in {"loop", "run"} => 1..(i - 1) \subseteq Finished(journal)
    /\ at # "idle" /\ next = "run" => i \in Step /\ i \notin Finished(journal)
    /\ at # "idle" /\ next = "completed" => journal.status = "completed"

TruthInv ==
    /\ Truthful(file)
    /\ Truthful(journal)
    /\ at = "acted" => next = "run" /\ i \in done
    /\ outcome = "completed" => done = Step \/ version

DiskInv ==
    /\ version => exe # "old"
    /\ scripts > 0 => windows /\ Apply \in done
    /\ ~windows => exe # "none" /\ (Apply \in done \/ version => exe = "target")

RecordInv ==
    /\ at # "rename" => recorded \subseteq Finished(file)
    /\ at # "idle" => recorded \subseteq Finished(journal)
    /\ repeated = {}

IInv == TypeOK /\ EngineInv /\ TruthInv /\ DiskInv /\ RecordInv

-----------------------------------------------------------------------------
(* The journal.                                                            *)

LEMMA NewJournalFacts ==
    /\ NewJournal \in Journal /\ NewJournal.status = "running" /\ Finished(NewJournal) = {}
    /\ NoJournal.status = "none" /\ Finished(NoJournal) = {}
    /\ NoJournal.steps \in [Step -> StepStatus]
BY DEF NewJournal, NoJournal, Journal, Finished, Terminal, SagaStatus, StepStatus

LEMMA JournalFacts ==
    ASSUME NEW j \in Journal, NEW status \in SagaStatus
    PROVE  /\ WithStatus(j, status) \in Journal
           /\ WithStatus(j, status).status = status
           /\ Finished(WithStatus(j, status)) = Finished(j)
BY DEF WithStatus, Journal, Finished

LEMMA RecordedFacts ==
    ASSUME journal \in Journal, NEW s \in Step, NEW status \in StepStatus
    PROVE  /\ Recorded(s, status) \in Journal
           /\ Recorded(s, status).status = journal.status
           /\ Finished(Recorded(s, status)) =
                IF Terminal(status) THEN Finished(journal) \cup {s} ELSE Finished(journal) \ {s}
<1>1. Recorded(s, status) \in Journal /\ Recorded(s, status).status = journal.status
  BY DEF Recorded, Journal
<1>2. ASSUME NEW t \in Step
      PROVE  Recorded(s, status).steps[t] = IF t = s THEN status ELSE journal.steps[t]
  BY DEF Recorded, Journal
<1> QED BY <1>1, <1>2 DEF Finished

LEMMA FinishedInSteps == \A j : Finished(j) \subseteq Step
BY DEF Finished

-----------------------------------------------------------------------------
LEMMA InitIInv == Init => IInv
<1> SUFFICES ASSUME Init PROVE IInv
  OBVIOUS
<1>1. TypeOK
  <2>1. exe \in {"old", "target", "none"} /\ scripts \in Nat /\ fresh \in BOOLEAN
    BY DEF Init
  <2>2. i \in 1..(N + 1) /\ attempt \in 1..MaxAttempts /\ upsets \in 0..MaxUpsets
    BY PlanAssumption, BoundsAssumption DEF Init
  <2> QED BY <2>1, <2>2, NewJournalFacts DEF Init, TypeOK
<1>2. EngineInv
  BY DEF Init, EngineInv
<1>3. TruthInv
  BY NewJournalFacts DEF Init, TruthInv, Truthful
<1>4. DiskInv
  BY DEF Init, DiskInv
<1>5. RecordInv
  BY DEF Init, RecordInv
<1> QED BY <1>1, <1>2, <1>3, <1>4, <1>5 DEF IInv

LEMMA EffectType ==
    ASSUME TypeOK, i \in Step, Effect
    PROVE  /\ done' \subseteq Step /\ repeated' \subseteq Step
           /\ windows' \in BOOLEAN /\ exe' \in {"old", "target", "none"}
           /\ scripts' \in Nat /\ fresh' \in BOOLEAN
<1>1. done' \subseteq Step /\ repeated' \subseteq Step
  BY DEF TypeOK, Effect
<1>2. CASE i = Apply
  <2>1. CASE ApplyPosix
    BY <1>1, <2>1 DEF TypeOK, ApplyPosix
  <2>2. CASE ApplyWindows
    BY <1>1, <2>2 DEF TypeOK, ApplyWindows
  <2> QED BY <1>2, <2>1, <2>2 DEF Effect
<1>3. CASE i # Apply
  BY <1>1, <1>3 DEF TypeOK, Effect, diskVars
<1> QED BY <1>2, <1>3

LEMMA NextType == ASSUME TypeOK, EngineInv, TruthInv, Next PROVE TypeOK'
<1> USE PlanAssumption, BoundsAssumption, NewJournalFacts, JournalFacts, RecordedFacts
    DEF diskVars
<1>1. CASE Deliver
  BY <1>1 DEF TypeOK, Deliver, Save, Resumed, SagaStatus, Step
<1>2. CASE DeliverReused
  BY <1>2 DEF TypeOK, DeliverReused, engineVars
<1>3. CASE Remove
  BY <1>3 DEF TypeOK, Remove
<1>4. CASE Rename
  BY <1>4, FinishedInSteps DEF TypeOK, Rename
<1>5. CASE Skip
  BY <1>5 DEF TypeOK, Skip, Save, Step
<1>6. CASE StartStep
  BY <1>6 DEF TypeOK, StartStep, Save, Step, StepStatus
<1>7. CASE CompleteSaga
  BY <1>7 DEF TypeOK, CompleteSaga, Save, SagaStatus
<1>8. CASE HandlerSucceeds
  BY <1>8 DEF TypeOK, EngineInv, TruthInv, HandlerSucceeds, Save, Step, StepStatus
<1>9. CASE HandlerStops
  <2>1. i \in Step
    BY <1>9 DEF TypeOK, EngineInv, HandlerStops
  <2>2. /\ done' \subseteq Step /\ repeated' \subseteq Step
        /\ windows' \in BOOLEAN /\ exe' \in {"old", "target", "none"}
        /\ scripts' \in Nat /\ fresh' \in BOOLEAN
    BY <1>9, <2>1, EffectType DEF HandlerStops
  <2> QED BY <1>9, <2>1, <2>2 DEF TypeOK, HandlerStops, Save, SagaStatus, StepStatus
<1>10. CASE SaveFails
  BY <1>10 DEF TypeOK, SaveFails, Upset
<1>11. CASE RenameFails
  BY <1>11 DEF TypeOK, RenameFails, Upset
<1>12. CASE HandlerFails
  <2>1. i \in Step
    BY <1>12 DEF TypeOK, EngineInv, TruthInv, HandlerFails
  <2>2. fresh' \in BOOLEAN /\ UNCHANGED <<done, repeated, windows, exe, scripts>>
    BY <1>12 DEF TypeOK, HandlerFails
  <2>3. /\ journal' \in Journal /\ at' \in {"run", "save"}
        /\ next' \in {"run", "failed"} /\ attempt' \in 1..MaxAttempts
    BY <1>12, <2>1 DEF TypeOK, EngineInv, TruthInv, HandlerFails, Save, SagaStatus, StepStatus
  <2> QED BY <1>12, <2>2, <2>3 DEF TypeOK, HandlerFails, Upset
<1>13. CASE Restart
  <2>1. i' \in 1..(N + 1) /\ attempt' \in 1..MaxAttempts
    BY <1>13 DEF Restart
  <2>2. recorded' \subseteq Step /\ upsets' \in 0..MaxUpsets
    BY <1>13 DEF TypeOK, Restart, Upset
  <2> QED BY <1>13, <2>1, <2>2 DEF TypeOK, Restart
<1>14. CASE HandlerActs
  <2>1. i \in Step
    BY <1>14 DEF TypeOK, EngineInv, HandlerActs
  <2>2. /\ done' \subseteq Step /\ repeated' \subseteq Step
        /\ windows' \in BOOLEAN /\ exe' \in {"old", "target", "none"}
        /\ scripts' \in Nat /\ fresh' \in BOOLEAN
    BY <1>14, <2>1, EffectType DEF HandlerActs
  <2> QED BY <1>14, <2>2 DEF TypeOK, HandlerActs
<1>15. CASE RunScript
  <2>1. scripts' \in Nat /\ exe' \in {"old", "target", "none"}
    BY <1>15 DEF TypeOK, RunScript
  <2> QED BY <1>15, <2>1 DEF TypeOK, RunScript, engineVars
<1>16. CASE ScriptFails
  <2>1. scripts' \in Nat /\ exe' \in {"old", "target", "none"} /\ upsets' \in 0..MaxUpsets
    BY <1>16 DEF TypeOK, ScriptFails, Upset
  <2> QED BY <1>16, <2>1 DEF TypeOK, ScriptFails, engineVars
<1> QED BY <1>1, <1>2, <1>3, <1>4, <1>5, <1>6, <1>7, <1>8, <1>9, <1>10, <1>11, <1>12, <1>13,
           <1>14, <1>15, <1>16
        DEF Next, Engine

LEMMA NextEngine == ASSUME TypeOK, EngineInv, TruthInv, Next PROVE EngineInv'
<1> USE PlanAssumption, NewJournalFacts, JournalFacts, RecordedFacts
<1>1. CASE Deliver
  BY <1>1 DEF EngineInv, Deliver, Save
<1>2. CASE DeliverReused
  BY <1>2 DEF EngineInv, DeliverReused, engineVars
<1>3. CASE Remove
  BY <1>3 DEF EngineInv, Remove
<1>4. CASE Rename
  BY <1>4 DEF TypeOK, EngineInv, Rename
<1>5. CASE Skip
  BY <1>5 DEF TypeOK, EngineInv, Skip, Save, Finished, Step
<1>6. CASE StartStep
  <2>1. i \in Step /\ Finished(journal') = Finished(journal) \ {i}
    BY <1>6 DEF TypeOK, StartStep, Save, Step, StepStatus, Terminal
  <2> QED BY <1>6, <2>1 DEF TypeOK, EngineInv, StartStep, Save, Step
<1>7. CASE CompleteSaga
  BY <1>7 DEF TypeOK, EngineInv, CompleteSaga, Save, SagaStatus
<1>8. CASE HandlerSucceeds
  <2>1. i \in Step /\ Finished(journal') = Finished(journal) \cup {i}
    BY <1>8 DEF TypeOK, EngineInv, TruthInv, HandlerSucceeds, Save, StepStatus, Terminal
  <2> QED BY <1>8, <2>1 DEF TypeOK, EngineInv, TruthInv, HandlerSucceeds, Save, Step
<1>9. CASE HandlerStops
  BY <1>9 DEF TypeOK, EngineInv, HandlerStops, Save, SagaStatus, StepStatus
<1>10. CASE SaveFails
  BY <1>10 DEF EngineInv, SaveFails
<1>11. CASE RenameFails
  BY <1>11 DEF EngineInv, RenameFails
<1>12. CASE HandlerFails
  BY <1>12 DEF EngineInv, TruthInv, HandlerFails, Save
<1>13. CASE Restart
  BY <1>13 DEF EngineInv, Restart
<1>14. CASE HandlerActs
  BY <1>14 DEF EngineInv, HandlerActs
<1>15. CASE RunScript
  BY <1>15 DEF EngineInv, RunScript, engineVars
<1>16. CASE ScriptFails
  BY <1>16 DEF EngineInv, ScriptFails, engineVars
<1> QED BY <1>1, <1>2, <1>3, <1>4, <1>5, <1>6, <1>7, <1>8, <1>9, <1>10, <1>11, <1>12, <1>13,
           <1>14, <1>15, <1>16
        DEF Next, Engine

LEMMA NextTruth == ASSUME TypeOK, EngineInv, TruthInv, DiskInv, Next PROVE TruthInv'
<1> USE PlanAssumption, NewJournalFacts, JournalFacts, RecordedFacts DEF diskVars
<1>1. CASE Deliver
  <2>1. file = NoJournal \/ file \in Journal
    BY DEF TypeOK
  <2>2. CASE file = NoJournal
    BY <1>1, <2>2 DEF TruthInv, Truthful, Deliver, Save
  <2>3. CASE file # NoJournal
    BY <1>1, <2>1, <2>3 DEF TruthInv, Truthful, Deliver, Save, Resumed, SagaStatus
  <2> QED BY <2>2, <2>3
<1>2. CASE DeliverReused
  BY <1>2 DEF TruthInv, Truthful, DeliverReused, Reused, engineVars
<1>3. CASE Remove
  BY <1>3 DEF TruthInv, Truthful, Remove
<1>4. CASE Rename
  BY <1>4 DEF TruthInv, Truthful, EngineInv, Rename
<1>5. CASE Skip
  BY <1>5 DEF TruthInv, Truthful, Skip, Save
<1>6. CASE StartStep
  <2>1. Finished(journal') \subseteq Finished(journal) /\ journal'.status = journal.status
    BY <1>6 DEF TypeOK, StartStep, Save, Step, StepStatus, Terminal
  <2> QED BY <1>6, <2>1 DEF TruthInv, Truthful, StartStep, Save
<1>7. CASE CompleteSaga
  <2>1. done = Step
    <3>1. i = N + 1 /\ 1..(i - 1) \subseteq Finished(journal)
      BY <1>7 DEF EngineInv, CompleteSaga
    <3>2. Step \subseteq Finished(journal)
      BY <3>1 DEF Step
    <3> QED BY <3>2 DEF TypeOK, TruthInv, Truthful
  <2>2. Finished(journal') = Finished(journal)
    BY <1>7 DEF TypeOK, CompleteSaga, Save, SagaStatus
  <2> QED BY <1>7, <2>1, <2>2 DEF TruthInv, Truthful, CompleteSaga, Save
<1>8. CASE HandlerSucceeds
  <2>1. i \in Step /\ i \in done
    BY <1>8 DEF TypeOK, EngineInv, TruthInv, HandlerSucceeds
  <2>2. /\ Finished(journal') = Finished(journal) \cup {i}
        /\ journal'.status = journal.status
    BY <1>8, <2>1 DEF TypeOK, HandlerSucceeds, Save, StepStatus, Terminal
  <2> QED BY <1>8, <2>1, <2>2 DEF TruthInv, Truthful, HandlerSucceeds, Save
<1>9. CASE HandlerStops
  <2>1. i \in Step
    BY <1>9 DEF TypeOK, EngineInv, HandlerStops
  <2>2. Finished(journal') = Finished(journal) \cup {i}
    BY <1>9, <2>1 DEF TypeOK, HandlerStops, Save, SagaStatus, StepStatus, Terminal
  <2>3. done' = done \cup {i} /\ done \subseteq Step /\ version /\ version' = version
    BY <1>9 DEF TypeOK, HandlerStops, Stops, Effect
  <2> QED BY <1>9, <2>1, <2>2, <2>3 DEF TruthInv, Truthful, HandlerStops, Save
<1>10. CASE SaveFails
  BY <1>10 DEF TruthInv, Truthful, SaveFails
<1>11. CASE RenameFails
  BY <1>11 DEF TruthInv, Truthful, RenameFails
<1>12. CASE HandlerFails
  <2>1. i \in Step
    BY <1>12 DEF TypeOK, EngineInv, TruthInv, HandlerFails
  <2>2. \/ journal' = journal
        \/ journal' = WithStatus(Recorded(i, "failed"), "failed")
    BY <1>12 DEF HandlerFails, Save
  <2>3. /\ Finished(journal') \subseteq Finished(journal)
        /\ journal'.status = journal.status \/ journal'.status = "failed"
    BY <2>1, <2>2 DEF TypeOK, SagaStatus, StepStatus, Terminal
  <2>4. at' # "acted" /\ UNCHANGED <<file, done, outcome, version>>
    BY <1>12 DEF HandlerFails, Save
  <2> QED BY <2>3, <2>4 DEF TruthInv, Truthful
<1>13. CASE Restart
  <2>1. version => version'
    BY <1>13 DEF TypeOK, DiskInv, Restart
  <2> QED BY <1>13, <2>1 DEF TruthInv, Truthful, Restart
<1>14. CASE HandlerActs
  <2>1. i \in Step /\ next = "run"
    BY <1>14 DEF TypeOK, EngineInv, HandlerActs
  <2>2. done' = done \cup {i} /\ done \subseteq Step
    BY <1>14 DEF TypeOK, HandlerActs, Effect
  <2> QED BY <1>14, <2>1, <2>2 DEF TruthInv, Truthful, HandlerActs
<1>15. CASE RunScript
  BY <1>15 DEF TruthInv, Truthful, RunScript, engineVars
<1>16. CASE ScriptFails
  BY <1>16 DEF TruthInv, Truthful, ScriptFails, engineVars
<1> QED BY <1>1, <1>2, <1>3, <1>4, <1>5, <1>6, <1>7, <1>8, <1>9, <1>10, <1>11, <1>12, <1>13,
           <1>14, <1>15, <1>16
        DEF Next, Engine

LEMMA NextDisk == ASSUME TypeOK, EngineInv, DiskInv, Next PROVE DiskInv'
<1> USE PlanAssumption DEF diskVars
<1>1. CASE Deliver \/ DeliverReused \/ Remove \/ Rename \/ Skip \/ StartStep \/ CompleteSaga
  BY <1>1 DEF DiskInv, Deliver, DeliverReused, Remove, Rename, Skip, StartStep, CompleteSaga
<1>2. CASE HandlerSucceeds \/ HandlerFails \/ SaveFails \/ RenameFails
  <2>1. UNCHANGED <<version, windows, exe, scripts, done>>
    BY <1>2 DEF HandlerSucceeds, HandlerFails, SaveFails, RenameFails
  <2> QED BY <2>1 DEF DiskInv
<1>3. CASE HandlerActs \/ HandlerStops
  <2>1. Effect /\ version' = version
    BY <1>3 DEF HandlerActs, HandlerStops
  <2>2. CASE i = Apply
    BY <2>1, <2>2 DEF TypeOK, DiskInv, Effect, ApplyPosix, ApplyWindows
  <2>3. CASE i # Apply
    BY <2>1, <2>3 DEF DiskInv, Effect
  <2> QED BY <2>2, <2>3
<1>4. CASE RunScript
  BY <1>4 DEF TypeOK, DiskInv, RunScript
<1>5. CASE ScriptFails
  BY <1>5 DEF TypeOK, DiskInv, ScriptFails
<1>6. CASE Restart
  BY <1>6 DEF TypeOK, DiskInv, Restart
<1> QED BY <1>1, <1>2, <1>3, <1>4, <1>5, <1>6 DEF Next, Engine

LEMMA NextRecord == ASSUME TypeOK, EngineInv, TruthInv, RecordInv, Next PROVE RecordInv'
<1> USE PlanAssumption, NewJournalFacts, JournalFacts, RecordedFacts
<1>1. CASE Deliver
  <2>1. file = NoJournal \/ file \in Journal
    BY DEF TypeOK
  <2>2. CASE file = NoJournal
    BY <1>1, <2>2 DEF RecordInv, Deliver, Save
  <2>3. CASE file # NoJournal
    BY <1>1, <2>1, <2>3 DEF RecordInv, Deliver, Save, Resumed, SagaStatus
  <2> QED BY <2>2, <2>3
<1>2. CASE DeliverReused
  BY <1>2 DEF RecordInv, DeliverReused, engineVars
<1>3. CASE Remove
  BY <1>3 DEF RecordInv, Remove
<1>4. CASE Rename
  BY <1>4 DEF RecordInv, Rename
<1>5. CASE Skip
  BY <1>5 DEF RecordInv, Skip, Save
<1>6. CASE StartStep
  <2>1. i \in Step /\ Finished(journal') = Finished(journal) \ {i}
    BY <1>6 DEF TypeOK, StartStep, Save, Step, StepStatus, Terminal
  <2>2. i \notin Finished(journal)
    BY <1>6 DEF StartStep, Finished
  <2> QED BY <1>6, <2>1, <2>2 DEF RecordInv, StartStep, Save
<1>7. CASE CompleteSaga
  BY <1>7 DEF TypeOK, RecordInv, CompleteSaga, Save, SagaStatus
<1>8. CASE HandlerSucceeds
  <2>1. i \in Step /\ i \notin Finished(journal)
    BY <1>8 DEF TypeOK, EngineInv, TruthInv, HandlerSucceeds
  <2>2. Finished(journal') = Finished(journal) \cup {i}
    BY <1>8, <2>1 DEF TypeOK, HandlerSucceeds, Save, StepStatus, Terminal
  <2> QED BY <1>8, <2>1, <2>2 DEF RecordInv, HandlerSucceeds, Save
<1>9. CASE HandlerStops
  <2>1. i \in Step /\ i \notin Finished(journal)
    BY <1>9 DEF TypeOK, EngineInv, HandlerStops
  <2>2. Finished(journal') = Finished(journal) \cup {i}
    BY <1>9, <2>1 DEF TypeOK, HandlerStops, Save, SagaStatus, StepStatus, Terminal
  <2> QED BY <1>9, <2>1, <2>2 DEF RecordInv, HandlerStops, Effect, Save
<1>10. CASE SaveFails
  BY <1>10 DEF RecordInv, SaveFails
<1>11. CASE RenameFails
  BY <1>11 DEF RecordInv, RenameFails
<1>12. CASE HandlerFails
  <2>1. i \in Step /\ i \notin Finished(journal)
    BY <1>12 DEF TypeOK, EngineInv, TruthInv, HandlerFails
  <2>2. \/ journal' = journal
        \/ journal' = WithStatus(Recorded(i, "failed"), "failed")
    BY <1>12 DEF HandlerFails, Save
  <2>3. Finished(journal') = Finished(journal)
    <3>1. CASE journal' = journal
      BY <3>1
    <3>2. CASE journal' = WithStatus(Recorded(i, "failed"), "failed")
      <4>1. /\ Recorded(i, "failed") \in Journal
            /\ Finished(Recorded(i, "failed")) = Finished(journal) \ {i}
        BY <2>1 DEF TypeOK, StepStatus, Terminal
      <4>2. Finished(journal') = Finished(journal) \ {i}
        BY <3>2, <4>1 DEF SagaStatus
      <4> QED BY <2>1, <4>2
    <3> QED BY <2>2, <3>1, <3>2
  <2>4. repeated' = {}
    BY <1>12 DEF RecordInv, HandlerFails
  <2> QED BY <1>12, <2>3, <2>4 DEF RecordInv, HandlerFails, Save
<1>13. CASE Restart
  BY <1>13 DEF RecordInv, Restart
<1>14. CASE HandlerActs
  <2>1. i \in Step /\ i \notin Finished(journal)
    BY <1>14 DEF TypeOK, EngineInv, HandlerActs
  <2> QED BY <1>14, <2>1 DEF RecordInv, HandlerActs, Effect
<1>15. CASE RunScript
  BY <1>15 DEF RecordInv, RunScript, engineVars
<1>16. CASE ScriptFails
  BY <1>16 DEF RecordInv, ScriptFails, engineVars
<1> QED BY <1>1, <1>2, <1>3, <1>4, <1>5, <1>6, <1>7, <1>8, <1>9, <1>10, <1>11, <1>12, <1>13,
           <1>14, <1>15, <1>16
        DEF Next, Engine

\* The inductive invariant holds of every behaviour of the engine: a journal records as
\* finished only steps whose handler acted, and as completed only a saga of which all did or
\* whose target runs.  What the script of applyWindows did afterwards no journal says.
THEOREM JournalsAreTruthful == Spec => []IInv
<1>1. Init => IInv
  BY InitIInv
<1>2. IInv /\ [Next]_vars => IInv'
  <2> SUFFICES ASSUME IInv, [Next]_vars PROVE IInv'
    OBVIOUS
  <2>1. CASE Next
    BY <2>1, NextType, NextEngine, NextTruth, NextDisk, NextRecord DEF IInv
  <2>2. CASE UNCHANGED vars
    BY <2>2 DEF IInv, TypeOK, EngineInv, TruthInv, Truthful, DiskInv, RecordInv, vars, engineVars,
       diskVars
  <2> QED BY <2>1, <2>2
<1> QED BY <1>1, <1>2, PTL DEF Spec

\* A step that the journal recorded as finished does not run again, unless the journal
\* itself was lost (Execute, findTerminalStepResult).
THEOREM FinishedStepsRest == Spec => []RecordedNotRepeated
<1>1. IInv => RecordedNotRepeated
  BY DEF IInv, RecordInv, RecordedNotRepeated
<1> QED BY <1>1, JournalsAreTruthful, PTL

-----------------------------------------------------------------------------
(* The refinement.                                                         *)

LEMMA StepRefines == IInv /\ [Next]_vars => [Promise!Next]_(Promise!vars)
<1> SUFFICES ASSUME IInv, [Next]_vars PROVE Promise!Next \/ UNCHANGED Promise!vars
  OBVIOUS
<1> USE DEF diskVars
<1>1. CASE HandlerActs \/ HandlerStops
  <2>1. i \in Step /\ 1..(i - 1) \subseteq done
    BY <1>1 DEF IInv, TypeOK, EngineInv, TruthInv, Truthful, HandlerActs, HandlerStops
  <2>2. Effect /\ outcome' = outcome /\ version' = version
    BY <1>1 DEF HandlerActs, HandlerStops
  <2>3. windows' = windows /\ (exe = "target")' = ((exe = "target") \/ (i = Apply /\ ~windows))
    BY <2>2 DEF Effect, ApplyPosix, ApplyWindows
  <2>4. Promise!Do(i)
    BY <2>1, <2>2, <2>3 DEF Promise!Do, Effect
  <2> QED BY <2>1, <2>4 DEF Promise!Next, Step
<1>2. CASE Rename
  <2>1. CASE next = "completed"
    <3>1. done = 1..N \/ version
      BY <1>2, <2>1 DEF IInv, EngineInv, TruthInv, Truthful, Rename, Step
    <3>2. outcome' = "completed" /\ UNCHANGED <<done, exe, version, windows>>
      BY <1>2, <2>1 DEF Rename
    <3> QED BY <3>1, <3>2 DEF Promise!Next, Promise!Finish
  <2>2. CASE next # "completed"
    BY <1>2, <2>2 DEF Rename, Promise!vars
  <2> QED BY <2>1, <2>2
<1>3. CASE DeliverReused
  <2>1. done = 1..N \/ version
    BY <1>3 DEF IInv, TruthInv, Truthful, DeliverReused, Reused, Step
  <2>2. outcome' = "completed" /\ UNCHANGED <<done, exe, version, windows>>
    BY <1>3 DEF DeliverReused, Reused
  <2> QED BY <2>1, <2>2 DEF Promise!Next, Promise!Finish
<1>4. CASE Deliver \/ Remove \/ Skip \/ StartStep \/ CompleteSaga
  BY <1>4 DEF Deliver, Remove, Skip, StartStep, CompleteSaga, Promise!vars
<1>5. CASE SaveFails \/ RenameFails \/ HandlerSucceeds \/ HandlerFails
  BY <1>5 DEF SaveFails, RenameFails, HandlerSucceeds, HandlerFails, Promise!vars
<1>6. CASE RunScript \/ ScriptFails
  <2>1. windows /\ Apply \in done
    BY <1>6 DEF IInv, TypeOK, DiskInv, RunScript, ScriptFails
  <2>2. UNCHANGED <<done, version, windows, outcome>>
    BY <1>6 DEF RunScript, ScriptFails
  <2> QED BY <2>1, <2>2 DEF Promise!Next, Promise!Install
<1>7. CASE Restart
  BY <1>7 DEF Restart, Promise!Next, Promise!Start
<1>8. CASE UNCHANGED vars
  BY <1>8 DEF vars, Promise!vars
<1> QED BY <1>1, <1>2, <1>3, <1>4, <1>5, <1>6, <1>7, <1>8 DEF Next, Engine

\* Whatever fails, stops or is lost, the steps act in the order of the plan, and the saga is
\* reported as completed only when the handler of each has acted or the target version
\* runs.  That the last step acted means on Posix that the target is installed, and on
\* Windows no more than that a script was started (ApplyAndRestart).
THEOREM SagaImplementsSteps == Spec => ImplementsSteps
<1>1. Init => Promise!Init
  BY DEF Init, Promise!Init
<1>2. IInv /\ [Next]_vars => [Promise!Next]_(Promise!vars)
  BY StepRefines
<1> QED BY <1>1, <1>2, JournalsAreTruthful, PTL DEF Spec, ImplementsSteps, Promise!Spec

\* On Posix, and only there, a self-update that was reported as completed has installed the
\* target version (applyPosix).
THEOREM PosixInstalls == Spec => [](~windows => CompletedIsInstalled)
<1>1. IInv => (~windows => CompletedIsInstalled)
  BY PlanAssumption DEF IInv, TruthInv, DiskInv, CompletedIsInstalled
<1> QED BY <1>1, JournalsAreTruthful, PTL
=============================================================================
