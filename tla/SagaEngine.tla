------------------------------ MODULE SagaEngine ------------------------------
(***************************************************************************)
(* The saga engine of the agent: it runs the steps of a plan one by one,   *)
(* keeps a journal of them in memory, and writes it to a file before and   *)
(* after each step, so that a saga that is delivered again after a failure *)
(* or a restart goes on where it stopped.                                  *)
(*                                                                         *)
(* The file is written by writeFileAtomically: a temporary file is filled, *)
(* the old journal is removed, and the temporary file takes its name.  A   *)
(* stop between the last two, or a failure of the last, loses the journal. *)
(*                                                                         *)
(* The plan is that of a self-update: one step looks whether the target    *)
(* version runs already and then ends the saga, one has the executable     *)
(* replaced and started, while this process goes on.  On Posix that step   *)
(* replaces it itself; on Windows it starts a script and succeeds, and the *)
(* script moves the files two seconds later and tells nobody how it went.  *)
(***************************************************************************)
EXTENDS Integers

CONSTANTS
    N,           \* the number of steps
    Check,       \* runner.self_update_target_version_check
    Apply,       \* native.agent_self_update
    MaxAttempts, \* retry_policy.max_attempts
    MaxUpsets    \* bound: handlers and writes that fail, stops of the process

Step == 1..N

ASSUME PlanAssumption == N \in Nat /\ Check \in Step /\ Apply \in Step
ASSUME BoundsAssumption == MaxAttempts \in Nat \ {0} /\ MaxUpsets \in Nat

VARIABLES
    file,        \* the journal on disk, or NoJournal
    journal,     \* the journal in memory
    at, next,    \* the engine's step, and where it goes when the journal is saved
    i, attempt,  \* the index of the step, and how often it was tried
    version,     \* whether the process runs the target version
    windows,     \* runtime.GOOS
    exe,         \* the executable on disk: "old", "target" or "none"
    scripts,     \* the scripts of applyWindows that have not run yet
    fresh,       \* whether the downloaded executable waits for one
    done,        \* the steps that took effect
    outcome,     \* "completed" once a result said so
    recorded,    \* the steps that a file recorded as finished and no loss of it forgot
    repeated,    \* the steps of these that ran again; no code reads the last four
    upsets

engineVars == <<journal, at, next, i, attempt>>
diskVars == <<windows, exe, scripts, fresh>>
vars == <<file, engineVars, version, diskVars, done, outcome, recorded, repeated, upsets>>

\* "failed" stands for failed, canceled and timeout, which resume alike.
SagaStatus == {"running", "completed", "failed"}
StepStatus == {"none", "running", "completed", "skipped", "failed"}

Journal == [status : SagaStatus, steps : [Step -> StepStatus]]
NewJournal == [status |-> "running", steps |-> [s \in Step |-> "none"]]
NoJournal == [status |-> "none", steps |-> [s \in Step |-> "none"]]

TypeOK ==
    /\ file \in Journal \cup {NoJournal}
    /\ journal \in Journal
    /\ at \in {"idle", "loop", "run", "acted", "save", "rename"}
    /\ next \in {"loop", "run", "completed", "failed"}
    /\ i \in 1..(N + 1)
    /\ attempt \in 1..MaxAttempts
    /\ version \in BOOLEAN /\ windows \in BOOLEAN
    /\ exe \in {"old", "target", "none"} /\ scripts \in Nat /\ fresh \in BOOLEAN
    /\ done \subseteq Step
    /\ outcome \in {"open", "completed"}
    /\ recorded \subseteq Step /\ repeated \subseteq Step
    /\ upsets \in 0..MaxUpsets

Init ==
    /\ file = NoJournal
    /\ journal = NewJournal
    /\ at = "idle" /\ next = "loop"
    /\ i = 1 /\ attempt = 1
    /\ version \in BOOLEAN /\ windows \in BOOLEAN
    /\ exe = (IF version THEN "target" ELSE "old") /\ scripts = 0 /\ fresh = FALSE
    /\ done = {} /\ outcome = "open"
    /\ recorded = {} /\ repeated = {}
    /\ upsets = 0

Upset == upsets < MaxUpsets /\ upsets' = upsets + 1

\* Mutant of Terminal: a step that was under way is taken for done.
TerminalStarted(status) == status \in {"running", "completed", "skipped"}

\* findTerminalStepResult
Terminal(status) == status \in {"completed", "skipped"}

Finished(j) == {s \in Step : Terminal(j.steps[s])}

Recorded(s, status) ==
    [status |-> journal.status, steps |-> [journal.steps EXCEPT ![s] = status]]

WithStatus(j, status) == [status |-> status, steps |-> j.steps]

-----------------------------------------------------------------------------
(* writeFileAtomically.                                                    *)

Save(j, then) ==
    /\ journal' = j
    /\ at' = "save" /\ next' = then

\* The temporary file cannot be written: a failed result, and the old journal stays.
SaveFails ==
    /\ at = "save"
    /\ Upset
    /\ at' = "idle"
    /\ UNCHANGED <<file, journal, next, i, attempt, version, diskVars, done, outcome,
                   recorded, repeated>>

Remove ==
    /\ at = "save"
    /\ file' = NoJournal
    /\ at' = "rename"
    /\ UNCHANGED <<journal, next, i, attempt, version, diskVars, done, outcome,
                   recorded, repeated, upsets>>

\* A journal that is saved as completed or failed ends Execute with its result.
Rename ==
    /\ at = "rename"
    /\ file' = journal
    /\ recorded' = recorded \cup Finished(journal)
    /\ at' = IF next \in {"loop", "run"} THEN next ELSE "idle"
    /\ outcome' = IF next = "completed" THEN "completed" ELSE outcome
    /\ UNCHANGED <<journal, next, i, attempt, version, diskVars, done, repeated, upsets>>

RenameFails ==
    /\ at = "rename"
    /\ Upset
    /\ recorded' = {}
    /\ at' = "idle"
    /\ UNCHANGED <<file, journal, next, i, attempt, version, diskVars, done, outcome, repeated>>

-----------------------------------------------------------------------------
(* Execute.                                                                *)

\* Mutant of Resumed: a failed saga starts from its first step.
ResumedAnew(j) == NewJournal

Resumed(j) == WithStatus(j, "running")

\* Mutant of Reused: a saga that failed once has had its result.
ReusedFailed == file.status \in {"completed", "failed"}

Reused == file.status = "completed"

\* loadOrCreateJournal
Deliver ==
    /\ at = "idle" /\ ~Reused
    /\ Save(IF file = NoJournal THEN NewJournal ELSE Resumed(file), "loop")
    /\ i' = 1 /\ attempt' = 1
    /\ UNCHANGED <<file, version, diskVars, done, outcome, recorded, repeated, upsets>>

DeliverReused ==
    /\ at = "idle" /\ Reused
    /\ outcome' = IF file.status = "completed" THEN "completed" ELSE outcome
    /\ UNCHANGED <<file, engineVars, version, diskVars, done, recorded, repeated, upsets>>

\* The step was finished by an earlier run.
Skip ==
    /\ at = "loop" /\ i <= N /\ Terminal(journal.steps[i])
    /\ Save(journal, "loop")
    /\ i' = i + 1
    /\ UNCHANGED <<file, attempt, version, diskVars, done, outcome, recorded, repeated, upsets>>

StartStep ==
    /\ at = "loop" /\ i <= N /\ ~Terminal(journal.steps[i])
    /\ Save(Recorded(i, "running"), "run")
    /\ attempt' = 1
    /\ UNCHANGED <<file, i, version, diskVars, done, outcome, recorded, repeated, upsets>>

\* completeSaga
CompleteSaga ==
    /\ at = "loop" /\ i = N + 1
    /\ Save(WithStatus(journal, "completed"), "completed")
    /\ UNCHANGED <<file, i, attempt, version, diskVars, done, outcome, recorded, repeated, upsets>>

\* ApplyAndRestart
ApplyPosix ==
    /\ ~windows
    /\ exe' = "target"
    /\ UNCHANGED <<windows, scripts, fresh>>

ApplyWindows ==
    /\ windows
    /\ scripts' = scripts + 1 /\ fresh' = TRUE
    /\ UNCHANGED <<windows, exe>>

Effect ==
    /\ done' = done \cup {i}
    /\ repeated' = IF i \in recorded THEN repeated \cup {i} ELSE repeated
    /\ IF i = Apply THEN ApplyPosix \/ ApplyWindows ELSE UNCHANGED diskVars

Stops == i = Check /\ version

\* The handler acts, and has not returned yet.
HandlerActs ==
    /\ at = "run" /\ ~Stops
    /\ Effect
    /\ at' = "acted"
    /\ UNCHANGED <<file, journal, next, i, attempt, version, outcome, recorded, upsets>>

HandlerSucceeds ==
    /\ at = "acted"
    /\ Save(Recorded(i, "completed"), "loop")
    /\ i' = i + 1
    /\ UNCHANGED <<file, attempt, version, diskVars, done, outcome, recorded, repeated, upsets>>

\* The version check finds the target: StepStatusSkipped and Stop.
HandlerStops ==
    /\ at = "run" /\ Stops
    /\ Effect
    /\ Save(WithStatus(Recorded(i, "skipped"), "completed"), "completed")
    /\ UNCHANGED <<file, i, attempt, version, outcome, recorded, upsets>>

\* executeStep: an error.  It comes before the handler acted, and the download of Apply is
\* then removed; or after that, but applyWindows knows no error once its script is started.
HandlerFails ==
    /\ at = "run" \/ (at = "acted" /\ ~(windows /\ i = Apply))
    /\ Upset
    /\ fresh' \in (IF at = "run" /\ i = Apply THEN {fresh, FALSE} ELSE {fresh})
    /\ IF attempt < MaxAttempts
       THEN attempt' = attempt + 1 /\ at' = "run" /\ UNCHANGED <<journal, next>>
       ELSE Save(WithStatus(Recorded(i, "failed"), "failed"), "failed") /\ UNCHANGED attempt
    /\ UNCHANGED <<file, i, version, windows, exe, scripts, done, outcome, recorded, repeated>>

-----------------------------------------------------------------------------
(* What outlives the process.                                              *)

\* The script of applyWindows moves the executable away and the downloaded one into its
\* place.  The download is gone when an earlier script took it or a failed step removed it.
RunScript ==
    /\ scripts > 0
    /\ scripts' = scripts - 1
    /\ exe' = IF fresh THEN "target" ELSE "none"
    /\ fresh' = FALSE
    /\ UNCHANGED <<file, engineVars, version, windows, done, outcome, recorded, repeated, upsets>>

\* It is ended by a stop of the machine, or a move fails, unchecked: both, or the second.
ScriptFails ==
    /\ scripts > 0
    /\ Upset
    /\ scripts' = scripts - 1
    /\ exe' \in {exe, "none"}
    /\ UNCHANGED <<file, engineVars, version, windows, fresh, done, outcome, recorded, repeated>>

\* The process stops, and the executable that is installed starts; without one there is no
\* further step.
Restart ==
    /\ exe # "none"
    /\ Upset
    /\ at' = "idle"
    /\ journal' = NewJournal /\ next' = "loop" /\ i' = 1 /\ attempt' = 1
    /\ version' = (exe = "target")
    /\ recorded' = IF at = "rename" THEN {} ELSE recorded
    /\ UNCHANGED <<file, diskVars, done, outcome, repeated>>

-----------------------------------------------------------------------------
Engine ==
    \/ Remove \/ Rename
    \/ Skip \/ StartStep \/ CompleteSaga
    \/ HandlerActs \/ HandlerSucceeds \/ HandlerStops

Next ==
    \/ Deliver \/ DeliverReused
    \/ Engine
    \/ SaveFails \/ RenameFails \/ HandlerFails
    \/ RunScript \/ ScriptFails \/ Restart

Spec == Init /\ [][Next]_vars

\* The engine is one goroutine; whoever wants the saga done sends it again.
FairSpec == Spec /\ WF_vars(Engine) /\ WF_vars(Deliver)

-----------------------------------------------------------------------------
Promise ==
    INSTANCE SagaSteps WITH did <- done, installed <- (exe = "target"), runs <- version,
                            detached <- windows, outcome <- outcome

\* Whatever fails, stops or is lost, the steps act in their order, and the server is told
\* that the saga is completed only when each step's handler has acted or the target version
\* runs (saga_runtime.md).  With applyPosix the target is then installed; with applyWindows
\* its installation was started, and what comes of it is not known to the saga.
ImplementsSteps == Promise!Spec

\* A step that the journal recorded as finished does not run again, unless the journal
\* was lost between Remove and Rename.
RecordedNotRepeated == repeated = {}

\* A saga that is sent again as long as it fails comes to its end: no state of the
\* journal is in the way, unless a script left no executable to start.
SagaFinishes == at # "idle" ~> outcome = "completed" \/ exe = "none"

\* A self-update that was reported as completed has installed the target, once its script
\* is over.  False on Windows, where nobody looks at what the script did: update_lost.cfg.
CompletedIsInstalled == outcome = "completed" /\ scripts = 0 => exe = "target"
=============================================================================
