----------------------- MODULE BitrixCommentSendProofs -----------------------
(***************************************************************************)
(* The journal of outgoing comments and the table of links agree, for any  *)
(* number of comments, senders, webhook consumers, attempts and failures.  *)
(*                                                                         *)
(* Consistent is inductive.  It has a part for each group of variables; a  *)
(* step changes a few of them, and the frame lemmas take care of the rest. *)
(***************************************************************************)
EXTENDS BitrixCommentSend, TLAPS

DatabasePart == DatabaseTypeOK /\ JournalMatchesLink /\ LinksApart
BitrixPart   == BitrixTypeOK /\ WireOK
WorkersPart  == WorkersTypeOK /\ JobsOK
HandlersPart == HandlersTypeOK /\ HooksOK

LEMMA Parts ==
    Consistent <=> /\ DatabasePart /\ BitrixPart /\ WorkersPart /\ HandlersPart
                   /\ faults \in 0..MaxFaults
BY DEF Consistent, TypeOK, DatabasePart, BitrixPart, WorkersPart, HandlersPart

-----------------------------------------------------------------------------
(* Frames: a part whose variables do not change is preserved.              *)

LEMMA DatabaseFrame ==
    ASSUME DatabasePart, UNCHANGED database PROVE DatabasePart'
BY DEF database, DatabasePart, DatabaseTypeOK, JournalMatchesLink, LinksApart, Linked

LEMMA BitrixFrame ==
    ASSUME BitrixPart, UNCHANGED bitrix PROVE BitrixPart'
BY DEF bitrix, BitrixPart, BitrixTypeOK, WireOK

LEMMA WorkersFrame ==
    ASSUME WorkersPart, UNCHANGED workers PROVE WorkersPart'
BY DEF workers, WorkersPart, WorkersTypeOK, JobsOK

LEMMA HandlersFrame ==
    ASSUME HandlersPart, UNCHANGED handlers PROVE HandlersPart'
BY DEF handlers, HandlersPart, HandlersTypeOK, HooksOK

-----------------------------------------------------------------------------
(* What the helpers of the specification preserve.                         *)

LEMMA PhaseFacts ==
    /\ "idle" \notin SyncPhase /\ "idle" \notin RecPhase
    /\ "adopt" \notin SyncPhase /\ "confirm" \in SyncPhase
    /\ SyncPhase \cap RecPhase = {}
    /\ AttemptPhase \subseteq SyncPhase
    /\ Phase = {"idle"} \cup SyncPhase \cup RecPhase
BY DEF Phase, SyncPhase, RecPhase, AttemptPhase

\* The worker's work is over.
LEMMA FinishPart ==
    ASSUME WorkersPart, NEW w \in Worker, Finish(w), found' \in {found, {}}
    PROVE  WorkersPart'
<1>1. NoJob \in Job
    BY NumbersAssumption DEF NoJob, Job
<1>2. WorkersTypeOK'
    BY <1>1, PhaseFacts DEF WorkersPart, WorkersTypeOK, Finish, SetPc
<1>3. JobsOK'
    BY PhaseFacts DEF WorkersPart, WorkersTypeOK, JobsOK, Finish, SetPc
<1> QED
    BY <1>2, <1>3 DEF WorkersPart

\* The worker goes on to phase p with the local variables j.
LEMMA MovePart ==
    ASSUME WorkersPart, NEW w \in Worker, NEW p \in Phase \ {"idle"}, NEW j \in Job,
           w \in Sender => p \notin RecPhase,
           j.cm \in Comment,
           p \in SyncPhase => j.txt \in Text,
           p \in {"confirm", "adopt"} => j.id # 0,
           SetPc(w, p), job' = [job EXCEPT ![w] = j],
           found' \subseteq Nat \ {0}
    PROVE  WorkersPart'
<1>1. WorkersTypeOK'
    BY DEF WorkersPart, WorkersTypeOK, SetPc
<1>2. JobsOK'
    BY DEF WorkersPart, WorkersTypeOK, JobsOK, SetPc
<1> QED
    BY <1>1, <1>2 DEF WorkersPart

\* The same with the local variables it has.
LEMMA AdvancePart ==
    ASSUME WorkersPart, NEW w \in Worker, pc[w] # "idle", NEW p \in Phase \ {"idle"},
           w \in Sender => p \notin RecPhase,
           p \in SyncPhase => job[w].txt \in Text,
           p \in {"confirm", "adopt"} => job[w].id # 0,
           SetPc(w, p), UNCHANGED job,
           found' \subseteq Nat \ {0}
    PROVE  WorkersPart'
<1>1. job' = [job EXCEPT ![w] = job[w]] /\ job[w] \in Job /\ job[w].cm \in Comment
    BY DEF WorkersPart, WorkersTypeOK, JobsOK
<1> QED
    BY <1>1, MovePart

LEMMA HFinishPart ==
    ASSUME HandlersPart, NEW h \in Handler, HFinish(h)
    PROVE  HandlersPart'
<1>1. NoHJob \in HJob
    BY DEF NoHJob, HJob
<1>2. HandlersTypeOK'
    BY <1>1 DEF HandlersPart, HandlersTypeOK, HFinish, HSetPc, HPhase
<1>3. HooksOK'
    BY DEF HandlersPart, HandlersTypeOK, HooksOK, HFinish, HSetPc
<1> QED
    BY <1>2, <1>3 DEF HandlersPart

LEMMA HAdvancePart ==
    ASSUME HandlersPart, NEW h \in Handler, hpc[h] # "idle",
           NEW p \in HPhase \ {"idle", "adopt"}, HSetPc(h, p), UNCHANGED hjob
    PROVE  HandlersPart'
<1>1. HandlersTypeOK'
    BY DEF HandlersPart, HandlersTypeOK, HSetPc
<1>2. HooksOK'
    BY DEF HandlersPart, HandlersTypeOK, HooksOK, HSetPc
<1> QED
    BY <1>1, <1>2 DEF HandlersPart

LEMMA TransitionPart ==
    ASSUME DatabasePart, NEW c \in Comment, NEW from \in SUBSET Open,
           NEW to \in Open \cup {"rejected"},
           Transition(c, from, to), UNCHANGED <<link, foreign, imported, local>>
    PROVE  DatabasePart'
<1>1. DatabaseTypeOK'
    BY DEF DatabasePart, DatabaseTypeOK, SendState, Status, Open, Transition
<1>2. JournalMatchesLink'
    BY DEF DatabasePart, DatabaseTypeOK, SendState, Open, Transition, JournalMatchesLink
<1>3. LinksApart'
    BY DEF DatabasePart, LinksApart, Linked
<1> QED
    BY <1>1, <1>2, <1>3 DEF DatabasePart

LEMMA ConfirmStoresPart ==
    ASSUME DatabasePart, NEW c \in Comment, NEW id \in Nat, id # 0,
           NEW pending \in BOOLEAN, ConfirmStores(c, id, pending),
           UNCHANGED <<foreign, imported, local>>
    PROVE  DatabasePart'
<1>1. DatabaseTypeOK'
    <2> DEFINE s == [send[c] EXCEPT !.status = "confirmed", !.b24 = id, !.fin = pending]
    <2>1. send \in [Comment -> SendState] /\ send[c] \in SendState
        BY DEF DatabasePart, DatabaseTypeOK
    <2>2. s \in SendState
        BY <2>1 DEF SendState, Status
    <2>3. send' = [send EXCEPT ![c] = s]
        BY <2>1 DEF ConfirmStores
    <2>4. send' \in [Comment -> SendState]
        BY <2>1, <2>2, <2>3
    <2> QED
        BY <2>4 DEF DatabasePart, DatabaseTypeOK, ConfirmStores
<1>2. JournalMatchesLink'
    BY DEF DatabasePart, DatabaseTypeOK, SendState, Open, ConfirmStores, JournalMatchesLink
<1>3. id \notin foreign /\ \A d \in Comment \ {c} : link[d] # id
    BY DEF ConfirmStores, ConfirmFails
<1>4. link' = [link EXCEPT ![c] = id]
    BY DEF ConfirmStores
<1>5. \A d, e \in Comment : d # e /\ link'[d] # 0 => link'[d] # link'[e]
    BY <1>3, <1>4 DEF DatabasePart, DatabaseTypeOK, LinksApart
<1>6. Linked' \subseteq Linked \cup {id}
    BY <1>4 DEF DatabasePart, DatabaseTypeOK, Linked
<1>7. LinksApart'
    BY <1>3, <1>5, <1>6 DEF DatabasePart, LinksApart
<1> QED
    BY <1>1, <1>2, <1>7 DEF DatabasePart

\* Only finalize_pending or the fingerprint of a send changes.
LEMMA SendDetailPart ==
    ASSUME DatabasePart, NEW c \in Comment,
           \/ \E b \in BOOLEAN : send' = [send EXCEPT ![c].fin = b]
           \/ \E t \in Text : send' = [send EXCEPT ![c].fp = t],
           UNCHANGED <<link, foreign, imported, local>>
    PROVE  DatabasePart'
<1>1. DatabaseTypeOK'
    BY DEF DatabasePart, DatabaseTypeOK, SendState
<1>2. JournalMatchesLink'
    BY DEF DatabasePart, DatabaseTypeOK, SendState, JournalMatchesLink
<1>3. LinksApart'
    BY DEF DatabasePart, LinksApart, Linked
<1> QED
    BY <1>1, <1>2, <1>3 DEF DatabasePart

\* The text of a comment of the timeline changes.
LEMMA RetextType ==
    ASSUME timeline \in Seq(Entry), NEW id, NEW t \in Text
    PROVE  [timeline EXCEPT ![id].txt = t] \in Seq(Entry)
<1> DEFINE T == [timeline EXCEPT ![id].txt = t]
<1>1. PICK n \in Nat : timeline \in [1..n -> Entry]
    OBVIOUS
<1>2. T \in [1..n -> Entry]
    BY <1>1 DEF Entry
<1> QED
    BY <1>1, <1>2

LEMMA StylePart ==
    ASSUME BitrixPart, NEW id \in Nat, NEW c \in Comment, NEW t \in Text,
           Style(id, c, t), UNCHANGED wire
    PROVE  BitrixPart'
<1>1. BitrixTypeOK'
    BY RetextType DEF BitrixPart, BitrixTypeOK, Style
<1>2. WireOK'
    BY DEF BitrixPart, WireOK
<1> QED
    BY <1>1, <1>2 DEF BitrixPart

-----------------------------------------------------------------------------
\* A step preserves the invariant if it preserves each part it touches.
LEMMA Compose ==
    ASSUME Consistent,
           DatabasePart' \/ UNCHANGED database,
           BitrixPart' \/ UNCHANGED bitrix,
           WorkersPart' \/ UNCHANGED workers,
           HandlersPart' \/ UNCHANGED handlers,
           UNCHANGED faults \/ faults' \in 0..MaxFaults
    PROVE  Consistent'
<1>1. DatabasePart' /\ BitrixPart' /\ WorkersPart' /\ HandlersPart'
    BY Parts, DatabaseFrame, BitrixFrame, WorkersFrame, HandlersFrame
<1>2. faults' \in 0..MaxFaults
    BY Parts
<1> QED
    BY <1>1, <1>2
       DEF Consistent, TypeOK, DatabasePart, BitrixPart, WorkersPart, HandlersPart

\* The type of the local variables, and their sense at the step that is next.
LEMMA JobFacts ==
    ASSUME Consistent, NEW w \in Worker
    PROVE  /\ job[w] \in Job /\ pc[w] \in Phase
           /\ job[w].id \in Nat /\ job[w].wm \in Nat /\ job[w].tries \in 0..CallAttempts
           /\ pc[w] # "idle" => job[w].cm \in Comment
           /\ pc[w] \in SyncPhase => job[w].txt \in Text
           /\ pc[w] \in {"confirm", "adopt"} => job[w].id # 0
           /\ found \subseteq Nat \ {0}
BY DEF Consistent, TypeOK, WorkersTypeOK, JobsOK, Job

\* New local variables of a worker and of a consumer are well typed.
LEMMA FreshJob ==
    ASSUME NEW c \in Comment, NEW t \in Text
    PROVE  /\ [NoJob EXCEPT !.cm = c, !.txt = t] \in Job
           /\ [NoJob EXCEPT !.cm = c, !.txt = t].cm = c
           /\ [NoJob EXCEPT !.cm = c, !.txt = t].txt = t
<1>1. NoJob \in [cm: Comment \cup {NoComment}, txt: Text \cup {NoText},
                 id: Nat, wm: Nat, tries: 0..CallAttempts]
    BY NumbersAssumption DEF NoJob
<1> QED
    BY <1>1 DEF Job

LEMMA AnnouncedJob ==
    ASSUME NEW j \in HJob, NEW id \in Nat, NEW t \in Text
    PROVE  /\ [j EXCEPT !.id = id, !.txt = t] \in HJob
           /\ [j EXCEPT !.id = id, !.txt = t].id = id
BY DEF HJob

LEMMA HJobFacts ==
    ASSUME Consistent, NEW h \in Handler
    PROVE  /\ hjob[h] \in HJob /\ hjob[h].id \in Nat
           /\ hpc[h] # "idle" => hjob[h].id # 0
           /\ hpc[h] = "adopt" => hjob[h].cm \in Comment
BY DEF Consistent, TypeOK, HandlersTypeOK, HooksOK, HJob

-----------------------------------------------------------------------------
(* Steps of a sender.                                                      *)

LEMMA BeginSyncConsistent ==
    ASSUME Consistent, NEW w \in Sender, NEW c \in Comment, BeginSync(w, c)
    PROVE  Consistent'
<1> USE DEF BeginSync
<1>1. PICK t \in TextsOf[c] : job' = [job EXCEPT ![w].cm = c, ![w].txt = t]
    OBVIOUS
<1> DEFINE j == [job[w] EXCEPT !.cm = c, !.txt = t]
<1>2. t \in Text /\ job[w] \in Job /\ w \in Worker
    BY SetsAssumption, JobFacts DEF Worker
<1>3. j \in Job /\ j.cm = c /\ j.txt = t
    BY <1>2 DEF Job
<1>4. job' = [job EXCEPT ![w] = j]
    BY <1>1, <1>2, Parts DEF WorkersPart, WorkersTypeOK
<1>5. WorkersPart'
    BY <1>2, <1>3, <1>4, Parts, JobFacts, MovePart, PhaseFacts DEF Phase, SyncPhase
<1> QED
    BY <1>5, Compose

LEMMA LinkMissingConsistent ==
    ASSUME Consistent, NEW w \in Worker, LinkMissing(w)
    PROVE  Consistent'
<1> USE DEF LinkMissing
<1>1. WorkersPart'
    BY Parts, JobFacts, AdvancePart, PhaseFacts DEF Phase, SyncPhase, RecPhase, AttemptPhase
<1> QED
    BY <1>1, Compose

LEMMA LinkedSkipConsistent ==
    ASSUME Consistent, NEW w \in Worker, LinkedSkip(w)
    PROVE  Consistent'
<1> USE DEF LinkedSkip
<1>1. WorkersPart'
    BY Parts, FinishPart
<1> QED
    BY <1>1, Compose

LEMMA LinkedUpdateConsistent ==
    ASSUME Consistent, NEW w \in Worker, LinkedUpdate(w)
    PROVE  Consistent'
<1> USE DEF LinkedUpdate
<1> DEFINE j == [job[w] EXCEPT !.id = link[job[w].cm]]
<1>1. job[w] \in Job /\ job[w].cm \in Comment /\ job[w].txt \in Text
    BY JobFacts DEF SyncPhase
<1>2. link[job[w].cm] \in Nat
    BY <1>1, Parts DEF DatabasePart, DatabaseTypeOK
<1>3. j \in Job /\ j.cm = job[w].cm /\ j.txt = job[w].txt
    BY <1>1, <1>2 DEF Job
<1>4. job' = [job EXCEPT ![w] = j]
    BY Parts DEF WorkersPart, WorkersTypeOK
<1>5. WorkersPart'
    BY <1>1, <1>3, <1>4, Parts, JobFacts, MovePart, PhaseFacts DEF Phase, SyncPhase
<1> QED
    BY <1>5, Compose

LEMMA ReadWatermarkConsistent ==
    ASSUME Consistent, NEW w \in Worker, ReadWatermark(w)
    PROVE  Consistent'
<1> USE DEF ReadWatermark
<1>1. PICK m \in LinkedIds \cup {0} : job' = [job EXCEPT ![w].wm = m]
    OBVIOUS
<1> DEFINE j == [job[w] EXCEPT !.wm = m]
<1>2. job[w] \in Job /\ job[w].cm \in Comment /\ job[w].txt \in Text
    BY JobFacts DEF SyncPhase
<1>3. m \in Nat
    BY Parts DEF LinkedIds, Linked, DatabasePart, DatabaseTypeOK
<1>4. j \in Job /\ j.cm = job[w].cm /\ j.txt = job[w].txt
    BY <1>2, <1>3 DEF Job
<1>5. job' = [job EXCEPT ![w] = j]
    BY <1>1, Parts DEF WorkersPart, WorkersTypeOK
<1>6. WorkersPart'
    BY <1>2, <1>4, <1>5, Parts, JobFacts, MovePart, PhaseFacts DEF Phase, SyncPhase
<1> QED
    BY <1>6, Compose

LEMMA ClaimNewConsistent ==
    ASSUME Consistent, NEW w \in Worker, ClaimNew(w)
    PROVE  Consistent'
<1> USE DEF ClaimNew
<1> DEFINE c == job[w].cm
           s == [status |-> "sending", attempts |-> 1, fp |-> job[w].txt, b24 |-> 0,
                 wm |-> job[w].wm, born |-> Len(timeline), fin |-> FALSE]
<1>1. c \in Comment /\ job[w].txt \in Text /\ job[w].wm \in Nat
    BY JobFacts DEF SyncPhase
<1>2. Len(timeline) \in Nat
    BY Parts DEF BitrixPart, BitrixTypeOK
<1>3. s \in SendState
    BY <1>1, <1>2, NumbersAssumption DEF SendState, Status, Open
<1>4. DatabaseTypeOK'
    BY <1>3, Parts DEF DatabasePart, DatabaseTypeOK
<1>5. JournalMatchesLink'
    BY <1>1, Parts DEF DatabasePart, DatabaseTypeOK, JournalMatchesLink
<1>6. LinksApart'
    BY Parts DEF DatabasePart, LinksApart, Linked
<1>7. WorkersPart'
    BY <1>1, Parts, JobFacts, AdvancePart, PhaseFacts DEF Phase, SyncPhase, RecPhase, AttemptPhase
<1> QED
    BY <1>4, <1>5, <1>6, <1>7, Compose DEF DatabasePart

LEMMA ClaimRejectedConsistent ==
    ASSUME Consistent, NEW w \in Worker, ClaimRejected(w)
    PROVE  Consistent'
<1> USE DEF ClaimRejected
<1> DEFINE c == job[w].cm
           s == [send[c] EXCEPT !.status = "sending", !.attempts = @ + 1, !.fp = job[w].txt]
<1>1. c \in Comment /\ job[w].txt \in Text
    BY JobFacts DEF SyncPhase
<1>2. send \in [Comment -> SendState] /\ send[c] \in SendState
    BY <1>1, Parts DEF DatabasePart, DatabaseTypeOK
<1>3. s \in SendState
    BY <1>1, <1>2, NumbersAssumption DEF SendState, Status, Open
<1>4. send' = [send EXCEPT ![c] = s]
    BY <1>2
<1>5. DatabaseTypeOK'
    BY <1>2, <1>3, <1>4, Parts DEF DatabasePart, DatabaseTypeOK
<1>6. JournalMatchesLink'
    BY <1>1, <1>2, <1>4, Parts DEF DatabasePart, JournalMatchesLink
<1>7. LinksApart'
    BY Parts DEF DatabasePart, LinksApart, Linked
<1>8. WorkersPart'
    BY <1>1, Parts, JobFacts, AdvancePart, PhaseFacts DEF Phase, SyncPhase, RecPhase, AttemptPhase
<1> QED
    BY <1>5, <1>6, <1>7, <1>8, Compose DEF DatabasePart

LEMMA ClaimDeniedConsistent ==
    ASSUME Consistent, NEW w \in Worker, ClaimDenied(w)
    PROVE  Consistent'
<1> USE DEF ClaimDenied
<1>1. WorkersPart'
    BY Parts, FinishPart
<1> QED
    BY <1>1, Compose

LEMMA PostConsistent ==
    ASSUME Consistent, NEW w \in Worker, Post(w)
    PROVE  Consistent'
<1> USE DEF Post
<1> DEFINE j == [job[w] EXCEPT !.tries = @ + 1]
           q == [cm |-> job[w].cm, txt |-> job[w].txt]
<1>1. job[w] \in Job /\ job[w].cm \in Comment /\ job[w].txt \in Text
    BY JobFacts, PhaseFacts DEF SyncPhase, AttemptPhase
<1>2. j \in Job /\ j.cm = job[w].cm /\ j.txt = job[w].txt
    BY <1>1, NumbersAssumption DEF Job
<1>3. job' = [job EXCEPT ![w] = j]
    BY Parts DEF WorkersPart, WorkersTypeOK
<1>4. WorkersPart'
    BY <1>1, <1>2, <1>3, Parts, JobFacts, MovePart, PhaseFacts
       DEF Phase, SyncPhase, AttemptPhase
<1>5. q \in Request /\ wire' = [wire EXCEPT ![w] = q]
    BY <1>1 DEF Request
<1>6. BitrixPart'
    BY <1>1, <1>5, Parts DEF BitrixPart, BitrixTypeOK, WireOK
<1> QED
    BY <1>4, <1>6, Compose DEF bitrix

LEMMA PostRefusedConsistent ==
    ASSUME Consistent, NEW w \in Worker, PostRefused(w)
    PROVE  Consistent'
<1> USE DEF PostRefused
<1>1. WorkersPart'
    BY Parts, JobFacts, AdvancePart, PhaseFacts DEF Phase, SyncPhase, RecPhase, AttemptPhase
<1> QED
    BY <1>1, Compose

LEMMA CallRetryConsistent ==
    ASSUME Consistent, NEW w \in Worker, CallRetry(w)
    PROVE  Consistent'
<1> USE DEF CallRetry
<1>1. WorkersPart'
    BY Parts, JobFacts, AdvancePart, PhaseFacts DEF Phase, SyncPhase, RecPhase, AttemptPhase
<1> QED
    BY <1>1, Compose

LEMMA AnswerOkConsistent ==
    ASSUME Consistent, NEW w \in Worker, AnswerOk(w)
    PROVE  Consistent'
<1> USE DEF AnswerOk
<1>1. WorkersPart'
    BY Parts, JobFacts, AdvancePart, PhaseFacts DEF Phase, SyncPhase, RecPhase, AttemptPhase
<1> QED
    BY <1>1, Compose

LEMMA AnswerUnknownConsistent ==
    ASSUME Consistent, NEW w \in Worker, AnswerUnknown(w)
    PROVE  Consistent'
<1> USE DEF AnswerUnknown
<1>1. WorkersPart'
    BY Parts, JobFacts, AdvancePart, PhaseFacts DEF Phase, SyncPhase, RecPhase, AttemptPhase
<1> QED
    BY <1>1, Compose

LEMMA SettleRefusedConsistent ==
    ASSUME Consistent, NEW w \in Worker, SettleRefused(w)
    PROVE  Consistent'
<1> USE DEF SettleRefused
<1>1. job[w].cm \in Comment
    BY JobFacts
<1>2. DatabasePart'
    BY <1>1, Parts, TransitionPart DEF Open
<1>3. WorkersPart'
    BY Parts, FinishPart
<1> QED
    BY <1>2, <1>3, Compose

LEMMA SettleUnknownConsistent ==
    ASSUME Consistent, NEW w \in Worker, SettleUnknown(w)
    PROVE  Consistent'
<1> USE DEF SettleUnknown
<1>1. job[w].cm \in Comment
    BY JobFacts
<1>2. DatabasePart'
    BY <1>1, Parts, TransitionPart DEF Open
<1>3. WorkersPart'
    BY Parts, FinishPart
<1> QED
    BY <1>2, <1>3, Compose

LEMMA SettleConfirmedConsistent ==
    ASSUME Consistent, NEW w \in Worker, SettleConfirmed(w)
    PROVE  Consistent'
<1> USE DEF SettleConfirmed
<1> DEFINE c == job[w].cm  id == job[w].id
<1>1. c \in Comment /\ id \in Nat /\ id # 0 /\ job[w].txt \in Text
    BY JobFacts, PhaseFacts
<1>2. CASE ConfirmStores(c, id, FALSE) /\ SetPc(w, "preview") /\ UNCHANGED job
    <2>1. DatabasePart'
        BY <1>1, <1>2, Parts, ConfirmStoresPart
    <2>2. WorkersPart'
        BY <1>1, <1>2, Parts, JobFacts, AdvancePart, PhaseFacts
           DEF Phase, SyncPhase, RecPhase, AttemptPhase
    <2> QED
        BY <2>1, <2>2, Compose
<1>3. CASE SetPc(w, "preview") /\ UNCHANGED <<send, link, job>>
    <2>1. WorkersPart'
        BY <1>1, <1>3, Parts, JobFacts, AdvancePart, PhaseFacts
           DEF Phase, SyncPhase, RecPhase, AttemptPhase
    <2> QED
        BY <1>3, <2>1, Compose DEF database
<1>4. CASE Finish(w) /\ UNCHANGED <<send, link>>
    <2>1. WorkersPart'
        BY <1>4, Parts, FinishPart
    <2> QED
        BY <1>4, <2>1, Compose DEF database
<1> QED
    BY <1>2, <1>3, <1>4

LEMMA PreviewConsistent ==
    ASSUME Consistent, NEW w \in Worker, Preview(w)
    PROVE  Consistent'
<1> USE DEF Preview
<1>1. job[w].cm \in Comment /\ job[w].txt \in Text /\ job[w].id \in Nat
    BY JobFacts DEF SyncPhase
<1>2. BitrixPart'
    BY <1>1, Parts, StylePart
<1>3. WorkersPart'
    BY Parts, FinishPart
<1> QED
    BY <1>2, <1>3, Compose

LEMMA RepreviewConsistent ==
    ASSUME Consistent, NEW w \in Worker, Repreview(w)
    PROVE  Consistent'
<1> USE DEF Repreview
<1>1. job[w].cm \in Comment /\ job[w].txt \in Text /\ job[w].id \in Nat
    BY JobFacts DEF SyncPhase
<1>2. BitrixPart'
    BY <1>1, Parts, StylePart
<1>3. WorkersPart'
    BY Parts, FinishPart
<1> QED
    BY <1>2, <1>3, Compose

LEMMA PreviewDeferredConsistent ==
    ASSUME Consistent, NEW w \in Worker, PreviewDeferred(w)
    PROVE  Consistent'
<1> USE DEF PreviewDeferred
<1>1. job[w].cm \in Comment
    BY JobFacts
<1>2. DatabasePart'
    BY <1>1, Parts, SendDetailPart
<1>3. WorkersPart'
    BY Parts, FinishPart
<1> QED
    BY <1>2, <1>3, Compose

LEMMA RefreshConsistent ==
    ASSUME Consistent, NEW w \in Worker, Refresh(w)
    PROVE  Consistent'
<1> USE DEF Refresh
<1>1. job[w].cm \in Comment /\ job[w].txt \in Text
    BY JobFacts DEF SyncPhase
<1>2. DatabasePart'
    BY <1>1, Parts, SendDetailPart
<1>3. WorkersPart'
    BY <1>1, Parts, JobFacts, AdvancePart, PhaseFacts DEF Phase, SyncPhase, RecPhase, AttemptPhase
<1> QED
    BY <1>2, <1>3, Compose

LEMMA RewriteConsistent ==
    ASSUME Consistent, NEW w \in Worker, Rewrite(w)
    PROVE  Consistent'
<1> USE DEF Rewrite
<1>1. job[w].txt \in Text
    BY JobFacts DEF SyncPhase
<1>2. BitrixPart'
    BY <1>1, Parts, RetextType DEF BitrixPart, BitrixTypeOK, WireOK
<1>3. WorkersPart'
    BY <1>1, Parts, JobFacts, AdvancePart, PhaseFacts DEF Phase, SyncPhase, RecPhase, AttemptPhase
<1> QED
    BY <1>2, <1>3, Compose

\* What BitrixAdds(w) makes of the wire and of the timeline.
LEMMA BitrixAddsConsistent ==
    ASSUME Consistent, NEW w \in Worker, BitrixAdds(w)
    PROVE  Consistent'
<1> USE DEF BitrixAdds
<1> DEFINE e == [src |-> wire[w].cm, txt |-> wire[w].txt, mine |-> TRUE]
           j == [job[w] EXCEPT !.id = Len(timeline) + 1]
<1>1. timeline \in Seq(Entry) /\ wire[w].cm \in Comment /\ wire[w].txt \in Text
    BY Parts DEF BitrixPart, BitrixTypeOK, WireOK
<1>2. e \in Entry
    BY <1>1 DEF Entry
<1>3. timeline' \in Seq(Entry)
    BY <1>1, <1>2
<1>4. NoRequest \in Request
    BY DEF NoRequest, Request
<1>5. BitrixTypeOK'
    BY <1>3, <1>4, Parts DEF BitrixPart, BitrixTypeOK
<1>6. WireOK'
    BY Parts DEF BitrixPart, BitrixTypeOK, WireOK
<1>7. WorkersPart'
    <2>1. CASE pc[w] = "wait"
        <3>1. job[w] \in Job /\ job[w].cm \in Comment /\ job[w].txt \in Text
            BY <2>1, JobFacts, PhaseFacts DEF SyncPhase, AttemptPhase
        <3>2. Len(timeline) \in Nat
            BY <1>1
        <3>3. j \in Job /\ j.cm = job[w].cm /\ j.txt = job[w].txt
            BY <3>1, <3>2 DEF Job
        <3>4. job' = [job EXCEPT ![w] = j]
            BY <2>1, Parts DEF WorkersPart, WorkersTypeOK
        <3>5. SetPc(w, "wait")
            BY <2>1, Parts DEF SetPc, WorkersPart, WorkersTypeOK
        <3> QED
            BY <2>1, <3>1, <3>3, <3>4, <3>5, Parts, JobFacts, MovePart, PhaseFacts
               DEF Phase, SyncPhase, RecPhase, AttemptPhase
    <2>2. CASE pc[w] # "wait"
        BY <2>2, Parts, WorkersFrame DEF workers
    <2> QED
        BY <2>1, <2>2
<1> QED
    BY <1>5, <1>6, <1>7, Compose DEF BitrixPart

LEMMA BitrixDropsConsistent ==
    ASSUME Consistent, NEW w \in Worker, BitrixDrops(w)
    PROVE  Consistent'
<1> USE DEF BitrixDrops
<1>1. NoRequest \in Request
    BY DEF NoRequest, Request
<1>2. BitrixPart'
    BY <1>1, Parts DEF BitrixPart, BitrixTypeOK, WireOK
<1> QED
    BY <1>2, Compose

LEMMA AbandonConsistent ==
    ASSUME Consistent, NEW w \in Worker, Abandon(w)
    PROVE  Consistent'
<1> USE DEF Abandon
<1>1. WorkersPart'
    BY Parts, FinishPart
<1>2. faults' \in 0..MaxFaults
    BY Parts, NumbersAssumption
<1> QED
    BY <1>1, <1>2, Compose

-----------------------------------------------------------------------------
(* Steps of the reconciler.                                                *)

LEMMA RecFacts == Reconciler \in Worker /\ Reconciler \notin Sender
BY SetsAssumption DEF Worker

LEMMA ReconcilePickConsistent ==
    ASSUME Consistent, NEW c \in Comment, ReconcilePick(c)
    PROVE  Consistent'
<1> USE RecFacts DEF ReconcilePick
<1> DEFINE r == Reconciler
           j == [job[r] EXCEPT !.cm = c, !.txt = send[c].fp]
           p == IF send[c].status = "sending" THEN "demote" ELSE "list"
<1>1. send[c].fp \in Text \cup {NoText}
    BY Parts DEF DatabasePart, DatabaseTypeOK, SendState
<1>2. job[r] \in Job
    BY JobFacts
<1>3. j \in Job /\ j.cm = c
    BY <1>1, <1>2 DEF Job
<1>4. job' = [job EXCEPT ![r] = j] /\ SetPc(r, p)
    BY Parts DEF WorkersPart, WorkersTypeOK
<1>5. p \in RecPhase /\ p # "adopt"
    BY DEF RecPhase
<1>6. WorkersPart'
    BY <1>3, <1>4, <1>5, Parts, JobFacts, MovePart, PhaseFacts
<1> QED
    BY <1>6, Compose

LEMMA FinalizePickConsistent ==
    ASSUME Consistent, NEW c \in Comment, FinalizePick(c)
    PROVE  Consistent'
<1> USE RecFacts DEF FinalizePick
<1> DEFINE r == Reconciler
           j == [job[r] EXCEPT !.cm = c]
<1>1. job[r] \in Job
    BY JobFacts
<1>2. j \in Job /\ j.cm = c
    BY <1>1 DEF Job
<1>3. job' = [job EXCEPT ![r] = j]
    BY Parts DEF WorkersPart, WorkersTypeOK
<1>4. WorkersPart'
    BY <1>2, <1>3, Parts, JobFacts, MovePart, PhaseFacts DEF RecPhase
<1> QED
    BY <1>4, Compose

LEMMA ReconcileDemoteConsistent ==
    ASSUME Consistent, ReconcileDemote
    PROVE  Consistent'
<1> USE RecFacts DEF ReconcileDemote
<1> DEFINE r == Reconciler
           c == job[r].cm
<1>1. c \in Comment
    BY JobFacts
<1>2. DatabasePart'
    BY <1>1, Parts, TransitionPart DEF Open
<1>3. CASE send[c].status = "sending"
    <2>1. WorkersPart'
        BY <1>3, Parts, JobFacts, AdvancePart, PhaseFacts DEF RecPhase
    <2> QED
        BY <1>2, <2>1, Compose
<1>4. CASE ~(send[c].status = "sending")
    <2>1. WorkersPart'
        BY <1>4, Parts, FinishPart
    <2> QED
        BY <1>2, <2>1, Compose
<1> QED
    BY <1>3, <1>4

LEMMA ReconcileAbsentConsistent ==
    ASSUME Consistent, ReconcileAbsent
    PROVE  Consistent'
<1> USE RecFacts DEF ReconcileAbsent
<1> DEFINE r == Reconciler
           c == job[r].cm
<1>1. c \in Comment
    BY JobFacts
<1>2. DatabasePart'
    BY <1>1, Parts, TransitionPart DEF Open
<1>3. CASE send[c].status \in Open
    <2>1. WorkersPart'
        BY <1>3, Parts, JobFacts, AdvancePart, PhaseFacts DEF RecPhase
    <2> QED
        BY <1>2, <2>1, Compose
<1>4. CASE ~(send[c].status \in Open)
    <2>1. WorkersPart'
        BY <1>4, Parts, FinishPart
    <2> QED
        BY <1>2, <2>1, Compose
<1> QED
    BY <1>3, <1>4

LEMMA ReconcileListConsistent ==
    ASSUME Consistent, ReconcileList
    PROVE  Consistent'
<1> USE RecFacts DEF ReconcileList
<1> DEFINE r == Reconciler
<1>1. found' \subseteq Nat \ {0}
    <2>1. timeline \in Seq(Entry)
        BY Parts DEF BitrixPart, BitrixTypeOK
    <2>2. DOMAIN timeline \subseteq Nat \ {0}
        BY <2>1
    <2> QED
        BY <2>2
<1>2. WorkersPart'
    BY <1>1, Parts, JobFacts, AdvancePart, PhaseFacts DEF RecPhase
<1> QED
    BY <1>2, Compose

LEMMA ReconcileTryConsistent ==
    ASSUME Consistent, ReconcileTry
    PROVE  Consistent'
<1> USE RecFacts DEF ReconcileTry
<1> DEFINE r == Reconciler
<1>1. PICK id \in found :
          IF id \in LinkedIds
          THEN found' = found \ {id} /\ UNCHANGED <<pc, job>>
          ELSE /\ found' = {}
               /\ job' = [job EXCEPT ![r].id = id]
               /\ SetPc(r, "adopt")
    OBVIOUS
<1>2. CASE id \in LinkedIds
    <2>1. WorkersPart'
        BY <1>1, <1>2, Parts DEF WorkersPart, WorkersTypeOK, JobsOK
    <2> QED
        BY <2>1, Compose
<1>3. CASE id \notin LinkedIds
    <2> DEFINE j == [job[r] EXCEPT !.id = id]
    <2>1. job[r] \in Job /\ job[r].cm \in Comment /\ id \in Nat /\ id # 0
        BY JobFacts
    <2>2. j \in Job /\ j.cm = job[r].cm /\ j.id = id
        BY <2>1 DEF Job
    <2>3. job' = [job EXCEPT ![r] = j]
        BY <1>1, <1>3, Parts DEF WorkersPart, WorkersTypeOK
    <2>4. WorkersPart'
        BY <1>1, <1>3, <2>1, <2>2, <2>3, Parts, MovePart, PhaseFacts DEF RecPhase
    <2> QED
        BY <2>4, Compose
<1> QED
    BY <1>2, <1>3

LEMMA ReconcileAdoptConsistent ==
    ASSUME Consistent, ReconcileAdopt
    PROVE  Consistent'
<1> USE RecFacts DEF ReconcileAdopt
<1> DEFINE r == Reconciler
           c == job[r].cm  id == job[r].id
<1>1. c \in Comment /\ id \in Nat /\ id # 0
    BY JobFacts
<1>2. CASE ConfirmStores(c, id, TRUE) /\ SetPc(r, "finalize") /\ UNCHANGED job
    <2>1. DatabasePart'
        BY <1>1, <1>2, Parts, ConfirmStoresPart
    <2>2. WorkersPart'
        BY <1>1, <1>2, Parts, JobFacts, AdvancePart, PhaseFacts DEF RecPhase
    <2> QED
        BY <2>1, <2>2, Compose
<1>3. CASE SetPc(r, "finalize") /\ UNCHANGED <<send, link, job>>
    <2>1. WorkersPart'
        BY <1>1, <1>3, Parts, JobFacts, AdvancePart, PhaseFacts DEF RecPhase
    <2> QED
        BY <1>3, <2>1, Compose DEF database
<1>4. CASE Finish(r) /\ UNCHANGED <<send, link>>
    <2>1. WorkersPart'
        BY <1>4, Parts, FinishPart
    <2> QED
        BY <1>4, <2>1, Compose DEF database
<1> QED
    BY <1>2, <1>3, <1>4

LEMMA ReconcileNothingFoundConsistent ==
    ASSUME Consistent, ReconcileNothingFound
    PROVE  Consistent'
<1> USE RecFacts DEF ReconcileNothingFound
<1> DEFINE r == Reconciler
<1>1. WorkersPart'
    BY Parts, JobFacts, AdvancePart, PhaseFacts DEF RecPhase
<1> QED
    BY <1>1, Compose

LEMMA ReconcileResendConsistent ==
    ASSUME Consistent, ReconcileResend
    PROVE  Consistent'
<1> USE RecFacts DEF ReconcileResend
<1> DEFINE r == Reconciler
           c == job[r].cm
<1>1. PICK t \in TextsOf[c] : job' = [job EXCEPT ![r] = [NoJob EXCEPT !.cm = c, !.txt = t]]
    OBVIOUS
<1> DEFINE j == [NoJob EXCEPT !.cm = c, !.txt = t]
<1>2. c \in Comment
    BY JobFacts
<1>3. t \in Text
    BY <1>2, SetsAssumption
<1>4. j \in Job /\ j.cm = c /\ j.txt = t
    BY <1>2, <1>3, FreshJob
<1>5. WorkersPart'
    BY <1>1, <1>2, <1>3, <1>4, Parts, JobFacts, MovePart, PhaseFacts DEF SyncPhase
<1> QED
    BY <1>5, Compose

LEMMA FinalizeConsistent ==
    ASSUME Consistent, Finalize
    PROVE  Consistent'
<1> USE RecFacts DEF Finalize
<1> DEFINE r == Reconciler
           c == job[r].cm
<1>1. c \in Comment
    BY JobFacts
<1>2. send[c].b24 \in Nat
    BY <1>1, Parts DEF DatabasePart, DatabaseTypeOK, SendState
<1>3. CASE /\ \E t \in TextsOf[c] : Style(send[c].b24, c, t)
           /\ SetPc(r, "clear")
           /\ UNCHANGED job
    <2>1. PICK t \in Text : Style(send[c].b24, c, t)
        BY <1>1, <1>3, SetsAssumption
    <2>2. BitrixPart'
        BY <1>1, <1>2, <2>1, Parts, StylePart
    <2>3. WorkersPart'
        BY <1>3, Parts, JobFacts, AdvancePart, PhaseFacts DEF RecPhase
    <2> QED
        BY <2>2, <2>3, Compose
<1>4. CASE Finish(r) /\ UNCHANGED <<timeline, styled>>
    <2>1. WorkersPart'
        BY <1>4, Parts, FinishPart
    <2> QED
        BY <1>4, <2>1, Compose DEF bitrix
<1> QED
    BY <1>3, <1>4

LEMMA FinalizeClearConsistent ==
    ASSUME Consistent, FinalizeClear
    PROVE  Consistent'
<1> USE RecFacts DEF FinalizeClear
<1> DEFINE r == Reconciler
<1>1. job[r].cm \in Comment
    BY JobFacts
<1>2. DatabasePart'
    BY <1>1, Parts, SendDetailPart
<1>3. WorkersPart'
    BY Parts, FinishPart
<1> QED
    BY <1>2, <1>3, Compose

-----------------------------------------------------------------------------
(* Steps of a webhook consumer.                                            *)

LEMMA WebhookBeginConsistent ==
    ASSUME Consistent, NEW h \in Handler, NEW id \in DOMAIN timeline, WebhookBegin(h, id)
    PROVE  Consistent'
<1> USE DEF WebhookBegin
<1>1. timeline \in Seq(Entry)
    BY Parts DEF BitrixPart, BitrixTypeOK
<1>2. id \in Nat /\ id # 0 /\ timeline[id] \in Entry
    <2>1. DOMAIN timeline = 1..Len(timeline) /\ Len(timeline) \in Nat
        BY <1>1
    <2>2. timeline[id] \in Entry
        BY <1>1, <2>1
    <2> QED
        BY <2>1, <2>2
<1>a. timeline[id].txt \in Text
    BY <1>2 DEF Entry
<1> DEFINE j == [hjob[h] EXCEPT !.id = id, !.txt = timeline[id].txt]
<1>3. hjob[h] \in HJob
    BY HJobFacts
<1>4. j \in HJob /\ j.id = id
    BY <1>2, <1>a, <1>3, AnnouncedJob
<1>5. hjob' = [hjob EXCEPT ![h] = j]
    BY <1>3, Parts DEF HandlersPart, HandlersTypeOK
<1>6. HandlersTypeOK'
    BY <1>4, <1>5, Parts DEF HandlersPart, HandlersTypeOK, HSetPc, HPhase
<1>7. HooksOK'
    BY <1>2, <1>4, <1>5, Parts DEF HandlersPart, HandlersTypeOK, HooksOK, HSetPc
<1> QED
    BY <1>6, <1>7, Compose DEF HandlersPart

LEMMA WebhookOwnConsistent ==
    ASSUME Consistent, NEW h \in Handler, WebhookOwn(h)
    PROVE  Consistent'
<1> USE DEF WebhookOwn
<1>1. HandlersPart'
    BY Parts, HFinishPart
<1> QED
    BY <1>1, Compose

LEMMA WebhookForeignConsistent ==
    ASSUME Consistent, NEW h \in Handler, WebhookForeign(h)
    PROVE  Consistent'
<1> USE DEF WebhookForeign
<1>1. HandlersPart'
    BY Parts, HAdvancePart DEF HPhase
<1> QED
    BY <1>1, Compose

LEMMA WebhookUnlinkedConsistent ==
    ASSUME Consistent, NEW h \in Handler, WebhookUnlinked(h)
    PROVE  Consistent'
<1> USE DEF WebhookUnlinked
<1>1. HandlersPart'
    BY Parts, HAdvancePart DEF HPhase
<1> QED
    BY <1>1, Compose

LEMMA WebhookMatchConsistent ==
    ASSUME Consistent, NEW h \in Handler, WebhookMatch(h)
    PROVE  Consistent'
<1> USE DEF WebhookMatch
<1>1. PICK c \in Comment : hjob' = [hjob EXCEPT ![h].cm = c]
    BY DEF Awaiting
<1> DEFINE j == [hjob[h] EXCEPT !.cm = c]
<1>2. hjob[h] \in HJob /\ hjob[h].id # 0
    BY HJobFacts
<1>3. j \in HJob /\ j.id = hjob[h].id /\ j.cm = c
    BY <1>2 DEF HJob
<1>4. hjob' = [hjob EXCEPT ![h] = j]
    BY <1>1, <1>2, Parts DEF HandlersPart, HandlersTypeOK
<1>5. HandlersTypeOK'
    BY <1>3, <1>4, Parts DEF HandlersPart, HandlersTypeOK, HSetPc, HPhase
<1>6. HooksOK'
    BY <1>2, <1>3, <1>4, Parts DEF HandlersPart, HandlersTypeOK, HooksOK, HSetPc
<1> QED
    BY <1>5, <1>6, Compose DEF HandlersPart

LEMMA WebhookNoMatchConsistent ==
    ASSUME Consistent, NEW h \in Handler, WebhookNoMatch(h)
    PROVE  Consistent'
<1> USE DEF WebhookNoMatch
<1>1. HandlersPart'
    BY Parts, HAdvancePart DEF HPhase
<1> QED
    BY <1>1, Compose

LEMMA WebhookAdoptConsistent ==
    ASSUME Consistent, NEW h \in Handler, WebhookAdopt(h)
    PROVE  Consistent'
<1> USE DEF WebhookAdopt
<1> DEFINE c == hjob[h].cm  id == hjob[h].id
<1>1. c \in Comment /\ id \in Nat /\ id # 0
    BY HJobFacts
<1>2. CASE ConfirmStores(c, id, TRUE) /\ HFinish(h)
    <2>1. DatabasePart'
        BY <1>1, <1>2, Parts, ConfirmStoresPart
    <2>2. HandlersPart'
        BY <1>2, Parts, HFinishPart
    <2> QED
        BY <2>1, <2>2, Compose
<1>3. CASE HFinish(h) /\ UNCHANGED <<send, link>>
    <2>1. HandlersPart'
        BY <1>3, Parts, HFinishPart
    <2> QED
        BY <1>3, <2>1, Compose DEF database
<1>4. CASE HSetPc(h, "import") /\ UNCHANGED <<send, link, hjob>>
    <2>1. HandlersPart'
        BY <1>4, Parts, HAdvancePart DEF HPhase
    <2> QED
        BY <1>4, <2>1, Compose DEF database
<1> QED
    BY <1>2, <1>3, <1>4

LEMMA ImportUpdateConsistent ==
    ASSUME Consistent, NEW h \in Handler, ImportUpdate(h)
    PROVE  Consistent'
<1> USE DEF ImportUpdate
<1>1. DatabasePart'
    BY Parts DEF DatabasePart, DatabaseTypeOK, JournalMatchesLink, LinksApart, Linked
<1>2. HandlersPart'
    BY Parts, HFinishPart
<1> QED
    BY <1>1, <1>2, Compose

LEMMA ImportNewConsistent ==
    ASSUME Consistent, NEW h \in Handler, ImportNew(h)
    PROVE  Consistent'
<1> USE DEF ImportNew
<1>1. HandlersPart'
    BY Parts, HAdvancePart DEF HPhase
<1> QED
    BY <1>1, Compose

LEMMA ImportReserveConsistent ==
    ASSUME Consistent, NEW h \in Handler, ImportReserve(h)
    PROVE  Consistent'
<1> USE DEF ImportReserve
<1>1. hjob[h].id \in Nat
    BY HJobFacts
<1>2. CASE HFinish(h) /\ UNCHANGED foreign
    <2>1. HandlersPart'
        BY <1>2, Parts, HFinishPart
    <2> QED
        BY <1>2, <2>1, Compose DEF database
<1>3. CASE /\ hjob[h].id \notin LinkedIds
           /\ foreign' = foreign \cup {hjob[h].id}
           /\ HSetPc(h, "add")
           /\ UNCHANGED hjob
    <2>1. DatabasePart'
        BY <1>1, <1>3, Parts
           DEF DatabasePart, DatabaseTypeOK, JournalMatchesLink, LinksApart, Linked, LinkedIds
    <2>2. HandlersPart'
        BY <1>3, Parts, HAdvancePart DEF HPhase
    <2> QED
        BY <2>1, <2>2, Compose
<1> QED
    BY <1>2, <1>3

LEMMA ImportAddConsistent ==
    ASSUME Consistent, NEW h \in Handler, ImportAdd(h)
    PROVE  Consistent'
<1> USE DEF ImportAdd
<1>1. DatabasePart'
    BY Parts, HJobFacts DEF DatabasePart, DatabaseTypeOK, JournalMatchesLink, LinksApart, Linked
<1>2. HandlersPart'
    BY Parts, HFinishPart
<1> QED
    BY <1>1, <1>2, Compose

LEMMA ImportUndoneConsistent ==
    ASSUME Consistent, NEW h \in Handler, ImportUndone(h)
    PROVE  Consistent'
<1> USE DEF ImportUndone
<1>1. DatabasePart'
    BY Parts, HJobFacts DEF DatabasePart, DatabaseTypeOK, JournalMatchesLink, LinksApart, Linked
<1>2. HandlersPart'
    BY Parts, HFinishPart
<1>3. faults' \in 0..MaxFaults
    BY Parts, NumbersAssumption
<1> QED
    BY <1>1, <1>2, <1>3, Compose

LEMMA HAbandonConsistent ==
    ASSUME Consistent, NEW h \in Handler, HAbandon(h)
    PROVE  Consistent'
<1> USE DEF HAbandon
<1>1. HandlersPart'
    BY Parts, HFinishPart
<1>2. faults' \in 0..MaxFaults
    BY Parts, NumbersAssumption
<1> QED
    BY <1>1, <1>2, Compose

-----------------------------------------------------------------------------
(* Bitrix24 users, restarts and the initial state.                         *)

LEMMA ForeignCommentConsistent ==
    ASSUME Consistent, ForeignComment
    PROVE  Consistent'
<1> USE DEF ForeignComment
<1>1. PICK t \in Text :
          timeline' = Append(timeline, [src |-> NoComment, txt |-> t, mine |-> FALSE])
    OBVIOUS
<1>2. [src |-> NoComment, txt |-> t, mine |-> FALSE] \in Entry
    BY DEF Entry
<1>3. timeline' \in Seq(Entry)
    BY <1>1, <1>2, Parts DEF BitrixPart, BitrixTypeOK
<1>4. BitrixPart'
    BY <1>3, Parts DEF BitrixPart, BitrixTypeOK, WireOK
<1> QED
    BY <1>4, Compose

LEMMA RestartConsistent ==
    ASSUME Consistent, Restart
    PROVE  Consistent'
<1> USE DEF Restart
<1>1. NoJob \in Job /\ NoHJob \in HJob
    BY NumbersAssumption DEF NoJob, Job, NoHJob, HJob
<1>2. WorkersPart'
    BY <1>1, PhaseFacts DEF WorkersPart, WorkersTypeOK, JobsOK, Worker
<1>3. HandlersPart'
    BY <1>1 DEF HandlersPart, HandlersTypeOK, HooksOK, HPhase
<1>4. faults' \in 0..MaxFaults
    BY Parts, NumbersAssumption
<1> QED
    BY <1>2, <1>3, <1>4, Compose

LEMMA InitConsistent == Init => Consistent
<1> SUFFICES ASSUME Init PROVE Consistent
    OBVIOUS
<1> USE DEF Init
<1>1. NoJob \in Job /\ NoHJob \in HJob /\ NoRequest \in Request /\ NoSend \in SendState
    BY NumbersAssumption
       DEF NoJob, Job, NoHJob, HJob, NoRequest, Request, NoSend, SendState, Status
<1>2. timeline \in Seq(Entry)
    <2>1. timeline \in [1..Orphans -> Entry] /\ Orphans \in Nat
        BY SetsAssumption, NumbersAssumption DEF Entry
    <2> QED
        BY <2>1
<1>3. DatabasePart
    BY <1>1 DEF DatabasePart, DatabaseTypeOK, JournalMatchesLink, LinksApart, Linked, NoSend
<1>4. BitrixPart
    BY <1>1, <1>2 DEF BitrixPart, BitrixTypeOK, WireOK
<1>5. WorkersPart
    BY <1>1, PhaseFacts DEF WorkersPart, WorkersTypeOK, JobsOK, Worker
<1>6. HandlersPart
    BY <1>1 DEF HandlersPart, HandlersTypeOK, HooksOK, HPhase
<1> QED
    BY <1>3, <1>4, <1>5, <1>6, NumbersAssumption, Parts

LEMMA NextConsistent == Consistent /\ [Next]_vars => Consistent'
<1> SUFFICES ASSUME Consistent, [Next]_vars PROVE Consistent'
    OBVIOUS
<1>1. ASSUME NEW w \in Sender, NEW c \in Comment, BeginSync(w, c) PROVE Consistent'
    BY <1>1, BeginSyncConsistent
<1>2. ASSUME NEW w \in Worker, SenderStep(w) PROVE Consistent'
    BY <1>2, LinkMissingConsistent, LinkedSkipConsistent, LinkedUpdateConsistent,
       ReadWatermarkConsistent, ClaimNewConsistent, ClaimRejectedConsistent,
       ClaimDeniedConsistent, PostConsistent, PostRefusedConsistent, CallRetryConsistent,
       AnswerOkConsistent, AnswerUnknownConsistent, SettleRefusedConsistent,
       SettleUnknownConsistent, SettleConfirmedConsistent, PreviewConsistent,
       PreviewDeferredConsistent, RefreshConsistent, RewriteConsistent, RepreviewConsistent
       DEF SenderStep
<1>3. ASSUME NEW w \in Worker, BitrixAdds(w) \/ BitrixDrops(w) \/ Abandon(w)
      PROVE  Consistent'
    BY <1>3, BitrixAddsConsistent, BitrixDropsConsistent, AbandonConsistent
<1>4. ASSUME NEW c \in Comment, ReconcilePick(c) \/ FinalizePick(c) PROVE Consistent'
    BY <1>4, ReconcilePickConsistent, FinalizePickConsistent
<1>5. ASSUME ReconcilerStep PROVE Consistent'
    BY <1>5, ReconcileDemoteConsistent, ReconcileListConsistent, ReconcileTryConsistent,
       ReconcileAdoptConsistent, ReconcileNothingFoundConsistent, ReconcileAbsentConsistent,
       ReconcileResendConsistent, FinalizeConsistent, FinalizeClearConsistent
       DEF ReconcilerStep
<1>6. ASSUME NEW h \in Handler, HandlerStep(h) PROVE Consistent'
    BY <1>6, WebhookOwnConsistent, WebhookForeignConsistent, WebhookUnlinkedConsistent,
       WebhookMatchConsistent, WebhookNoMatchConsistent, WebhookAdoptConsistent,
       ImportUpdateConsistent, ImportNewConsistent, ImportReserveConsistent,
       ImportAddConsistent, ImportUndoneConsistent
       DEF HandlerStep
<1>7. ASSUME NEW h \in Handler,
             HAbandon(h) \/ \E id \in DOMAIN timeline : WebhookBegin(h, id)
      PROVE  Consistent'
    BY <1>7, HAbandonConsistent, WebhookBeginConsistent
<1>8. ASSUME ForeignComment \/ Restart PROVE Consistent'
    BY <1>8, ForeignCommentConsistent, RestartConsistent
<1>9. CASE UNCHANGED vars
    BY <1>9, Compose DEF vars
<1> QED
    BY <1>1, <1>2, <1>3, <1>4, <1>5, <1>6, <1>7, <1>8, <1>9 DEF Next

-----------------------------------------------------------------------------
\* The database, the requests on the wire and the local variables of all goroutines
\* make sense together in every reachable state (Consistent is inductive).
LEMMA ConsistentHolds == Spec => []Consistent
<1>1. Init => Consistent
    BY InitConsistent
<1>2. Consistent /\ [Next]_vars => Consistent'
    BY NextConsistent
<1> QED
    BY <1>1, <1>2, PTL DEF Spec

\* The state keeps its types; in particular no send is claimed more often than
\* bitrixCommentMaxSendAttempts allows (ClaimCommentSend).
THEOREM TypesHold == Spec => []TypeOK
<1>1. Consistent => TypeOK
    BY DEF Consistent
<1> QED
    BY <1>1, ConsistentHolds, PTL

\* comment_send_state and comment_link agree on what is confirmed, although three
\* kinds of goroutines write them (ConfirmCommentSend, the conditional UPDATEs).
THEOREM JournalHolds == Spec => []JournalMatchesLink
<1>1. Consistent => JournalMatchesLink
    BY DEF Consistent
<1> QED
    BY <1>1, ConsistentHolds, PTL

\* A Bitrix24 comment is linked once, whatever texts coincide
\* (InsertCommentLinkIfAbsent, ConfirmCommentSend and the unique index).
THEOREM LinksStayApart == Spec => []LinksApart
<1>1. Consistent => LinksApart
    BY DEF Consistent
<1> QED
    BY <1>1, ConsistentHolds, PTL
=============================================================================
