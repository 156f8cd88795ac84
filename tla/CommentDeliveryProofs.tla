------------------------ MODULE CommentDeliveryProofs ------------------------
(***************************************************************************)
(* A comment that its text tells apart is delivered once and linked to     *)
(* that very copy, for any number of comments, versions, senders, webhook  *)
(* consumers, attempts and failures, under two conditions that the code    *)
(* does not enforce: each attempt ends within the grace period (Timely),   *)
(* and different comments have different texts (TextsDiffer).              *)
(*                                                                         *)
(* OnceOK follows an attempt from its claim over the request on the wire   *)
(* to the copy: until the copy is there nobody else attempts, and from     *)
(* then on whoever looks for the copy finds it.                            *)
(*                                                                         *)
(* Comments with the same text may be taken for each other.  ShareOK       *)
(* accounts every own comment of the timeline to another comment of the    *)
(* ticket, so that there are no more copies than sends; the account needs  *)
(* that the reconciliation alone adopts copies, that is no webhooks.       *)
(***************************************************************************)
EXTENDS BitrixCommentSendProofs, FiniteSetTheorems

\* Different comments have different texts, and so have the account's comments from before
\* the journal, unless the clocks of both sides agree.  Users write what they like: which of
\* two comments with one text a copy belongs to nobody can tell (twin_imported.cfg).
TextsDiffer ==
    /\ \A c, d \in Comment : c # d => TextsOf[c] \cap TextsOf[d] = {}
    /\ Skew = 0 \/ \A c \in Comment : TextsOf[c] \cap OrphanText = {}

\* Timely is a condition on the time that tries, back-off and rate limit of a call take;
\* nothing in the code bounds it, and a slow sender sends twice (slow_sender.cfg).
Distinguishable == Timely /\ TextsDiffer

-----------------------------------------------------------------------------
(* The invariant.                                                          *)

\* A text that entry i of the timeline may have, now or at an earlier time.
MayRead(i, t) ==
    /\ timeline[i].src \in Comment => t \in TextsOf[timeline[i].src]
    /\ timeline[i].src = NoComment /\ timeline[i].mine => t \in OrphanText

TimelineOK ==
    /\ Orphans <= Len(timeline)
    /\ \A i \in DOMAIN timeline :
         /\ timeline[i].src \in Comment => timeline[i].mine
         /\ timeline[i].src = NoComment /\ timeline[i].mine => i <= Orphans
         /\ MayRead(i, timeline[i].txt)
    /\ \A i \in foreign \cup imported : i \in DOMAIN timeline /\ timeline[i].src = NoComment

\* What the journal says of a comment, and its copies.
SendFits(c) ==
    /\ send[c].wm <= send[c].born /\ send[c].born <= Len(timeline)
    /\ send[c].status # "none" => Orphans <= send[c].born
    /\ send[c].status \in {"none", "rejected"} => OwnCopies(c) = {}
    /\ send[c].status \in Open =>
          send[c].fp \in TextsOf[c] /\ \A i \in OwnCopies(c) : timeline[i].txt = send[c].fp
    /\ \A i, j \in OwnCopies(c) : i = j
    /\ \A i \in OwnCopies(c) : i > send[c].born
    /\ link[c] # 0 => link[c] \in OwnCopies(c)

SendsOK == \A c \in Comment : SendFits(c)

\* A request Bitrix24 has yet to run is the only one of its comment.
WireFits(w) ==
    wire[w] # NoRequest =>
        /\ OwnCopies(wire[w].cm) = {}
        /\ send[wire[w].cm].status \in Open
        /\ wire[w].txt = send[wire[w].cm].fp
        /\ \A v \in Worker : wire[v].cm = wire[w].cm => v = w

WiresOK == \A w \in Worker : WireFits(w)

\* What a worker with the local variables j knows in phase p of an attempt.
AttemptFits(w, p, j) ==
    p \in AttemptPhase =>
        /\ send[j.cm].status \in {"sending", "confirmed"}
        /\ \A v \in Worker : wire[v].cm = j.cm => v = w /\ p \in {"wait", "unknown"}
        /\ p \in {"post", "refused"} => OwnCopies(j.cm) = {}
        /\ p = "wait" /\ wire[w] # NoRequest => wire[w].cm = j.cm
        /\ p = "wait" /\ wire[w] = NoRequest /\ j.id = 0 => OwnCopies(j.cm) = {}
        /\ p = "wait" /\ j.id # 0 => j.id \in OwnCopies(j.cm)
        /\ p \in {"post", "wait"} /\ j.id = 0 => j.txt = send[j.cm].fp
        /\ p = "confirm" => j.id \in OwnCopies(j.cm)

AttemptsOK == \A w \in Worker : AttemptFits(w, pc[w], job[w])

OneAttempt ==
    \A v, w \in Worker :
        pc[v] \in AttemptPhase /\ pc[w] \in AttemptPhase /\ job[v].cm = job[w].cm => v = w

\* The local variables of a worker in phase p.
JobFits(p, j) ==
    /\ p \in SyncPhase => j.txt \in TextsOf[j.cm]
    /\ p \in {"idle", "link", "watermark", "claim", "post"} => j.id = 0
    /\ p = "claim" => j.wm <= Len(timeline)
    /\ p \in {"preview", "refresh", "rewrite", "repreview"} => j.id # 0 /\ j.id = link[j.cm]

JobsFit == \A w \in Worker : JobFits(pc[w], job[w])

\* The reconciler decides about a send that nobody else works on.
Deciding == {"demote", "list", "try", "adopt", "absent"}

RecFits(p, j, f) ==
    p \in Deciding =>
        /\ send[j.cm].status \in Open \cup {"confirmed"}
        /\ Quiet(j.cm)
        /\ p \in {"demote", "list"} =>
              /\ j.txt \in TextsOf[j.cm] /\ j.id = 0
              /\ send[j.cm].status \in Open => j.txt = send[j.cm].fp
        /\ p = "try" =>
              /\ f \subseteq OwnCopies(j.cm)
              /\ send[j.cm].status \in Open => OwnCopies(j.cm) \subseteq f
        /\ p = "adopt" => j.id \in OwnCopies(j.cm)
        /\ p = "absent" /\ send[j.cm].status \in Open => OwnCopies(j.cm) = {}

RecOK == RecFits(pc[Reconciler], job[Reconciler], found)

RecAlone == pc[Reconciler] \in Deciding => Settled(job[Reconciler].cm)

\* What a webhook consumer knows of the comment that was announced to it.
HookFits(p, j) ==
    p # "idle" =>
        /\ j.id \in DOMAIN timeline
        /\ MayRead(j.id, j.txt)
        /\ LET c == timeline[j.id].src IN
             /\ c \in Comment /\ send[c].status \in Open => j.txt = send[c].fp
             /\ p = "adopt" => c = j.cm
             /\ p = "import" /\ c \in Comment => link[c] = j.id
             /\ p \in {"reserve", "add"} => c = NoComment

HooksFit == \A h \in Handler : HookFits(hpc[h], hjob[h])

OnceOK ==
    /\ TimelineOK /\ SendsOK /\ WiresOK /\ AttemptsOK /\ OneAttempt /\ JobsFit
    /\ RecOK /\ RecAlone /\ HooksFit

-----------------------------------------------------------------------------
(* What the invariant says of the reading steps.                           *)

LEMMA TimelineFacts ==
    ASSUME Consistent
    PROVE  /\ timeline \in Seq(Entry) /\ Len(timeline) \in Nat /\ DOMAIN timeline = 1..Len(timeline)
           /\ \A i \in DOMAIN timeline : /\ timeline[i] \in Entry /\ i \in Nat /\ i # 0
                                         /\ timeline[i].src \in Comment \cup {NoComment}
                                         /\ timeline[i].mine \in BOOLEAN
<1>1. timeline \in Seq(Entry)
    BY DEF Consistent, TypeOK, BitrixTypeOK
<1>2. /\ Len(timeline) \in Nat /\ DOMAIN timeline = 1..Len(timeline)
      /\ \A i \in DOMAIN timeline : timeline[i] \in Entry
    BY <1>1
<1> QED
    BY <1>1, <1>2 DEF Entry

LEMMA SendFacts ==
    ASSUME Consistent, NEW c \in Comment
    PROVE  /\ send[c] \in SendState /\ send[c].status \in Status
           /\ send[c].wm \in Nat /\ send[c].born \in Nat /\ send[c].b24 \in Nat
           /\ send[c].attempts \in 0..MaxAttempts
           /\ link[c] \in Nat
           /\ OwnCopies(c) \subseteq DOMAIN timeline
           /\ send[c].status = "confirmed" <=> link[c] # 0
           /\ send[c].status = "confirmed" => send[c].b24 = link[c]
BY DEF Consistent, TypeOK, DatabaseTypeOK, SendState, JournalMatchesLink, OwnCopies

\* Only a copy of c matches the send of c: texts tell comments apart, and older
\* comments of the account are below the time of the first claim.
LEMMA MatchSound ==
    ASSUME Distinguishable, Consistent, OnceOK, NEW c \in Comment, NEW i \in DOMAIN timeline,
           NEW t \in TextsOf[c], MayRead(i, t), send[c].status # "none", MatchesSend(c, t, i, t)
    PROVE  i \in OwnCopies(c)
<1>1. timeline[i].mine /\ i > send[c].born - Skew
    BY DEF MatchesSend
<1>2. timeline[i].src \in Comment \cup {NoComment} /\ i \in Nat
    BY TimelineFacts
<1>3. ASSUME NEW d \in Comment, timeline[i].src = d PROVE d = c
    BY <1>3 DEF MayRead, Distinguishable, TextsDiffer
<1>4. CASE timeline[i].src = NoComment
    <2>1. t \in OrphanText /\ i <= Orphans
        BY <1>1, <1>4 DEF MayRead, OnceOK, TimelineOK
    <2>2. Skew = 0
        BY <2>1 DEF Distinguishable, TextsDiffer
    <2>3. Orphans <= send[c].born /\ send[c].born \in Nat
        BY SendFacts DEF OnceOK, SendsOK, SendFits
    <2> QED
        BY <1>1, <1>2, <2>1, <2>2, <2>3, NumbersAssumption
<1> QED
    BY <1>2, <1>3, <1>4 DEF OwnCopies

\* The copy of an open send matches it.
LEMMA MatchComplete ==
    ASSUME Consistent, OnceOK, NEW c \in Comment, NEW i \in OwnCopies(c)
    PROVE  MatchesSend(c, send[c].fp, i, send[c].fp)
<1>1. i \in DOMAIN timeline /\ timeline[i].src = c /\ i \in Nat
    BY TimelineFacts DEF OwnCopies
<1>2. timeline[i].mine
    BY <1>1 DEF OnceOK, TimelineOK
<1>3. i > send[c].born /\ send[c].wm <= send[c].born /\ send[c].born \in Nat /\ send[c].wm \in Nat
    BY SendFacts DEF OnceOK, SendsOK, SendFits
<1> QED
    BY <1>1, <1>2, <1>3, NumbersAssumption DEF MatchesSend

-----------------------------------------------------------------------------
(* Steps that change only the local variables of a worker.                 *)

shared == <<send, link, foreign, imported, timeline, wire, hpc, hjob>>

LEMMA SharedFrame ==
    ASSUME OnceOK, UNCHANGED shared
    PROVE  /\ TimelineOK' /\ SendsOK' /\ WiresOK' /\ HooksFit'
           /\ \A w \in Worker, p \in Phase, j \in Job : AttemptFits(w, p, j)' <=> AttemptFits(w, p, j)
           /\ \A p \in Phase, j \in Job : JobFits(p, j)' <=> JobFits(p, j)
           /\ \A p \in Phase, j \in Job : \A f : RecFits(p, j, f)' <=> RecFits(p, j, f)
<1>1. \A c \in Comment : OwnCopies(c)' = OwnCopies(c)
    BY DEF shared, OwnCopies
<1>2. TimelineOK' /\ SendsOK' /\ WiresOK'
    BY DEF shared, OnceOK, TimelineOK, MayRead, SendsOK, SendFits, OwnCopies, WiresOK, WireFits
<1>3. HooksFit'
    BY DEF shared, OnceOK, HooksFit, HookFits, MayRead
<1>4. ASSUME NEW w \in Worker, NEW p \in Phase, NEW j \in Job
      PROVE  AttemptFits(w, p, j)' <=> AttemptFits(w, p, j)
    BY DEF shared, AttemptFits, OwnCopies
<1>5. ASSUME NEW p \in Phase, NEW j \in Job
      PROVE  JobFits(p, j)' <=> JobFits(p, j)
    BY DEF shared, JobFits
<1>6. ASSUME NEW p \in Phase, NEW j \in Job, NEW f
      PROVE  RecFits(p, j, f)' <=> RecFits(p, j, f)
    BY DEF shared, RecFits, OwnCopies, Quiet
<1> QED
    BY <1>2, <1>3, <1>4, <1>5, <1>6

\* A step of a worker preserves the invariant if it preserves what concerns the
\* shared state, the other workers and this one.
LEMMA StepKeeps ==
    ASSUME Consistent, OnceOK, TimelineOK', SendsOK', WiresOK', HooksFit',
           NEW w \in Worker, NEW p \in Phase, NEW j \in Job,
           SetPc(w, p), job' = [job EXCEPT ![w] = j],
           p \in AttemptPhase => \/ pc[w] \in AttemptPhase /\ j.cm = job[w].cm
                                 \/ send[j.cm].status \in {"none", "rejected"},
           \A v \in Worker \ {w} : AttemptFits(v, pc[v], job[v])' /\ JobFits(pc[v], job[v])',
           AttemptFits(w, p, j)', JobFits(p, j)',
           w = Reconciler => RecFits(p, j, found)' /\ (p \in Deciding => Settled(j.cm)),
           w # Reconciler => RecOK'
    PROVE  OnceOK'
<1>1. /\ pc'[w] = p /\ job'[w] = j
      /\ \A v \in Worker \ {w} : pc'[v] = pc[v] /\ job'[v] = job[v]
      /\ \A v \in Worker : pc[v] \in Phase /\ job[v] \in Job
    BY DEF SetPc, Consistent, TypeOK, WorkersTypeOK
<1>2. AttemptsOK'
    BY <1>1 DEF AttemptsOK
<1>3. JobsFit'
    BY <1>1 DEF JobsFit
<1>4. \A v \in Worker : pc[v] \in AttemptPhase =>
          send[job[v].cm].status \in {"sending", "confirmed"}
    BY DEF OnceOK, AttemptsOK, AttemptFits
<1>5. OneAttempt'
    BY <1>1, <1>4 DEF OnceOK, OneAttempt
<1>6. RecOK'
    BY <1>1, RecFacts DEF RecOK
<1>7. RecAlone'
    <2>1. Deciding \cap AttemptPhase = {}
        BY DEF Deciding, AttemptPhase
    <2>2. pc[Reconciler] \in Deciding => send[job[Reconciler].cm].status \in Open \cup {"confirmed"}
        BY DEF OnceOK, RecOK, RecFits
    <2>3. CASE w = Reconciler
        BY <1>1, <2>1, <2>3, RecFacts DEF RecAlone, Settled
    <2>4. CASE w # Reconciler
        <3>1. pc[Reconciler] \in Deciding => Settled(job[Reconciler].cm)
            BY DEF OnceOK, RecAlone
        <3>2. pc'[Reconciler] = pc[Reconciler] /\ job'[Reconciler] = job[Reconciler]
            BY <1>1, <2>4, RecFacts
        <3>3. ASSUME pc[Reconciler] \in Deciding, p \in AttemptPhase PROVE j.cm # job[Reconciler].cm
            BY <2>2, <3>1, <3>3 DEF Settled, Open
        <3> QED
            BY <1>1, <3>1, <3>2, <3>3 DEF RecAlone, Settled
    <2> QED
        BY <2>3, <2>4
<1> QED
    BY <1>2, <1>3, <1>5, <1>6, <1>7 DEF OnceOK

\* Nothing new is attempted by a worker that goes on with the attempt it has, or with
\* something else.
LEMMA MoveOnce ==
    ASSUME Consistent, Consistent', OnceOK, UNCHANGED shared,
           NEW w \in Worker, NEW p \in Phase, NEW j \in Job,
           SetPc(w, p), job' = [job EXCEPT ![w] = j],
           p \in AttemptPhase => pc[w] \in AttemptPhase /\ j.cm = job[w].cm,
           AttemptFits(w, p, j), JobFits(p, j),
           w = Reconciler => RecFits(p, j, found') /\ (p \in Deciding => Settled(j.cm)),
           w # Reconciler => found' = found
    PROVE  OnceOK'
<1>1. /\ pc'[w] = p /\ job'[w] = j
      /\ \A v \in Worker \ {w} : pc'[v] = pc[v] /\ job'[v] = job[v]
      /\ \A v \in Worker : pc[v] \in Phase /\ job[v] \in Job
    BY DEF SetPc, Consistent, TypeOK, WorkersTypeOK
<1>2. \A v \in Worker : pc'[v] \in Phase /\ job'[v] \in Job
    BY <1>1
<1>3. AttemptsOK'
    BY <1>1, <1>2, SharedFrame DEF OnceOK, AttemptsOK
<1>4. JobsFit'
    BY <1>1, <1>2, SharedFrame DEF OnceOK, JobsFit
<1>5. OneAttempt'
    BY <1>1 DEF OnceOK, OneAttempt
<1>6. RecOK'
    BY <1>1, <1>2, SharedFrame, RecFacts DEF OnceOK, RecOK
<1>7. RecAlone'
    <2> Deciding \cap AttemptPhase = {}
        BY DEF Deciding, AttemptPhase
    <2> QED
        BY <1>1, RecFacts DEF OnceOK, RecAlone, Settled
<1> QED
    BY <1>3, <1>4, <1>5, <1>6, <1>7, SharedFrame DEF OnceOK

\* The work of a worker is over.
LEMMA FinishOnce ==
    ASSUME Consistent, Consistent', OnceOK, UNCHANGED shared,
           NEW w \in Worker, Finish(w), found' = found \/ w = Reconciler
    PROVE  OnceOK'
<1>1. NoJob \in Job /\ NoJob.id = 0
    BY NumbersAssumption DEF NoJob, Job
<1>2. /\ AttemptFits(w, "idle", NoJob) /\ JobFits("idle", NoJob)
      /\ RecFits("idle", NoJob, found') /\ "idle" \notin Deciding
    BY <1>1, PhaseFacts DEF AttemptFits, JobFits, RecFits, Deciding, AttemptPhase
<1>3. "idle" \in Phase /\ "idle" \notin AttemptPhase
    BY DEF Phase, AttemptPhase
<1> QED
    BY <1>1, <1>2, <1>3, MoveOnce DEF Finish

\* A worker goes on with the local variables it has.
LEMMA AdvanceOnce ==
    ASSUME Consistent, Consistent', OnceOK, UNCHANGED shared,
           NEW w \in Worker, NEW p \in Phase, SetPc(w, p), UNCHANGED job,
           p \in AttemptPhase => pc[w] \in AttemptPhase,
           AttemptFits(w, p, job[w]), JobFits(p, job[w]),
           w = Reconciler => RecFits(p, job[w], found') /\ (p \in Deciding => Settled(job[w].cm)),
           w # Reconciler => found' = found
    PROVE  OnceOK'
<1>1. job' = [job EXCEPT ![w] = job[w]] /\ job[w] \in Job
    BY DEF Consistent, TypeOK, WorkersTypeOK
<1> QED
    BY <1>1, MoveOnce

\* What a worker knows at its step.
LEMMA WorkerFacts ==
    ASSUME Consistent, OnceOK, NEW w \in Worker
    PROVE  /\ AttemptFits(w, pc[w], job[w]) /\ JobFits(pc[w], job[w])
           /\ pc[w] # "idle" => SendFits(job[w].cm)
           /\ WireFits(w)
           /\ w = Reconciler =>
                 RecFits(pc[w], job[w], found) /\ (pc[w] \in Deciding => Settled(job[w].cm))
BY JobFacts DEF OnceOK, AttemptsOK, JobsFit, SendsOK, WiresOK, RecOK, RecAlone

\* Phases outside of attempts and decisions.
LEMMA CalmPhase ==
    ASSUME NEW w, NEW p, NEW j, NEW f, p \notin AttemptPhase, p \notin Deciding
    PROVE  AttemptFits(w, p, j) /\ RecFits(p, j, f)
BY DEF AttemptFits, RecFits

LEMMA BeginSyncOnce ==
    ASSUME Consistent, Consistent', OnceOK, NEW w \in Sender, NEW c \in Comment, BeginSync(w, c)
    PROVE  OnceOK'
<1> USE DEF BeginSync
<1>1. PICK t \in TextsOf[c] : job' = [job EXCEPT ![w].cm = c, ![w].txt = t]
    OBVIOUS
<1> DEFINE j == [job[w] EXCEPT !.cm = c, !.txt = t]
<1>2. t \in Text /\ job[w] \in Job /\ w \in Worker /\ w # Reconciler
    BY SetsAssumption, JobFacts DEF Worker
<1>3. j \in Job /\ j.cm = c /\ j.txt = t /\ j.id = job[w].id
    BY <1>2 DEF Job
<1>4. job' = [job EXCEPT ![w] = j]
    BY <1>1, <1>2 DEF Consistent, TypeOK, WorkersTypeOK
<1>5. JobFits("link", j) /\ AttemptFits(w, "link", j) /\ "link" \in Phase
    BY <1>2, <1>3, WorkerFacts DEF JobFits, AttemptFits, Phase, SyncPhase, AttemptPhase
<1>6. "link" \notin AttemptPhase
    BY DEF AttemptPhase
<1> HIDE DEF j
<1> QED
    BY <1>2, <1>3, <1>4, <1>5, <1>6, MoveOnce DEF shared, database, bitrix, handlers

LEMMA LinkMissingOnce ==
    ASSUME Consistent, Consistent', OnceOK, NEW w \in Worker, LinkMissing(w)
    PROVE  OnceOK'
<1> USE DEF LinkMissing
<1>1. JobFits("watermark", job[w])
    BY WorkerFacts DEF JobFits, SyncPhase, AttemptPhase
<1>2. "watermark" \in Phase \ (AttemptPhase \cup Deciding)
    BY DEF Phase, SyncPhase, AttemptPhase, Deciding
<1> QED
    BY <1>1, <1>2, AdvanceOnce, CalmPhase DEF shared, database, bitrix, handlers

LEMMA LinkedUpdateOnce ==
    ASSUME Consistent, Consistent', OnceOK, NEW w \in Worker, LinkedUpdate(w)
    PROVE  OnceOK'
<1> USE DEF LinkedUpdate
<1> DEFINE j == [job[w] EXCEPT !.id = link[job[w].cm]]
<1>1. job[w] \in Job /\ job[w].cm \in Comment /\ link[job[w].cm] \in Nat
    BY JobFacts, SendFacts
<1>2. j \in Job /\ j.cm = job[w].cm /\ j.txt = job[w].txt /\ j.id = link[job[w].cm]
    BY <1>1 DEF Job
<1>3. job' = [job EXCEPT ![w] = j]
    BY DEF Consistent, TypeOK, WorkersTypeOK
<1>4. JobFits("refresh", j)
    BY <1>2, WorkerFacts DEF JobFits, SyncPhase, AttemptPhase
<1>5. "refresh" \in Phase \ (AttemptPhase \cup Deciding)
    BY DEF Phase, SyncPhase, AttemptPhase, Deciding
<1> HIDE DEF j
<1> QED
    BY <1>2, <1>3, <1>4, <1>5, MoveOnce, CalmPhase DEF shared, database, bitrix, handlers

\* The watermark is an identifier that is in the timeline.
LEMMA ReadWatermarkOnce ==
    ASSUME Consistent, Consistent', OnceOK, NEW w \in Worker, ReadWatermark(w)
    PROVE  OnceOK'
<1> USE DEF ReadWatermark
<1>1. PICK m \in LinkedIds \cup {0} : job' = [job EXCEPT ![w].wm = m]
    OBVIOUS
<1> DEFINE j == [job[w] EXCEPT !.wm = m]
<1>2. m \in Nat /\ m <= Len(timeline)
    <2>1. CASE m \in foreign
        BY <2>1, TimelineFacts DEF OnceOK, TimelineOK
    <2>2. ASSUME NEW c \in Comment, m = link[c], m # 0 PROVE m \in Nat /\ m <= Len(timeline)
        BY <2>2, TimelineFacts DEF OnceOK, SendsOK, SendFits, OwnCopies
    <2> QED
        BY <2>1, <2>2, TimelineFacts DEF LinkedIds, Linked
<1>3. j \in Job /\ j.cm = job[w].cm /\ j.txt = job[w].txt /\ j.id = job[w].id /\ j.wm = m
    BY <1>2, JobFacts DEF Job
<1>4. job' = [job EXCEPT ![w] = j]
    BY <1>1 DEF Consistent, TypeOK, WorkersTypeOK
<1>5. JobFits("claim", j)
    BY <1>2, <1>3, WorkerFacts DEF JobFits, SyncPhase, AttemptPhase
<1>6. "claim" \in Phase \ (AttemptPhase \cup Deciding)
    BY DEF Phase, SyncPhase, AttemptPhase, Deciding
<1> HIDE DEF j
<1> QED
    BY <1>3, <1>4, <1>5, <1>6, MoveOnce, CalmPhase DEF shared, database, bitrix, handlers

\* The call has not left a request behind.
LEMMA PostRefusedOnce ==
    ASSUME Consistent, Consistent', OnceOK, NEW w \in Worker, PostRefused(w)
    PROVE  OnceOK'
<1> USE DEF PostRefused
<1>1. AttemptFits(w, "refused", job[w]) /\ JobFits("refused", job[w])
    BY WorkerFacts DEF AttemptFits, JobFits, SyncPhase, AttemptPhase
<1>2. "refused" \in Phase /\ "refused" \notin Deciding /\ pc[w] \in AttemptPhase
    BY DEF Phase, SyncPhase, AttemptPhase, Deciding
<1> QED
    BY <1>1, <1>2, AdvanceOnce DEF shared, database, bitrix, handlers, RecFits

LEMMA CallRetryOnce ==
    ASSUME Consistent, Consistent', OnceOK, NEW w \in Worker, CallRetry(w)
    PROVE  OnceOK'
<1> USE DEF CallRetry
<1>1. job[w].cm \in Comment /\ job[w].cm # NoComment
    BY JobFacts, SetsAssumption
<1>2. AttemptFits(w, "post", job[w]) /\ JobFits("post", job[w])
    BY <1>1, WorkerFacts DEF AttemptFits, JobFits, SyncPhase, AttemptPhase, NoRequest
<1>3. "post" \in Phase /\ "post" \notin Deciding /\ pc[w] \in AttemptPhase
    BY DEF Phase, SyncPhase, AttemptPhase, Deciding
<1> QED
    BY <1>2, <1>3, AdvanceOnce DEF shared, database, bitrix, handlers, RecFits

LEMMA AnswerOkOnce ==
    ASSUME Consistent, Consistent', OnceOK, NEW w \in Worker, AnswerOk(w)
    PROVE  OnceOK'
<1> USE DEF AnswerOk
<1>1. job[w].cm \in Comment /\ job[w].cm # NoComment
    BY JobFacts, SetsAssumption
<1>2. ~(wire[w].cm = job[w].cm)
    BY <1>1, WorkerFacts DEF AttemptFits, WireFits, AttemptPhase, NoRequest
<1>3. AttemptFits(w, "confirm", job[w]) /\ JobFits("confirm", job[w])
    BY <1>2, WorkerFacts DEF AttemptFits, JobFits, SyncPhase, AttemptPhase
<1>4. "confirm" \in Phase /\ "confirm" \notin Deciding /\ pc[w] \in AttemptPhase
    BY DEF Phase, SyncPhase, AttemptPhase, Deciding
<1> QED
    BY <1>3, <1>4, AdvanceOnce DEF shared, database, bitrix, handlers, RecFits

LEMMA AnswerUnknownOnce ==
    ASSUME Consistent, Consistent', OnceOK, NEW w \in Worker, AnswerUnknown(w)
    PROVE  OnceOK'
<1> USE DEF AnswerUnknown
<1>1. AttemptFits(w, "unknown", job[w]) /\ JobFits("unknown", job[w])
    BY WorkerFacts DEF AttemptFits, JobFits, SyncPhase, AttemptPhase
<1>2. "unknown" \in Phase /\ "unknown" \notin Deciding /\ pc[w] \in AttemptPhase
    BY DEF Phase, SyncPhase, AttemptPhase, Deciding
<1> QED
    BY <1>1, <1>2, AdvanceOnce DEF shared, database, bitrix, handlers, RecFits

LEMMA QuitOnce ==
    ASSUME Consistent, Consistent', OnceOK, NEW w \in Worker,
           LinkedSkip(w) \/ ClaimDenied(w) \/ Abandon(w)
    PROVE  OnceOK'
BY FinishOnce DEF LinkedSkip, ClaimDenied, Abandon, shared, database, bitrix, handlers

\* The answer belongs to a copy of the comment: that copy is linked by now.
LEMMA SettleStandsOnce ==
    ASSUME Consistent, Consistent', OnceOK, NEW w \in Worker,
           pc[w] = "confirm", ConfirmStands(job[w].cm, job[w].id), SetPc(w, "preview"),
           UNCHANGED <<job, found, shared>>
    PROVE  OnceOK'
<1>1. job[w].cm \in Comment
    BY JobFacts
<1>2. JobFits("preview", job[w])
    BY <1>1, JobFacts, SendFacts, WorkerFacts DEF JobFits, SyncPhase, AttemptPhase, ConfirmStands, JobsOK, Consistent
<1>3. "preview" \in Phase \ (AttemptPhase \cup Deciding)
    BY DEF Phase, SyncPhase, AttemptPhase, Deciding
<1> QED
    BY <1>2, <1>3, AdvanceOnce, CalmPhase

\* The reconciler takes up a send that is open, with no request and no call left.
LEMMA ReconcilePickOnce ==
    ASSUME Distinguishable, Consistent, Consistent', OnceOK, NEW c \in Comment, ReconcilePick(c)
    PROVE  OnceOK'
<1> USE DEF ReconcilePick
<1> DEFINE r == Reconciler
           j == [job[r] EXCEPT !.cm = c, !.txt = send[c].fp]
<1>1. r \in Worker /\ job[r] \in Job /\ job[r].id = 0 /\ send[c].fp \in TextsOf[c]
    BY RecFacts, JobFacts, WorkerFacts DEF JobFits, OnceOK, SendsOK, SendFits
<1>2. j \in Job /\ j.cm = c /\ j.txt = send[c].fp /\ j.id = 0
    BY <1>1, SetsAssumption DEF Job
<1>3. job' = [job EXCEPT ![r] = j]
    BY <1>1 DEF Consistent, TypeOK, WorkersTypeOK
<1>4. PICK p \in {"demote", "list"} : SetPc(r, p)
    OBVIOUS
<1>5. p \in Phase /\ p \notin SyncPhase /\ p \notin AttemptPhase
    BY DEF Phase, SyncPhase, RecPhase, AttemptPhase
<1>6. AttemptFits(r, p, j) /\ JobFits(p, j)
    BY <1>5 DEF AttemptFits, JobFits
<1>7. RecFits(p, j, found') /\ Settled(j.cm)
    BY <1>1, <1>2 DEF RecFits, Distinguishable
<1> HIDE DEF j
<1> QED
    BY <1>1, <1>2, <1>3, <1>4, <1>5, <1>6, <1>7, MoveOnce DEF shared, database, bitrix, handlers

LEMMA FinalizePickOnce ==
    ASSUME Consistent, Consistent', OnceOK, NEW c \in Comment, FinalizePick(c)
    PROVE  OnceOK'
<1> USE DEF FinalizePick
<1> DEFINE r == Reconciler
           j == [job[r] EXCEPT !.cm = c]
<1>1. r \in Worker /\ job[r] \in Job
    BY RecFacts, JobFacts
<1>2. j \in Job
    BY <1>1 DEF Job
<1>3. job' = [job EXCEPT ![r] = j]
    BY <1>1 DEF Consistent, TypeOK, WorkersTypeOK
<1>4. JobFits("finalize", j) /\ "finalize" \in Phase \ (AttemptPhase \cup Deciding)
    BY DEF JobFits, Phase, SyncPhase, RecPhase, AttemptPhase, Deciding
<1> HIDE DEF j
<1> QED
    BY <1>1, <1>2, <1>3, <1>4, MoveOnce, CalmPhase DEF shared, database, bitrix, handlers

\* The list holds copies of the comment only, and all of them as long as the send is open.
LEMMA ReconcileListOnce ==
    ASSUME Distinguishable, Consistent, Consistent', OnceOK, ReconcileList
    PROVE  OnceOK'
<1> USE DEF ReconcileList
<1> DEFINE r == Reconciler
           c == job[r].cm
<1>1. r \in Worker /\ c \in Comment /\ job[r] \in Job
    BY RecFacts, JobFacts
<1>2. RecFits("list", job[r], found) /\ Settled(c)
    BY <1>1, WorkerFacts DEF Deciding
<1>3. /\ send[c].status \in Open \cup {"confirmed"} /\ Quiet(c) /\ job[r].txt \in TextsOf[c]
      /\ send[c].status \in Open => job[r].txt = send[c].fp
    BY <1>2 DEF RecFits, Deciding
<1>4. ASSUME NEW i \in found' PROVE i \in OwnCopies(c)
    <2>1. i \in DOMAIN timeline /\ MatchesSend(c, job[r].txt, i, timeline[i].txt)
        BY <1>4
    <2>2. timeline[i].txt = job[r].txt /\ MatchesSend(c, job[r].txt, i, job[r].txt)
        BY <2>1 DEF MatchesSend
    <2>3. MayRead(i, job[r].txt)
        BY <2>1, <2>2 DEF OnceOK, TimelineOK
    <2>4. send[c].status # "none"
        BY <1>3 DEF Open
    <2> QED
        BY <1>1, <1>3, <2>1, <2>2, <2>3, <2>4, MatchSound
<1>5. ASSUME send[c].status \in Open, NEW i \in OwnCopies(c) PROVE i \in found'
    <2>1. timeline[i].txt = send[c].fp /\ i \in DOMAIN timeline
        BY <1>1, <1>5 DEF OnceOK, SendsOK, SendFits, OwnCopies
    <2> QED
        BY <1>1, <1>3, <1>5, <2>1, MatchComplete
<1>6. RecFits("try", job[r], found')
    BY <1>3, <1>4, <1>5 DEF RecFits
<1>7. JobFits("try", job[r]) /\ AttemptFits(r, "try", job[r]) /\ "try" \in Phase \ AttemptPhase
    BY DEF JobFits, AttemptFits, Phase, SyncPhase, RecPhase, AttemptPhase
<1> HIDE DEF c
<1> QED
    BY <1>1, <1>2, <1>6, <1>7, AdvanceOnce DEF shared, database, bitrix, handlers, c

\* A copy that is linked belongs to a confirmed send.
LEMMA ReconcileTryOnce ==
    ASSUME Consistent, Consistent', OnceOK, ReconcileTry
    PROVE  OnceOK'
<1> USE DEF ReconcileTry
<1> DEFINE r == Reconciler
           c == job[r].cm
<1>1. r \in Worker /\ c \in Comment /\ job[r] \in Job
    BY RecFacts, JobFacts
<1>2. RecFits("try", job[r], found) /\ Settled(c)
    BY <1>1, WorkerFacts DEF Deciding
<1>3. PICK id \in found :
          IF id \in LinkedIds
          THEN found' = found \ {id} /\ UNCHANGED <<pc, job>>
          ELSE /\ found' = {}
               /\ job' = [job EXCEPT ![r].id = id]
               /\ SetPc(r, "adopt")
    OBVIOUS
<1>4. id \in OwnCopies(c)
    BY <1>2, <1>3 DEF RecFits, Deciding
<1>5. CASE id \in LinkedIds
    <2>1. ASSUME send[c].status \in Open PROVE FALSE
        <3>1. link[c] = 0
            BY <1>1, <2>1, SendFacts DEF Open
        <3>2. id # 0 /\ timeline[id].src = c
            BY <1>1, <1>4, SendFacts, TimelineFacts DEF OwnCopies
        <3>3. id \notin foreign
            BY <1>1, <3>2, SetsAssumption DEF OnceOK, TimelineOK
        <3>4. PICK d \in Comment : link[d] = id
            BY <1>5, <3>3 DEF LinkedIds, Linked
        <3>5. id \in OwnCopies(d)
            BY <3>2, <3>4 DEF OnceOK, SendsOK, SendFits
        <3> QED
            BY <3>1, <3>2, <3>4, <3>5 DEF OwnCopies
    <2>2. RecFits("try", job[r], found')
        BY <1>2, <1>3, <1>5, <2>1 DEF RecFits, Deciding
    <2>3. JobFits("try", job[r]) /\ AttemptFits(r, "try", job[r]) /\ "try" \in Phase \ AttemptPhase
        BY DEF JobFits, AttemptFits, Phase, SyncPhase, RecPhase, AttemptPhase
    <2>4. SetPc(r, "try") /\ UNCHANGED job
        BY <1>3, <1>5 DEF SetPc, Consistent, TypeOK, WorkersTypeOK
    <2> HIDE DEF c
    <2> QED
        BY <1>1, <1>2, <2>2, <2>3, <2>4, AdvanceOnce DEF shared, database, bitrix, handlers, c
<1>6. CASE id \notin LinkedIds
    <2> DEFINE j == [job[r] EXCEPT !.id = id]
    <2>1. id \in Nat
        BY <1>1, <1>4, SendFacts, TimelineFacts
    <2>2. j \in Job /\ j.cm = c /\ j.id = id
        BY <1>1, <2>1 DEF Job
    <2>3. job' = [job EXCEPT ![r] = j]
        BY <1>1, <1>3, <1>6 DEF Consistent, TypeOK, WorkersTypeOK
    <2>4. RecFits("adopt", j, found')
        BY <1>2, <1>4, <2>2 DEF RecFits, Deciding
    <2>5. JobFits("adopt", j) /\ AttemptFits(r, "adopt", j) /\ "adopt" \in Phase \ AttemptPhase
        BY DEF JobFits, AttemptFits, Phase, SyncPhase, RecPhase, AttemptPhase
    <2> HIDE DEF j, c
    <2> QED
        BY <1>1, <1>2, <1>3, <1>6, <2>2, <2>3, <2>4, <2>5, MoveOnce DEF shared, database, bitrix, handlers
<1> QED
    BY <1>5, <1>6

LEMMA ReconcileNothingFoundOnce ==
    ASSUME Consistent, Consistent', OnceOK, ReconcileNothingFound
    PROVE  OnceOK'
<1> USE DEF ReconcileNothingFound
<1> DEFINE r == Reconciler
<1>1. r \in Worker /\ RecFits("try", job[r], found) /\ Settled(job[r].cm)
    BY RecFacts, WorkerFacts DEF Deciding
<1>2. RecFits("absent", job[r], found')
    BY <1>1 DEF RecFits, Deciding
<1>3. JobFits("absent", job[r]) /\ AttemptFits(r, "absent", job[r]) /\ "absent" \in Phase \ AttemptPhase
    BY DEF JobFits, AttemptFits, Phase, SyncPhase, RecPhase, AttemptPhase
<1> QED
    BY <1>1, <1>2, <1>3, AdvanceOnce DEF shared, database, bitrix, handlers

LEMMA ReconcileResendOnce ==
    ASSUME Consistent, Consistent', OnceOK, ReconcileResend
    PROVE  OnceOK'
<1> USE DEF ReconcileResend
<1> DEFINE r == Reconciler
<1>1. r \in Worker /\ job[r].cm \in Comment
    BY RecFacts, JobFacts
<1>2. PICK t \in TextsOf[job[r].cm] :
          job' = [job EXCEPT ![r] = [NoJob EXCEPT !.cm = job[r].cm, !.txt = t]]
    OBVIOUS
<1> DEFINE j == [NoJob EXCEPT !.cm = job[r].cm, !.txt = t]
<1>3. t \in Text
    BY <1>1, SetsAssumption
<1>4. j \in Job /\ j.cm = job[r].cm /\ j.txt = t /\ j.id = 0
    BY <1>1, <1>3, FreshJob DEF NoJob
<1>5. JobFits("link", j)
    BY <1>4 DEF JobFits
<1>6. "link" \in Phase \ (AttemptPhase \cup Deciding)
    BY DEF Phase, SyncPhase, AttemptPhase, Deciding
<1> HIDE DEF j
<1> QED
    BY <1>1, <1>2, <1>4, <1>5, <1>6, MoveOnce, CalmPhase DEF shared, database, bitrix, handlers, j

\* The send the reconciler wants to adopt is confirmed already.
LEMMA ReconcileStandsOnce ==
    ASSUME Consistent, Consistent', OnceOK, pc[Reconciler] = "adopt",
           SetPc(Reconciler, "finalize"), UNCHANGED <<job, found, shared>>
    PROVE  OnceOK'
<1>1. JobFits("finalize", job[Reconciler]) /\ "finalize" \in Phase \ (AttemptPhase \cup Deciding)
    BY DEF JobFits, Phase, SyncPhase, RecPhase, AttemptPhase, Deciding
<1> QED
    BY <1>1, RecFacts, AdvanceOnce, CalmPhase

-----------------------------------------------------------------------------
(* Steps that change what the journal says of one comment.                 *)

rest == <<link, foreign, imported, timeline, wire, hpc, hjob>>

\* The flag that defers the preview concerns nobody.
LEMMA FlagOnce ==
    ASSUME Consistent, Consistent', OnceOK, NEW w \in Worker, pc[w] # "idle", NEW b \in BOOLEAN,
           send' = [send EXCEPT ![job[w].cm].fin = b], Finish(w), UNCHANGED <<found, rest>>
    PROVE  OnceOK'
<1>1. \A d \in Comment : /\ send'[d].status = send[d].status /\ send'[d].fp = send[d].fp
                         /\ send'[d].wm = send[d].wm /\ send'[d].born = send[d].born
    BY SendFacts DEF SendState, Consistent, TypeOK, DatabaseTypeOK
<1>2. \A v \in Worker : pc[v] # "idle" => job[v].cm \in Comment
    BY JobFacts
<1>3. \A v \in Worker : wire[v] # NoRequest => wire[v].cm \in Comment
    BY DEF Consistent, WireOK
<1>4. TimelineOK' /\ WiresOK'
    BY <1>1, <1>3 DEF rest, OnceOK, TimelineOK, MayRead, OwnCopies, WiresOK, WireFits
<1>5. SendsOK'
    BY <1>1 DEF rest, OnceOK, SendsOK, SendFits, OwnCopies
<1>6. HooksFit'
    BY <1>1 DEF rest, OnceOK, HooksFit, HookFits, MayRead
<1>7. pc' = [pc EXCEPT ![w] = "idle"] /\ job' = [job EXCEPT ![w] = NoJob] /\ NoJob \in Job
    BY JobFacts, NumbersAssumption DEF Finish, SetPc, NoJob, Job
<1>8. ASSUME NEW v \in Worker \ {w} PROVE AttemptFits(v, pc[v], job[v])' /\ JobFits(pc[v], job[v])'
    <2>1. pc'[v] = pc[v] /\ job'[v] = job[v] /\ pc[v] \in Phase
        BY <1>7, JobFacts DEF Consistent, TypeOK, WorkersTypeOK
    <2>2. AttemptFits(v, pc[v], job[v]) /\ JobFits(pc[v], job[v])
        BY WorkerFacts
    <2>3. pc[v] \in AttemptPhase => pc[v] # "idle"
        BY DEF AttemptPhase
    <2>4. AttemptFits(v, pc[v], job[v])'
        BY <1>1, <1>2, <2>1, <2>2, <2>3 DEF rest, AttemptFits, OwnCopies
    <2>5. JobFits(pc[v], job[v])'
        BY <2>1, <2>2 DEF rest, JobFits
    <2> QED
        BY <2>4, <2>5
<1>9. w # Reconciler => RecOK'
    <2> SUFFICES ASSUME w # Reconciler PROVE RecOK'
        OBVIOUS
    <2>1. pc'[Reconciler] = pc[Reconciler] /\ job'[Reconciler] = job[Reconciler]
        BY <1>7, RecFacts DEF Consistent, TypeOK, WorkersTypeOK
    <2>2. pc[Reconciler] \in Deciding => job[Reconciler].cm \in Comment
        BY <1>2, RecFacts DEF Deciding
    <2> QED
        BY <1>1, <2>1, <2>2 DEF rest, OnceOK, RecOK, RecFits, Quiet, OwnCopies
<1>10. "idle" \in Phase \ (AttemptPhase \cup Deciding)
    BY DEF Phase, AttemptPhase, Deciding
<1>11. AttemptFits(w, "idle", NoJob)' /\ JobFits("idle", NoJob)' /\ RecFits("idle", NoJob, found)'
    BY <1>10, PhaseFacts DEF AttemptFits, JobFits, RecFits, NoJob
<1> QED
    BY <1>4, <1>5, <1>6, <1>7, <1>8, <1>9, <1>10, <1>11, StepKeeps DEF SetPc

\* The send of c changes: nobody else may rely on what it was.
LEMMA SendMoveOnce ==
    ASSUME Consistent, Consistent', OnceOK, UNCHANGED <<found, rest>>,
           NEW w \in Worker, NEW p \in Phase, NEW j \in Job, NEW c \in Comment,
           SetPc(w, p), job' = [job EXCEPT ![w] = j],
           \A d \in Comment \ {c} : send'[d] = send[d],
           SendFits(c)',
           Quiet(c) \/ (send'[c].status \in Open /\ send'[c].fp = send[c].fp),
           \A v \in Worker \ {w} : pc[v] \in AttemptPhase /\ job[v].cm = c =>
               send'[c].status = "confirmed" /\ OwnCopies(c) # {},
           send'[c].status \in Open =>
               OwnCopies(c) = {} \/ (send[c].status \in Open /\ send'[c].fp = send[c].fp),
           w # Reconciler /\ pc[Reconciler] \in Deciding /\ job[Reconciler].cm = c =>
               send'[c].status = "confirmed",
           p \in AttemptPhase => \/ pc[w] \in AttemptPhase /\ j.cm = job[w].cm
                                 \/ send[j.cm].status \in {"none", "rejected"},
           AttemptFits(w, p, j)', JobFits(p, j),
           w = Reconciler => RecFits(p, j, found)' /\ (p \in Deciding => Settled(j.cm))
    PROVE  OnceOK'
<1>1. \A v \in Worker : pc[v] # "idle" => job[v].cm \in Comment
    BY JobFacts
<1>2. \A v \in Worker : wire[v] # NoRequest => wire[v].cm \in Comment
    BY DEF Consistent, WireOK
<1>3. \A d \in Comment : OwnCopies(d)' = OwnCopies(d)
    BY DEF rest, OwnCopies
<1>4. TimelineOK'
    BY DEF rest, OnceOK, TimelineOK, MayRead
<1>5. SendsOK'
    <2> SUFFICES ASSUME NEW d \in Comment \ {c} PROVE SendFits(d)'
        BY DEF SendsOK
    <2>1. SendFits(d) /\ send'[d] = send[d]
        BY DEF OnceOK, SendsOK
    <2> QED
        BY <2>1 DEF rest, SendFits, OwnCopies
<1>6. WiresOK'
    <2> SUFFICES ASSUME NEW v \in Worker, wire[v] # NoRequest PROVE WireFits(v)'
        BY DEF WiresOK, WireFits, rest
    <2>1. WireFits(v) /\ wire[v].cm \in Comment
        BY <1>2 DEF OnceOK, WiresOK
    <2>2. CASE wire[v].cm = c
        BY <2>1, <2>2, <1>3 DEF WireFits, Quiet, rest
    <2>3. CASE wire[v].cm # c
        BY <2>1, <2>3, <1>3 DEF WireFits, rest
    <2> QED
        BY <2>2, <2>3
<1>7. HooksFit'
    <2> SUFFICES ASSUME NEW h \in Handler, hpc[h] # "idle" PROVE HookFits(hpc[h], hjob[h])'
        BY DEF HooksFit, HookFits, rest
    <2>1. HookFits(hpc[h], hjob[h])
        BY DEF OnceOK, HooksFit
    <2> DEFINE d == timeline[hjob[h].id].src
    <2>2. hjob[h].id \in DOMAIN timeline /\ MayRead(hjob[h].id, hjob[h].txt)
        BY <2>1 DEF HookFits
    <2>3. d \in Comment => hjob[h].id \in OwnCopies(d)
        BY <2>2 DEF OwnCopies
    <2>4. d \in Comment /\ send'[d].status \in Open => hjob[h].txt = send'[d].fp
        BY <2>1, <2>3 DEF HookFits
    <2> QED
        BY <2>1, <2>2, <2>4 DEF HookFits, MayRead, rest
<1>8. ASSUME NEW v \in Worker \ {w} PROVE AttemptFits(v, pc[v], job[v])' /\ JobFits(pc[v], job[v])'
    <2>1. pc'[v] = pc[v] /\ job'[v] = job[v] /\ pc[v] \in Phase
        BY JobFacts DEF SetPc, Consistent, TypeOK, WorkersTypeOK
    <2>2. AttemptFits(v, pc[v], job[v]) /\ JobFits(pc[v], job[v]) /\ WireFits(v)
        BY WorkerFacts
    <2>3. pc[v] \in AttemptPhase => pc[v] # "idle"
        BY DEF AttemptPhase
    <2>4. JobFits(pc[v], job[v])'
        BY <2>1, <2>2 DEF rest, JobFits
    <2>5. CASE job[v].cm = c
        BY <1>3, <2>1, <2>2, <2>4, <2>5 DEF rest, AttemptFits, WireFits
    <2>6. CASE job[v].cm # c
        BY <1>1, <1>3, <2>1, <2>2, <2>3, <2>4, <2>6 DEF rest, AttemptFits
    <2> QED
        BY <2>5, <2>6
<1>9. JobFits(p, j)'
    BY DEF rest, JobFits
<1>10. w # Reconciler => RecOK'
    <2> SUFFICES ASSUME w # Reconciler PROVE RecOK'
        OBVIOUS
    <2>1. pc'[Reconciler] = pc[Reconciler] /\ job'[Reconciler] = job[Reconciler]
        BY RecFacts DEF SetPc, Consistent, TypeOK, WorkersTypeOK
    <2>2. pc[Reconciler] \in Deciding => job[Reconciler].cm \in Comment
        BY <1>1, RecFacts DEF Deciding
    <2>3. RecFits(pc[Reconciler], job[Reconciler], found)
        BY DEF OnceOK, RecOK
    <2>4. CASE job[Reconciler].cm = c
        BY <1>3, <2>1, <2>3, <2>4 DEF rest, RecOK, RecFits, Quiet, Open
    <2>5. CASE job[Reconciler].cm # c
        BY <1>3, <2>1, <2>2, <2>3, <2>5 DEF rest, RecOK, RecFits, Quiet
    <2> QED
        BY <2>4, <2>5
<1> QED
    BY <1>4, <1>5, <1>6, <1>7, <1>8, <1>9, <1>10, StepKeeps

LEMMA CalmPhaseNext ==
    ASSUME NEW w, NEW p, NEW j, p \notin AttemptPhase, p \notin Deciding
    PROVE  AttemptFits(w, p, j)' /\ RecFits(p, j, found)'
BY DEF AttemptFits, RecFits

LEMMA IdleFacts ==
    /\ NoJob \in Job /\ NoJob.id = 0 /\ JobFits("idle", NoJob)
    /\ "idle" \in Phase \ (AttemptPhase \cup Deciding)
<1>1. NoJob \in Job /\ NoJob.id = 0
    BY NumbersAssumption DEF NoJob, Job
<1>2. "idle" \in Phase \ (AttemptPhase \cup Deciding)
    BY DEF Phase, AttemptPhase, Deciding
<1> QED
    BY <1>1, <1>2, PhaseFacts DEF JobFits

\* The status of c changes while the rest of its send stays.
LEMMA TransitionFacts ==
    ASSUME Consistent, NEW c \in Comment, NEW from, NEW to, Transition(c, from, to)
    PROVE  /\ \A d \in Comment \ {c} : send'[d] = send[d]
           /\ send'[c].fp = send[c].fp /\ send'[c].wm = send[c].wm /\ send'[c].born = send[c].born
           /\ send'[c].status = IF send[c].status \in from THEN to ELSE send[c].status
BY DEF Transition, Consistent, TypeOK, DatabaseTypeOK, SendState

\* A send that is not open has no request on the wire.
LEMMA QuietFacts ==
    ASSUME Consistent, OnceOK, NEW c \in Comment, send[c].status \notin Open PROVE Quiet(c)
<1> SUFFICES ASSUME NEW w \in Worker, wire[w].cm = c PROVE FALSE
    BY DEF Quiet
<1>1. wire[w] # NoRequest
    BY SetsAssumption DEF NoRequest
<1> QED
    BY <1>1 DEF OnceOK, WiresOK, WireFits

\* Nobody attempts c, no request for it is on the wire and the reconciler is elsewhere.
LEMMA Untouched ==
    ASSUME Consistent, OnceOK, NEW c \in Comment, send[c].status \in {"none", "rejected"}
    PROVE  /\ Quiet(c) /\ Settled(c)
           /\ ~(pc[Reconciler] \in Deciding /\ job[Reconciler].cm = c)
           /\ OwnCopies(c) = {} /\ link[c] = 0
<1>1. Quiet(c)
    BY QuietFacts DEF Open
<1>2. Settled(c)
    BY DEF Settled, OnceOK, AttemptsOK, AttemptFits
<1>3. ~(pc[Reconciler] \in Deciding /\ job[Reconciler].cm = c)
    BY DEF OnceOK, RecOK, RecFits, Open
<1>4. OwnCopies(c) = {} /\ link[c] = 0
    BY SendFacts DEF OnceOK, SendsOK, SendFits
<1> QED
    BY <1>1, <1>2, <1>3, <1>4

\* The worker that claims the send knows a text of the comment and a watermark.
LEMMA ClaimOnce ==
    ASSUME Consistent, Consistent', OnceOK, NEW w \in Worker, pc[w] = "claim",
           send[job[w].cm].status \in {"none", "rejected"},
           \A d \in Comment \ {job[w].cm} : send'[d] = send[d],
           send'[job[w].cm].status = "sending", send'[job[w].cm].fp = job[w].txt,
           send'[job[w].cm].wm <= send'[job[w].cm].born,
           Orphans <= send'[job[w].cm].born, send'[job[w].cm].born <= Len(timeline),
           SetPc(w, "post"), UNCHANGED <<job, found, rest>>
    PROVE  OnceOK'
<1>0. PICK c \in Comment, k \in Job : c = job[w].cm /\ k = job[w]
    BY JobFacts
<1>1. job' = [job EXCEPT ![w] = k] /\ job'[w] = k
    BY <1>0, JobFacts DEF Consistent, TypeOK, WorkersTypeOK
<1>2. /\ Quiet(c) /\ Settled(c) /\ OwnCopies(c) = {} /\ link[c] = 0
      /\ ~(pc[Reconciler] \in Deciding /\ job[Reconciler].cm = c)
    BY <1>0, Untouched
<1>3. k.txt \in TextsOf[c] /\ k.id = 0 /\ JobFits("post", k)
    BY <1>0, WorkerFacts DEF JobFits, SyncPhase, AttemptPhase
<1>4. OwnCopies(c)' = {}
    BY <1>2 DEF rest, OwnCopies
<1>5. SendFits(c)'
    BY <1>0, <1>2, <1>3, <1>4 DEF SendFits, rest, Open
<1>6. AttemptFits(w, "post", k)'
    BY <1>0, <1>2, <1>3, <1>4 DEF AttemptFits, Quiet, rest
<1>7. "post" \in Phase /\ "post" \notin Deciding
    BY DEF Phase, SyncPhase, AttemptPhase, Deciding
<1>8. RecFits("post", k, found)'
    BY <1>7 DEF RecFits
<1>9. \A v \in Worker \ {w} : ~(pc[v] \in AttemptPhase /\ job[v].cm = c)
    BY <1>2 DEF Settled
<1> QED
    <2>1. UNCHANGED <<found, rest>> /\ SetPc(w, "post")
        OBVIOUS
    <2>2. send[k.cm].status \in {"none", "rejected"}
        BY <1>0
    <2>3. \A d \in Comment \ {c} : send'[d] = send[d]
        BY <1>0
    <2> QED
        BY ONLY Consistent, Consistent', OnceOK, w \in Worker, <1>0, <1>1, <1>2, <1>3,
           <1>5, <1>6, <1>7, <1>8, <1>9, <2>1, <2>2, <2>3, SendMoveOnce

LEMMA ClaimNewOnce ==
    ASSUME Consistent, Consistent', OnceOK, NEW w \in Worker, ClaimNew(w)
    PROVE  OnceOK'
<1> USE DEF ClaimNew
<1> DEFINE c == job[w].cm
<1>1. c \in Comment
    BY JobFacts
<1>2. send' = [send EXCEPT ![c] = [status |-> "sending", attempts |-> 1,
                                   fp |-> job[w].txt, b24 |-> 0, wm |-> job[w].wm,
                                   born |-> Len(timeline), fin |-> FALSE]]
    OBVIOUS
<1>3. /\ \A d \in Comment \ {c} : send'[d] = send[d]
      /\ send'[c].status = "sending" /\ send'[c].fp = job[w].txt
      /\ send'[c].wm = job[w].wm /\ send'[c].born = Len(timeline)
    BY <1>1, <1>2 DEF Consistent, TypeOK, DatabaseTypeOK
<1>4. job[w].wm <= Len(timeline) /\ Orphans <= Len(timeline) /\ Len(timeline) \in Nat
    BY WorkerFacts, TimelineFacts DEF JobFits, OnceOK, TimelineOK
<1> QED
    BY <1>3, <1>4, ClaimOnce DEF rest, bitrix, handlers

LEMMA ClaimRejectedOnce ==
    ASSUME Consistent, Consistent', OnceOK, NEW w \in Worker, ClaimRejected(w)
    PROVE  OnceOK'
<1> USE DEF ClaimRejected
<1> DEFINE c == job[w].cm
<1>1. c \in Comment
    BY JobFacts
<1>2. /\ \A d \in Comment \ {c} : send'[d] = send[d]
      /\ send'[c].status = "sending" /\ send'[c].fp = job[w].txt
      /\ send'[c].wm = send[c].wm /\ send'[c].born = send[c].born
    BY <1>1 DEF Consistent, TypeOK, DatabaseTypeOK, SendState
<1>3. /\ send[c].wm <= send[c].born /\ Orphans <= send[c].born
      /\ send[c].born <= Len(timeline)
    BY <1>1 DEF OnceOK, SendsOK, SendFits
<1> QED
    BY <1>2, <1>3, ClaimOnce DEF rest, bitrix, handlers

\* A send that is settled has no other worker and no decision of the reconciler.
LEMMA AloneFacts ==
    ASSUME Consistent, OnceOK, NEW w \in Worker, pc[w] \in AttemptPhase
    PROVE  /\ \A v \in Worker \ {w} : ~(pc[v] \in AttemptPhase /\ job[v].cm = job[w].cm)
           /\ ~(pc[Reconciler] \in Deciding /\ job[Reconciler].cm = job[w].cm)
BY DEF OnceOK, OneAttempt, RecAlone, Settled

\* The refused attempt has left nothing behind.
LEMMA SettleRefusedOnce ==
    ASSUME Consistent, Consistent', OnceOK, NEW w \in Worker, SettleRefused(w)
    PROVE  OnceOK'
<1> USE DEF SettleRefused
<1>0. PICK c \in Comment : c = job[w].cm
    BY JobFacts
<1>1. pc[w] \in AttemptPhase
    BY DEF AttemptPhase
<1>2. OwnCopies(c) = {} /\ Quiet(c) /\ SendFits(c) /\ link[c] = 0
    BY <1>0, <1>1, WorkerFacts, SendFacts DEF AttemptFits, Quiet, SendFits
<1>3. /\ \A d \in Comment \ {c} : send'[d] = send[d]
      /\ send'[c].fp = send[c].fp /\ send'[c].wm = send[c].wm /\ send'[c].born = send[c].born
      /\ send'[c].status = IF send[c].status = "sending" THEN "rejected" ELSE send[c].status
    BY <1>0, <1>1, TransitionFacts
<1>4. OwnCopies(c)' = {}
    BY <1>0, <1>2 DEF rest, bitrix, OwnCopies
<1>5. SendFits(c)'
    BY <1>0, <1>2, <1>3, <1>4 DEF SendFits, bitrix, Open
<1>6. /\ \A v \in Worker \ {w} : ~(pc[v] \in AttemptPhase /\ job[v].cm = c)
      /\ ~(pc[Reconciler] \in Deciding /\ job[Reconciler].cm = c)
    BY <1>0, <1>1, AloneFacts
<1> QED
    BY <1>0, <1>1, <1>2, <1>3, <1>5, <1>6, IdleFacts, CalmPhaseNext, SendMoveOnce
    DEF rest, bitrix, handlers, Finish

LEMMA SettleUnknownOnce ==
    ASSUME Consistent, Consistent', OnceOK, NEW w \in Worker, SettleUnknown(w)
    PROVE  OnceOK'
<1> USE DEF SettleUnknown
<1>0. PICK c \in Comment : c = job[w].cm
    BY JobFacts
<1>1. pc[w] \in AttemptPhase
    BY DEF AttemptPhase
<1>2. SendFits(c) /\ send[c].status \in {"sending", "confirmed"}
    BY <1>0, <1>1, WorkerFacts DEF AttemptFits
<1>3. /\ \A d \in Comment \ {c} : send'[d] = send[d]
      /\ send'[c].fp = send[c].fp /\ send'[c].wm = send[c].wm /\ send'[c].born = send[c].born
      /\ send'[c].status = IF send[c].status = "sending" THEN "ambiguous" ELSE send[c].status
    BY <1>0, <1>1, TransitionFacts
<1>4. OwnCopies(c)' = OwnCopies(c)
    BY DEF bitrix, OwnCopies
<1>5. SendFits(c)'
    BY <1>0, <1>2, <1>3, <1>4 DEF SendFits, bitrix, Open
<1>6. /\ \A v \in Worker \ {w} : ~(pc[v] \in AttemptPhase /\ job[v].cm = c)
      /\ ~(pc[Reconciler] \in Deciding /\ job[Reconciler].cm = c)
    BY <1>0, <1>1, AloneFacts
<1>7. Quiet(c) \/ (send'[c].status \in Open /\ send'[c].fp = send[c].fp)
    <2>1. CASE send[c].status = "sending"
        BY <1>3, <2>1 DEF Open
    <2>2. CASE send[c].status = "confirmed"
        BY <1>0, <2>2, QuietFacts DEF Open
    <2> QED
        BY <1>0, <1>2, <2>1, <2>2
<1>8. send'[c].status \in Open =>
          OwnCopies(c) = {} \/ (send[c].status \in Open /\ send'[c].fp = send[c].fp)
    BY <1>0, <1>2, <1>3 DEF Open
<1> QED
    BY <1>0, <1>1, <1>3, <1>5, <1>6, <1>7, <1>8, IdleFacts, CalmPhaseNext, SendMoveOnce
    DEF rest, bitrix, handlers, Finish

LEMMA PreviewDeferredOnce ==
    ASSUME Consistent, Consistent', OnceOK, NEW w \in Worker, PreviewDeferred(w)
    PROVE  OnceOK'
BY FlagOnce DEF PreviewDeferred, rest, bitrix, handlers

LEMMA FinalizeClearOnce ==
    ASSUME Consistent, Consistent', OnceOK, FinalizeClear
    PROVE  OnceOK'
BY FlagOnce, RecFacts DEF FinalizeClear, rest, bitrix, handlers

\* The comment is linked: its send is no longer open, and its copy is in the timeline.
LEMMA LinkedFacts ==
    ASSUME Consistent, OnceOK, NEW c \in Comment, link[c] # 0
    PROVE  send[c].status = "confirmed" /\ link[c] \in OwnCopies(c) /\ Quiet(c)
<1>1. send[c].status = "confirmed" /\ link[c] \in OwnCopies(c)
    BY SendFacts DEF OnceOK, SendsOK, SendFits
<1>2. Quiet(c)
    BY <1>1, QuietFacts DEF Open
<1> QED
    BY <1>1, <1>2

LEMMA RefreshOnce ==
    ASSUME Consistent, Consistent', OnceOK, NEW w \in Worker, Refresh(w)
    PROVE  OnceOK'
<1> USE DEF Refresh
<1>0. PICK c \in Comment, k \in Job : c = job[w].cm /\ k = job[w]
    BY JobFacts
<1>1. job' = [job EXCEPT ![w] = k] /\ job'[w] = k
    BY <1>0 DEF Consistent, TypeOK, WorkersTypeOK
<1>2. link[c] # 0 /\ JobFits("rewrite", k) /\ SendFits(c)
    BY <1>0, WorkerFacts DEF JobFits, SyncPhase, AttemptPhase
<1>3. send[c].status = "confirmed" /\ OwnCopies(c) # {} /\ Quiet(c)
    BY <1>0, <1>1, <1>2, LinkedFacts
<1>4. /\ \A d \in Comment \ {c} : send'[d] = send[d]
      /\ send'[c].status = send[c].status
      /\ send'[c].wm = send[c].wm /\ send'[c].born = send[c].born
    BY <1>0, <1>1 DEF Consistent, TypeOK, DatabaseTypeOK, SendState
<1>5. OwnCopies(c)' = OwnCopies(c)
    BY DEF bitrix, OwnCopies
<1>6. SendFits(c)'
    BY <1>0, <1>2, <1>3, <1>4, <1>5 DEF SendFits, bitrix, Open
<1>7. "rewrite" \in Phase \ (AttemptPhase \cup Deciding)
    BY DEF Phase, SyncPhase, AttemptPhase, Deciding
<1>8. send'[c].status \notin Open
    BY <1>3, <1>4 DEF Open
<1> QED
    <2>1. UNCHANGED <<found, rest>> /\ SetPc(w, "rewrite")
        BY DEF rest, bitrix, handlers
    <2>2. AttemptFits(w, "rewrite", k)' /\ RecFits("rewrite", k, found)'
        BY <1>7, CalmPhaseNext
    <2>3. send'[c].status = "confirmed" /\ "rewrite" \in Phase
        BY <1>3, <1>4, <1>7
    <2> QED
        BY ONLY Consistent, Consistent', OnceOK, w \in Worker, <1>0, <1>1, <1>2, <1>3, <1>4,
           <1>6, <1>7, <1>8, <2>1, <2>2, <2>3, SendMoveOnce

\* Nobody else works on the send that the reconciler decides about.
LEMMA DecidingFacts ==
    ASSUME Consistent, OnceOK, pc[Reconciler] \in Deciding
    PROVE  LET c == job[Reconciler].cm IN
           /\ c \in Comment /\ SendFits(c) /\ Quiet(c) /\ Settled(c)
           /\ RecFits(pc[Reconciler], job[Reconciler], found)
           /\ \A v \in Worker \ {Reconciler} : ~(pc[v] \in AttemptPhase /\ job[v].cm = c)
<1>1. pc[Reconciler] # "idle" /\ Reconciler \in Worker
    BY RecFacts DEF Deciding
<1>2. job[Reconciler].cm \in Comment
    BY <1>1, JobFacts
<1> QED
    BY <1>2 DEF OnceOK, RecOK, RecFits, RecAlone, Settled, SendsOK

LEMMA ReconcileDemoteOnce ==
    ASSUME Consistent, Consistent', OnceOK, ReconcileDemote
    PROVE  OnceOK'
<1> USE DEF ReconcileDemote
<1> DEFINE r == Reconciler
<1>0. PICK c \in Comment, k \in Job : c = job[r].cm /\ k = job[r]
    BY DecidingFacts, JobFacts, RecFacts DEF Deciding
<1>1. r \in Worker /\ job[r] \in Job /\ job' \in [Worker -> Job] /\ job \in [Worker -> Job]
    BY RecFacts, JobFacts DEF Consistent, TypeOK, WorkersTypeOK
<1>2. /\ c \in Comment /\ SendFits(c) /\ Quiet(c) /\ Settled(c)
      /\ RecFits("demote", job[r], found)
      /\ \A v \in Worker \ {r} : ~(pc[v] \in AttemptPhase /\ job[v].cm = c)
    BY <1>0, DecidingFacts DEF Deciding
<1>3. /\ \A d \in Comment \ {c} : send'[d] = send[d]
      /\ send'[c].fp = send[c].fp /\ send'[c].wm = send[c].wm /\ send'[c].born = send[c].born
      /\ send'[c].status = IF send[c].status = "sending" THEN "ambiguous" ELSE send[c].status
    BY <1>0, <1>2, TransitionFacts
<1>4. CASE send[c].status = "sending"
    <2>1. OwnCopies(c)' = OwnCopies(c)
        BY DEF bitrix, OwnCopies
    <2>2. SendFits(c)'
        BY <1>0, <1>2, <1>3, <1>4, <2>1 DEF SendFits, bitrix, Open
    <2>3. RecFits("list", job[r], found)'
        BY <1>0, <1>2, <1>3, <1>4 DEF RecFits, Deciding, Open, Quiet, bitrix
    <2>4. "list" \in Phase \ AttemptPhase /\ JobFits("list", k) /\ AttemptFits(r, "list", k)'
        BY DEF Phase, SyncPhase, RecPhase, AttemptPhase, JobFits, AttemptFits
    <2>5. job' = [job EXCEPT ![r] = k] /\ job'[r] = k /\ SetPc(r, "list")
        BY <1>0, <1>1, <1>4
    <2>6. send'[c].status \in Open /\ send[c].status \in Open
        BY <1>3, <1>4 DEF Open
    <2> QED
        BY <1>0, <1>1, <1>2, <1>3, <2>2, <2>3, <2>4, <2>5, <2>6, SendMoveOnce
        DEF rest, bitrix, handlers
<1>5. CASE send[c].status # "sending"
    <2>1. send' = send
        BY <1>0, <1>5 DEF Transition
    <2> QED
        BY <1>0, <1>1, <1>5, <2>1, FinishOnce DEF shared, bitrix, handlers
<1> QED
    BY <1>4, <1>5

\* The send is absent: no copy of it is there, and none can come any more.
LEMMA ReconcileAbsentOnce ==
    ASSUME Consistent, Consistent', OnceOK, ReconcileAbsent
    PROVE  OnceOK'
<1> USE DEF ReconcileAbsent
<1> DEFINE r == Reconciler
<1>0. PICK c \in Comment, k \in Job : c = job[r].cm /\ k = job[r]
    BY DecidingFacts, JobFacts, RecFacts DEF Deciding
<1>1. r \in Worker /\ job[r] \in Job /\ job' \in [Worker -> Job] /\ job \in [Worker -> Job]
    BY RecFacts, JobFacts DEF Consistent, TypeOK, WorkersTypeOK
<1>2. /\ c \in Comment /\ SendFits(c) /\ Quiet(c) /\ Settled(c)
      /\ RecFits("absent", job[r], found)
      /\ \A v \in Worker \ {r} : ~(pc[v] \in AttemptPhase /\ job[v].cm = c)
    BY <1>0, DecidingFacts DEF Deciding
<1>3. /\ \A d \in Comment \ {c} : send'[d] = send[d]
      /\ send'[c].fp = send[c].fp /\ send'[c].wm = send[c].wm /\ send'[c].born = send[c].born
      /\ send'[c].status = IF send[c].status \in Open THEN "rejected" ELSE send[c].status
    BY <1>0, <1>2, TransitionFacts
<1>4. CASE send[c].status \in Open
    <2>1. OwnCopies(c) = {} /\ OwnCopies(c)' = {}
        BY <1>0, <1>2, <1>4 DEF RecFits, Deciding, bitrix, OwnCopies
    <2>2. SendFits(c)'
        BY <1>0, <1>2, <1>3, <1>4, <2>1 DEF SendFits, bitrix, Open
    <2>3. "resend" \in Phase \ (AttemptPhase \cup Deciding) /\ JobFits("resend", k)
        BY DEF Phase, SyncPhase, RecPhase, AttemptPhase, JobFits, Deciding
    <2>4. job' = [job EXCEPT ![r] = k] /\ job'[r] = k /\ SetPc(r, "resend")
        BY <1>0, <1>1, <1>4
    <2> QED
        BY <1>0, <1>1, <1>2, <1>3, <2>1, <2>2, <2>3, <2>4, CalmPhaseNext, SendMoveOnce
        DEF rest, bitrix, handlers
<1>5. CASE send[c].status \notin Open
    <2>1. send' = send
        BY <1>0, <1>5 DEF Transition
    <2> QED
        BY <1>0, <1>1, <1>5, <2>1, FinishOnce DEF shared, bitrix, handlers
<1> QED
    BY <1>4, <1>5

-----------------------------------------------------------------------------
(* The confirmation of a copy.                                             *)

LEMMA StoreFrame ==
    ASSUME Consistent, OnceOK, NEW c \in Comment, NEW id \in OwnCopies(c), NEW b \in BOOLEAN,
           ConfirmStores(c, id, b), UNCHANGED <<foreign, imported, timeline, wire>>
    PROVE  /\ TimelineOK' /\ SendsOK' /\ WiresOK' /\ link'[c] = id
           /\ \A w \in Worker, p \in Phase, j \in Job :
                 (p # "idle" => j.cm \in Comment) =>
                     /\ AttemptFits(w, p, j) => AttemptFits(w, p, j)'
                     /\ JobFits(p, j) => JobFits(p, j)'
                     /\ \A f : RecFits(p, j, f) => RecFits(p, j, f)'
           /\ \A p \in HPhase, j \in HJob : HookFits(p, j) => HookFits(p, j)'
<1>1. /\ \A d \in Comment \ {c} : send'[d] = send[d] /\ link'[d] = link[d]
      /\ send'[c].status = "confirmed" /\ link'[c] = id
      /\ send'[c].fp = send[c].fp /\ send'[c].wm = send[c].wm /\ send'[c].born = send[c].born
    BY DEF ConfirmStores, Consistent, TypeOK, DatabaseTypeOK, SendState
<1>2. link[c] = 0 /\ send[c].status # "confirmed"
    BY SendFacts DEF ConfirmStores
<1>3. \A d \in Comment : OwnCopies(d)' = OwnCopies(d)
    BY DEF OwnCopies
<1>4. TimelineOK'
    BY DEF OnceOK, TimelineOK, MayRead
<1>5. SendsOK'
    <2> SUFFICES ASSUME NEW d \in Comment PROVE SendFits(d)'
        BY DEF SendsOK
    <2>1. SendFits(d)
        BY DEF OnceOK, SendsOK
    <2>2. CASE d = c
        BY <1>1, <1>2, <1>3, <2>1, <2>2 DEF SendFits, Open
    <2>3. CASE d # c
        BY <1>1, <1>3, <2>1, <2>3 DEF SendFits
    <2> QED
        BY <2>2, <2>3
<1>6. WiresOK'
    <2> SUFFICES ASSUME NEW v \in Worker, wire[v] # NoRequest PROVE WireFits(v)'
        BY DEF WiresOK, WireFits
    <2>1. WireFits(v) /\ wire[v].cm \in Comment
        BY DEF OnceOK, WiresOK, Consistent, WireOK
    <2>2. wire[v].cm # c
        BY <2>1 DEF WireFits
    <2> QED
        BY <1>1, <1>3, <2>1, <2>2 DEF WireFits
<1>7. ASSUME NEW w \in Worker, NEW p \in Phase, NEW j \in Job, p # "idle" => j.cm \in Comment
      PROVE  /\ AttemptFits(w, p, j) => AttemptFits(w, p, j)'
             /\ JobFits(p, j) => JobFits(p, j)'
             /\ \A f : RecFits(p, j, f) => RecFits(p, j, f)'
    <2>1. p = "idle" => p \notin AttemptPhase \cup Deciding
        BY DEF AttemptPhase, Deciding
    <2>2. AttemptFits(w, p, j) => AttemptFits(w, p, j)'
        BY <1>1, <1>3, <1>7, <2>1 DEF AttemptFits
    <2>3. JobFits(p, j) => JobFits(p, j)'
        BY <1>1, <1>2, <1>7 DEF JobFits
    <2>4. ASSUME NEW f PROVE RecFits(p, j, f) => RecFits(p, j, f)'
        BY <1>1, <1>3, <1>7, <2>1 DEF RecFits, Quiet, Open
    <2> QED
        BY <2>2, <2>3, <2>4
<1>8. ASSUME NEW p \in HPhase, NEW j \in HJob, HookFits(p, j) PROVE HookFits(p, j)'
    <2>1. MayRead(j.id, j.txt) => MayRead(j.id, j.txt)'
        BY DEF MayRead
    <2>2. p = "import" /\ timeline[j.id].src = c => FALSE
        BY <1>2, <1>8, TimelineFacts DEF HookFits
    <2> QED
        BY <1>1, <1>8, <2>1, <2>2 DEF HookFits, Open
<1> QED
    BY <1>1, <1>4, <1>5, <1>6, <1>7, <1>8

LEMMA StoreMoveOnce ==
    ASSUME Consistent, Consistent', OnceOK, NEW w \in Worker, NEW p \in Phase \ {"idle"},
           NEW c \in Comment, NEW b \in BOOLEAN,
           pc[w] # "idle", job[w].cm = c, job[w].id \in OwnCopies(c), ConfirmStores(c, job[w].id, b),
           SetPc(w, p), p \notin AttemptPhase \cup Deciding,
           (p = "preview" /\ pc[w] = "confirm") \/ p \notin SyncPhase,
           UNCHANGED <<job, found, foreign, imported, timeline, wire, hpc, hjob>>
    PROVE  OnceOK'
<1>1. PICK k \in Job : k = job[w] /\ job' = [job EXCEPT ![w] = k]
    BY JobFacts DEF Consistent, TypeOK, WorkersTypeOK
<1>2. /\ TimelineOK' /\ SendsOK' /\ WiresOK' /\ link'[c] = k.id
      /\ \A v \in Worker, q \in Phase, j \in Job :
            (q # "idle" => j.cm \in Comment) =>
                /\ AttemptFits(v, q, j) => AttemptFits(v, q, j)'
                /\ JobFits(q, j) => JobFits(q, j)'
                /\ \A f : RecFits(q, j, f) => RecFits(q, j, f)'
      /\ \A q \in HPhase, j \in HJob : HookFits(q, j) => HookFits(q, j)'
    BY <1>1, StoreFrame
<1>3. HooksFit'
    <2>1. \A h \in Handler : hpc[h] \in HPhase /\ hjob[h] \in HJob
        BY DEF Consistent, TypeOK, HandlersTypeOK
    <2> QED
        BY <1>2, <2>1 DEF OnceOK, HooksFit
<1>4. ASSUME NEW v \in Worker \ {w} PROVE AttemptFits(v, pc[v], job[v])' /\ JobFits(pc[v], job[v])'
    <2>1. pc'[v] = pc[v] /\ job'[v] = job[v] /\ pc[v] \in Phase /\ job[v] \in Job
        BY JobFacts DEF SetPc, Consistent, TypeOK, WorkersTypeOK
    <2>2. AttemptFits(v, pc[v], job[v]) /\ JobFits(pc[v], job[v])
        BY WorkerFacts
    <2>3. pc[v] # "idle" => job[v].cm \in Comment
        BY JobFacts
    <2> QED
        BY <1>2, <2>1, <2>2, <2>3
<1>5. w # Reconciler => RecOK'
    <2> SUFFICES ASSUME w # Reconciler PROVE RecOK'
        OBVIOUS
    <2>1. /\ pc'[Reconciler] = pc[Reconciler] /\ job'[Reconciler] = job[Reconciler]
          /\ pc[Reconciler] \in Phase /\ job[Reconciler] \in Job
          /\ pc[Reconciler] # "idle" => job[Reconciler].cm \in Comment
        BY RecFacts, JobFacts DEF SetPc, Consistent, TypeOK, WorkersTypeOK
    <2>2. RecFits(pc[Reconciler], job[Reconciler], found)
        BY DEF OnceOK, RecOK
    <2> QED
        BY <1>2, <2>1, <2>2, RecFacts DEF RecOK
<1>6. JobFits(p, k)'
    <2>1. k.id # 0
        BY <1>1, SendFacts, TimelineFacts
    <2>2. k.cm = c /\ (pc[w] = "confirm" => k.txt \in TextsOf[c])
        BY <1>1, WorkerFacts DEF JobFits, SyncPhase, AttemptPhase
    <2> QED
        BY <1>2, <2>1, <2>2 DEF JobFits, SyncPhase, AttemptPhase
<1>7. AttemptFits(w, p, k)' /\ RecFits(p, k, found)'
    BY CalmPhaseNext
<1> QED
    BY <1>1, <1>2, <1>3, <1>4, <1>5, <1>6, <1>7, StepKeeps

LEMMA SettleConfirmedOnce ==
    ASSUME Consistent, Consistent', OnceOK, NEW w \in Worker, SettleConfirmed(w)
    PROVE  OnceOK'
<1> USE DEF SettleConfirmed
<1>1. job[w].cm \in Comment /\ job[w].id \in OwnCopies(job[w].cm)
    BY JobFacts, WorkerFacts DEF AttemptFits, AttemptPhase
<1>2. "preview" \in Phase \ ({"idle"} \cup AttemptPhase \cup Deciding)
    BY DEF Phase, SyncPhase, AttemptPhase, Deciding
<1>3. CASE ConfirmStores(job[w].cm, job[w].id, FALSE) /\ SetPc(w, "preview") /\ UNCHANGED job
    BY <1>1, <1>2, <1>3, StoreMoveOnce DEF bitrix, handlers
<1>4. CASE /\ ConfirmStands(job[w].cm, job[w].id)
           /\ SetPc(w, "preview")
           /\ UNCHANGED <<send, link, job>>
    BY <1>4, SettleStandsOnce DEF shared, bitrix, handlers
<1>5. CASE Finish(w) /\ UNCHANGED <<send, link>>
    BY <1>5, FinishOnce DEF shared, bitrix, handlers
<1> QED
    BY <1>3, <1>4, <1>5

LEMMA ReconcileAdoptOnce ==
    ASSUME Consistent, Consistent', OnceOK, ReconcileAdopt
    PROVE  OnceOK'
<1> USE DEF ReconcileAdopt
<1> DEFINE r == Reconciler
<1>1. r \in Worker /\ job[r].cm \in Comment /\ job[r].id \in OwnCopies(job[r].cm)
    BY RecFacts, DecidingFacts DEF RecFits, Deciding
<1>2. "finalize" \in Phase \ ({"idle"} \cup AttemptPhase \cup Deciding \cup SyncPhase)
    BY DEF Phase, SyncPhase, RecPhase, AttemptPhase, Deciding
<1>3. CASE ConfirmStores(job[r].cm, job[r].id, TRUE) /\ SetPc(r, "finalize") /\ UNCHANGED job
    BY <1>1, <1>2, <1>3, StoreMoveOnce DEF bitrix, handlers
<1>4. CASE SetPc(r, "finalize") /\ UNCHANGED <<send, link, job>>
    BY <1>4, ReconcileStandsOnce DEF shared, bitrix, handlers
<1>5. CASE Finish(r) /\ UNCHANGED <<send, link>>
    BY <1>1, <1>5, FinishOnce DEF shared, bitrix, handlers
<1> QED
    BY <1>3, <1>4, <1>5

-----------------------------------------------------------------------------
(* Webhook consumers.                                                      *)

\* A consumer goes on: nothing else changes.
LEMMA HMoveOnce ==
    ASSUME Consistent, OnceOK, UNCHANGED <<send, link, timeline, wire, workers>>,
           \A i \in foreign' \cup imported' : i \in DOMAIN timeline /\ timeline[i].src = NoComment,
           NEW h \in Handler, NEW p \in HPhase, NEW j \in HJob,
           HSetPc(h, p), hjob' = [hjob EXCEPT ![h] = j], HookFits(p, j)
    PROVE  OnceOK'
<1>1. /\ \A g \in Handler \ {h} : hpc'[g] = hpc[g] /\ hjob'[g] = hjob[g]
      /\ hpc'[h] = p /\ hjob'[h] = j
    BY DEF HSetPc, Consistent, TypeOK, HandlersTypeOK
<1>2. HooksFit'
    <2>1. HookFits(p, j)'
        BY DEF HookFits, MayRead
    <2>2. ASSUME NEW g \in Handler \ {h} PROVE HookFits(hpc[g], hjob[g])'
        BY <1>1 DEF OnceOK, HooksFit, HookFits, MayRead
    <2> QED
        BY <1>1, <2>1, <2>2 DEF HooksFit
<1>3. TimelineOK' /\ SendsOK'
    BY DEF OnceOK, TimelineOK, MayRead, SendsOK, SendFits, OwnCopies
<1>4. WiresOK' /\ AttemptsOK' /\ OneAttempt' /\ JobsFit'
    BY DEF workers, OnceOK, WiresOK, WireFits, AttemptsOK, AttemptFits, OneAttempt, JobsFit, JobFits,
           OwnCopies
<1>5. RecOK' /\ RecAlone'
    BY DEF workers, OnceOK, RecOK, RecFits, RecAlone, Settled, Quiet, OwnCopies
<1> QED
    BY <1>2, <1>3, <1>4, <1>5 DEF OnceOK

LEMMA HFinishOnce ==
    ASSUME Consistent, OnceOK, UNCHANGED <<send, link, timeline, wire, workers>>,
           \A i \in foreign' \cup imported' : i \in DOMAIN timeline /\ timeline[i].src = NoComment,
           NEW h \in Handler, HFinish(h)
    PROVE  OnceOK'
<1>1. NoHJob \in HJob /\ "idle" \in HPhase /\ HookFits("idle", NoHJob)
    BY DEF NoHJob, HJob, HPhase, HookFits
<1> QED
    BY <1>1, HMoveOnce DEF HFinish

LEMMA HAdvanceOnce ==
    ASSUME Consistent, OnceOK, UNCHANGED <<send, link, timeline, wire, workers>>,
           \A i \in foreign' \cup imported' : i \in DOMAIN timeline /\ timeline[i].src = NoComment,
           NEW h \in Handler, NEW p \in HPhase, HSetPc(h, p), UNCHANGED hjob, HookFits(p, hjob[h])
    PROVE  OnceOK'
<1>1. hjob' = [hjob EXCEPT ![h] = hjob[h]] /\ hjob[h] \in HJob
    BY DEF Consistent, TypeOK, HandlersTypeOK
<1> QED
    BY <1>1, HMoveOnce

LEMMA HookFacts ==
    ASSUME Consistent, OnceOK, NEW h \in Handler
    PROVE  /\ HookFits(hpc[h], hjob[h])
           /\ \A i \in foreign \cup imported : i \in DOMAIN timeline /\ timeline[i].src = NoComment
           /\ hjob[h] \in HJob /\ hpc[h] \in HPhase
BY DEF OnceOK, TimelineOK, HooksFit, Consistent, TypeOK, HandlersTypeOK

LEMMA HQuitOnce ==
    ASSUME Consistent, OnceOK, NEW h \in Handler,
           WebhookOwn(h) \/ ImportUpdate(h) \/ HAbandon(h)
    PROVE  OnceOK'
BY HFinishOnce, HookFacts DEF WebhookOwn, ImportUpdate, HAbandon, database, bitrix

\* The announced text is the one the comment has now.
LEMMA WebhookBeginOnce ==
    ASSUME Consistent, OnceOK, NEW h \in Handler, NEW id \in DOMAIN timeline, WebhookBegin(h, id)
    PROVE  OnceOK'
<1> USE DEF WebhookBegin
<1> DEFINE j == [hjob[h] EXCEPT !.id = id, !.txt = timeline[id].txt]
<1>1. hjob[h] \in HJob /\ id \in Nat /\ timeline[id].txt \in Text
    BY HookFacts, TimelineFacts DEF Entry
<1>2. j \in HJob /\ j.id = id /\ j.txt = timeline[id].txt
    BY <1>1 DEF HJob
<1>3. hjob' = [hjob EXCEPT ![h] = j]
    BY DEF Consistent, TypeOK, HandlersTypeOK
<1>4. MayRead(id, timeline[id].txt)
    BY DEF OnceOK, TimelineOK
<1>5. ASSUME NEW c \in Comment, timeline[id].src = c, send[c].status \in Open
      PROVE  timeline[id].txt = send[c].fp
    BY <1>5 DEF OnceOK, SendsOK, SendFits, OwnCopies
<1>6. HookFits("link", j)
    BY <1>2, <1>4, <1>5 DEF HookFits
<1>7. "link" \in HPhase
    BY DEF HPhase
<1> HIDE DEF j
<1> QED
    BY <1>2, <1>3, <1>6, <1>7, HMoveOnce, HookFacts DEF database, bitrix

LEMMA WebhookForeignOnce ==
    ASSUME Consistent, OnceOK, NEW h \in Handler, WebhookForeign(h)
    PROVE  OnceOK'
<1> USE DEF WebhookForeign
<1>1. timeline[hjob[h].id].src \notin Comment
    BY HookFacts, SetsAssumption
<1>2. HookFits("import", hjob[h])
    BY <1>1, HookFacts DEF HookFits
<1>3. "import" \in HPhase
    BY DEF HPhase
<1> QED
    BY <1>2, <1>3, HAdvanceOnce, HookFacts DEF database, bitrix

LEMMA WebhookUnlinkedOnce ==
    ASSUME Consistent, OnceOK, NEW h \in Handler, WebhookUnlinked(h)
    PROVE  OnceOK'
<1> USE DEF WebhookUnlinked
<1>1. HookFits("list", hjob[h]) /\ "list" \in HPhase
    BY HookFacts DEF HookFits, HPhase
<1> QED
    BY <1>1, HAdvanceOnce, HookFacts DEF database, bitrix

\* The pending send that the announced comment is taken for is its own.
LEMMA WebhookMatchOnce ==
    ASSUME Distinguishable, Consistent, OnceOK, NEW h \in Handler, WebhookMatch(h)
    PROVE  OnceOK'
<1> USE DEF WebhookMatch
<1>1. PICK c \in Awaiting(h) : hjob' = [hjob EXCEPT ![h].cm = c]
    OBVIOUS
<1> DEFINE j == [hjob[h] EXCEPT !.cm = c]
<1>2. /\ c \in Comment /\ send[c].status \in Open
      /\ MatchesSend(c, send[c].fp, hjob[h].id, hjob[h].txt)
    BY DEF Awaiting
<1>3. hjob[h].txt = send[c].fp /\ send[c].fp \in TextsOf[c]
    BY <1>2 DEF MatchesSend, OnceOK, SendsOK, SendFits
<1>4. hjob[h].id \in DOMAIN timeline /\ MayRead(hjob[h].id, hjob[h].txt)
    BY HookFacts DEF HookFits
<1>5. hjob[h].id \in OwnCopies(c)
    BY <1>2, <1>3, <1>4, MatchSound DEF Open
<1>6. j \in HJob /\ j.id = hjob[h].id /\ j.txt = hjob[h].txt /\ j.cm = c
    BY <1>2, HookFacts DEF HJob
<1>7. hjob' = [hjob EXCEPT ![h] = j]
    BY <1>1 DEF Consistent, TypeOK, HandlersTypeOK
<1>8. timeline[j.id].src = c
    BY <1>5, <1>6 DEF OwnCopies
<1>9. HookFits("adopt", j) /\ "adopt" \in HPhase
    BY <1>2, <1>3, <1>4, <1>6, <1>8 DEF HookFits, HPhase
<1> HIDE DEF j
<1> QED
    BY <1>6, <1>7, <1>9, HMoveOnce, HookFacts DEF database, bitrix

\* A comment that no pending send waits for is somebody else's, or linked by now.
LEMMA WebhookNoMatchOnce ==
    ASSUME Consistent, OnceOK, NEW h \in Handler, WebhookNoMatch(h)
    PROVE  OnceOK'
<1> USE DEF WebhookNoMatch
<1>1. HookFits("list", hjob[h])
    BY HookFacts
<1>2. ASSUME NEW c \in Comment, timeline[hjob[h].id].src = c PROVE link[c] = hjob[h].id
    <2>1. hjob[h].id \in OwnCopies(c)
        BY <1>1, <1>2 DEF HookFits, OwnCopies
    <2>2. send[c].status \notin Open
        BY <1>1, <1>2, <2>1, MatchComplete DEF HookFits, Awaiting
    <2>3. send[c].status = "confirmed"
        BY <2>1, <2>2, SendFacts DEF OnceOK, SendsOK, SendFits, Status
    <2>4. link[c] \in OwnCopies(c)
        BY <2>3, SendFacts DEF OnceOK, SendsOK, SendFits
    <2> QED
        BY <2>1, <2>4 DEF OnceOK, SendsOK, SendFits
<1>3. HookFits("import", hjob[h]) /\ "import" \in HPhase
    BY <1>1, <1>2 DEF HookFits, HPhase
<1> QED
    BY <1>3, HAdvanceOnce, HookFacts DEF database, bitrix

LEMMA WebhookAdoptOnce ==
    ASSUME Consistent, Consistent', OnceOK, NEW h \in Handler, WebhookAdopt(h)
    PROVE  OnceOK'
<1> USE DEF WebhookAdopt
<1>1. PICK c \in Comment, id \in Nat : c = hjob[h].cm /\ id = hjob[h].id
    BY HJobFacts
<1>2. HookFits("adopt", hjob[h]) /\ id \in OwnCopies(c)
    BY <1>1, HookFacts DEF HookFits, OwnCopies
<1>3. CASE ConfirmStores(c, id, TRUE) /\ HFinish(h)
    <2>1. /\ TimelineOK' /\ SendsOK' /\ WiresOK' /\ link'[c] = id
          /\ \A v \in Worker, q \in Phase, j \in Job :
                (q # "idle" => j.cm \in Comment) =>
                    /\ AttemptFits(v, q, j) => AttemptFits(v, q, j)'
                    /\ JobFits(q, j) => JobFits(q, j)'
                    /\ \A f : RecFits(q, j, f) => RecFits(q, j, f)'
          /\ \A q \in HPhase, j \in HJob : HookFits(q, j) => HookFits(q, j)'
        BY <1>2, <1>3, StoreFrame DEF bitrix
    <2>2. \A v \in Worker : /\ pc'[v] = pc[v] /\ job'[v] = job[v]
                            /\ pc[v] \in Phase /\ job[v] \in Job
                            /\ pc[v] # "idle" => job[v].cm \in Comment
        BY JobFacts DEF workers
    <2>3. AttemptsOK' /\ JobsFit'
        BY <2>1, <2>2 DEF OnceOK, AttemptsOK, JobsFit
    <2>4. RecOK'
        BY <2>1, <2>2, RecFacts DEF OnceOK, RecOK, workers
    <2>5. OneAttempt' /\ RecAlone'
        BY DEF OnceOK, OneAttempt, RecAlone, Settled, workers
    <2>6. HooksFit'
        <3>1. ASSUME NEW g \in Handler \ {h} PROVE HookFits(hpc[g], hjob[g])'
            <4>1. hpc'[g] = hpc[g] /\ hjob'[g] = hjob[g] /\ hpc[g] \in HPhase /\ hjob[g] \in HJob
                BY <1>3 DEF HFinish, HSetPc, Consistent, TypeOK, HandlersTypeOK
            <4> QED
                BY <2>1, <4>1, HookFacts
        <3>2. hpc'[h] = "idle"
            BY <1>3 DEF HFinish, HSetPc, Consistent, TypeOK, HandlersTypeOK
        <3> QED
            BY <3>1, <3>2 DEF HooksFit, HookFits
    <2> QED
        BY <2>1, <2>3, <2>4, <2>5, <2>6 DEF OnceOK
<1>4. CASE HFinish(h) /\ UNCHANGED <<send, link>>
    BY <1>4, HFinishOnce, HookFacts DEF bitrix
<1>5. CASE ConfirmRefused(c, id) /\ HSetPc(h, "import") /\ UNCHANGED <<send, link, hjob>>
    <2>1. send[c].status = "confirmed" /\ send[c].b24 # id
        BY <1>5 DEF ConfirmRefused
    <2>2. link[c] \in OwnCopies(c) /\ link[c] # id
        BY <2>1, SendFacts, LinkedFacts
    <2>3. FALSE
        BY <1>2, <2>2 DEF OnceOK, SendsOK, SendFits
    <2> QED
        BY <2>3
<1> QED
    BY <1>1, <1>3, <1>4, <1>5

LEMMA ImportNewOnce ==
    ASSUME Consistent, OnceOK, NEW h \in Handler, ImportNew(h)
    PROVE  OnceOK'
<1> USE DEF ImportNew
<1>1. HookFits("import", hjob[h]) /\ hjob[h].id # 0
    BY HookFacts, HJobFacts
<1>2. timeline[hjob[h].id].src \notin Comment
    BY <1>1 DEF HookFits, LinkedIds, Linked
<1>3. timeline[hjob[h].id].src = NoComment
    BY <1>1, <1>2, TimelineFacts DEF HookFits
<1>4. HookFits("reserve", hjob[h]) /\ "reserve" \in HPhase
    BY <1>1, <1>2, <1>3 DEF HookFits, HPhase
<1> QED
    BY <1>4, HAdvanceOnce, HookFacts DEF database, bitrix

\* What is reserved and added is nobody's copy.
LEMMA ImportReserveOnce ==
    ASSUME Consistent, OnceOK, NEW h \in Handler, ImportReserve(h)
    PROVE  OnceOK'
<1> USE DEF ImportReserve
<1>1. HookFits("reserve", hjob[h])
    BY HookFacts
<1>2. hjob[h].id \in DOMAIN timeline /\ timeline[hjob[h].id].src = NoComment
    BY <1>1 DEF HookFits
<1>3. \A i \in foreign' \cup imported' : i \in DOMAIN timeline /\ timeline[i].src = NoComment
    BY <1>2, HookFacts
<1>4. HookFits("add", hjob[h]) /\ "add" \in HPhase
    BY <1>1 DEF HookFits, HPhase
<1>5. CASE hjob[h].id \in LinkedIds
    BY <1>3, <1>5, HFinishOnce DEF bitrix
<1>6. CASE hjob[h].id \notin LinkedIds
    BY <1>3, <1>4, <1>6, HAdvanceOnce DEF bitrix
<1> QED
    BY <1>5, <1>6

LEMMA ImportAddOnce ==
    ASSUME Consistent, OnceOK, NEW h \in Handler, ImportAdd(h)
    PROVE  OnceOK'
<1> USE DEF ImportAdd
<1>1. hjob[h].id \in DOMAIN timeline /\ timeline[hjob[h].id].src = NoComment
    BY HookFacts DEF HookFits
<1>2. \A i \in foreign' \cup imported' : i \in DOMAIN timeline /\ timeline[i].src = NoComment
    BY <1>1, HookFacts
<1> QED
    BY <1>2, HFinishOnce DEF bitrix

LEMMA ImportUndoneOnce ==
    ASSUME Consistent, OnceOK, NEW h \in Handler, ImportUndone(h)
    PROVE  OnceOK'
<1> USE DEF ImportUndone
<1>1. \A i \in foreign' \cup imported' : i \in DOMAIN timeline /\ timeline[i].src = NoComment
    BY HookFacts
<1> QED
    BY <1>1, HFinishOnce DEF bitrix

-----------------------------------------------------------------------------
(* Requests and what becomes of them.                                      *)

\* The attempt that posts is the only one, and nothing is there or on the way yet.
LEMMA PostOnce ==
    ASSUME Consistent, Consistent', OnceOK, NEW w \in Worker, Post(w)
    PROVE  OnceOK'
<1> USE DEF Post
<1>0. PICK c \in Comment, k \in Job : c = job[w].cm /\ k = job[w]
    BY JobFacts
<1> DEFINE j == [k EXCEPT !.tries = k.tries + 1]
<1>1. job' = [job EXCEPT ![w] = j]
    BY <1>0 DEF Consistent, TypeOK, WorkersTypeOK
<1>2. k.tries \in Nat /\ k.tries < CallAttempts /\ CallAttempts \in Nat
    BY <1>0, JobFacts, NumbersAssumption DEF Job
<1>3. j \in Job /\ j.cm = c /\ j.txt = k.txt /\ j.id = k.id
    BY <1>0, <1>2 DEF Job
<1>4. /\ k.id = 0 /\ k.txt = send[c].fp /\ OwnCopies(c) = {} /\ k.txt \in TextsOf[c]
      /\ send[c].status \in {"sending", "confirmed"}
      /\ \A v \in Worker : wire[v].cm # c
    BY <1>0, WorkerFacts DEF AttemptFits, JobFits, AttemptPhase, SyncPhase
<1>5. send[c].status = "sending"
    BY <1>4, LinkedFacts, SendFacts
<1>6. /\ wire'[w].cm = c /\ wire'[w].txt = k.txt
      /\ \A v \in Worker \ {w} : wire'[v] = wire[v]
    BY <1>0 DEF Consistent, TypeOK, BitrixTypeOK
<1>7. OwnCopies(c)' = {} /\ \A d : OwnCopies(d)' = OwnCopies(d)
    BY <1>4 DEF OwnCopies
<1>8. TimelineOK' /\ SendsOK' /\ HooksFit'
    BY DEF OnceOK, TimelineOK, MayRead, SendsOK, SendFits, HooksFit, HookFits, OwnCopies, database,
           handlers
<1>9. WiresOK'
    <2> SUFFICES ASSUME NEW v \in Worker PROVE WireFits(v)'
        BY DEF WiresOK
    <2>1. CASE v = w
        BY <1>4, <1>5, <1>6, <1>7, <2>1 DEF WireFits, Open, database
    <2>2. CASE v # w
        BY <1>4, <1>6, <1>7, <2>2, SetsAssumption DEF OnceOK, WiresOK, WireFits, database, NoRequest
    <2> QED
        BY <2>1, <2>2
<1>10. AttemptFits(w, "wait", j)'
    BY <1>3, <1>4, <1>5, <1>6, <1>7, SetsAssumption DEF AttemptFits, database, NoRequest
<1>11. /\ \A v \in Worker \ {w} : ~(pc[v] \in AttemptPhase /\ job[v].cm = c)
       /\ ~(pc[Reconciler] \in Deciding /\ job[Reconciler].cm = c)
    BY <1>0, AloneFacts DEF AttemptPhase
<1>12. ASSUME NEW v \in Worker \ {w} PROVE AttemptFits(v, pc[v], job[v])' /\ JobFits(pc[v], job[v])'
    <2>1. pc'[v] = pc[v] /\ job'[v] = job[v]
        BY DEF SetPc, Consistent, TypeOK, WorkersTypeOK
    <2>2. AttemptFits(v, pc[v], job[v]) /\ JobFits(pc[v], job[v])
        BY WorkerFacts
    <2>3. JobFits(pc[v], job[v])'
        BY <2>1, <2>2 DEF JobFits, database
    <2>4. AttemptFits(v, pc[v], job[v])'
        BY <1>6, <1>7, <1>11, <2>1, <2>2 DEF AttemptFits, database
    <2> QED
        BY <2>3, <2>4
<1>13. JobFits("wait", j)'
    BY <1>3, <1>4 DEF JobFits
<1>14. w # Reconciler => RecOK'
    <2> SUFFICES ASSUME w # Reconciler PROVE RecOK'
        OBVIOUS
    <2>1. pc'[Reconciler] = pc[Reconciler] /\ job'[Reconciler] = job[Reconciler]
        BY RecFacts DEF SetPc, Consistent, TypeOK, WorkersTypeOK
    <2> QED
        BY <1>6, <1>7, <1>11, <2>1 DEF OnceOK, RecOK, RecFits, Quiet, database
<1>15. "wait" \in Phase \ Deciding /\ pc[w] \in AttemptPhase
    BY DEF Phase, SyncPhase, AttemptPhase, Deciding
<1>16. RecFits("wait", j, found)'
    BY <1>15 DEF RecFits
<1>17. SetPc(w, "wait")
    OBVIOUS
<1> HIDE DEF j
<1> QED
    BY ONLY Consistent, OnceOK, w \in Worker, <1>0, <1>1, <1>3, <1>8, <1>9, <1>10, <1>12, <1>13,
       <1>14, <1>15, <1>16, <1>17, StepKeeps

\* The timeline grows: what is in it stays what and where it is.
LEMMA AppendFacts ==
    ASSUME Consistent, Consistent', NEW e, timeline' = Append(timeline, e)
    PROVE  /\ Len(timeline) \in Nat /\ Len(timeline') = Len(timeline) + 1
           /\ DOMAIN timeline = 1..Len(timeline) /\ DOMAIN timeline' = 1..(Len(timeline) + 1)
           /\ timeline'[Len(timeline) + 1] = e
           /\ \A i \in DOMAIN timeline : i \in DOMAIN timeline' /\ timeline'[i] = timeline[i]
<1>1. timeline \in Seq(Entry) /\ timeline' \in Seq(Entry)
    BY DEF Consistent, TypeOK, BitrixTypeOK
<1>2. Len(timeline) \in Nat /\ DOMAIN timeline = 1..Len(timeline)
    BY <1>1
<1>3. PICK S : timeline \in Seq(S) /\ e \in S
    <2>1. timeline \in Seq(Entry \cup {e})
        BY <1>1
    <2> QED
        BY <2>1
<1>4. Len(timeline') = Len(timeline) + 1 /\ timeline'[Len(timeline) + 1] = e
    BY <1>3
<1>5. \A i \in 1..Len(timeline) : timeline'[i] = timeline[i]
    BY <1>3
<1>6. DOMAIN timeline' = 1..Len(timeline')
    BY <1>1
<1> QED
    BY <1>2, <1>4, <1>5, <1>6

\* A consumer has read an entry of the timeline before it grew.
LEMMA AppendHooks ==
    ASSUME Consistent, Consistent', OnceOK, NEW e, timeline' = Append(timeline, e),
           UNCHANGED <<send, link, foreign, imported, handlers>>,
           e.src \in Comment => e.mine /\ e.txt \in TextsOf[e.src],
           e.src = NoComment => ~e.mine
    PROVE  HooksFit' /\ TimelineOK'
<1>1. /\ Len(timeline) \in Nat /\ Len(timeline') = Len(timeline) + 1
      /\ DOMAIN timeline = 1..Len(timeline) /\ DOMAIN timeline' = 1..(Len(timeline) + 1)
      /\ timeline'[Len(timeline) + 1] = e
      /\ \A i \in DOMAIN timeline : i \in DOMAIN timeline' /\ timeline'[i] = timeline[i]
    BY AppendFacts
<1>2. HooksFit'
    BY <1>1 DEF OnceOK, HooksFit, HookFits, MayRead, handlers
<1>3. TimelineOK'
    <2>1. Orphans \in Nat /\ Orphans <= Len(timeline')
        BY <1>1, NumbersAssumption DEF OnceOK, TimelineOK
    <2>2. ASSUME NEW i \in DOMAIN timeline'
          PROVE  /\ timeline'[i].src \in Comment => timeline'[i].mine
                 /\ timeline'[i].src = NoComment /\ timeline'[i].mine => i <= Orphans
                 /\ MayRead(i, timeline[i].txt)'
        <3>1. CASE i \in DOMAIN timeline
            BY <1>1, <3>1 DEF OnceOK, TimelineOK, MayRead
        <3>2. CASE i = Len(timeline) + 1
            BY <1>1, <3>2 DEF MayRead
        <3> QED
            BY <1>1, <3>1, <3>2
    <2>3. \A i \in foreign' \cup imported' : i \in DOMAIN timeline' /\ timeline'[i].src = NoComment
        BY <1>1 DEF OnceOK, TimelineOK
    <2> QED
        BY <2>1, <2>2, <2>3 DEF TimelineOK
<1> QED
    BY <1>2, <1>3

LEMMA ForeignCommentOnce ==
    ASSUME Consistent, Consistent', OnceOK, ForeignComment
    PROVE  OnceOK'
<1> USE DEF ForeignComment
<1>1. PICK t \in Text : timeline' = Append(timeline, [src |-> NoComment, txt |-> t, mine |-> FALSE])
    OBVIOUS
<1>2. HooksFit' /\ TimelineOK'
    BY <1>1, AppendHooks, SetsAssumption DEF database
<1>3. /\ Len(timeline) \in Nat /\ Len(timeline') = Len(timeline) + 1
      /\ \A c \in Comment : OwnCopies(c)' = OwnCopies(c)
    BY <1>1, AppendFacts, SetsAssumption DEF OwnCopies
<1>4. SendsOK'
    <2> SUFFICES ASSUME NEW c \in Comment PROVE SendFits(c)'
        BY DEF SendsOK
    <2>1. SendFits(c) /\ send[c].born \in Nat /\ send' = send /\ link' = link
        BY SendFacts DEF OnceOK, SendsOK, database
    <2>2. OwnCopies(c)' = OwnCopies(c)
        BY <1>3
    <2>3. send[c].born <= Len(timeline')
        BY <1>3, <2>1 DEF SendFits
    <2>4. \A i \in OwnCopies(c) : timeline'[i] = timeline[i]
        BY <1>1, AppendFacts DEF OwnCopies
    <2> QED
        BY <2>1, <2>2, <2>3, <2>4 DEF SendFits
<1>5. \A w \in Worker : wire[w] # NoRequest => wire[w].cm \in Comment
    BY DEF Consistent, WireOK
<1>6. WiresOK'
    BY <1>3, <1>5 DEF OnceOK, WiresOK, WireFits, database
<1>7. \A w \in Worker : pc[w] # "idle" => job[w].cm \in Comment
    BY JobFacts
<1>8. AttemptsOK'
    BY <1>3, <1>7 DEF OnceOK, AttemptsOK, AttemptFits, database, workers, AttemptPhase
<1>9. \A w \in Worker : job[w].wm \in Nat
    BY JobFacts
<1>10. JobsFit' /\ OneAttempt'
    BY <1>3, <1>9 DEF OnceOK, JobsFit, JobFits, OneAttempt, database, workers
<1>11. RecOK' /\ RecAlone'
    BY <1>3, <1>7, RecFacts DEF OnceOK, RecOK, RecFits, RecAlone, Settled, Quiet, database, workers, Deciding
<1> QED
    BY <1>2, <1>4, <1>6, <1>8, <1>10, <1>11 DEF OnceOK

LEMMA BitrixDropsOnce ==
    ASSUME Consistent, Consistent', OnceOK, NEW w \in Worker, BitrixDrops(w)
    PROVE  OnceOK'
<1> USE DEF BitrixDrops
<1>1. /\ wire'[w] = NoRequest /\ wire'[w].cm = NoComment
      /\ \A v \in Worker \ {w} : wire'[v] = wire[v]
    BY DEF Consistent, TypeOK, BitrixTypeOK, NoRequest
<1>2. TimelineOK' /\ SendsOK' /\ HooksFit'
    BY DEF OnceOK, TimelineOK, MayRead, SendsOK, SendFits, HooksFit, HookFits, OwnCopies, database,
           handlers
<1>3. \A c : OwnCopies(c)' = OwnCopies(c)
    BY DEF OwnCopies
<1>4. \A v \in Worker : wire[v] # NoRequest => wire[v].cm \in Comment
    BY DEF Consistent, WireOK
<1>5. WiresOK'
    BY <1>1, <1>3, <1>4, SetsAssumption DEF OnceOK, WiresOK, WireFits, database
<1>6. AttemptsOK'
    <2> SUFFICES ASSUME NEW v \in Worker, pc[v] \in AttemptPhase PROVE AttemptFits(v, pc[v], job[v])'
        BY DEF AttemptsOK, AttemptFits, workers
    <2>1. AttemptFits(v, pc[v], job[v]) /\ WireFits(v) /\ job[v].cm \in Comment
        BY WorkerFacts, JobFacts DEF AttemptPhase
    <2> QED
        BY <1>1, <1>3, <2>1, SetsAssumption DEF AttemptFits, WireFits, database, workers
<1>7. JobsFit' /\ OneAttempt'
    BY DEF OnceOK, JobsFit, JobFits, OneAttempt, database, workers
<1>8. \A c \in Comment : Quiet(c) => Quiet(c)'
    BY <1>1, SetsAssumption DEF Quiet
<1>9. pc[Reconciler] \in Deciding => job[Reconciler].cm \in Comment
    BY JobFacts, RecFacts DEF Deciding
<1>10. RecOK' /\ RecAlone'
    BY <1>3, <1>8, <1>9 DEF OnceOK, RecOK, RecFits, RecAlone, Settled, database, workers
<1> QED
    BY <1>2, <1>5, <1>6, <1>7, <1>10 DEF OnceOK

\* The copy that appears is the first of its comment.
LEMMA BitrixAddsOnce ==
    ASSUME Consistent, Consistent', OnceOK, NEW w \in Worker, BitrixAdds(w)
    PROVE  OnceOK'
<1> USE DEF BitrixAdds
<1>0. PICK c \in Comment, n \in Nat : c = wire[w].cm /\ n = Len(timeline) + 1
    BY TimelineFacts DEF Consistent, WireOK
<1> DEFINE e == [src |-> c, txt |-> wire[w].txt, mine |-> TRUE]
<1>1. timeline' = Append(timeline, e)
    BY <1>0
<1>2. /\ OwnCopies(c) = {} /\ send[c].status \in Open /\ wire[w].txt = send[c].fp
      /\ \A v \in Worker : wire[v].cm = c => v = w
      /\ send[c].fp \in TextsOf[c] /\ link[c] = 0
    BY <1>0, SendFacts DEF OnceOK, WiresOK, WireFits, SendsOK, SendFits
<1>3. /\ wire'[w] = NoRequest /\ wire'[w].cm = NoComment
      /\ \A v \in Worker \ {w} : wire'[v] = wire[v]
    BY DEF Consistent, TypeOK, BitrixTypeOK, NoRequest
<1>4. HooksFit' /\ TimelineOK'
    BY <1>1, <1>2, AppendHooks, SetsAssumption DEF database
<1>5. /\ Len(timeline) \in Nat /\ Len(timeline') = n
      /\ DOMAIN timeline = 1..Len(timeline) /\ DOMAIN timeline' = 1..n
      /\ timeline'[n] = e /\ \A i \in DOMAIN timeline : timeline'[i] = timeline[i]
    BY <1>0, <1>1, AppendFacts
<1>6. /\ OwnCopies(c)' = {n}
      /\ \A d \in Comment \ {c} : OwnCopies(d)' = OwnCopies(d)
    BY <1>0, <1>2, <1>5 DEF OwnCopies
<1> HIDE DEF e
<1>7. timeline'[n].txt = send[c].fp
    BY <1>2, <1>5 DEF e
<1>8. SendsOK'
    <2> SUFFICES ASSUME NEW d \in Comment PROVE SendFits(d)'
        BY DEF SendsOK
    <2>1. SendFits(d) /\ send[d].born \in Nat /\ send' = send /\ link' = link
        BY SendFacts DEF OnceOK, SendsOK, database
    <2>2. send[d].born <= Len(timeline') /\ send[d].born < n
        BY <1>0, <1>5, <2>1 DEF SendFits
    <2>3. CASE d = c
        BY <1>2, <1>6, <1>7, <2>1, <2>2, <2>3 DEF SendFits, Open
    <2>4. CASE d # c
        <3>1. \A i \in OwnCopies(d) : timeline'[i] = timeline[i]
            BY <1>5 DEF OwnCopies
        <3> QED
            BY <1>6, <2>1, <2>2, <2>4, <3>1 DEF SendFits
    <2> QED
        BY <2>3, <2>4
<1>9. \A v \in Worker : wire[v] # NoRequest => wire[v].cm \in Comment
    BY DEF Consistent, WireOK
<1>10. WiresOK'
    <2> SUFFICES ASSUME NEW v \in Worker, wire'[v] # NoRequest PROVE WireFits(v)'
        BY DEF WiresOK, WireFits
    <2>1. v # w /\ wire'[v] = wire[v] /\ wire[v].cm # c /\ wire[v].cm \in Comment /\ WireFits(v)
        BY <1>2, <1>3, <1>9 DEF OnceOK, WiresOK
    <2> QED
        BY <1>3, <1>6, <2>1, SetsAssumption DEF WireFits, database
<1>11. \A v \in Worker \ {w} : job'[v] = job[v]
    BY DEF Consistent, TypeOK, WorkersTypeOK
<1>12. /\ job'[w].cm = job[w].cm /\ job'[w].txt = job[w].txt /\ job'[w].wm = job[w].wm
       /\ job'[w].id = IF pc[w] = "wait" THEN n ELSE job[w].id
    BY <1>0, JobFacts DEF Job, Consistent, TypeOK, WorkersTypeOK
<1>13. pc[w] = "wait" => job[w].cm = c
    BY <1>0, WorkerFacts DEF AttemptFits, AttemptPhase
<1>14. AttemptsOK'
    <2> SUFFICES ASSUME NEW v \in Worker, pc[v] \in AttemptPhase PROVE AttemptFits(v, pc[v], job[v])'
        BY DEF AttemptsOK, AttemptFits
    <2>1. AttemptFits(v, pc[v], job[v]) /\ job[v].cm \in Comment
        BY WorkerFacts, JobFacts DEF AttemptPhase
    <2>2. CASE job[v].cm = c
        <3>1. v = w /\ pc[w] \in {"wait", "unknown"}
            BY <1>0, <2>1, <2>2 DEF AttemptFits
        <3>2. n # 0
            BY <1>0, <1>5
        <3> QED
            BY <1>2, <1>3, <1>6, <1>12, <2>1, <2>2, <3>1, <3>2, SetsAssumption DEF AttemptFits, database
    <2>3. CASE job[v].cm # c
        <3>1. job'[v] = job[v]
            BY <1>11, <1>13, <2>3
        <3>2. v = w => pc[v] # "wait"
            BY <1>13, <2>3
        <3> QED
            BY <1>3, <1>6, <2>1, <2>3, <3>1, <3>2, SetsAssumption DEF AttemptFits, database
    <2> QED
        BY <2>2, <2>3
<1>15. JobsFit'
    <2> SUFFICES ASSUME NEW v \in Worker PROVE JobFits(pc[v], job[v])'
        BY DEF JobsFit
    <2>1. JobFits(pc[v], job[v]) /\ job[v].wm \in Nat
        BY WorkerFacts, JobFacts
    <2>2. job[v].wm <= Len(timeline) => job[v].wm <= Len(timeline')
        BY <1>0, <1>5, <2>1
    <2>3. CASE v = w
        BY <1>12, <2>1, <2>2, <2>3 DEF JobFits, database
    <2>4. CASE v # w
        BY <1>11, <2>1, <2>2, <2>4 DEF JobFits, database
    <2> QED
        BY <2>3, <2>4
<1>16. OneAttempt' /\ RecAlone'
    <2>1. \A v \in Worker : job'[v].cm = job[v].cm
        BY <1>11, <1>12
    <2> QED
        BY <2>1, RecFacts DEF OnceOK, OneAttempt, RecAlone, Settled
<1>17. RecOK'
    <2> SUFFICES ASSUME pc[Reconciler] \in Deciding PROVE RecOK'
        BY DEF RecOK, RecFits
    <2>1. /\ job[Reconciler].cm \in Comment /\ Quiet(job[Reconciler].cm)
          /\ RecFits(pc[Reconciler], job[Reconciler], found) /\ pc[Reconciler] # "wait"
        BY DecidingFacts DEF Deciding
    <2>2. job[Reconciler].cm # c
        BY <1>0, <2>1 DEF Quiet
    <2>3. job'[Reconciler] = job[Reconciler]
        BY <1>11, <2>1, RecFacts
    <2>4. Quiet(job[Reconciler].cm)'
        BY <1>3, <2>1, <2>3, SetsAssumption DEF Quiet
    <2> QED
        BY <1>6, <2>1, <2>2, <2>3, <2>4 DEF RecOK, RecFits, database
<1> QED
    BY <1>4, <1>8, <1>10, <1>14, <1>15, <1>16, <1>17 DEF OnceOK

-----------------------------------------------------------------------------
(* Rewriting a linked copy.                                                *)

LEMMA RetextFrame ==
    ASSUME Consistent, Consistent', OnceOK, NEW c \in Comment, NEW id, id = link[c], id # 0,
           NEW t \in TextsOf[c],
           timeline' = timeline \/ timeline' = [timeline EXCEPT ![id].txt = t],
           UNCHANGED <<send, link, foreign, imported, wire, handlers>>
    PROVE  /\ TimelineOK' /\ SendsOK' /\ WiresOK' /\ HooksFit'
           /\ \A w \in Worker, p \in Phase, j \in Job : AttemptFits(w, p, j) => AttemptFits(w, p, j)'
           /\ \A p \in Phase, j \in Job : JobFits(p, j) => JobFits(p, j)'
           /\ \A p \in Phase, j \in Job : \A f : RecFits(p, j, f) => RecFits(p, j, f)'
<1>1. send[c].status = "confirmed" /\ id \in OwnCopies(c)
    BY LinkedFacts
<1>2. /\ DOMAIN timeline' = DOMAIN timeline
      /\ \A i \in DOMAIN timeline : /\ timeline'[i].src = timeline[i].src
                                    /\ timeline'[i].mine = timeline[i].mine
                                    /\ timeline'[i].txt = timeline[i].txt \/ (i = id /\ timeline'[i].txt = t)
    BY TimelineFacts DEF Entry
<1>3. Len(timeline') = Len(timeline)
    <2>1. /\ Len(timeline) \in Nat /\ DOMAIN timeline = 1..Len(timeline)
          /\ Len(timeline') \in Nat /\ DOMAIN timeline' = 1..Len(timeline')
        BY DEF Consistent, TypeOK, BitrixTypeOK
    <2> QED
        BY <1>2, <2>1
<1>4. \A d : OwnCopies(d)' = OwnCopies(d)
    BY <1>2 DEF OwnCopies
<1>5. timeline[id].src = c
    BY <1>1 DEF OwnCopies
<1>6. TimelineOK'
    <2>1. \A i \in DOMAIN timeline : MayRead(i, timeline'[i].txt)
        BY <1>2, <1>5, SetsAssumption DEF OnceOK, TimelineOK, MayRead
    <2>2. \A i \in DOMAIN timeline : MayRead(i, timeline[i].txt)'
        BY <1>2, <2>1 DEF MayRead
    <2> QED
        BY <1>2, <1>3, <2>2 DEF OnceOK, TimelineOK
<1>7. SendsOK'
    <2> SUFFICES ASSUME NEW d \in Comment PROVE SendFits(d)'
        BY DEF SendsOK
    <2>1. SendFits(d)
        BY DEF OnceOK, SendsOK
    <2>2. send[d].status \in Open => \A i \in OwnCopies(d) : timeline'[i].txt = timeline[i].txt
        BY <1>1, <1>2, <1>5 DEF OwnCopies, Open
    <2> QED
        BY <1>3, <1>4, <2>1, <2>2 DEF SendFits
<1>8. WiresOK'
    BY <1>4 DEF OnceOK, WiresOK, WireFits
<1>9. HooksFit'
    <2> SUFFICES ASSUME NEW h \in Handler, hpc[h] # "idle" PROVE HookFits(hpc[h], hjob[h])'
        BY DEF HooksFit, HookFits, handlers
    <2>1. HookFits(hpc[h], hjob[h]) /\ hjob[h].id \in DOMAIN timeline
        BY DEF OnceOK, HooksFit, HookFits
    <2>2. /\ timeline'[hjob[h].id].src = timeline[hjob[h].id].src
          /\ timeline'[hjob[h].id].mine = timeline[hjob[h].id].mine
        BY <1>2, <2>1
    <2> QED
        BY <1>2, <2>1, <2>2 DEF HookFits, MayRead, handlers
<1>10. \A w \in Worker, p \in Phase, j \in Job : AttemptFits(w, p, j) => AttemptFits(w, p, j)'
    BY <1>4 DEF AttemptFits
<1>11. \A p \in Phase, j \in Job : JobFits(p, j) => JobFits(p, j)'
    BY <1>3 DEF JobFits
<1>12. ASSUME NEW p \in Phase, NEW j \in Job, NEW f PROVE RecFits(p, j, f) => RecFits(p, j, f)'
    BY <1>4 DEF RecFits, Quiet
<1> QED
    BY <1>6, <1>7, <1>8, <1>9, <1>10, <1>11, <1>12

LEMMA RetextOnce ==
    ASSUME Consistent, Consistent', OnceOK, NEW w \in Worker, NEW c \in Comment, link[c] # 0,
           NEW t \in TextsOf[c],
           timeline' = timeline \/ timeline' = [timeline EXCEPT ![link[c]].txt = t],
           UNCHANGED <<send, link, foreign, imported, wire, found, handlers>>,
           NEW p \in Phase, NEW j \in Job, SetPc(w, p), job' = [job EXCEPT ![w] = j],
           p \notin AttemptPhase \cup Deciding, JobFits(p, j)
    PROVE  OnceOK'
<1>1. /\ TimelineOK' /\ SendsOK' /\ WiresOK' /\ HooksFit'
      /\ \A v \in Worker, q \in Phase, k \in Job : AttemptFits(v, q, k) => AttemptFits(v, q, k)'
      /\ \A q \in Phase, k \in Job : JobFits(q, k) => JobFits(q, k)'
      /\ \A q \in Phase, k \in Job : \A f : RecFits(q, k, f) => RecFits(q, k, f)'
    BY RetextFrame
<1>2. AttemptFits(w, p, j)' /\ RecFits(p, j, found)'
    BY CalmPhaseNext
<1>3. \A v \in Worker \ {w} : /\ pc'[v] = pc[v] /\ job'[v] = job[v]
                              /\ pc[v] \in Phase /\ job[v] \in Job
                              /\ AttemptFits(v, pc[v], job[v]) /\ JobFits(pc[v], job[v])
    BY WorkerFacts DEF SetPc, Consistent, TypeOK, WorkersTypeOK
<1>4. \A v \in Worker \ {w} : AttemptFits(v, pc[v], job[v])' /\ JobFits(pc[v], job[v])'
    BY <1>1, <1>3
<1>5. w # Reconciler => RecOK'
    BY <1>1, <1>3, RecFacts DEF OnceOK, RecOK
<1> QED
    BY <1>1, <1>2, <1>4, <1>5, StepKeeps

LEMMA PreviewOnce ==
    ASSUME Consistent, Consistent', OnceOK, NEW w \in Worker, Preview(w) \/ Repreview(w)
    PROVE  OnceOK'
<1> USE DEF Preview, Repreview
<1>0. PICK c \in Comment, t \in Text : c = job[w].cm /\ t = job[w].txt /\ t \in TextsOf[c]
    BY WorkerFacts, JobFacts, SetsAssumption DEF JobFits, SyncPhase
<1>1. link[c] # 0 /\ job[w].id = link[c]
    BY <1>0, WorkerFacts DEF JobFits
<1>2. timeline' = timeline \/ timeline' = [timeline EXCEPT ![link[c]].txt = t]
    BY <1>0, <1>1 DEF Style
<1>3. UNCHANGED <<send, link, foreign, imported, wire, found, handlers>>
    BY DEF database
<1> QED
    BY <1>0, <1>1, <1>2, <1>3, IdleFacts, RetextOnce DEF Finish

LEMMA RewriteOnce ==
    ASSUME Consistent, Consistent', OnceOK, NEW w \in Worker, Rewrite(w)
    PROVE  OnceOK'
<1> USE DEF Rewrite
<1>0. PICK c \in Comment, t \in Text, k \in Job :
          c = job[w].cm /\ t = job[w].txt /\ k = job[w] /\ t \in TextsOf[c]
    BY WorkerFacts, JobFacts, SetsAssumption DEF JobFits, SyncPhase
<1>1. link[c] # 0 /\ job[w].id = link[c] /\ JobFits("repreview", k)
    BY <1>0, WorkerFacts DEF JobFits, SyncPhase, AttemptPhase
<1>2. timeline' = [timeline EXCEPT ![link[c]].txt = t]
    BY <1>0, <1>1
<1>3. UNCHANGED <<send, link, foreign, imported, wire, found, handlers>>
    BY DEF database
<1>4. job' = [job EXCEPT ![w] = k] /\ SetPc(w, "repreview")
    BY <1>0 DEF Consistent, TypeOK, WorkersTypeOK
<1>5. "repreview" \in Phase \ (AttemptPhase \cup Deciding)
    BY DEF Phase, SyncPhase, AttemptPhase, Deciding
<1> QED
    BY <1>0, <1>1, <1>2, <1>3, <1>4, <1>5, RetextOnce

LEMMA FinalizeOnce ==
    ASSUME Consistent, Consistent', OnceOK, Finalize
    PROVE  OnceOK'
<1> USE DEF Finalize
<1> DEFINE r == Reconciler
<1>0. PICK c \in Comment, k \in Job : c = job[r].cm /\ k = job[r]
    BY RecFacts, JobFacts
<1>1. CASE send[c].status = "confirmed" /\ send[c].fin
    <2>1. PICK t \in TextsOf[c] : Style(send[c].b24, c, t)
        BY <1>0, <1>1
    <2>2. link[c] # 0 /\ send[c].b24 = link[c]
        BY <1>1, SendFacts
    <2>3. timeline' = timeline \/ timeline' = [timeline EXCEPT ![link[c]].txt = t]
        BY <2>1, <2>2 DEF Style
    <2>4. UNCHANGED <<send, link, foreign, imported, wire, found, handlers>>
        BY DEF database
    <2>5. job' = [job EXCEPT ![r] = k] /\ SetPc(r, "clear")
        BY <1>0, <1>1 DEF Consistent, TypeOK, WorkersTypeOK
    <2>6. "clear" \in Phase \ (AttemptPhase \cup Deciding) /\ JobFits("clear", k)
        BY DEF Phase, SyncPhase, RecPhase, AttemptPhase, Deciding, JobFits
    <2> QED
        BY <2>2, <2>3, <2>4, <2>5, <2>6, RecFacts, RetextOnce
<1>2. CASE ~(send[c].status = "confirmed" /\ send[c].fin)
    BY <1>0, <1>2, RecFacts, FinishOnce DEF shared, database, handlers
<1> QED
    BY <1>1, <1>2

-----------------------------------------------------------------------------
(* Restarts, the beginning, and the whole system.                          *)

LEMMA RestartOnce ==
    ASSUME Consistent, Consistent', OnceOK, Restart
    PROVE  OnceOK'
<1> USE DEF Restart
<1>1. TimelineOK' /\ SendsOK' /\ WiresOK'
    BY DEF OnceOK, TimelineOK, MayRead, SendsOK, SendFits, WiresOK, WireFits, OwnCopies, database,
           bitrix
<1>2. "idle" \notin AttemptPhase \cup Deciding \cup SyncPhase
    BY DEF AttemptPhase, Deciding, SyncPhase
<1>3. \A w \in Worker : pc'[w] = "idle" /\ job'[w] = NoJob
    OBVIOUS
<1>4. AttemptsOK' /\ OneAttempt'
    BY <1>2, <1>3 DEF AttemptsOK, AttemptFits, OneAttempt
<1>5. JobsFit'
    BY <1>2, <1>3 DEF JobsFit, JobFits, NoJob
<1>6. RecOK' /\ RecAlone'
    BY <1>2, <1>3, RecFacts DEF RecOK, RecFits, RecAlone
<1>7. HooksFit'
    BY DEF HooksFit, HookFits
<1> QED
    BY <1>1, <1>4, <1>5, <1>6, <1>7 DEF OnceOK

LEMMA OnceInit == Init => OnceOK
<1> SUFFICES ASSUME Init PROVE OnceOK
    OBVIOUS
<1> USE DEF Init
<1>1. timeline \in [1..Orphans -> [src: {NoComment}, txt: OrphanText, mine: {TRUE}]]
    OBVIOUS
<1>2. Orphans \in Nat /\ Len(timeline) = Orphans /\ DOMAIN timeline = 1..Orphans
    <2>1. Orphans \in Nat /\ DOMAIN timeline = 1..Orphans
        BY <1>1, NumbersAssumption
    <2>2. Len(timeline) \in Nat /\ DOMAIN timeline = 1..Len(timeline)
        BY InitConsistent, TimelineFacts
    <2> QED
        BY <2>1, <2>2
<1>3. \A i \in DOMAIN timeline : /\ timeline[i].src = NoComment /\ timeline[i].mine
                                 /\ timeline[i].txt \in OrphanText /\ i <= Orphans
    <2> SUFFICES ASSUME NEW i \in DOMAIN timeline
                 PROVE  /\ timeline[i].src = NoComment /\ timeline[i].mine
                        /\ timeline[i].txt \in OrphanText /\ i <= Orphans
        OBVIOUS
    <2>1. timeline[i] \in [src: {NoComment}, txt: OrphanText, mine: {TRUE}]
        BY <1>1, <1>2
    <2>2. timeline[i].src \in {NoComment} /\ timeline[i].txt \in OrphanText
        BY <2>1
    <2>3. timeline[i].mine \in {TRUE}
        BY <2>1
    <2>4. timeline[i].mine
        BY <2>3, Zenon
    <2>5. i <= Orphans
        BY <1>2
    <2> QED
        BY <2>2, <2>4, <2>5
<1>4. TimelineOK
    BY <1>2, <1>3, SetsAssumption DEF TimelineOK, MayRead
<1>5. \A c \in Comment : OwnCopies(c) = {}
    BY <1>3, SetsAssumption DEF OwnCopies
<1>6. SendsOK
    <2> SUFFICES ASSUME NEW c \in Comment PROVE SendFits(c)
        BY DEF SendsOK
    <2>1. send[c] = NoSend /\ link[c] = 0
        OBVIOUS
    <2> QED
        BY <1>2, <1>5, <2>1 DEF SendFits, NoSend, Open
<1>7. "idle" \notin AttemptPhase \cup Deciding \cup SyncPhase
    BY DEF AttemptPhase, Deciding, SyncPhase
<1>8. WiresOK
    BY DEF WiresOK, WireFits
<1>9. AttemptsOK /\ OneAttempt
    BY <1>7 DEF AttemptsOK, AttemptFits, OneAttempt
<1>10. JobsFit
    BY <1>7 DEF JobsFit, JobFits, NoJob
<1>11. RecOK /\ RecAlone
    BY <1>7, RecFacts DEF RecOK, RecFits, RecAlone
<1>12. HooksFit
    BY DEF HooksFit, HookFits
<1> QED
    BY <1>4, <1>6, <1>8, <1>9, <1>10, <1>11, <1>12 DEF OnceOK

LEMMA StutterOnce ==
    ASSUME OnceOK, UNCHANGED vars
    PROVE  OnceOK'
<1>1. TimelineOK' /\ SendsOK' /\ WiresOK' /\ HooksFit'
    BY SharedFrame DEF vars, database, bitrix, handlers, shared
<1>2. AttemptsOK' /\ OneAttempt' /\ JobsFit'
    BY DEF OnceOK, AttemptsOK, AttemptFits, OneAttempt, JobsFit, JobFits, OwnCopies, vars, database,
           bitrix, workers
<1>3. RecOK' /\ RecAlone'
    BY DEF OnceOK, RecOK, RecFits, RecAlone, Settled, Quiet, OwnCopies, vars, database, bitrix, workers
<1> QED
    BY <1>1, <1>2, <1>3 DEF OnceOK

LEMMA OnceNext ==
    ASSUME Distinguishable, Consistent, Consistent', OnceOK, [Next]_vars
    PROVE  OnceOK'
<1>1. ASSUME NEW w \in Sender, NEW c \in Comment, BeginSync(w, c) PROVE OnceOK'
    BY <1>1, BeginSyncOnce
<1>2. ASSUME NEW w \in Worker, SenderStep(w) PROVE OnceOK'
    BY <1>2, LinkMissingOnce, LinkedUpdateOnce, ReadWatermarkOnce, ClaimNewOnce, ClaimRejectedOnce,
       PostOnce, PostRefusedOnce, CallRetryOnce, AnswerOkOnce, AnswerUnknownOnce, SettleRefusedOnce,
       SettleUnknownOnce, SettleConfirmedOnce, PreviewOnce, PreviewDeferredOnce, RefreshOnce,
       RewriteOnce, QuitOnce
    DEF SenderStep
<1>3. ASSUME NEW w \in Worker, BitrixAdds(w) \/ BitrixDrops(w) \/ Abandon(w) PROVE OnceOK'
    BY <1>3, BitrixAddsOnce, BitrixDropsOnce, QuitOnce
<1>4. ASSUME NEW c \in Comment, ReconcilePick(c) \/ FinalizePick(c) PROVE OnceOK'
    BY <1>4, ReconcilePickOnce, FinalizePickOnce
<1>5. ASSUME ReconcilerStep PROVE OnceOK'
    BY <1>5, ReconcileDemoteOnce, ReconcileListOnce, ReconcileTryOnce, ReconcileAdoptOnce,
       ReconcileNothingFoundOnce, ReconcileAbsentOnce, ReconcileResendOnce, FinalizeOnce,
       FinalizeClearOnce
    DEF ReconcilerStep
<1>6. ASSUME NEW h \in Handler, HandlerStep(h) PROVE OnceOK'
    BY <1>6, WebhookForeignOnce, WebhookUnlinkedOnce, WebhookMatchOnce, WebhookNoMatchOnce,
       WebhookAdoptOnce, ImportNewOnce, ImportReserveOnce, ImportAddOnce, ImportUndoneOnce, HQuitOnce
    DEF HandlerStep
<1>7. ASSUME NEW h \in Handler, HAbandon(h) PROVE OnceOK'
    BY <1>7, HQuitOnce
<1>8. ASSUME NEW h \in Handler, NEW id \in DOMAIN timeline, WebhookBegin(h, id) PROVE OnceOK'
    BY <1>8, WebhookBeginOnce
<1>9. ASSUME ForeignComment \/ Restart PROVE OnceOK'
    BY <1>9, ForeignCommentOnce, RestartOnce
<1>10. ASSUME UNCHANGED vars PROVE OnceOK'
    BY <1>10, StutterOnce
<1> QED
    BY <1>1, <1>2, <1>3, <1>4, <1>5, <1>6, <1>7, <1>8, <1>9, <1>10 DEF Next

-----------------------------------------------------------------------------
(* The theorems.                                                           *)

LEMMA OnceHolds ==
    ASSUME Distinguishable
    PROVE  Spec => [](Consistent /\ OnceOK)
<1>1. Init => Consistent /\ OnceOK
    BY InitConsistent, OnceInit
<1>2. Consistent /\ OnceOK /\ [Next]_vars => Consistent' /\ OnceOK'
    BY NextConsistent, OnceNext
<1> QED
    BY <1>1, <1>2, PTL DEF Spec

\* AtMostOneCopy, if every attempt ends within the grace period and texts tell comments
\* apart: a comment appears in the timeline at most once, for any number of comments,
\* senders, webhook consumers, attempts and failures.
THEOREM OneCopyHolds ==
    ASSUME Timely, TextsDiffer
    PROVE  Spec => []AtMostOneCopy
<1>0. Distinguishable
    BY DEF Distinguishable
<1>1. OnceOK => AtMostOneCopy
    <2> SUFFICES ASSUME OnceOK, NEW c \in Comment PROVE Cardinality(OwnCopies(c)) <= 1
        BY DEF AtMostOneCopy
    <2>1. \A i, j \in OwnCopies(c) : i = j
        BY DEF OnceOK, SendsOK, SendFits
    <2>2. CASE OwnCopies(c) = {}
        BY <2>2, FS_EmptySet
    <2>3. CASE OwnCopies(c) # {}
        <3>1. PICK i : OwnCopies(c) = {i}
            BY <2>1, <2>3
        <3>2. Cardinality({i}) = 1
            BY FS_Singleton
        <3> QED
            BY <3>1, <3>2
    <2> QED
        BY <2>2, <2>3
<1> QED
    BY <1>1, <1>0, OnceHolds, PTL

\* OwnNeverImported, if every attempt ends within the grace period and texts tell comments
\* apart: no webhook reserves or imports a comment that this server wrote itself.  Of two
\* comments with one text it may import one (twin_imported.cfg).
THEOREM OwnStaysOwn ==
    ASSUME Timely, TextsDiffer
    PROVE  Spec => []OwnNeverImported
<1>0. Distinguishable
    BY DEF Distinguishable
<1>1. OnceOK => OwnNeverImported
    BY DEF OnceOK, TimelineOK, OwnNeverImported
<1> QED
    BY <1>1, <1>0, OnceHolds, PTL

\* Only a claim counts an attempt.
LEMMA OnlyClaimsCount ==
    ASSUME Consistent, [Next]_vars, NEW c \in Comment, send'[c].attempts > send[c].attempts
    PROVE  send[c].status \in {"none", "rejected"}
<1>1. send \in [Comment -> SendState] /\ send[c].attempts \in Nat
    BY SendFacts, NumbersAssumption DEF Consistent, TypeOK, DatabaseTypeOK
<1>2. send'[c].attempts # send[c].attempts
    BY <1>1
<1>3. ASSUME NEW w \in Worker, ClaimNew(w) \/ ClaimRejected(w)
      PROVE  send[c].status \in {"none", "rejected"}
    <2>1. c = job[w].cm
        BY <1>1, <1>2, <1>3 DEF ClaimNew, ClaimRejected
    <2> QED
        BY <1>3, <2>1 DEF ClaimNew, ClaimRejected
<1>4. ASSUME NEW d, NEW from, NEW to, Transition(d, from, to) PROVE FALSE
    BY <1>1, <1>2, <1>4 DEF Transition, SendState
<1>5. ASSUME NEW d, NEW id, NEW b, ConfirmStores(d, id, b) PROVE FALSE
    BY <1>1, <1>2, <1>5 DEF ConfirmStores, SendState
<1>6. ASSUME NEW d, NEW b, send' = [send EXCEPT ![d].fin = b] \/ send' = [send EXCEPT ![d].fp = b]
      PROVE FALSE
    BY <1>1, <1>2, <1>6 DEF SendState
<1>7. ASSUME NEW w \in Worker, SenderStep(w) PROVE send[c].status \in {"none", "rejected"}
    BY <1>2, <1>3, <1>4, <1>5, <1>6, <1>7
    DEF SenderStep, LinkMissing, LinkedSkip, LinkedUpdate, ReadWatermark, ClaimDenied, Post,
        PostRefused, CallRetry, AnswerOk, AnswerUnknown, SettleRefused, SettleUnknown,
        SettleConfirmed, Preview, PreviewDeferred, Refresh, Rewrite, Repreview, database
<1>8. ASSUME ReconcilerStep PROVE FALSE
    BY <1>2, <1>4, <1>5, <1>6, <1>8
    DEF ReconcilerStep, ReconcileDemote, ReconcileList, ReconcileTry, ReconcileAdopt,
        ReconcileNothingFound, ReconcileAbsent, ReconcileResend, Finalize, FinalizeClear, database
<1>9. ASSUME NEW h \in Handler, HandlerStep(h) PROVE FALSE
    BY <1>2, <1>5, <1>9
    DEF HandlerStep, WebhookOwn, WebhookForeign, WebhookUnlinked, WebhookMatch, WebhookNoMatch,
        WebhookAdopt, ImportUpdate, ImportNew, ImportReserve, ImportAdd, ImportUndone, database
<1>10. CASE \/ \E w \in Sender, d \in Comment : BeginSync(w, d)
            \/ \E w \in Worker : BitrixAdds(w) \/ BitrixDrops(w) \/ Abandon(w)
            \/ \E d \in Comment : ReconcilePick(d) \/ FinalizePick(d)
            \/ \E h \in Handler : HAbandon(h) \/ \E id \in DOMAIN timeline : WebhookBegin(h, id)
            \/ ForeignComment \/ Restart \/ UNCHANGED vars
    BY <1>2, <1>10
    DEF BeginSync, BitrixAdds, BitrixDrops, Abandon, ReconcilePick, FinalizePick, HAbandon,
        WebhookBegin, ForeignComment, Restart, vars, database
<1> QED
    BY <1>7, <1>8, <1>9, <1>10 DEF Next

\* RetryOnlyWhenAbsent, if every attempt ends within the grace period and texts tell
\* comments apart: whoever claims an attempt, no earlier attempt has left a copy, and none
\* can leave one later.  An attempt that outlives the grace period can (slow_sender.cfg).
THEOREM RetriesAreSafe ==
    ASSUME Timely, TextsDiffer
    PROVE  Spec => RetryOnlyWhenAbsent
<1>0. Distinguishable
    BY DEF Distinguishable
<1>1. Consistent /\ OnceOK /\ [Next]_vars =>
          [\A c \in Comment :
              send'[c].attempts > send[c].attempts =>
                  /\ OwnCopies(c) = {}
                  /\ Quiet(c)]_vars
    BY OnlyClaimsCount, Untouched
<1> QED
    BY <1>1, <1>0, OnceHolds, PTL DEF Spec, RetryOnlyWhenAbsent

-----------------------------------------------------------------------------
(* The refinement.  In terms of copies and links a step does nothing,      *)
(* brings the copy of one comment, or links one comment to its copy.       *)

Same == \A c \in Comment : OwnCopies(c)' = OwnCopies(c) /\ link'[c] = link[c]

Appears(c) ==
    /\ OwnCopies(c) = {} /\ link[c] = 0
    /\ OwnCopies(c)' # {}
    /\ \A d \in Comment \ {c} : OwnCopies(d)' = OwnCopies(d)
    /\ \A d \in Comment : link'[d] = link[d]

Settles(c) ==
    /\ OwnCopies(c) # {} /\ link[c] = 0
    /\ link'[c] # 0
    /\ \A d \in Comment \ {c} : link'[d] = link[d]
    /\ \A d \in Comment : OwnCopies(d)' = OwnCopies(d)

\* The stage of a comment, which is never "broken".
Plain(c) ==
    IF OwnCopies(c) = {} THEN "unsent" ELSE IF link[c] = 0 THEN "delivered" ELSE "linked"

StagesPlain == \A c \in Comment : Stage(c) = Plain(c)

LEMMA StageIsPlain == Consistent /\ OnceOK => StagesPlain
<1> SUFFICES ASSUME Consistent, OnceOK, NEW c \in Comment PROVE Stage(c) = Plain(c)
    BY DEF StagesPlain
<1>1. \A i, j \in OwnCopies(c) : i = j
    BY DEF OnceOK, SendsOK, SendFits
<1>2. link[c] # 0 => link[c] \in OwnCopies(c)
    BY DEF OnceOK, SendsOK, SendFits
<1>3. CASE OwnCopies(c) = {}
    BY <1>2, <1>3 DEF Stage, Plain
<1>4. CASE OwnCopies(c) # {}
    <2>1. PICK i : OwnCopies(c) = {i}
        BY <1>1, <1>4
    <2>2. Cardinality({i}) = 1
        BY FS_Singleton
    <2>3. Cardinality(OwnCopies(c)) = 1
        BY <2>1, <2>2
    <2>4. CASE link[c] = 0
        <3>1. OwnCopies(c) # {link[c]}
            BY <2>4, TimelineFacts DEF OwnCopies
        <3> QED
            BY <1>4, <2>3, <2>4, <3>1 DEF Stage, Plain
    <2>5. CASE link[c] # 0
        <3>1. OwnCopies(c) = {link[c]}
            BY <1>2, <2>1, <2>5
        <3> QED
            BY <1>4, <2>5, <3>1 DEF Stage, Plain
    <2> QED
        BY <2>4, <2>5
<1> QED
    BY <1>3, <1>4

\* Rewriting a comment of the timeline does not change whose copy it is.
LEMMA RetextCopies ==
    ASSUME Consistent, NEW i, NEW t,
           timeline' = [timeline EXCEPT ![i].txt = t] \/ timeline' = timeline
    PROVE  \A c \in Comment : OwnCopies(c)' = OwnCopies(c)
<1>1. CASE timeline' = timeline
    BY <1>1 DEF OwnCopies
<1>2. CASE timeline' = [timeline EXCEPT ![i].txt = t]
    <2>1. timeline \in [1..Len(timeline) -> Entry] /\ DOMAIN timeline' = DOMAIN timeline
        BY <1>2, TimelineFacts
    <2>2. ASSUME NEW k \in DOMAIN timeline PROVE timeline'[k].src = timeline[k].src
        BY <1>2, <2>1 DEF Entry
    <2> QED
        BY <2>1, <2>2 DEF OwnCopies
<1> QED
    BY <1>1, <1>2

LEMMA StoreSettles ==
    ASSUME Consistent, NEW c \in Comment, NEW id \in OwnCopies(c), NEW b,
           ConfirmStores(c, id, b), timeline' = timeline
    PROVE  Settles(c)
<1>1. link[c] = 0 /\ id # 0
    BY SendFacts, TimelineFacts DEF ConfirmStores, OwnCopies
<1>2. link \in [Comment -> Nat]
    BY DEF Consistent, TypeOK, DatabaseTypeOK
<1>3. \A d \in Comment : OwnCopies(d)' = OwnCopies(d)
    BY DEF OwnCopies
<1> QED
    BY <1>1, <1>2, <1>3 DEF ConfirmStores, Settles

LEMMA SenderStages ==
    ASSUME Consistent, OnceOK, NEW w \in Worker, SenderStep(w)
    PROVE  Same \/ \E c \in Comment : Settles(c)
<1>1. CASE SettleConfirmed(w)
    <2>1. pc[w] = "confirm" /\ timeline' = timeline
        BY <1>1 DEF SettleConfirmed, bitrix
    <2>2. job[w].cm \in Comment /\ job[w].id \in OwnCopies(job[w].cm)
        BY <2>1, JobFacts, WorkerFacts DEF AttemptFits, AttemptPhase
    <2>3. CASE ConfirmStores(job[w].cm, job[w].id, FALSE)
        BY <2>1, <2>2, <2>3, StoreSettles
    <2>4. CASE UNCHANGED link
        BY <2>1, <2>4 DEF Same, OwnCopies
    <2> QED
        BY <1>1, <2>3, <2>4 DEF SettleConfirmed
<1>2. CASE Preview(w) \/ Rewrite(w) \/ Repreview(w)
    <2>1. link' = link
        BY <1>2 DEF Preview, Rewrite, Repreview, database
    <2>2. timeline' = [timeline EXCEPT ![job[w].id].txt = job[w].txt] \/ timeline' = timeline
        BY <1>2 DEF Preview, Rewrite, Repreview, Style
    <2> QED
        BY <2>1, <2>2, RetextCopies DEF Same
<1>3. CASE link' = link /\ timeline' = timeline
    BY <1>3 DEF Same, OwnCopies
<1> QED
    BY <1>1, <1>2, <1>3
    DEF SenderStep, LinkMissing, LinkedSkip, LinkedUpdate, ReadWatermark, ClaimNew, ClaimRejected,
        ClaimDenied, Post, PostRefused, CallRetry, AnswerOk, AnswerUnknown, SettleRefused,
        SettleUnknown, PreviewDeferred, Refresh, database, bitrix

LEMMA ReconcilerStages ==
    ASSUME Consistent, OnceOK, ReconcilerStep
    PROVE  Same \/ \E c \in Comment : Settles(c)
<1> DEFINE r == Reconciler
<1>1. CASE ReconcileAdopt
    <2>1. pc[r] = "adopt" /\ timeline' = timeline
        BY <1>1 DEF ReconcileAdopt, bitrix
    <2>2. job[r].cm \in Comment /\ job[r].id \in OwnCopies(job[r].cm)
        BY <2>1, RecFacts, DecidingFacts DEF RecFits, Deciding
    <2>3. CASE ConfirmStores(job[r].cm, job[r].id, TRUE)
        BY <2>1, <2>2, <2>3, StoreSettles
    <2>4. CASE UNCHANGED link
        BY <2>1, <2>4 DEF Same, OwnCopies
    <2> QED
        BY <1>1, <2>3, <2>4 DEF ReconcileAdopt
<1>2. CASE Finalize
    <2>1. link' = link
        BY <1>2 DEF Finalize, database
    <2>2. \/ \E t \in TextsOf[job[r].cm] : Style(send[job[r].cm].b24, job[r].cm, t)
          \/ timeline' = timeline
        BY <1>2 DEF Finalize
    <2>3. \E i, t : timeline' = [timeline EXCEPT ![i].txt = t] \/ timeline' = timeline
        BY <2>2 DEF Style
    <2> QED
        BY <2>1, <2>3, RetextCopies DEF Same
<1>3. CASE link' = link /\ timeline' = timeline
    BY <1>3 DEF Same, OwnCopies
<1> QED
    BY <1>1, <1>2, <1>3
    DEF ReconcilerStep, ReconcileDemote, ReconcileList, ReconcileTry, ReconcileNothingFound,
        ReconcileAbsent, ReconcileResend, FinalizeClear, database, bitrix

LEMMA HandlerStages ==
    ASSUME Consistent, OnceOK, NEW h \in Handler, HandlerStep(h)
    PROVE  Same \/ \E c \in Comment : Settles(c)
<1>1. CASE WebhookAdopt(h)
    <2>1. PICK c \in Comment, id \in Nat : c = hjob[h].cm /\ id = hjob[h].id
        BY <1>1, HJobFacts DEF WebhookAdopt
    <2>2. hpc[h] = "adopt" /\ timeline' = timeline
        BY <1>1 DEF WebhookAdopt, bitrix
    <2>3. HookFits("adopt", hjob[h]) /\ id \in OwnCopies(c)
        BY <2>1, <2>2, HookFacts DEF HookFits, OwnCopies
    <2>4. CASE ConfirmStores(c, id, TRUE)
        BY <2>2, <2>3, <2>4, StoreSettles
    <2>5. CASE UNCHANGED link
        BY <2>2, <2>5 DEF Same, OwnCopies
    <2> QED
        BY <1>1, <2>1, <2>4, <2>5 DEF WebhookAdopt
<1>2. CASE link' = link /\ timeline' = timeline
    BY <1>2 DEF Same, OwnCopies
<1> QED
    BY <1>1, <1>2
    DEF HandlerStep, WebhookOwn, WebhookForeign, WebhookUnlinked, WebhookMatch, WebhookNoMatch,
        ImportUpdate, ImportNew, ImportReserve, ImportAdd, ImportUndone, database, bitrix

LEMMA BitrixStages ==
    ASSUME Consistent, OnceOK, NEW w \in Worker, BitrixAdds(w)
    PROVE  \E c \in Comment : Appears(c)
<1>1. PICK c \in Comment, n \in Nat : c = wire[w].cm /\ n = Len(timeline) + 1
    BY TimelineFacts DEF BitrixAdds, Consistent, WireOK
<1> DEFINE e == [src |-> c, txt |-> wire[w].txt, mine |-> TRUE]
<1>2. timeline' = Append(timeline, e)
    BY <1>1 DEF BitrixAdds
<1>3. OwnCopies(c) = {} /\ send[c].status \in Open /\ link[c] = 0
    BY <1>1, SendFacts DEF BitrixAdds, OnceOK, WiresOK, WireFits, Open
<1>4. /\ DOMAIN timeline = 1..Len(timeline) /\ DOMAIN timeline' = 1..n
      /\ timeline'[n] = e /\ \A i \in DOMAIN timeline : timeline'[i] = timeline[i]
    BY <1>1, <1>2, AppendFacts
<1>5. /\ OwnCopies(c)' = {n}
      /\ \A d \in Comment \ {c} : OwnCopies(d)' = OwnCopies(d)
    BY <1>1, <1>3, <1>4, TimelineFacts DEF OwnCopies
<1> QED
    BY <1>3, <1>5 DEF Appears, BitrixAdds, database

LEMMA ForeignStages ==
    ASSUME Consistent, ForeignComment
    PROVE  Same
<1>1. PICK t \in Text : timeline' = Append(timeline, [src |-> NoComment, txt |-> t, mine |-> FALSE])
    BY DEF ForeignComment
<1> DEFINE e == [src |-> NoComment, txt |-> t, mine |-> FALSE]
           n == Len(timeline) + 1
<1>2. /\ DOMAIN timeline = 1..Len(timeline) /\ DOMAIN timeline' = 1..n
      /\ timeline'[n] = e /\ \A i \in DOMAIN timeline : timeline'[i] = timeline[i]
    BY <1>1, AppendFacts
<1>3. \A c \in Comment : OwnCopies(c)' = OwnCopies(c)
    BY <1>2, TimelineFacts, SetsAssumption DEF OwnCopies
<1> QED
    BY <1>3 DEF Same, ForeignComment, database

LEMMA StepStages ==
    ASSUME Consistent, OnceOK, [Next]_vars
    PROVE  Same \/ \E c \in Comment : Appears(c) \/ Settles(c)
<1>1. CASE link' = link /\ timeline' = timeline
    BY <1>1 DEF Same, OwnCopies
<1>2. CASE \/ \E w \in Sender, c \in Comment : BeginSync(w, c)
           \/ \E w \in Worker : BitrixDrops(w) \/ Abandon(w)
           \/ \E c \in Comment : ReconcilePick(c) \/ FinalizePick(c)
           \/ \E h \in Handler : HAbandon(h) \/ \E id \in DOMAIN timeline : WebhookBegin(h, id)
           \/ Restart \/ UNCHANGED vars
    BY <1>1, <1>2
    DEF BeginSync, BitrixDrops, Abandon, ReconcilePick, FinalizePick, HAbandon, WebhookBegin,
        Restart, vars, database, bitrix
<1> QED
    BY <1>2, SenderStages, ReconcilerStages, HandlerStages, BitrixStages, ForeignStages DEF Next

LEMMA StepDelivers ==
    Consistent /\ OnceOK /\ Consistent' /\ OnceOK' /\ [Next]_vars
        => [Delivery!Next]_([c \in Comment |-> Stage(c)])
<1> SUFFICES ASSUME Consistent, OnceOK, Consistent', OnceOK', [Next]_vars
             PROVE  \/ Delivery!Next
                    \/ UNCHANGED [c \in Comment |-> Stage(c)]
    OBVIOUS
<1>1. \A c \in Comment : Stage(c) = Plain(c)
    BY StageIsPlain DEF StagesPlain
<1>2. \A c \in Comment : Stage(c)' = Plain(c)'
    <2>1. StagesPlain'
        BY StageIsPlain, PTL
    <2> QED
        BY <2>1 DEF StagesPlain
<1>3. CASE Same
    <2>1. \A c \in Comment : Plain(c)' = Plain(c)
        BY <1>3 DEF Same, Plain
    <2>2. \A c \in Comment : Stage(c)' = Stage(c)
        BY <1>1, <1>2, <2>1
    <2> QED
        BY <2>2
<1>4. ASSUME NEW c \in Comment, Appears(c) PROVE Delivery!Deliver(c)
    <2>1. /\ Plain(c) = "unsent" /\ Plain(c)' = "delivered"
          /\ \A d \in Comment \ {c} : Plain(d)' = Plain(d)
        BY <1>4 DEF Appears, Plain
    <2>2. /\ Stage(c) = "unsent" /\ Stage(c)' = "delivered"
          /\ \A d \in Comment \ {c} : Stage(d)' = Stage(d)
        BY <1>1, <1>2, <2>1
    <2> QED
        BY <2>2 DEF Delivery!Deliver
<1>5. ASSUME NEW c \in Comment, Settles(c) PROVE Delivery!Learn(c)
    <2>1. /\ Plain(c) = "delivered" /\ Plain(c)' = "linked"
          /\ \A d \in Comment \ {c} : Plain(d)' = Plain(d)
        BY <1>5 DEF Settles, Plain
    <2>2. /\ Stage(c) = "delivered" /\ Stage(c)' = "linked"
          /\ \A d \in Comment \ {c} : Stage(d)' = Stage(d)
        BY <1>1, <1>2, <2>1
    <2> QED
        BY <2>2 DEF Delivery!Learn
<1> QED
    BY <1>3, <1>4, <1>5, StepStages DEF Delivery!Next

LEMMA InitDelivers == Init => Delivery!Init
<1> SUFFICES ASSUME Init PROVE Delivery!Init
    OBVIOUS
<1>1. \A i \in DOMAIN timeline : timeline[i].src = NoComment
    BY DEF Init
<1>2. ASSUME NEW c \in Comment PROVE OwnCopies(c) = {} /\ link[c] = 0
    BY <1>1, SetsAssumption DEF Init, OwnCopies
<1>3. ASSUME NEW c \in Comment PROVE Stage(c) = "unsent"
    BY <1>2 DEF Stage
<1> QED
    BY <1>3 DEF Delivery!Init

\* ImplementsDelivery, if every attempt ends within the grace period and texts tell
\* comments apart: a comment appears in at most one copy and is linked to no other than that
\* one, for ever once it is, whatever is retried, lost or restarted.  Otherwise it is not so
\* (slow_sender.cfg, twin_imported.cfg).
THEOREM CommentsAreDelivered ==
    ASSUME Timely, TextsDiffer
    PROVE  Spec => ImplementsDelivery
<1>0. Distinguishable
    BY DEF Distinguishable
<1>1. Init => Delivery!Init
    BY InitDelivers
<1>2. Consistent /\ OnceOK /\ Consistent' /\ OnceOK' /\ [Next]_vars
          => [Delivery!Next]_([c \in Comment |-> Stage(c)])
    BY StepDelivers
<1> QED
    BY <1>1, <1>2, <1>0, OnceHolds, PTL DEF Spec, ImplementsDelivery, Delivery!Spec

-----------------------------------------------------------------------------
(* Comments with the same text.  A copy is accounted to one comment, its   *)
(* share: to the comment that is linked to it, else to one whose send is   *)
(* open and could adopt it.  At first that is the comment it was sent for; *)
(* when another one adopts it, they exchange their shares.                 *)

Own == {i \in DOMAIN timeline : timeline[i].src # NoComment}

Share(f, c) == {i \in Own : f[i] = c}

\* What the journal says of a comment, and its share.
Account(f, c) ==
    /\ send[c].wm <= send[c].born /\ send[c].born <= Len(timeline)
    /\ send[c].status \in {"none", "rejected"} => Share(f, c) = {}
    /\ send[c].status \in Open =>
          \A i \in Share(f, c) : MatchesSend(c, send[c].fp, i, timeline[i].txt)
    /\ \A i, k \in Share(f, c) : i = k
    /\ link[c] # 0 => link[c] \in DOMAIN timeline
    /\ link[c] \in Own => f[link[c]] = c

Ledger(f) ==
    /\ f \in [Own -> Comment]
    /\ foreign = {}
    /\ \A i \in Own : timeline[i].mine
    /\ \A c \in Comment : Account(f, c)

\* A request Bitrix24 has yet to run is the only one of its comment, which has no share.
WireShares(f, w) ==
    wire[w] # NoRequest =>
        /\ Share(f, wire[w].cm) = {}
        /\ send[wire[w].cm].status \in Open
        /\ wire[w].txt = send[wire[w].cm].fp
        /\ \A v \in Worker : wire[v].cm = wire[w].cm => v = w

\* A worker in phase p of an attempt with the local variables j.
AttemptShares(f, w, p, j) ==
    p \in AttemptPhase =>
        /\ send[j.cm].status = "sending"
        /\ \A v \in Worker : wire[v].cm = j.cm => v = w /\ p \in {"wait", "unknown"}
        /\ p \in {"post", "refused"} => Share(f, j.cm) = {}
        /\ p = "wait" /\ wire[w] # NoRequest => wire[w].cm = j.cm /\ j.id = 0
        /\ p = "wait" /\ wire[w] = NoRequest /\ j.id = 0 => Share(f, j.cm) = {}
        /\ p = "confirm" \/ (p = "wait" /\ j.id # 0) =>
              j.id \in Own /\ (j.id \in Linked \/ f[j.id] = j.cm)
        /\ p \in {"post", "wait"} /\ j.id = 0 => j.txt = send[j.cm].fp

\* The reconciler in phase p with the local variables j, and the matches s it has not tried.
RecShares(f, p, j, s) ==
    p \in Deciding =>
        /\ send[j.cm].status \in Open
        /\ Quiet(j.cm)
        /\ p \in {"demote", "list"} => j.txt = send[j.cm].fp
        /\ p = "try" =>
              /\ Share(f, j.cm) \subseteq s
              /\ \A i \in s : i \in DOMAIN timeline /\ (i \in Linked \/ timeline[i].txt = send[j.cm].fp)
        /\ p = "adopt" =>
              /\ j.id \in DOMAIN timeline
              /\ j.id \in Linked \/ timeline[j.id].txt = send[j.cm].fp
              /\ \A i \in Share(f, j.cm) : j.id <= i
        /\ p = "absent" => Share(f, j.cm) = {}

\* The local variables of a worker in phase p.
JobShares(p, j) ==
    /\ p \in {"idle", "link", "watermark", "claim", "post"} => j.id = 0
    /\ p = "claim" => j.wm <= Len(timeline)
    /\ p \in {"preview", "refresh", "rewrite", "repreview"} => j.id # 0 /\ j.id = link[j.cm]

WiresShare(f) == \A w \in Worker : WireShares(f, w)

AttemptsShare(f) == \A w \in Worker : AttemptShares(f, w, pc[w], job[w])

JobsShare == \A w \in Worker : JobShares(pc[w], job[w])

RecShare(f) == RecShares(f, pc[Reconciler], job[Reconciler], found)

ShareOK(f) ==
    /\ Ledger(f) /\ WiresShare(f) /\ AttemptsShare(f) /\ JobsShare /\ RecShare(f)
    /\ OneAttempt /\ RecAlone

-----------------------------------------------------------------------------
(* Steps that change nothing but the send of one comment and the local     *)
(* variables of one worker.                                                *)

LEMMA ShareFacts ==
    ASSUME Consistent, NEW f, ShareOK(f), NEW w \in Worker
    PROVE  /\ AttemptShares(f, w, pc[w], job[w]) /\ JobShares(pc[w], job[w]) /\ WireShares(f, w)
           /\ pc[w] # "idle" => Account(f, job[w].cm)
           /\ w = Reconciler =>
                 RecShares(f, pc[w], job[w], found) /\ (pc[w] \in Deciding => Settled(job[w].cm))
BY JobFacts DEF ShareOK, Ledger, WiresShare, AttemptsShare, JobsShare, RecShare, RecAlone

KeepsSend(c) ==
    /\ send'[c].status = send[c].status /\ send'[c].fp = send[c].fp
    /\ send'[c].wm = send[c].wm /\ send'[c].born = send[c].born

still == <<link, foreign, timeline, wire>>

\* A comment whose send stays what it is keeps its account, its request and its attempt.
LEMMA KeepFrame ==
    ASSUME Consistent, NEW f, UNCHANGED still, NEW c \in Comment, KeepsSend(c)
    PROVE  /\ Account(f, c) => Account(f, c)'
           /\ \A w \in Worker : wire[w].cm = c /\ WireShares(f, w) => WireShares(f, w)'
           /\ \A w \in Worker, p \in Phase, j \in Job :
                 j.cm = c /\ AttemptShares(f, w, p, j) => AttemptShares(f, w, p, j)'
           /\ \A p \in Phase, j \in Job : \A s :
                 j.cm = c /\ RecShares(f, p, j, s) => RecShares(f, p, j, s)'
<1>1. /\ Own' = Own /\ Linked' = Linked
      /\ \A d : Share(f, d)' = Share(f, d)
    BY DEF still, Own, Share, Linked
<1>2. \A i, t : MatchesSend(c, t, i, timeline[i].txt) => MatchesSend(c, t, i, timeline[i].txt)'
    BY DEF still, KeepsSend, MatchesSend
<1>3. Account(f, c) => Account(f, c)'
    BY <1>1, <1>2 DEF still, KeepsSend, Account
<1>4. \A w \in Worker : wire[w].cm = c /\ WireShares(f, w) => WireShares(f, w)'
    BY <1>1 DEF still, KeepsSend, WireShares
<1>5. ASSUME NEW w \in Worker, NEW p \in Phase, NEW j \in Job, j.cm = c, AttemptShares(f, w, p, j)
      PROVE  AttemptShares(f, w, p, j)'
    BY <1>1, <1>5 DEF still, KeepsSend, AttemptShares
<1>6. ASSUME NEW p \in Phase, NEW j \in Job, NEW s, j.cm = c, RecShares(f, p, j, s)
      PROVE  RecShares(f, p, j, s)'
    BY <1>1, <1>6 DEF still, KeepsSend, RecShares, Quiet
<1> QED
    BY <1>3, <1>4, <1>5, <1>6

\* A step of worker w that may change the send of c: nobody else relies on it.
LEMMA MoveShare ==
    ASSUME Consistent, NEW f, ShareOK(f), UNCHANGED still,
           NEW w \in Worker, NEW p \in Phase, NEW j \in Job, NEW c,
           SetPc(w, p), job' = [job EXCEPT ![w] = j], w # Reconciler => found' = found,
           \A d \in Comment \ {c} : KeepsSend(d),
           \/ KeepsSend(c)
           \/ /\ Account(f, c)'
              /\ \A v \in Worker \ {w} : ~(pc[v] \in AttemptPhase /\ job[v].cm = c)
              /\ w # Reconciler => ~(pc[Reconciler] \in Deciding /\ job[Reconciler].cm = c)
              /\ Quiet(c) \/ (send'[c].status \in Open /\ send'[c].fp = send[c].fp),
           p \in AttemptPhase => \/ pc[w] \in AttemptPhase /\ j.cm = job[w].cm
                                 \/ send[j.cm].status \in {"none", "rejected"},
           AttemptShares(f, w, p, j)', JobShares(p, j),
           w = Reconciler => RecShares(f, p, j, found)' /\ (p \in Deciding => Settled(j.cm))
    PROVE  ShareOK(f)'
<1>1. /\ pc'[w] = p /\ job'[w] = j
      /\ \A v \in Worker \ {w} : pc'[v] = pc[v] /\ job'[v] = job[v]
      /\ \A v \in Worker : pc[v] \in Phase /\ job[v] \in Job
      /\ \A v \in Worker : pc[v] # "idle" => job[v].cm \in Comment
    BY JobFacts DEF SetPc, Consistent, TypeOK, WorkersTypeOK
<1>2. Ledger(f)'
    <2>1. Own' = Own /\ \A i \in Own : timeline'[i] = timeline[i]
        BY DEF still, Own
    <2>2. \A d \in Comment : Account(f, d)'
        BY KeepFrame DEF ShareOK, Ledger
    <2> QED
        BY <2>1, <2>2 DEF ShareOK, Ledger, still
<1>3. WiresShare(f)'
    <2> SUFFICES ASSUME NEW v \in Worker, wire[v] # NoRequest PROVE WireShares(f, v)'
        BY DEF WiresShare, WireShares, still
    <2>1. WireShares(f, v) /\ wire[v].cm \in Comment
        BY DEF ShareOK, WiresShare, Consistent, WireOK
    <2>2. CASE KeepsSend(wire[v].cm)
        BY <2>1, <2>2, KeepFrame
    <2>3. CASE ~KeepsSend(wire[v].cm)
        <3>1. wire[v].cm = c /\ ~Quiet(c)
            BY <2>1, <2>3 DEF Quiet
        <3>2. Share(f, c)' = Share(f, c)
            BY DEF still, Share, Own
        <3> QED
            BY <2>1, <2>3, <3>1, <3>2 DEF WireShares, still
    <2> QED
        BY <2>2, <2>3
<1>4. "idle" \notin AttemptPhase \cup Deciding
    BY DEF AttemptPhase, Deciding
<1>5. ASSUME NEW v \in Worker \ {w} PROVE AttemptShares(f, v, pc[v], job[v])'
    <2>1. AttemptShares(f, v, pc[v], job[v])
        BY ShareFacts
    <2>2. CASE pc[v] \notin AttemptPhase
        BY <1>1, <2>2 DEF AttemptShares
    <2>3. CASE pc[v] \in AttemptPhase
        <3>1. job[v].cm \in Comment /\ KeepsSend(job[v].cm)
            BY <1>1, <1>4, <2>3
        <3> QED
            BY <1>1, <2>1, <3>1, KeepFrame
    <2> QED
        BY <2>2, <2>3
<1>6. AttemptsShare(f)'
    BY <1>1, <1>5 DEF AttemptsShare
<1>7. JobsShare'
    BY <1>1 DEF ShareOK, JobsShare, JobShares, still
<1>8. RecShare(f)'
    <2>1. CASE w = Reconciler
        BY <1>1, <2>1 DEF RecShare
    <2>2. CASE w # Reconciler
        <3>1. /\ pc'[Reconciler] = pc[Reconciler] /\ job'[Reconciler] = job[Reconciler] /\ found' = found
              /\ RecShares(f, pc[Reconciler], job[Reconciler], found)
            BY <1>1, <2>2, RecFacts, ShareFacts
        <3>2. CASE pc[Reconciler] \notin Deciding
            BY <3>1, <3>2 DEF RecShare, RecShares
        <3>3. CASE pc[Reconciler] \in Deciding
            <4>1. job[Reconciler].cm \in Comment /\ KeepsSend(job[Reconciler].cm)
                BY <1>1, <1>4, <2>2, <3>3, RecFacts
            <4> QED
                BY <1>1, <3>1, <4>1, KeepFrame, RecFacts DEF RecShare
        <3> QED
            BY <3>2, <3>3
    <2> QED
        BY <2>1, <2>2
<1>9. \A v \in Worker : pc[v] \in AttemptPhase => send[job[v].cm].status = "sending"
    BY ShareFacts DEF AttemptShares
<1>10. OneAttempt'
    BY <1>1, <1>9 DEF ShareOK, OneAttempt
<1>11. RecAlone'
    <2>1. pc[Reconciler] \in Deciding => send[job[Reconciler].cm].status \in Open
        BY RecFacts, ShareFacts DEF RecShares
    <2>2. CASE w = Reconciler
        <3>1. Deciding \cap AttemptPhase = {}
            BY DEF Deciding, AttemptPhase
        <3> QED
            BY <1>1, <2>2, <3>1 DEF RecAlone, Settled
    <2>3. CASE w # Reconciler
        <3>1. pc[Reconciler] \in Deciding => Settled(job[Reconciler].cm)
            BY DEF ShareOK, RecAlone
        <3>2. pc'[Reconciler] = pc[Reconciler] /\ job'[Reconciler] = job[Reconciler]
            BY <1>1, <2>3, RecFacts
        <3>3. ASSUME pc[Reconciler] \in Deciding, p \in AttemptPhase PROVE j.cm # job[Reconciler].cm
            BY <2>1, <3>1, <3>3 DEF Settled, Open
        <3> QED
            BY <1>1, <3>1, <3>2, <3>3 DEF RecAlone, Settled
    <2> QED
        BY <2>2, <2>3
<1> QED
    BY <1>2, <1>3, <1>6, <1>7, <1>8, <1>10, <1>11 DEF ShareOK

\* The worker goes on, and no send changes.
LEMMA LocalShare ==
    ASSUME Consistent, Consistent', NEW f, ShareOK(f), UNCHANGED <<send, still>>,
           NEW w \in Worker, NEW p \in Phase, NEW j \in Job,
           SetPc(w, p), job' = [job EXCEPT ![w] = j], w # Reconciler => found' = found,
           p \in AttemptPhase => pc[w] \in AttemptPhase /\ j.cm = job[w].cm,
           AttemptShares(f, w, p, j), JobShares(p, j),
           w = Reconciler => RecShares(f, p, j, found') /\ (p \in Deciding => Settled(j.cm))
    PROVE  ShareOK(f)'
<1>1. \A d : KeepsSend(d)
    BY DEF KeepsSend
<1>2. job' \in [Worker -> Job] /\ pc' \in [Worker -> Phase]
    BY DEF Consistent, TypeOK, WorkersTypeOK
<1>3. AttemptShares(f, w, p, j)'
    BY DEF AttemptShares, Share, Own, Linked, still
<1>4. w = Reconciler => RecShares(f, p, j, found)'
    BY DEF RecShares, Share, Own, Linked, Quiet, still
<1> QED
    BY <1>1, <1>3, <1>4, MoveShare

LEMMA FinishShare ==
    ASSUME Consistent, Consistent', NEW f, ShareOK(f), UNCHANGED <<send, still>>,
           NEW w \in Worker, Finish(w), w # Reconciler => found' = found
    PROVE  ShareOK(f)'
<1>1. /\ AttemptShares(f, w, "idle", NoJob) /\ JobShares("idle", NoJob)
      /\ RecShares(f, "idle", NoJob, found')
    BY IdleFacts DEF AttemptShares, JobShares, RecShares
<1> QED
    BY <1>1, IdleFacts, LocalShare DEF Finish

\* The worker goes on with the local variables it has.
LEMMA AdvanceShare ==
    ASSUME Consistent, Consistent', NEW f, ShareOK(f), UNCHANGED <<send, still>>,
           NEW w \in Worker, NEW p \in Phase, SetPc(w, p), UNCHANGED job,
           w # Reconciler => found' = found,
           p \in AttemptPhase => pc[w] \in AttemptPhase,
           AttemptShares(f, w, p, job[w]), JobShares(p, job[w]),
           w = Reconciler => RecShares(f, p, job[w], found') /\ (p \in Deciding => Settled(job[w].cm))
    PROVE  ShareOK(f)'
<1>1. job' = [job EXCEPT ![w] = job[w]] /\ job[w] \in Job
    BY DEF Consistent, TypeOK, WorkersTypeOK
<1> QED
    BY <1>1, LocalShare

\* Phases outside of attempts and decisions.
LEMMA CalmShare ==
    ASSUME NEW f, NEW w, NEW p, NEW j, NEW s, p \notin AttemptPhase, p \notin Deciding
    PROVE  /\ AttemptShares(f, w, p, j) /\ RecShares(f, p, j, s)
           /\ AttemptShares(f, w, p, j)' /\ RecShares(f, p, j, s)'
BY DEF AttemptShares, RecShares

LEMMA BeginSyncShare ==
    ASSUME Consistent, Consistent', NEW f, ShareOK(f),
           NEW w \in Sender, NEW c \in Comment, BeginSync(w, c)
    PROVE  ShareOK(f)'
<1> USE DEF BeginSync
<1>1. PICK t \in TextsOf[c] : job' = [job EXCEPT ![w].cm = c, ![w].txt = t]
    OBVIOUS
<1> DEFINE j == [job[w] EXCEPT !.cm = c, !.txt = t]
<1>2. t \in Text /\ job[w] \in Job /\ w \in Worker /\ w # Reconciler
    BY SetsAssumption, JobFacts DEF Worker
<1>3. j \in Job /\ j.id = job[w].id
    BY <1>2 DEF Job
<1>4. job' = [job EXCEPT ![w] = j]
    BY <1>1, <1>2 DEF Consistent, TypeOK, WorkersTypeOK
<1>5. JobShares("link", j) /\ "link" \in Phase \ (AttemptPhase \cup Deciding)
    BY <1>2, <1>3, ShareFacts DEF JobShares, Phase, SyncPhase, AttemptPhase, Deciding
<1> HIDE DEF j
<1> QED
    BY <1>2, <1>3, <1>4, <1>5, CalmShare, LocalShare DEF still, database, bitrix

LEMMA LinkMissingShare ==
    ASSUME Consistent, Consistent', NEW f, ShareOK(f), NEW w \in Worker, LinkMissing(w)
    PROVE  ShareOK(f)'
<1> USE DEF LinkMissing
<1>1. JobShares("watermark", job[w]) /\ "watermark" \in Phase \ (AttemptPhase \cup Deciding)
    BY ShareFacts DEF JobShares, Phase, SyncPhase, AttemptPhase, Deciding
<1> QED
    BY <1>1, AdvanceShare, CalmShare DEF still, database, bitrix

LEMMA LinkedUpdateShare ==
    ASSUME Consistent, Consistent', NEW f, ShareOK(f), NEW w \in Worker, LinkedUpdate(w)
    PROVE  ShareOK(f)'
<1> USE DEF LinkedUpdate
<1> DEFINE j == [job[w] EXCEPT !.id = link[job[w].cm]]
<1>1. job[w] \in Job /\ job[w].cm \in Comment /\ link[job[w].cm] \in Nat
    BY JobFacts, SendFacts
<1>2. j \in Job /\ j.cm = job[w].cm /\ j.id = link[job[w].cm]
    BY <1>1 DEF Job
<1>3. job' = [job EXCEPT ![w] = j]
    BY DEF Consistent, TypeOK, WorkersTypeOK
<1>4. JobShares("refresh", j) /\ "refresh" \in Phase \ (AttemptPhase \cup Deciding)
    BY <1>2 DEF JobShares, Phase, SyncPhase, AttemptPhase, Deciding
<1> HIDE DEF j
<1> QED
    BY <1>2, <1>3, <1>4, CalmShare, LocalShare DEF still, database, bitrix

LEMMA ReadWatermarkShare ==
    ASSUME Consistent, Consistent', NEW f, ShareOK(f), NEW w \in Worker, ReadWatermark(w)
    PROVE  ShareOK(f)'
<1> USE DEF ReadWatermark
<1>1. PICK m \in LinkedIds \cup {0} : job' = [job EXCEPT ![w].wm = m]
    OBVIOUS
<1> DEFINE j == [job[w] EXCEPT !.wm = m]
<1>2. m \in Nat /\ m <= Len(timeline)
    BY <1>1, TimelineFacts DEF LinkedIds, Linked, ShareOK, Ledger, Account
<1>3. j \in Job /\ j.id = job[w].id /\ j.wm = m
    BY <1>2, JobFacts DEF Job
<1>4. job' = [job EXCEPT ![w] = j]
    BY <1>1 DEF Consistent, TypeOK, WorkersTypeOK
<1>5. JobShares("claim", j) /\ "claim" \in Phase \ (AttemptPhase \cup Deciding)
    BY <1>2, <1>3, ShareFacts DEF JobShares, Phase, SyncPhase, AttemptPhase, Deciding
<1> HIDE DEF j
<1> QED
    BY <1>3, <1>4, <1>5, CalmShare, LocalShare DEF still, database, bitrix

LEMMA PostRefusedShare ==
    ASSUME Consistent, Consistent', NEW f, ShareOK(f), NEW w \in Worker, PostRefused(w)
    PROVE  ShareOK(f)'
<1> USE DEF PostRefused
<1>1. AttemptShares(f, w, "refused", job[w]) /\ JobShares("refused", job[w])
    BY ShareFacts DEF AttemptShares, JobShares, AttemptPhase
<1>2. "refused" \in Phase \ Deciding /\ pc[w] \in AttemptPhase
    BY DEF Phase, SyncPhase, AttemptPhase, Deciding
<1> QED
    BY <1>1, <1>2, AdvanceShare DEF still, database, bitrix, RecShares

LEMMA CallRetryShare ==
    ASSUME Consistent, Consistent', NEW f, ShareOK(f), NEW w \in Worker, CallRetry(w)
    PROVE  ShareOK(f)'
<1> USE DEF CallRetry
<1>1. job[w].cm \in Comment /\ job[w].cm # NoComment
    BY JobFacts, SetsAssumption
<1>2. AttemptShares(f, w, "post", job[w]) /\ JobShares("post", job[w])
    BY <1>1, ShareFacts DEF AttemptShares, JobShares, AttemptPhase, NoRequest
<1>3. "post" \in Phase \ Deciding /\ pc[w] \in AttemptPhase
    BY DEF Phase, SyncPhase, AttemptPhase, Deciding
<1> QED
    BY <1>2, <1>3, AdvanceShare DEF still, database, bitrix, RecShares

\* The call has come to its end: no request of the comment is left.
LEMMA AnswerOkShare ==
    ASSUME Consistent, Consistent', NEW f, ShareOK(f), NEW w \in Worker, AnswerOk(w)
    PROVE  ShareOK(f)'
<1> USE DEF AnswerOk
<1>1. job[w].cm \in Comment /\ job[w].cm # NoComment
    BY JobFacts, SetsAssumption
<1>2. wire[w].cm # job[w].cm
    BY <1>1, ShareFacts DEF AttemptShares, AttemptPhase, NoRequest
<1>3. AttemptShares(f, w, "confirm", job[w]) /\ JobShares("confirm", job[w])
    BY <1>2, ShareFacts DEF AttemptShares, JobShares, AttemptPhase
<1>4. "confirm" \in Phase \ Deciding /\ pc[w] \in AttemptPhase
    BY DEF Phase, SyncPhase, AttemptPhase, Deciding
<1> QED
    BY <1>3, <1>4, AdvanceShare DEF still, database, bitrix, RecShares

LEMMA AnswerUnknownShare ==
    ASSUME Consistent, Consistent', NEW f, ShareOK(f), NEW w \in Worker, AnswerUnknown(w)
    PROVE  ShareOK(f)'
<1> USE DEF AnswerUnknown
<1>1. AttemptShares(f, w, "unknown", job[w]) /\ JobShares("unknown", job[w])
    BY ShareFacts DEF AttemptShares, JobShares, AttemptPhase
<1>2. "unknown" \in Phase \ Deciding /\ pc[w] \in AttemptPhase
    BY DEF Phase, SyncPhase, AttemptPhase, Deciding
<1> QED
    BY <1>1, <1>2, AdvanceShare DEF still, database, bitrix, RecShares

LEMMA QuitShare ==
    ASSUME Consistent, Consistent', NEW f, ShareOK(f), NEW w \in Worker,
           LinkedSkip(w) \/ ClaimDenied(w) \/ Abandon(w)
    PROVE  ShareOK(f)'
BY FinishShare DEF LinkedSkip, ClaimDenied, Abandon, still, database, bitrix

\* The reconciler takes up a send that is open, with no request and no call left.
LEMMA ReconcilePickShare ==
    ASSUME Timely, Consistent, Consistent', NEW f, ShareOK(f), NEW c \in Comment, ReconcilePick(c)
    PROVE  ShareOK(f)'
<1> USE DEF ReconcilePick
<1> DEFINE r == Reconciler
           j == [job[r] EXCEPT !.cm = c, !.txt = send[c].fp]
<1>1. r \in Worker /\ job[r] \in Job /\ send[c].fp \in Text \cup {NoText}
    BY RecFacts, JobFacts, SendFacts DEF SendState
<1>2. j \in Job /\ j.cm = c /\ j.txt = send[c].fp
    BY <1>1 DEF Job
<1>3. job' = [job EXCEPT ![r] = j]
    BY <1>1 DEF Consistent, TypeOK, WorkersTypeOK
<1>4. PICK p \in {"demote", "list"} : SetPc(r, p)
    OBVIOUS
<1>5. p \in Phase \ AttemptPhase /\ JobShares(p, j)
    BY DEF Phase, RecPhase, AttemptPhase, JobShares
<1>6. AttemptShares(f, r, p, j)
    BY <1>5 DEF AttemptShares
<1>7. RecShares(f, p, j, found') /\ Settled(j.cm)
    BY <1>2 DEF RecShares
<1> HIDE DEF j
<1> QED
    BY <1>1, <1>2, <1>3, <1>4, <1>5, <1>6, <1>7, LocalShare DEF still, database, bitrix

LEMMA FinalizePickShare ==
    ASSUME Consistent, Consistent', NEW f, ShareOK(f), NEW c \in Comment, FinalizePick(c)
    PROVE  ShareOK(f)'
<1> USE DEF FinalizePick
<1> DEFINE r == Reconciler
           j == [job[r] EXCEPT !.cm = c]
<1>1. r \in Worker /\ job[r] \in Job
    BY RecFacts, JobFacts
<1>2. j \in Job
    BY <1>1 DEF Job
<1>3. job' = [job EXCEPT ![r] = j]
    BY <1>1 DEF Consistent, TypeOK, WorkersTypeOK
<1>4. JobShares("finalize", j) /\ "finalize" \in Phase \ (AttemptPhase \cup Deciding)
    BY DEF JobShares, Phase, SyncPhase, RecPhase, AttemptPhase, Deciding
<1> HIDE DEF j
<1> QED
    BY <1>1, <1>2, <1>3, <1>4, LocalShare, CalmShare DEF still, database, bitrix

\* Nobody else works on the send that the reconciler decides about.
LEMMA DecidingShare ==
    ASSUME Consistent, NEW f, ShareOK(f), pc[Reconciler] \in Deciding
    PROVE  LET c == job[Reconciler].cm IN
           /\ Reconciler \in Worker /\ job[Reconciler] \in Job
           /\ c \in Comment /\ Account(f, c) /\ Quiet(c) /\ Settled(c)
           /\ send[c].status \in Open /\ link[c] = 0
           /\ RecShares(f, pc[Reconciler], job[Reconciler], found)
           /\ \A v \in Worker \ {Reconciler} : ~(pc[v] \in AttemptPhase /\ job[v].cm = c)
<1>1. pc[Reconciler] # "idle" /\ Reconciler \in Worker
    BY RecFacts DEF Deciding
<1>2. job[Reconciler].cm \in Comment /\ job[Reconciler] \in Job
    BY <1>1, JobFacts
<1>3. send[job[Reconciler].cm].status \in Open
    BY <1>1, ShareFacts DEF RecShares
<1>4. link[job[Reconciler].cm] = 0
    BY <1>2, <1>3, SendFacts DEF Open
<1> QED
    BY <1>1, <1>2, <1>3, <1>4, ShareFacts DEF RecShares, Settled

\* The list holds the share of the comment.
LEMMA ReconcileListShare ==
    ASSUME Consistent, Consistent', NEW f, ShareOK(f), ReconcileList
    PROVE  ShareOK(f)'
<1> USE DEF ReconcileList
<1>0. PICK c \in Comment : c = job[Reconciler].cm
    BY DecidingShare DEF Deciding
<1>1. /\ Account(f, c) /\ Quiet(c) /\ Settled(c) /\ Reconciler \in Worker
      /\ send[c].status \in Open /\ job[Reconciler].txt = send[c].fp
    BY <1>0, DecidingShare DEF Deciding, RecShares
<1>2. Share(f, c) \subseteq found'
    BY <1>0, <1>1 DEF Account, Share, Own
<1>3. \A i \in found' : i \in DOMAIN timeline /\ timeline[i].txt = send[c].fp
    BY <1>0, <1>1 DEF MatchesSend
<1>4. RecShares(f, "try", job[Reconciler], found')
    BY <1>0, <1>1, <1>2, <1>3 DEF RecShares
<1>5. "try" \in Phase \ AttemptPhase /\ JobShares("try", job[Reconciler])
    BY DEF Phase, SyncPhase, RecPhase, AttemptPhase, JobShares
<1>6. AttemptShares(f, Reconciler, "try", job[Reconciler])
    BY <1>5 DEF AttemptShares
<1> QED
    BY <1>0, <1>1, <1>4, <1>5, <1>6, AdvanceShare DEF still, database, bitrix

\* A linked entry is the share of the comment that is linked to it, and of no open send.
LEMMA ReconcileTryShare ==
    ASSUME Consistent, Consistent', NEW f, ShareOK(f), ReconcileTry
    PROVE  ShareOK(f)'
<1> USE DEF ReconcileTry
<1> DEFINE r == Reconciler
<1>0. PICK c \in Comment, k \in Job : c = job[r].cm /\ k = job[r]
    BY DecidingShare DEF Deciding
<1>1. /\ Account(f, c) /\ Quiet(c) /\ Settled(c) /\ r \in Worker
      /\ send[c].status \in Open /\ link[c] = 0
      /\ Share(f, c) \subseteq found
      /\ \A i \in found : i \in DOMAIN timeline /\ (i \in Linked \/ timeline[i].txt = send[c].fp)
    BY <1>0, DecidingShare DEF Deciding, RecShares
<1>2. PICK id \in found :
          /\ \A other \in found : id <= other
          /\ IF id \in LinkedIds
             THEN found' = found \ {id} /\ UNCHANGED <<pc, job>>
             ELSE /\ found' = {}
                  /\ job' = [job EXCEPT ![r].id = id]
                  /\ SetPc(r, "adopt")
    OBVIOUS
<1>3. "try" \in Phase \ AttemptPhase /\ "adopt" \in Phase \ AttemptPhase
    BY DEF Phase, SyncPhase, RecPhase, AttemptPhase
<1>4. CASE id \in LinkedIds
    <2>1. id \notin Share(f, c)
        <3> SUFFICES ASSUME id \in Share(f, c) PROVE FALSE
            OBVIOUS
        <3>1. foreign = {}
            BY DEF ShareOK, Ledger
        <3>2. PICK d \in Comment : link[d] = id
            BY <1>4, <3>1 DEF LinkedIds, Linked
        <3>3. f[id] = d
            BY <3>2 DEF ShareOK, Ledger, Account, Share
        <3>4. id # 0
            BY TimelineFacts DEF Share, Own
        <3> QED
            BY <1>1, <3>2, <3>3, <3>4 DEF Share
    <2>2. RecShares(f, "try", k, found')
        BY <1>0, <1>1, <1>2, <1>4, <2>1 DEF RecShares
    <2>3. SetPc(r, "try") /\ UNCHANGED job
        BY <1>2, <1>4 DEF SetPc, Consistent, TypeOK, WorkersTypeOK
    <2>4. JobShares("try", k) /\ AttemptShares(f, r, "try", k)
        BY <1>3 DEF JobShares, AttemptShares
    <2> QED
        BY <1>0, <1>1, <1>3, <2>2, <2>3, <2>4, AdvanceShare DEF still, database, bitrix
<1>5. CASE id \notin LinkedIds
    <2> DEFINE j == [k EXCEPT !.id = id]
    <2>1. id \in Nat
        BY <1>1, <1>2, TimelineFacts
    <2>2. j \in Job /\ j.cm = c /\ j.id = id
        BY <1>0, <2>1 DEF Job
    <2>3. job' = [job EXCEPT ![r] = j]
        BY <1>0, <1>2, <1>5 DEF Consistent, TypeOK, WorkersTypeOK
    <2>4. RecShares(f, "adopt", j, found')
        BY <1>1, <1>2, <2>2 DEF RecShares
    <2>5. JobShares("adopt", j) /\ AttemptShares(f, r, "adopt", j)
        BY <1>3 DEF JobShares, AttemptShares
    <2> HIDE DEF j
    <2> QED
        BY <1>1, <1>2, <1>3, <1>5, <2>2, <2>3, <2>4, <2>5, LocalShare DEF still, database, bitrix
<1> QED
    BY <1>4, <1>5

LEMMA ReconcileNothingFoundShare ==
    ASSUME Consistent, Consistent', NEW f, ShareOK(f), ReconcileNothingFound
    PROVE  ShareOK(f)'
<1> USE DEF ReconcileNothingFound
<1> DEFINE r == Reconciler
<1>1. r \in Worker /\ RecShares(f, "try", job[r], found) /\ Settled(job[r].cm)
    BY RecFacts, ShareFacts DEF Deciding
<1>2. RecShares(f, "absent", job[r], found')
    BY <1>1 DEF RecShares, Deciding
<1>3. "absent" \in Phase \ AttemptPhase /\ JobShares("absent", job[r])
    BY DEF JobShares, Phase, SyncPhase, RecPhase, AttemptPhase
<1>4. AttemptShares(f, r, "absent", job[r])
    BY <1>3 DEF AttemptShares
<1> QED
    BY <1>1, <1>2, <1>3, <1>4, AdvanceShare DEF still, database, bitrix

LEMMA ReconcileResendShare ==
    ASSUME Consistent, Consistent', NEW f, ShareOK(f), ReconcileResend
    PROVE  ShareOK(f)'
<1> USE DEF ReconcileResend
<1> DEFINE r == Reconciler
<1>1. r \in Worker /\ job[r].cm \in Comment
    BY RecFacts, JobFacts
<1>2. PICK t \in TextsOf[job[r].cm] :
          job' = [job EXCEPT ![r] = [NoJob EXCEPT !.cm = job[r].cm, !.txt = t]]
    OBVIOUS
<1> DEFINE j == [NoJob EXCEPT !.cm = job[r].cm, !.txt = t]
<1>3. t \in Text
    BY <1>1, SetsAssumption
<1>4. j \in Job /\ j.id = 0
    BY <1>1, <1>3, FreshJob DEF NoJob
<1>5. JobShares("link", j) /\ "link" \in Phase \ (AttemptPhase \cup Deciding)
    BY <1>4 DEF JobShares, Phase, SyncPhase, AttemptPhase, Deciding
<1> HIDE DEF j
<1> QED
    BY <1>1, <1>2, <1>4, <1>5, LocalShare, CalmShare DEF still, database, bitrix, j

-----------------------------------------------------------------------------
(* Steps that change the send of one comment.                              *)

\* Nobody attempts c, no request for it is on the wire, and it has no share.
LEMMA UntouchedShare ==
    ASSUME Consistent, NEW f, ShareOK(f), NEW c \in Comment, send[c].status \in {"none", "rejected"}
    PROVE  /\ Account(f, c) /\ Share(f, c) = {} /\ link[c] = 0
           /\ Quiet(c) /\ Settled(c)
           /\ ~(pc[Reconciler] \in Deciding /\ job[Reconciler].cm = c)
<1>1. Account(f, c) /\ Share(f, c) = {} /\ link[c] = 0
    BY SendFacts DEF ShareOK, Ledger, Account
<1>2. Quiet(c)
    <2> SUFFICES ASSUME NEW w \in Worker, wire[w].cm = c PROVE FALSE
        BY DEF Quiet
    <2>1. wire[w] # NoRequest
        BY SetsAssumption DEF NoRequest
    <2> QED
        BY <2>1 DEF ShareOK, WiresShare, WireShares, Open
<1>3. Settled(c)
    BY DEF Settled, ShareOK, AttemptsShare, AttemptShares
<1>4. ~(pc[Reconciler] \in Deciding /\ job[Reconciler].cm = c)
    BY DEF ShareOK, RecShare, RecShares, Open
<1> QED
    BY <1>1, <1>2, <1>3, <1>4

LEMMA ClaimShare ==
    ASSUME Consistent, Consistent', NEW f, ShareOK(f), NEW w \in Worker, pc[w] = "claim",
           send[job[w].cm].status \in {"none", "rejected"},
           \A d \in Comment \ {job[w].cm} : send'[d] = send[d],
           send'[job[w].cm].status = "sending", send'[job[w].cm].fp = job[w].txt,
           send'[job[w].cm].wm <= send'[job[w].cm].born,
           send'[job[w].cm].born <= Len(timeline),
           SetPc(w, "post"), UNCHANGED <<job, found, still>>
    PROVE  ShareOK(f)'
<1>0. PICK c \in Comment, k \in Job : c = job[w].cm /\ k = job[w]
    BY JobFacts
<1>1. job' = [job EXCEPT ![w] = k] /\ UNCHANGED still /\ SetPc(w, "post") /\ found' = found
    BY <1>0 DEF Consistent, TypeOK, WorkersTypeOK
<1>2. /\ Share(f, c) = {} /\ link[c] = 0 /\ Quiet(c) /\ Settled(c)
      /\ ~(pc[Reconciler] \in Deciding /\ job[Reconciler].cm = c)
    BY <1>0, UntouchedShare
<1>3. k.id = 0 /\ JobShares("post", k)
    BY <1>0, ShareFacts DEF JobShares
<1>4. Share(f, c)' = {}
    BY <1>2 DEF still, Share, Own
<1>5. Account(f, c)'
    BY <1>0, <1>2, <1>4 DEF Account, still, Open, Own
<1>6. AttemptShares(f, w, "post", k)'
    BY <1>0, <1>2, <1>3, <1>4 DEF AttemptShares, Quiet, still
<1>7. "post" \in Phase \ Deciding
    BY DEF Phase, SyncPhase, AttemptPhase, Deciding
<1>8. RecShares(f, "post", k, found)'
    BY <1>7 DEF RecShares
<1>9. \A v \in Worker \ {w} : ~(pc[v] \in AttemptPhase /\ job[v].cm = c)
    BY <1>2 DEF Settled
<1>10. (\A d \in Comment \ {c} : KeepsSend(d)) /\ send[k.cm].status \in {"none", "rejected"}
    BY <1>0 DEF KeepsSend
<1> QED
    BY ONLY Consistent, ShareOK(f), w \in Worker, <1>0, <1>1, <1>2, <1>3, <1>5, <1>6, <1>7, <1>8,
       <1>9, <1>10, MoveShare

LEMMA ClaimNewShare ==
    ASSUME Consistent, Consistent', NEW f, ShareOK(f), NEW w \in Worker, ClaimNew(w)
    PROVE  ShareOK(f)'
<1> USE DEF ClaimNew
<1> DEFINE c == job[w].cm
<1>1. c \in Comment
    BY JobFacts
<1>2. send' = [send EXCEPT ![c] = [status |-> "sending", attempts |-> 1,
                                   fp |-> job[w].txt, b24 |-> 0, wm |-> job[w].wm,
                                   born |-> Len(timeline), fin |-> FALSE]]
    OBVIOUS
<1>3. /\ \A d \in Comment \ {c} : send'[d] = send[d]
      /\ send'[c].status = "sending" /\ send'[c].fp = job[w].txt
      /\ send'[c].wm = job[w].wm /\ send'[c].born = Len(timeline)
    BY <1>1, <1>2 DEF Consistent, TypeOK, DatabaseTypeOK
<1>4. job[w].wm <= Len(timeline) /\ Len(timeline) \in Nat
    BY ShareFacts, TimelineFacts DEF JobShares
<1> QED
    BY <1>3, <1>4, ClaimShare DEF still, bitrix

LEMMA ClaimRejectedShare ==
    ASSUME Consistent, Consistent', NEW f, ShareOK(f), NEW w \in Worker, ClaimRejected(w)
    PROVE  ShareOK(f)'
<1> USE DEF ClaimRejected
<1> DEFINE c == job[w].cm
<1>1. c \in Comment
    BY JobFacts
<1>2. /\ \A d \in Comment \ {c} : send'[d] = send[d]
      /\ send'[c].status = "sending" /\ send'[c].fp = job[w].txt
      /\ send'[c].wm = send[c].wm /\ send'[c].born = send[c].born
    BY <1>1 DEF Consistent, TypeOK, DatabaseTypeOK, SendState
<1>3. send[c].wm <= send[c].born /\ send[c].born <= Len(timeline)
    BY <1>1 DEF ShareOK, Ledger, Account
<1> QED
    BY <1>2, <1>3, ClaimShare DEF still, bitrix

\* The send is settled by the one who attempted it.
LEMMA AloneShare ==
    ASSUME Consistent, NEW f, ShareOK(f), NEW w \in Worker, pc[w] \in AttemptPhase
    PROVE  /\ \A v \in Worker \ {w} : ~(pc[v] \in AttemptPhase /\ job[v].cm = job[w].cm)
           /\ ~(pc[Reconciler] \in Deciding /\ job[Reconciler].cm = job[w].cm)
           /\ send[job[w].cm].status = "sending" /\ Account(f, job[w].cm)
<1>1. pc[w] # "idle"
    BY DEF AttemptPhase
<1> QED
    BY <1>1, ShareFacts DEF ShareOK, OneAttempt, RecAlone, Settled, AttemptShares

LEMMA SettleShare ==
    ASSUME Consistent, Consistent', NEW f, ShareOK(f), NEW w \in Worker, pc[w] \in AttemptPhase,
           NEW s \in {"rejected", "ambiguous"}, Transition(job[w].cm, {"sending"}, s), Finish(w),
           s = "rejected" => pc[w] = "refused", UNCHANGED <<found, still>>
    PROVE  ShareOK(f)'
<1>0. PICK c \in Comment : c = job[w].cm
    BY JobFacts DEF AttemptPhase
<1>1. /\ \A v \in Worker \ {w} : ~(pc[v] \in AttemptPhase /\ job[v].cm = c)
      /\ ~(pc[Reconciler] \in Deciding /\ job[Reconciler].cm = c)
      /\ send[c].status = "sending" /\ Account(f, c)
    BY <1>0, AloneShare
<1>2. /\ \A d \in Comment \ {c} : send'[d] = send[d]
      /\ send'[c].fp = send[c].fp /\ send'[c].wm = send[c].wm /\ send'[c].born = send[c].born
      /\ send'[c].status = s
    BY <1>0, <1>1, TransitionFacts
<1>3. s = "rejected" => Share(f, c) = {} /\ Quiet(c)
    BY <1>0, ShareFacts DEF AttemptShares, Quiet, AttemptPhase
<1>4. Share(f, c)' = Share(f, c) /\ Own' = Own
    BY DEF still, Share, Own
<1>5. Account(f, c)'
    BY <1>1, <1>2, <1>3, <1>4 DEF Account, still, Open, MatchesSend
<1>6. Quiet(c) \/ (send'[c].status \in Open /\ send'[c].fp = send[c].fp)
    BY <1>2, <1>3 DEF Open
<1>7. \A d \in Comment \ {c} : KeepsSend(d)
    BY <1>2 DEF KeepsSend
<1>8. AttemptShares(f, w, "idle", NoJob)' /\ JobShares("idle", NoJob) /\ RecShares(f, "idle", NoJob, found)'
    BY IdleFacts DEF AttemptShares, JobShares, RecShares
<1>9. SetPc(w, "idle") /\ job' = [job EXCEPT ![w] = NoJob]
    BY DEF Finish
<1> QED
    BY <1>1, <1>5, <1>6, <1>7, <1>8, <1>9, IdleFacts, MoveShare

LEMMA SettleRefusedShare ==
    ASSUME Consistent, Consistent', NEW f, ShareOK(f), NEW w \in Worker, SettleRefused(w)
    PROVE  ShareOK(f)'
BY SettleShare DEF SettleRefused, AttemptPhase, still, bitrix

LEMMA SettleUnknownShare ==
    ASSUME Consistent, Consistent', NEW f, ShareOK(f), NEW w \in Worker, SettleUnknown(w)
    PROVE  ShareOK(f)'
BY SettleShare DEF SettleUnknown, AttemptPhase, still, bitrix

LEMMA FlagShare ==
    ASSUME Consistent, Consistent', NEW f, ShareOK(f), NEW w \in Worker, pc[w] # "idle",
           NEW b \in BOOLEAN, send' = [send EXCEPT ![job[w].cm].fin = b], Finish(w),
           UNCHANGED <<found, still>>
    PROVE  ShareOK(f)'
<1>1. \A d \in Comment : KeepsSend(d)
    BY SendFacts DEF KeepsSend, SendState, Consistent, TypeOK, DatabaseTypeOK
<1>2. AttemptShares(f, w, "idle", NoJob)' /\ JobShares("idle", NoJob) /\ RecShares(f, "idle", NoJob, found)'
    BY IdleFacts DEF AttemptShares, JobShares, RecShares
<1>3. PICK c \in Comment : c = job[w].cm
    BY JobFacts
<1>4. SetPc(w, "idle") /\ job' = [job EXCEPT ![w] = NoJob]
    BY DEF Finish
<1> QED
    BY <1>1, <1>2, <1>3, <1>4, IdleFacts, MoveShare

LEMMA PreviewDeferredShare ==
    ASSUME Consistent, Consistent', NEW f, ShareOK(f), NEW w \in Worker, PreviewDeferred(w)
    PROVE  ShareOK(f)'
BY FlagShare DEF PreviewDeferred, still, bitrix

LEMMA FinalizeClearShare ==
    ASSUME Consistent, Consistent', NEW f, ShareOK(f), FinalizeClear
    PROVE  ShareOK(f)'
BY FlagShare, RecFacts DEF FinalizeClear, still, bitrix

\* A linked comment is confirmed: nobody attempts or decides about its send.
LEMMA LinkedShare ==
    ASSUME Consistent, NEW f, ShareOK(f), NEW c \in Comment, link[c] # 0
    PROVE  /\ Account(f, c) /\ send[c].status = "confirmed" /\ Quiet(c) /\ Settled(c)
           /\ ~(pc[Reconciler] \in Deciding /\ job[Reconciler].cm = c)
<1>1. Account(f, c) /\ send[c].status = "confirmed"
    BY SendFacts DEF ShareOK, Ledger
<1>2. Quiet(c)
    <2> SUFFICES ASSUME NEW w \in Worker, wire[w].cm = c PROVE FALSE
        BY DEF Quiet
    <2>1. wire[w] # NoRequest
        BY SetsAssumption DEF NoRequest
    <2> QED
        BY <1>1, <2>1 DEF ShareOK, WiresShare, WireShares, Open
<1>3. Settled(c)
    BY <1>1 DEF Settled, ShareOK, AttemptsShare, AttemptShares
<1>4. ~(pc[Reconciler] \in Deciding /\ job[Reconciler].cm = c)
    BY <1>1 DEF ShareOK, RecShare, RecShares, Open
<1> QED
    BY <1>1, <1>2, <1>3, <1>4

LEMMA RefreshShare ==
    ASSUME Consistent, Consistent', NEW f, ShareOK(f), NEW w \in Worker, Refresh(w)
    PROVE  ShareOK(f)'
<1> USE DEF Refresh
<1>0. PICK c \in Comment, k \in Job : c = job[w].cm /\ k = job[w]
    BY JobFacts
<1>1. job' = [job EXCEPT ![w] = k] /\ SetPc(w, "rewrite") /\ found' = found /\ UNCHANGED still
    BY <1>0 DEF Consistent, TypeOK, WorkersTypeOK, still, bitrix
<1>2. link[c] # 0 /\ JobShares("rewrite", k)
    BY <1>0, ShareFacts DEF JobShares
<1>3. /\ Account(f, c) /\ send[c].status = "confirmed" /\ Quiet(c) /\ Settled(c)
      /\ ~(pc[Reconciler] \in Deciding /\ job[Reconciler].cm = c)
    BY <1>2, LinkedShare
<1>4. /\ \A d \in Comment \ {c} : send'[d] = send[d]
      /\ send'[c].status = send[c].status
      /\ send'[c].wm = send[c].wm /\ send'[c].born = send[c].born
    BY <1>0 DEF Consistent, TypeOK, DatabaseTypeOK, SendState
<1>5. Share(f, c)' = Share(f, c) /\ Own' = Own
    BY <1>1 DEF still, Share, Own
<1>6. Account(f, c)'
    BY <1>1, <1>3, <1>4, <1>5 DEF Account, still, Open
<1>7. "rewrite" \in Phase \ (AttemptPhase \cup Deciding)
    BY DEF Phase, SyncPhase, AttemptPhase, Deciding
<1>8. AttemptShares(f, w, "rewrite", k)' /\ RecShares(f, "rewrite", k, found)'
    BY <1>7 DEF AttemptShares, RecShares
<1>9. \A d \in Comment \ {c} : KeepsSend(d)
    BY <1>4 DEF KeepsSend
<1>10. \A v \in Worker \ {w} : ~(pc[v] \in AttemptPhase /\ job[v].cm = c)
    BY <1>3 DEF Settled
<1> QED
    BY ONLY Consistent, ShareOK(f), w \in Worker, <1>0, <1>1, <1>2, <1>3, <1>6, <1>7, <1>8, <1>9,
       <1>10, MoveShare

LEMMA ReconcileDemoteShare ==
    ASSUME Consistent, Consistent', NEW f, ShareOK(f), ReconcileDemote
    PROVE  ShareOK(f)'
<1> USE DEF ReconcileDemote
<1> DEFINE r == Reconciler
<1>0. PICK c \in Comment, k \in Job : c = job[r].cm /\ k = job[r]
    BY DecidingShare DEF Deciding
<1>1. /\ r \in Worker /\ Account(f, c) /\ Quiet(c) /\ Settled(c)
      /\ RecShares(f, "demote", k, found)
      /\ \A v \in Worker \ {r} : ~(pc[v] \in AttemptPhase /\ job[v].cm = c)
    BY <1>0, DecidingShare DEF Deciding
<1>2. /\ \A d \in Comment \ {c} : send'[d] = send[d]
      /\ send'[c].fp = send[c].fp /\ send'[c].wm = send[c].wm /\ send'[c].born = send[c].born
      /\ send'[c].status = IF send[c].status = "sending" THEN "ambiguous" ELSE send[c].status
    BY <1>0, TransitionFacts
<1>3. UNCHANGED still
    BY DEF still, bitrix
<1>4. CASE send[c].status = "sending"
    <2>1. Share(f, c)' = Share(f, c) /\ Own' = Own
        BY <1>3 DEF still, Share, Own
    <2>2. Account(f, c)'
        BY <1>1, <1>2, <1>3, <1>4, <2>1 DEF Account, still, Open, MatchesSend
    <2>3. RecShares(f, "list", k, found)'
        BY <1>0, <1>1, <1>2, <1>3, <1>4 DEF RecShares, Deciding, Open, Quiet, still
    <2>4. "list" \in Phase \ AttemptPhase /\ JobShares("list", k) /\ AttemptShares(f, r, "list", k)'
        BY DEF Phase, SyncPhase, RecPhase, AttemptPhase, JobShares, AttemptShares
    <2>5. job' = [job EXCEPT ![r] = k] /\ SetPc(r, "list")
        BY <1>0, <1>1, <1>4 DEF Consistent, TypeOK, WorkersTypeOK
    <2>6. \A d \in Comment \ {c} : KeepsSend(d)
        BY <1>2 DEF KeepsSend
    <2> QED
        BY <1>0, <1>1, <1>3, <2>2, <2>3, <2>4, <2>5, <2>6, MoveShare
<1>5. CASE send[c].status # "sending"
    <2>1. send' = send
        BY <1>0, <1>5 DEF Transition
    <2> QED
        BY <1>0, <1>1, <1>3, <1>5, <2>1, FinishShare
<1> QED
    BY <1>4, <1>5

\* The send has no share: it is free for another attempt.
LEMMA ReconcileAbsentShare ==
    ASSUME Consistent, Consistent', NEW f, ShareOK(f), ReconcileAbsent
    PROVE  ShareOK(f)'
<1> USE DEF ReconcileAbsent
<1> DEFINE r == Reconciler
<1>0. PICK c \in Comment, k \in Job : c = job[r].cm /\ k = job[r]
    BY DecidingShare DEF Deciding
<1>1. /\ r \in Worker /\ Account(f, c) /\ Quiet(c) /\ Settled(c)
      /\ Share(f, c) = {} /\ send[c].status \in Open
      /\ \A v \in Worker \ {r} : ~(pc[v] \in AttemptPhase /\ job[v].cm = c)
    BY <1>0, DecidingShare DEF Deciding, RecShares
<1>2. /\ \A d \in Comment \ {c} : send'[d] = send[d]
      /\ send'[c].fp = send[c].fp /\ send'[c].wm = send[c].wm /\ send'[c].born = send[c].born
      /\ send'[c].status = "rejected"
    BY <1>0, <1>1, TransitionFacts
<1>3. UNCHANGED still
    BY DEF still, bitrix
<1>4. Share(f, c)' = {} /\ Own' = Own
    BY <1>1, <1>3 DEF still, Share, Own
<1>5. Account(f, c)'
    BY <1>1, <1>2, <1>3, <1>4 DEF Account, still, Open
<1>6. "resend" \in Phase \ (AttemptPhase \cup Deciding) /\ JobShares("resend", k)
    BY DEF Phase, SyncPhase, RecPhase, AttemptPhase, Deciding, JobShares
<1>7. AttemptShares(f, r, "resend", k)' /\ RecShares(f, "resend", k, found)'
    BY <1>6 DEF AttemptShares, RecShares
<1>8. job' = [job EXCEPT ![r] = k] /\ SetPc(r, "resend")
    BY <1>0, <1>1 DEF Consistent, TypeOK, WorkersTypeOK
<1>9. \A d \in Comment \ {c} : KeepsSend(d)
    BY <1>2 DEF KeepsSend
<1> QED
    BY <1>0, <1>1, <1>3, <1>5, <1>6, <1>7, <1>8, <1>9, MoveShare

-----------------------------------------------------------------------------
(* The confirmation of a copy, and the exchange of shares.                 *)

\* What a confirmation leaves of everybody else, when the entry is the share of c in g and
\* each of the others keeps its share or has the confirmed entry taken from it.
LEMMA StoreShare ==
    ASSUME Consistent, Consistent', NEW f, NEW g, ShareOK(f),
           NEW w \in Worker, NEW p \in {"preview", "finalize"},
           NEW c \in Comment, NEW id \in DOMAIN timeline, NEW b \in BOOLEAN, NEW k \in Job,
           k = job[w], k.cm = c, k.id = id, ConfirmStores(c, id, b), SetPc(w, p),
           UNCHANGED <<job, found, foreign, timeline, wire>>,
           Quiet(c), \A v \in Worker \ {w} : ~(pc[v] \in AttemptPhase /\ job[v].cm = c),
           w = Reconciler \/ (g = f /\ ~(pc[Reconciler] \in Deciding /\ job[Reconciler].cm = c)),
           g \in [Own -> Comment], id \in Own => g[id] = c, \A i, l \in Share(g, c) : i = l,
           \A d \in Comment \ {c} :
               \/ Share(g, d) = Share(f, d)
               \/ /\ Share(f, d) = {id}
                  /\ \A i, l \in Share(g, d) : i = l
                  /\ send[d].status \in Open =>
                        \A i \in Share(g, d) : MatchesSend(d, send[d].fp, i, timeline[i].txt)
    PROVE  ShareOK(g)'
<1>1. /\ \A d \in Comment \ {c} : send'[d] = send[d] /\ link'[d] = link[d]
      /\ send'[c].status = "confirmed" /\ link'[c] = id
      /\ send'[c].fp = send[c].fp /\ send'[c].wm = send[c].wm /\ send'[c].born = send[c].born
    BY DEF ConfirmStores, Consistent, TypeOK, DatabaseTypeOK, SendState
<1>2. link[c] = 0 /\ send[c].status # "confirmed" /\ id # 0 /\ \A d \in Comment : link[d] # id
    <2>1. link[c] = 0 /\ send[c].status # "confirmed" /\ id # 0
        BY SendFacts, TimelineFacts DEF ConfirmStores
    <2> QED
        BY <2>1 DEF ConfirmStores, ConfirmFails
<1>3. /\ Own' = Own /\ \A d : Share(g, d)' = Share(g, d)
      /\ Linked \subseteq Linked' /\ id \in Linked'
    BY <1>1, <1>2 DEF Own, Share, Linked
<1>4. \A d \in Comment : Account(f, d) /\ send[d] \in SendState
    BY SendFacts DEF ShareOK, Ledger
<1>5. \A v \in Worker : /\ pc[v] # "idle" => job[v].cm \in Comment
                        /\ wire[v] # NoRequest => wire[v].cm \in Comment
    BY JobFacts DEF Consistent, WireOK
<1>6. Ledger(g)'
    <2>1. Account(g, c)'
        BY <1>1, <1>2, <1>3, <1>4 DEF Account, Open
    <2>2. ASSUME NEW d \in Comment \ {c} PROVE Account(g, d)'
        <3>1. link[d] \in Own => link[d] \in Share(g, d)
            BY <1>2, <1>4 DEF Account, Share
        <3>2. send[d].status \in {"none", "rejected"} => Share(g, d) = {}
            BY <1>4 DEF Account
        <3>3. send[d].status \in Open =>
                  \A i \in Share(g, d) : MatchesSend(d, send[d].fp, i, timeline[i].txt)
            BY <1>4 DEF Account
        <3>4. \A i, l \in Share(g, d) : i = l
            BY <1>4 DEF Account
        <3> QED
            BY <1>1, <1>3, <1>4, <3>1, <3>2, <3>3, <3>4 DEF Account, MatchesSend, Share
    <2> QED
        BY <1>3, <2>1, <2>2 DEF ShareOK, Ledger, Own
<1>7. WiresShare(g)'
    <2> SUFFICES ASSUME NEW v \in Worker, wire[v] # NoRequest PROVE WireShares(g, v)'
        BY DEF WiresShare, WireShares
    <2>1. WireShares(f, v) /\ wire[v].cm \in Comment \ {c}
        BY <1>5 DEF ShareOK, WiresShare, Quiet
    <2> QED
        BY <1>1, <1>3, <2>1 DEF WireShares
<1>8. /\ pc'[w] = p /\ \A v \in Worker \ {w} : pc'[v] = pc[v]
      /\ p \notin {"idle", "link", "watermark", "claim", "post"} \cup AttemptPhase \cup Deciding
    BY DEF SetPc, Consistent, TypeOK, WorkersTypeOK, AttemptPhase, Deciding
<1>9. AttemptsShare(g)'
    <2> SUFFICES ASSUME NEW v \in Worker \ {w}, pc[v] \in AttemptPhase
                 PROVE  AttemptShares(g, v, pc[v], job[v])'
        BY <1>8 DEF AttemptsShare, AttemptShares
    <2>1. AttemptShares(f, v, pc[v], job[v]) /\ job[v].cm \in Comment \ {c}
        BY <1>5, ShareFacts DEF AttemptPhase
    <2>2. PICK d \in Comment \ {c} : d = job[v].cm
        BY <2>1
    <2>3. Share(f, d) = {} => Share(g, d) = {}
        OBVIOUS
    <2>4. ASSUME NEW i \in Own, i \in Linked \/ f[i] = d PROVE i \in Linked' \/ g[i] = d
        BY <1>3, <2>4 DEF Share
    <2> QED
        BY <1>1, <1>3, <1>8, <2>1, <2>2, <2>3, <2>4 DEF AttemptShares
<1>10. JobsShare'
    <2>1. JobShares(p, k)'
        BY <1>1, <1>2, <1>8 DEF JobShares
    <2>2. ASSUME NEW v \in Worker \ {w} PROVE JobShares(pc[v], job[v])'
        <3>1. JobShares(pc[v], job[v])
            BY ShareFacts
        <3> QED
            BY <1>1, <1>2, <1>5, <1>8, <3>1 DEF JobShares
    <2> QED
        BY <1>8, <2>1, <2>2 DEF JobsShare
<1>11. RecShare(g)'
    <2>1. CASE w = Reconciler
        BY <1>8, <2>1 DEF RecShare, RecShares
    <2>2. CASE w # Reconciler /\ pc[Reconciler] \in Deciding
        <3>1. /\ job[Reconciler].cm \in Comment \ {c} /\ g = f /\ pc'[Reconciler] = pc[Reconciler]
              /\ RecShares(f, pc[Reconciler], job[Reconciler], found)
            BY <1>8, <2>2, DecidingShare, RecFacts
        <3> QED
            BY <1>1, <1>3, <2>2, <3>1 DEF RecShare, RecShares, Quiet
    <2>3. CASE w # Reconciler /\ pc[Reconciler] \notin Deciding
        BY <1>8, <2>3, RecFacts DEF RecShare, RecShares
    <2> QED
        BY <2>1, <2>2, <2>3
<1>12. OneAttempt' /\ RecAlone'
    BY <1>8, RecFacts DEF ShareOK, OneAttempt, RecAlone, Settled
<1> QED
    BY <1>6, <1>7, <1>9, <1>10, <1>11, <1>12 DEF ShareOK

LEMMA SettleConfirmedShare ==
    ASSUME Consistent, Consistent', NEW f, ShareOK(f), NEW w \in Worker, SettleConfirmed(w)
    PROVE  ShareOK(f)'
<1> USE DEF SettleConfirmed
<1>0. PICK c \in Comment, k \in Job, id \in Nat \ {0} : c = job[w].cm /\ k = job[w] /\ id = job[w].id
    BY JobFacts DEF Job, Consistent, JobsOK
<1>1. pc[w] \in AttemptPhase
    BY DEF AttemptPhase
<1>2. /\ \A v \in Worker \ {w} : ~(pc[v] \in AttemptPhase /\ job[v].cm = c)
      /\ ~(pc[Reconciler] \in Deciding /\ job[Reconciler].cm = c)
      /\ send[c].status = "sending" /\ Account(f, c)
    BY <1>0, <1>1, AloneShare
<1>3. /\ id \in Own /\ (id \in Linked \/ f[id] = c) /\ Quiet(c)
    BY <1>0, <1>1, ShareFacts DEF AttemptShares, Quiet
<1>4. UNCHANGED still \/ UNCHANGED <<foreign, timeline, wire>>
    BY DEF bitrix
<1>5. CASE ConfirmStores(c, id, FALSE) /\ SetPc(w, "preview") /\ UNCHANGED job
    <2>1. id \notin Linked
        BY <1>0, <1>2, <1>5, SendFacts DEF ConfirmStores, ConfirmFails, Linked
    <2>2. UNCHANGED <<job, found, foreign, timeline, wire>>
        BY <1>5 DEF bitrix
    <2>3. f \in [Own -> Comment]
        BY DEF ShareOK, Ledger
    <2>4. id \in DOMAIN timeline
        BY <1>3 DEF Own
    <2>5. f[id] = c /\ \A i, l \in Share(f, c) : i = l
        BY <1>2, <1>3, <2>1 DEF Account
    <2> QED
        BY <1>0, <1>2, <1>3, <1>5, <2>2, <2>3, <2>4, <2>5, StoreShare
<1>6. CASE ConfirmStands(c, id)
    BY <1>2, <1>6 DEF ConfirmStands
<1>7. CASE Finish(w) /\ UNCHANGED <<send, link>>
    BY <1>7, FinishShare DEF still, bitrix
<1> QED
    BY <1>0, <1>5, <1>6, <1>7

\* The share of the comment that adopts entry k goes to the comment that k was the share of.
Exchange(f, c, k) == [i \in Own |-> IF i = k THEN c ELSE IF f[i] = c THEN f[k] ELSE f[i]]

LEMMA ExchangeFacts ==
    ASSUME NEW f \in [Own -> Comment], NEW c \in Comment, NEW k \in Own, NEW t \in Comment,
           f[k] = t, t # c, Share(f, t) = {k}
    PROVE  LET g == Exchange(f, c, k) IN
           /\ g \in [Own -> Comment] /\ g[k] = c
           /\ Share(g, c) = {k} /\ Share(g, t) = Share(f, c)
           /\ \A d \in Comment \ {c, t} : Share(g, d) = Share(f, d)
<1> DEFINE g == Exchange(f, c, k)
<1>1. g \in [Own -> Comment] /\ g[k] = c
    BY DEF Exchange
<1>2. \A i \in Own : g[i] = IF i = k THEN c ELSE IF f[i] = c THEN t ELSE f[i]
    BY DEF Exchange
<1>3. \A i \in Own : f[i] = t <=> i = k
    BY DEF Share
<1> HIDE DEF g
<1>4. Share(g, c) = {k}
    BY <1>2, <1>3 DEF Share
<1>5. Share(g, t) = Share(f, c)
    BY <1>2, <1>3 DEF Share
<1>6. \A d \in Comment \ {c, t} : Share(g, d) = Share(f, d)
    BY <1>2, <1>3 DEF Share
<1> QED
    BY <1>1, <1>4, <1>5, <1>6 DEF g

\* The reconciler adopts the share of its comment, an entry of nobody, or exchanges shares.
LEMMA ReconcileAdoptShare ==
    ASSUME Consistent, Consistent', NEW f, ShareOK(f), ReconcileAdopt
    PROVE  \E g : ShareOK(g)'
<1> USE DEF ReconcileAdopt
<1> DEFINE r == Reconciler
<1>0. PICK c \in Comment, k \in Job, id \in Nat : c = job[r].cm /\ k = job[r] /\ id = job[r].id
    BY DecidingShare DEF Deciding, Job
<1>1. /\ r \in Worker /\ Account(f, c) /\ Quiet(c) /\ Settled(c)
      /\ send[c].status \in Open /\ link[c] = 0 /\ send[c].status # "confirmed"
      /\ id \in DOMAIN timeline /\ (id \in Linked \/ timeline[id].txt = send[c].fp)
      /\ \A i \in Share(f, c) : id <= i
      /\ \A v \in Worker \ {r} : ~(pc[v] \in AttemptPhase /\ job[v].cm = c)
    BY <1>0, DecidingShare DEF Deciding, RecShares, Open
<1>2. CASE Finish(r) /\ UNCHANGED <<send, link>>
    BY <1>1, <1>2, FinishShare DEF still, bitrix
<1>3. CASE ConfirmStands(c, id)
    BY <1>1, <1>3 DEF ConfirmStands
<1>4. CASE ConfirmStores(c, id, TRUE) /\ SetPc(r, "finalize") /\ UNCHANGED job
    <2>1. id # 0 /\ id \notin Linked
        BY <1>1, <1>4, TimelineFacts DEF ConfirmStores, ConfirmFails, Linked
    <2>2. UNCHANGED <<job, found, foreign, timeline, wire>>
        BY <1>4 DEF bitrix
    <2>3. f \in [Own -> Comment] /\ \A i, l \in Share(f, c) : i = l
        BY <1>1 DEF ShareOK, Ledger, Account
    <2>4. CASE id \notin Own \/ f[id] = c
        BY <1>0, <1>1, <1>4, <2>2, <2>3, <2>4, StoreShare
    <2>5. CASE id \in Own /\ f[id] # c
        <3>1. PICK t \in Comment \ {c} : f[id] = t
            BY <2>3, <2>5
        <3>2. Account(f, t) /\ send[t].wm \in Nat /\ send[t].born \in Nat
            BY SendFacts DEF ShareOK, Ledger
        <3>3. Share(f, t) = {id}
            BY <2>5, <3>1, <3>2 DEF Account, Share
        <3>0. PICK g : g = Exchange(f, c, id)
            OBVIOUS
        <3>4. /\ g \in [Own -> Comment] /\ g[id] = c
              /\ Share(g, c) = {id} /\ Share(g, t) = Share(f, c)
              /\ \A d \in Comment \ {c, t} : Share(g, d) = Share(f, d)
            BY <2>3, <2>5, <3>0, <3>1, <3>3, ExchangeFacts
        <3>5. ASSUME send[t].status \in Open, NEW i \in Share(f, c)
              PROVE  MatchesSend(t, send[t].fp, i, timeline[i].txt)
            <4>1. MatchesSend(t, send[t].fp, id, timeline[id].txt)
                BY <3>2, <3>3, <3>5 DEF Account
            <4>2. MatchesSend(c, send[c].fp, i, timeline[i].txt)
                BY <1>1 DEF Account
            <4>3. id <= i /\ id \in Nat /\ i \in Nat
                BY <1>0, <1>1, TimelineFacts DEF Share, Own
            <4> QED
                BY <1>1, <2>1, <3>2, <4>1, <4>2, <4>3, NumbersAssumption DEF MatchesSend
        <3>6. \A d \in Comment \ {c} :
                  \/ Share(g, d) = Share(f, d)
                  \/ /\ Share(f, d) = {id}
                     /\ \A i, l \in Share(g, d) : i = l
                     /\ send[d].status \in Open =>
                           \A i \in Share(g, d) : MatchesSend(d, send[d].fp, i, timeline[i].txt)
            BY <2>3, <3>3, <3>4, <3>5
        <3>7. ShareOK(g)'
            BY <1>0, <1>1, <1>4, <2>2, <3>4, <3>6, StoreShare
        <3> QED
            BY <3>7
    <2> QED
        BY <2>4, <2>5
<1> QED
    BY <1>0, <1>2, <1>3, <1>4

-----------------------------------------------------------------------------
(* Requests, what becomes of them, and the timeline.                       *)

LEMMA PostShare ==
    ASSUME Consistent, Consistent', NEW f, ShareOK(f), NEW w \in Worker, Post(w)
    PROVE  ShareOK(f)'
<1> USE DEF Post
<1>0. PICK c \in Comment, k \in Job : c = job[w].cm /\ k = job[w]
    BY JobFacts
<1>1. /\ \A v \in Worker \ {w} : ~(pc[v] \in AttemptPhase /\ job[v].cm = c)
      /\ ~(pc[Reconciler] \in Deciding /\ job[Reconciler].cm = c)
      /\ send[c].status = "sending"
    BY <1>0, AloneShare DEF AttemptPhase
<1>2. k.id = 0 /\ k.txt = send[c].fp /\ Share(f, c) = {} /\ \A v \in Worker : wire[v].cm # c
    BY <1>0, ShareFacts DEF AttemptShares, JobShares, AttemptPhase
<1>3. /\ job'[w].cm = c /\ job'[w].txt = k.txt /\ job'[w].id = 0 /\ pc'[w] = "wait"
      /\ \A v \in Worker \ {w} : job'[v] = job[v] /\ pc'[v] = pc[v]
      /\ \A v \in Worker : job'[v].cm = job[v].cm
    BY <1>0, <1>2, JobFacts DEF SetPc, Job, Consistent, TypeOK, WorkersTypeOK
<1>4. /\ wire'[w].cm = c /\ wire'[w].txt = k.txt /\ wire'[w] # NoRequest
      /\ \A v \in Worker \ {w} : wire'[v] = wire[v]
    BY <1>0, SetsAssumption DEF Consistent, TypeOK, BitrixTypeOK, NoRequest
<1>5. /\ Own' = Own /\ Linked' = Linked /\ UNCHANGED <<send, link, foreign, timeline>>
      /\ \A d : Share(f, d)' = Share(f, d)
    BY DEF Own, Share, Linked, database
<1>6. Ledger(f)'
    BY <1>5 DEF ShareOK, Ledger, Account, MatchesSend
<1>7. WiresShare(f)'
    <2> SUFFICES ASSUME NEW v \in Worker, wire'[v] # NoRequest PROVE WireShares(f, v)'
        BY DEF WiresShare, WireShares
    <2>1. CASE v = w
        BY <1>1, <1>2, <1>4, <1>5, <2>1 DEF WireShares, Open
    <2>2. CASE v # w
        BY <1>2, <1>4, <1>5, <2>2 DEF ShareOK, WiresShare, WireShares
    <2> QED
        BY <2>1, <2>2
<1>8. AttemptsShare(f)'
    <2> SUFFICES ASSUME NEW v \in Worker, pc'[v] \in AttemptPhase
                 PROVE  AttemptShares(f, v, pc[v], job[v])'
        BY DEF AttemptsShare, AttemptShares
    <2>1. CASE v = w
        BY <1>1, <1>2, <1>3, <1>4, <1>5, <2>1 DEF AttemptShares
    <2>2. CASE v # w
        <3>1. AttemptShares(f, v, pc[v], job[v]) /\ job[v].cm # c
            BY <1>1, <1>3, <2>2, ShareFacts
        <3> QED
            BY <1>3, <1>4, <1>5, <2>2, <3>1 DEF AttemptShares
    <2> QED
        BY <2>1, <2>2
<1>9. JobsShare'
    <2> SUFFICES ASSUME NEW v \in Worker PROVE JobShares(pc[v], job[v])'
        BY DEF JobsShare
    <2>1. JobShares(pc[v], job[v])
        BY ShareFacts
    <2> QED
        BY <1>3, <1>5, <2>1 DEF JobShares
<1>10. RecShare(f)'
    <2>1. CASE w = Reconciler
        BY <1>3, <2>1 DEF RecShare, RecShares, Deciding
    <2>2. CASE w # Reconciler
        BY <1>1, <1>3, <1>4, <1>5, <2>2, RecFacts DEF ShareOK, RecShare, RecShares, Quiet
    <2> QED
        BY <2>1, <2>2
<1>11. \A v \in Worker : pc'[v] \in AttemptPhase <=> pc[v] \in AttemptPhase
    BY <1>3 DEF AttemptPhase
<1>12. pc'[Reconciler] \in Deciding => pc[Reconciler] \in Deciding
    BY <1>3, RecFacts DEF Deciding
<1>13. OneAttempt' /\ RecAlone'
    BY <1>3, <1>11, <1>12, RecFacts DEF ShareOK, OneAttempt, RecAlone, Settled
<1> QED
    BY <1>6, <1>7, <1>8, <1>9, <1>10, <1>13 DEF ShareOK

LEMMA BitrixDropsShare ==
    ASSUME Consistent, Consistent', NEW f, ShareOK(f), NEW w \in Worker, BitrixDrops(w)
    PROVE  ShareOK(f)'
<1> USE DEF BitrixDrops
<1>1. /\ wire'[w] = NoRequest /\ wire'[w].cm = NoComment
      /\ \A v \in Worker \ {w} : wire'[v] = wire[v]
    BY DEF Consistent, TypeOK, BitrixTypeOK, NoRequest
<1>2. /\ Own' = Own /\ Linked' = Linked
      /\ UNCHANGED <<send, link, foreign, timeline, pc, job, found>>
      /\ \A d : Share(f, d)' = Share(f, d)
    BY DEF Own, Share, Linked, database, workers
<1>3. \A v \in Worker : wire[v] # NoRequest => wire[v].cm \in Comment
    BY DEF Consistent, WireOK
<1>4. Ledger(f)'
    BY <1>2 DEF ShareOK, Ledger, Account, MatchesSend
<1>5. WiresShare(f)'
    BY <1>1, <1>2, <1>3, SetsAssumption DEF ShareOK, WiresShare, WireShares
<1>6. AttemptsShare(f)'
    <2> SUFFICES ASSUME NEW v \in Worker, pc[v] \in AttemptPhase PROVE AttemptShares(f, v, pc[v], job[v])'
        BY <1>2 DEF AttemptsShare, AttemptShares
    <2>1. AttemptShares(f, v, pc[v], job[v]) /\ WireShares(f, v) /\ job[v].cm \in Comment
        BY ShareFacts, JobFacts DEF AttemptPhase
    <2> QED
        BY <1>1, <1>2, <2>1, SetsAssumption DEF AttemptShares, WireShares
<1>7. JobsShare' /\ OneAttempt'
    BY <1>2 DEF ShareOK, JobsShare, JobShares, OneAttempt
<1>8. \A c \in Comment : Quiet(c) => Quiet(c)'
    BY <1>1, SetsAssumption DEF Quiet
<1>9. pc[Reconciler] \in Deciding => job[Reconciler].cm \in Comment
    BY JobFacts, RecFacts DEF Deciding
<1>10. RecShare(f)' /\ RecAlone'
    BY <1>2, <1>8, <1>9 DEF ShareOK, RecShare, RecShares, RecAlone, Settled
<1> QED
    BY <1>4, <1>5, <1>6, <1>7, <1>10 DEF ShareOK

\* The copy that appears becomes the share of the comment it was sent for.
LEMMA BitrixAddsShare ==
    ASSUME Consistent, Consistent', NEW f, ShareOK(f), NEW w \in Worker, BitrixAdds(w)
    PROVE  \E g : ShareOK(g)'
<1> USE DEF BitrixAdds
<1>0. PICK c \in Comment, n \in Nat, t \in Text : c = wire[w].cm /\ n = Len(timeline) + 1 /\ t = wire[w].txt
    BY TimelineFacts DEF Consistent, WireOK
<1>1. timeline' = Append(timeline, [src |-> c, txt |-> t, mine |-> TRUE])
    BY <1>0
<1>2. /\ Share(f, c) = {} /\ send[c].status \in Open /\ t = send[c].fp
      /\ \A v \in Worker : wire[v].cm = c => v = w
      /\ Account(f, c)
    BY <1>0 DEF ShareOK, WiresShare, WireShares, Ledger
<1>3. /\ wire'[w] = NoRequest /\ wire'[w].cm = NoComment
      /\ \A v \in Worker \ {w} : wire'[v] = wire[v]
    BY DEF Consistent, TypeOK, BitrixTypeOK, NoRequest
<1>4. /\ Len(timeline) \in Nat /\ Len(timeline') = n /\ n \notin DOMAIN timeline
      /\ DOMAIN timeline = 1..Len(timeline) /\ DOMAIN timeline' = 1..n /\ n \in 1..n
      /\ timeline'[n].src = c /\ timeline'[n].txt = t /\ timeline'[n].mine = TRUE
      /\ \A i \in DOMAIN timeline : i \in DOMAIN timeline' /\ timeline'[i] = timeline[i]
    BY <1>0, <1>1, AppendFacts
<1>5. Own' = Own \cup {n} /\ n \notin Own /\ c # NoComment
    BY <1>0, <1>4, SetsAssumption DEF Own
<1>6. PICK g : g = [i \in Own' |-> IF i = n THEN c ELSE f[i]]
    OBVIOUS
<1>7. /\ g \in [Own' -> Comment] /\ g[n] = c /\ \A i \in Own : g[i] = f[i]
    BY <1>5, <1>6 DEF ShareOK, Ledger
<1>8. Share(g, c)' = {n} /\ \A d \in Comment \ {c} : Share(g, d)' = Share(f, d)
    BY <1>2, <1>5, <1>7 DEF Share
<1>9. UNCHANGED <<send, link, foreign, pc, found>> /\ Linked' = Linked
    BY DEF database, Linked
<1>10. \A d \in Comment : /\ Account(f, d) /\ send[d].born \in Nat /\ send[d].wm \in Nat
                          /\ link[d] \in Nat
    BY SendFacts DEF ShareOK, Ledger
<1>11. \A d \in Comment : send[d].born <= Len(timeline') /\ send[d].born < n
    BY <1>0, <1>4, <1>10 DEF Account
<1>12. Account(g, c)'
    <2>1. MatchesSend(c, send[c].fp, n, t)'
        <3>1. n > send[c].wm - Margin /\ n > send[c].born - Skew
            <4>1. send[c].wm <= send[c].born /\ send[c].born < n /\ send[c].wm \in Nat /\ send[c].born \in Nat
                BY <1>2, <1>10, <1>11 DEF Account
            <4> QED
                BY <4>1, NumbersAssumption
        <3> QED
            BY <1>2, <1>4, <1>9, <3>1 DEF MatchesSend
    <2>2. link[c] = 0
        BY <1>2, SendFacts DEF Open
    <2>3. 0 \notin Own'
        BY <1>4 DEF Own
    <2> QED
        BY <1>2, <1>4, <1>8, <1>9, <1>10, <1>11, <2>1, <2>2, <2>3 DEF Account, Open
<1>13. ASSUME NEW d \in Comment \ {c} PROVE Account(g, d)'
    <2>1. \A i \in Share(g, d)' : i \in DOMAIN timeline /\ timeline'[i] = timeline[i]
        BY <1>4, <1>8 DEF Share, Own
    <2>2. send[d].status \in Open =>
              \A i \in Share(g, d)' : MatchesSend(d, send[d].fp, i, timeline[i].txt)'
        BY <1>8, <1>9, <1>10, <2>1 DEF Account, MatchesSend
    <2>3. link[d] # 0 => link[d] \in DOMAIN timeline
        BY <1>10 DEF Account
    <2>4. link[d] \in Own' => link[d] \in Own
        BY <1>4, <1>5, <2>3
    <2>5. Account(f, d) /\ (link[d] \in Own => g[link[d]] = f[link[d]])
        BY <1>7, <1>10
    <2>6. Share(g, d)' = Share(f, d) /\ send'[d] = send[d] /\ link'[d] = link[d]
          /\ send[d].born <= Len(timeline')
        BY <1>8, <1>9, <1>11
    <2> QED
        BY <1>4, <2>2, <2>3, <2>4, <2>5, <2>6 DEF Account
<1>14. Ledger(g)'
    <2>1. \A i \in Own' : timeline'[i].mine
        BY <1>4, <1>5 DEF ShareOK, Ledger, Own
    <2> QED
        BY <1>7, <1>9, <1>12, <1>13, <2>1 DEF ShareOK, Ledger
<1>15. \A v \in Worker : wire[v] # NoRequest => wire[v].cm \in Comment
    BY DEF Consistent, WireOK
<1>16. WiresShare(g)'
    <2> SUFFICES ASSUME NEW v \in Worker, wire'[v] # NoRequest PROVE WireShares(g, v)'
        BY DEF WiresShare, WireShares
    <2>1. v # w /\ wire'[v] = wire[v] /\ wire[v].cm # c /\ wire[v].cm \in Comment /\ WireShares(f, v)
        BY <1>2, <1>3, <1>15 DEF ShareOK, WiresShare
    <2> QED
        BY <1>3, <1>8, <1>9, <2>1, SetsAssumption DEF WireShares
<1>17. \A v \in Worker \ {w} : job'[v] = job[v]
    BY DEF Consistent, TypeOK, WorkersTypeOK
<1>18. /\ job'[w].cm = job[w].cm /\ job'[w].txt = job[w].txt /\ job'[w].wm = job[w].wm
       /\ job'[w].id = IF pc[w] = "wait" THEN n ELSE job[w].id
    BY <1>0, JobFacts DEF Job, Consistent, TypeOK, WorkersTypeOK
<1>19. pc[w] = "wait" => job[w].cm = c /\ job[w].id = 0
    BY <1>0, ShareFacts DEF AttemptShares, AttemptPhase
<1>20. AttemptsShare(g)'
    <2> SUFFICES ASSUME NEW v \in Worker, pc[v] \in AttemptPhase PROVE AttemptShares(g, v, pc[v], job[v])'
        BY <1>9 DEF AttemptsShare, AttemptShares
    <2>1. AttemptShares(f, v, pc[v], job[v]) /\ job[v].cm \in Comment
        BY ShareFacts, JobFacts DEF AttemptPhase
    <2>2. CASE job[v].cm = c
        <3>1. v = w /\ pc[w] \in {"wait", "unknown"}
            BY <1>0, <2>1, <2>2 DEF AttemptShares
        <3>2. n # 0
            BY <1>4
        <3> QED
            BY <1>2, <1>3, <1>5, <1>7, <1>9, <1>18, <2>1, <2>2, <3>1, <3>2, SetsAssumption
            DEF AttemptShares
    <2>3. CASE job[v].cm # c
        <3>1. job'[v] = job[v]
            BY <1>17, <1>19, <2>3
        <3>2. v = w => pc[v] # "wait"
            BY <1>19, <2>3
        <3>3. \A i \in Own : i \in Own' /\ (f[i] = job[v].cm => g[i] = job[v].cm)
            BY <1>5, <1>7
        <3> QED
            BY <1>3, <1>8, <1>9, <2>1, <2>3, <3>1, <3>2, <3>3, SetsAssumption DEF AttemptShares
    <2> QED
        BY <2>2, <2>3
<1>21. JobsShare'
    <2> SUFFICES ASSUME NEW v \in Worker PROVE JobShares(pc[v], job[v])'
        BY DEF JobsShare
    <2>1. JobShares(pc[v], job[v]) /\ job[v].wm \in Nat
        BY ShareFacts, JobFacts DEF Job
    <2>2. job[v].wm <= Len(timeline) => job[v].wm <= Len(timeline')
        BY <1>0, <1>4, <2>1
    <2>3. CASE v = w
        BY <1>9, <1>18, <2>1, <2>2, <2>3 DEF JobShares
    <2>4. CASE v # w
        BY <1>9, <1>17, <2>1, <2>2, <2>4 DEF JobShares
    <2> QED
        BY <2>3, <2>4
<1>22. OneAttempt' /\ RecAlone'
    <2>1. \A v \in Worker : job'[v].cm = job[v].cm
        BY <1>17, <1>18
    <2> QED
        BY <1>9, <2>1, RecFacts DEF ShareOK, OneAttempt, RecAlone, Settled
<1>23. RecShare(g)'
    <2> SUFFICES ASSUME pc[Reconciler] \in Deciding PROVE RecShare(g)'
        BY <1>9 DEF RecShare, RecShares
    <2>1. /\ job[Reconciler].cm \in Comment /\ Quiet(job[Reconciler].cm)
          /\ RecShares(f, pc[Reconciler], job[Reconciler], found) /\ pc[Reconciler] # "wait"
        BY DecidingShare DEF Deciding
    <2>2. job[Reconciler].cm # c
        BY <1>0, <2>1 DEF Quiet
    <2>3. job'[Reconciler] = job[Reconciler]
        BY <1>17, <2>1, RecFacts
    <2>4. Quiet(job[Reconciler].cm)'
        BY <1>3, <2>1, <2>3, SetsAssumption DEF Quiet
    <2> QED
        BY <1>4, <1>8, <1>9, <2>1, <2>2, <2>3, <2>4 DEF RecShare, RecShares
<1>24. ShareOK(g)'
    BY <1>14, <1>16, <1>20, <1>21, <1>22, <1>23 DEF ShareOK
<1> QED
    BY <1>24

LEMMA ForeignCommentShare ==
    ASSUME Consistent, Consistent', NEW f, ShareOK(f), ForeignComment
    PROVE  ShareOK(f)'
<1> USE DEF ForeignComment
<1>1. PICK t \in Text : timeline' = Append(timeline, [src |-> NoComment, txt |-> t, mine |-> FALSE])
    OBVIOUS
<1>2. /\ Len(timeline) \in Nat /\ Len(timeline') = Len(timeline) + 1
      /\ DOMAIN timeline = 1..Len(timeline) /\ DOMAIN timeline' = 1..(Len(timeline) + 1)
      /\ timeline'[Len(timeline) + 1].src = NoComment
      /\ \A i \in DOMAIN timeline : i \in DOMAIN timeline' /\ timeline'[i] = timeline[i]
    BY <1>1, AppendFacts
<1>3. Own' = Own /\ \A d : Share(f, d)' = Share(f, d)
    BY <1>2 DEF Own, Share
<1>4. UNCHANGED <<send, link, foreign, wire, pc, job, found>> /\ Linked' = Linked
    BY DEF database, workers, Linked
<1>5. Ledger(f)'
    <2>1. ASSUME NEW d \in Comment PROVE Account(f, d)'
        <3>1. Account(f, d) /\ send[d].born \in Nat
            BY SendFacts DEF ShareOK, Ledger
        <3>2. \A i \in Share(f, d) : timeline'[i] = timeline[i]
            BY <1>2 DEF Share, Own
        <3>3. send[d].status \in Open =>
                  \A i \in Share(f, d) : MatchesSend(d, send[d].fp, i, timeline[i].txt)'
            BY <1>4, <3>1, <3>2 DEF Account, MatchesSend
        <3>4. send[d].born <= Len(timeline')
            BY <1>2, <3>1 DEF Account
        <3> QED
            BY <1>2, <1>3, <1>4, <3>1, <3>3, <3>4 DEF Account
    <2>2. \A i \in Own : timeline'[i].mine
        BY <1>2 DEF ShareOK, Ledger, Own
    <2> QED
        BY <1>3, <1>4, <2>1, <2>2 DEF ShareOK, Ledger
<1>6. WiresShare(f)' /\ AttemptsShare(f)'
    <2>1. WiresShare(f)'
        BY <1>3, <1>4 DEF ShareOK, WiresShare, WireShares
    <2>2. AttemptsShare(f)'
        BY <1>3, <1>4 DEF ShareOK, AttemptsShare, AttemptShares
    <2> QED
        BY <2>1, <2>2
<1>7. JobsShare'
    <2> SUFFICES ASSUME NEW v \in Worker PROVE JobShares(pc[v], job[v])'
        BY DEF JobsShare
    <2>1. JobShares(pc[v], job[v]) /\ job[v].wm \in Nat
        BY ShareFacts, JobFacts DEF Job
    <2>2. job[v].wm <= Len(timeline) => job[v].wm <= Len(timeline')
        BY <1>2, <2>1
    <2> QED
        BY <1>4, <2>1, <2>2 DEF JobShares
<1>8. RecShare(f)'
    BY <1>2, <1>3, <1>4 DEF ShareOK, RecShare, RecShares, Quiet
<1>9. OneAttempt' /\ RecAlone'
    BY <1>4 DEF ShareOK, OneAttempt, RecAlone, Settled
<1> QED
    BY <1>5, <1>6, <1>7, <1>8, <1>9 DEF ShareOK

\* The text of a linked entry says nothing of a send that is open.
LEMMA RetextShare ==
    ASSUME Consistent, Consistent', NEW f, ShareOK(f), NEW w \in Worker, NEW c \in Comment,
           link[c] # 0, NEW t \in Text,
           timeline' = timeline \/ timeline' = [timeline EXCEPT ![link[c]].txt = t],
           UNCHANGED <<send, link, foreign, wire, found>>,
           NEW p \in Phase, NEW j \in Job, SetPc(w, p), job' = [job EXCEPT ![w] = j],
           p \notin AttemptPhase \cup Deciding, JobShares(p, j)
    PROVE  ShareOK(f)'
<1>1. Account(f, c) /\ send[c].status = "confirmed"
    BY LinkedShare
<1>2. /\ DOMAIN timeline' = DOMAIN timeline /\ Len(timeline') = Len(timeline)
      /\ \A i \in DOMAIN timeline : /\ timeline'[i].src = timeline[i].src
                                    /\ timeline'[i].mine = timeline[i].mine
                                    /\ i # link[c] => timeline'[i].txt = timeline[i].txt
    <2>1. /\ DOMAIN timeline' = DOMAIN timeline
          /\ \A i \in DOMAIN timeline : /\ timeline'[i].src = timeline[i].src
                                        /\ timeline'[i].mine = timeline[i].mine
                                        /\ i # link[c] => timeline'[i].txt = timeline[i].txt
        BY TimelineFacts DEF Entry
    <2>2. /\ Len(timeline) \in Nat /\ DOMAIN timeline = 1..Len(timeline)
          /\ Len(timeline') \in Nat /\ DOMAIN timeline' = 1..Len(timeline')
        BY DEF Consistent, TypeOK, BitrixTypeOK
    <2> QED
        BY <2>1, <2>2
<1>3. Own' = Own /\ Linked' = Linked /\ \A d : Share(f, d)' = Share(f, d)
    BY <1>2 DEF Own, Share, Linked
<1>4. Ledger(f)'
    <2>1. ASSUME NEW d \in Comment PROVE Account(f, d)'
        <3>1. Account(f, d)
            BY DEF ShareOK, Ledger
        <3>2. ASSUME send[d].status \in Open, NEW i \in Share(f, d)
              PROVE  MatchesSend(d, send[d].fp, i, timeline[i].txt)'
            <4>1. d # c /\ MatchesSend(d, send[d].fp, i, timeline[i].txt)
                BY <1>1, <3>1, <3>2 DEF Account, Open
            <4>2. i # link[c]
                BY <1>1, <4>1 DEF Account, Share
            <4> QED
                BY <1>2, <4>1, <4>2 DEF MatchesSend, Share, Own
        <3> QED
            BY <1>2, <1>3, <3>1, <3>2 DEF Account
    <2>2. \A i \in Own : timeline'[i].mine
        BY <1>2 DEF ShareOK, Ledger, Own
    <2> QED
        BY <1>3, <2>1, <2>2 DEF ShareOK, Ledger
<1>5. WiresShare(f)'
    BY <1>3 DEF ShareOK, WiresShare, WireShares
<1>6. /\ pc'[w] = p /\ job'[w] = j
      /\ \A v \in Worker \ {w} : pc'[v] = pc[v] /\ job'[v] = job[v]
    BY DEF SetPc, Consistent, TypeOK, WorkersTypeOK
<1>7. AttemptsShare(f)' /\ JobsShare'
    <2>1. AttemptShares(f, w, p, j)' /\ JobShares(p, j)'
        BY <1>2 DEF AttemptShares, JobShares
    <2>2. ASSUME NEW v \in Worker \ {w} PROVE AttemptShares(f, v, pc[v], job[v])' /\ JobShares(pc[v], job[v])'
        <3>1. AttemptShares(f, v, pc[v], job[v]) /\ JobShares(pc[v], job[v])
            BY ShareFacts
        <3>2. AttemptShares(f, v, pc[v], job[v])'
            BY <1>3, <1>6, <3>1 DEF AttemptShares
        <3>3. JobShares(pc[v], job[v])'
            BY <1>2, <1>6, <3>1 DEF JobShares
        <3> QED
            BY <3>2, <3>3
    <2> QED
        BY <1>6, <2>1, <2>2 DEF AttemptsShare, JobsShare
<1>8. RecShare(f)'
    <2>1. CASE w = Reconciler
        BY <1>6, <2>1 DEF RecShare, RecShares
    <2>2. CASE w # Reconciler
        <3>1. /\ pc'[Reconciler] = pc[Reconciler] /\ job'[Reconciler] = job[Reconciler]
              /\ RecShares(f, pc[Reconciler], job[Reconciler], found)
            BY <1>6, <2>2, RecFacts, ShareFacts
        <3>2. link[c] \in Linked
            BY DEF Linked
        <3>3. \A i \in DOMAIN timeline : i \in Linked \/ timeline'[i].txt = timeline[i].txt
            BY <1>2, <3>2
        <3> QED
            BY <1>2, <1>3, <3>1, <3>3 DEF RecShare, RecShares, Quiet
    <2> QED
        BY <2>1, <2>2
<1>9. OneAttempt' /\ RecAlone'
    BY <1>6, RecFacts DEF ShareOK, OneAttempt, RecAlone, Settled
<1> QED
    BY <1>4, <1>5, <1>7, <1>8, <1>9 DEF ShareOK

LEMMA PreviewShare ==
    ASSUME Consistent, Consistent', NEW f, ShareOK(f), NEW w \in Worker, Preview(w) \/ Repreview(w)
    PROVE  ShareOK(f)'
<1> USE DEF Preview, Repreview
<1>0. PICK c \in Comment, t \in Text : c = job[w].cm /\ t = job[w].txt
    BY JobFacts DEF Consistent, JobsOK, SyncPhase
<1>1. link[c] # 0 /\ job[w].id = link[c]
    BY <1>0, ShareFacts DEF JobShares
<1>2. timeline' = timeline \/ timeline' = [timeline EXCEPT ![link[c]].txt = t]
    BY <1>0, <1>1 DEF Style
<1>3. UNCHANGED <<send, link, foreign, wire, found>>
    BY DEF database
<1>4. JobShares("idle", NoJob)
    BY IdleFacts DEF JobShares
<1> QED
    BY <1>0, <1>1, <1>2, <1>3, <1>4, IdleFacts, RetextShare DEF Finish

LEMMA RewriteShare ==
    ASSUME Consistent, Consistent', NEW f, ShareOK(f), NEW w \in Worker, Rewrite(w)
    PROVE  ShareOK(f)'
<1> USE DEF Rewrite
<1>0. PICK c \in Comment, t \in Text, k \in Job : c = job[w].cm /\ t = job[w].txt /\ k = job[w]
    BY JobFacts DEF Consistent, JobsOK, SyncPhase
<1>1. link[c] # 0 /\ job[w].id = link[c] /\ JobShares("repreview", k)
    BY <1>0, ShareFacts DEF JobShares
<1>2. timeline' = [timeline EXCEPT ![link[c]].txt = t]
    BY <1>0, <1>1
<1>3. UNCHANGED <<send, link, foreign, wire, found>>
    BY DEF database
<1>4. job' = [job EXCEPT ![w] = k] /\ SetPc(w, "repreview")
    BY <1>0 DEF Consistent, TypeOK, WorkersTypeOK
<1>5. "repreview" \in Phase \ (AttemptPhase \cup Deciding)
    BY DEF Phase, SyncPhase, AttemptPhase, Deciding
<1> QED
    BY <1>0, <1>1, <1>2, <1>3, <1>4, <1>5, RetextShare

LEMMA FinalizeShare ==
    ASSUME Consistent, Consistent', NEW f, ShareOK(f), Finalize
    PROVE  ShareOK(f)'
<1> USE DEF Finalize
<1> DEFINE r == Reconciler
<1>0. PICK c \in Comment, k \in Job : c = job[r].cm /\ k = job[r]
    BY RecFacts, JobFacts
<1>1. CASE send[c].status = "confirmed" /\ send[c].fin
    <2>1. PICK t \in TextsOf[c] : Style(send[c].b24, c, t)
        BY <1>0, <1>1
    <2>2. link[c] # 0 /\ send[c].b24 = link[c] /\ t \in Text
        BY <1>1, SendFacts, SetsAssumption
    <2>3. timeline' = timeline \/ timeline' = [timeline EXCEPT ![link[c]].txt = t]
        BY <2>1, <2>2 DEF Style
    <2>4. UNCHANGED <<send, link, foreign, wire, found>>
        BY DEF database
    <2>5. job' = [job EXCEPT ![r] = k] /\ SetPc(r, "clear")
        BY <1>0, <1>1 DEF Consistent, TypeOK, WorkersTypeOK
    <2>6. "clear" \in Phase \ (AttemptPhase \cup Deciding) /\ JobShares("clear", k)
        BY DEF Phase, SyncPhase, RecPhase, AttemptPhase, Deciding, JobShares
    <2> QED
        BY <2>2, <2>3, <2>4, <2>5, <2>6, RecFacts, RetextShare
<1>2. CASE ~(send[c].status = "confirmed" /\ send[c].fin)
    BY <1>0, <1>2, RecFacts, FinishShare DEF still, database
<1> QED
    BY <1>1, <1>2

-----------------------------------------------------------------------------
(* Restarts, the beginning, and the whole system.                          *)

LEMMA RestartShare ==
    ASSUME Consistent, Consistent', NEW f, ShareOK(f), Restart
    PROVE  ShareOK(f)'
<1> USE DEF Restart
<1>1. /\ UNCHANGED <<send, link, foreign, timeline, wire>> /\ Own' = Own
      /\ \A d : Share(f, d)' = Share(f, d)
    BY DEF database, bitrix, Own, Share
<1>2. Ledger(f)' /\ WiresShare(f)'
    <2>1. Ledger(f)'
        BY <1>1 DEF ShareOK, Ledger, Account, MatchesSend
    <2>2. WiresShare(f)'
        BY <1>1 DEF ShareOK, WiresShare, WireShares
    <2> QED
        BY <2>1, <2>2
<1>3. "idle" \notin AttemptPhase \cup Deciding
    BY DEF AttemptPhase, Deciding
<1>4. AttemptsShare(f)' /\ OneAttempt'
    BY <1>3 DEF AttemptsShare, AttemptShares, OneAttempt
<1>5. JobsShare'
    BY IdleFacts DEF JobsShare, JobShares
<1>6. RecShare(f)' /\ RecAlone'
    BY <1>3, RecFacts DEF RecShare, RecShares, RecAlone
<1> QED
    BY <1>2, <1>4, <1>5, <1>6 DEF ShareOK

LEMMA StutterShare ==
    ASSUME NEW f, ShareOK(f), UNCHANGED vars
    PROVE  ShareOK(f)'
<1>1. /\ UNCHANGED <<send, link, foreign, timeline, wire, pc, job, found>> /\ Own' = Own
      /\ Linked' = Linked /\ \A d : Share(f, d)' = Share(f, d)
    BY DEF vars, database, bitrix, workers, Own, Share, Linked
<1>2. Ledger(f)' /\ WiresShare(f)'
    BY <1>1 DEF ShareOK, Ledger, Account, MatchesSend, WiresShare, WireShares
<1>3. AttemptsShare(f)' /\ OneAttempt' /\ JobsShare'
    BY <1>1 DEF ShareOK, AttemptsShare, AttemptShares, OneAttempt, JobsShare, JobShares
<1>4. RecShare(f)' /\ RecAlone'
    BY <1>1 DEF ShareOK, RecShare, RecShares, RecAlone, Quiet, Settled
<1> QED
    BY <1>2, <1>3, <1>4 DEF ShareOK

LEMMA ShareInit == Init => \E f : ShareOK(f)
<1> SUFFICES ASSUME Init PROVE \E f : ShareOK(f)
    OBVIOUS
<1> USE DEF Init
<1>1. timeline \in [1..Orphans -> [src: {NoComment}, txt: OrphanText, mine: {TRUE}]]
    OBVIOUS
<1>2. Own = {} /\ Len(timeline) \in Nat
    <2>1. \A i \in DOMAIN timeline : timeline[i].src = NoComment
        BY <1>1
    <2> QED
        BY <2>1, InitConsistent, TimelineFacts DEF Own
<1>3. PICK f : f = [i \in Own |-> NoComment]
    OBVIOUS
<1>4. f \in [Own -> Comment] /\ \A c : Share(f, c) = {}
    BY <1>2, <1>3 DEF Share
<1>5. Ledger(f)
    <2> SUFFICES ASSUME NEW c \in Comment PROVE Account(f, c)
        BY <1>2, <1>4 DEF Ledger
    <2>1. send[c] = NoSend /\ link[c] = 0
        OBVIOUS
    <2> QED
        BY <1>2, <1>4, <2>1 DEF Account, NoSend
<1>6. "idle" \notin AttemptPhase \cup Deciding
    BY DEF AttemptPhase, Deciding
<1>7. WiresShare(f)
    BY DEF WiresShare, WireShares
<1>8. AttemptsShare(f) /\ OneAttempt
    BY <1>6 DEF AttemptsShare, AttemptShares, OneAttempt
<1>9. JobsShare
    BY IdleFacts DEF JobsShare, JobShares
<1>10. RecShare(f) /\ RecAlone
    BY <1>6, RecFacts DEF RecShare, RecShares, RecAlone
<1> QED
    BY <1>5, <1>7, <1>8, <1>9, <1>10 DEF ShareOK

LEMMA ShareNext ==
    ASSUME Timely, Handler = {}, Consistent, Consistent', NEW f, ShareOK(f), [Next]_vars
    PROVE  \E g : ShareOK(g)'
<1>1. ASSUME NEW w \in Sender, NEW c \in Comment, BeginSync(w, c) PROVE ShareOK(f)'
    BY <1>1, BeginSyncShare
<1>2. ASSUME NEW w \in Worker, SenderStep(w) PROVE ShareOK(f)'
    BY <1>2, LinkMissingShare, LinkedUpdateShare, ReadWatermarkShare, ClaimNewShare,
       ClaimRejectedShare, PostShare, PostRefusedShare, CallRetryShare, AnswerOkShare,
       AnswerUnknownShare, SettleRefusedShare, SettleUnknownShare, SettleConfirmedShare,
       PreviewShare, PreviewDeferredShare, RefreshShare, RewriteShare, QuitShare
    DEF SenderStep
<1>3. ASSUME NEW w \in Worker, BitrixDrops(w) \/ Abandon(w) PROVE ShareOK(f)'
    BY <1>3, BitrixDropsShare, QuitShare
<1>4. ASSUME NEW w \in Worker, BitrixAdds(w) PROVE \E g : ShareOK(g)'
    BY <1>4, BitrixAddsShare
<1>5. ASSUME NEW c \in Comment, ReconcilePick(c) \/ FinalizePick(c) PROVE ShareOK(f)'
    BY <1>5, ReconcilePickShare, FinalizePickShare
<1>6. ASSUME ReconcilerStep PROVE \E g : ShareOK(g)'
    <2>1. CASE ReconcileAdopt
        BY <2>1, ReconcileAdoptShare
    <2>2. CASE ~ReconcileAdopt
        <3>1. ShareOK(f)'
            BY <1>6, <2>2, ReconcileDemoteShare, ReconcileListShare, ReconcileTryShare,
               ReconcileNothingFoundShare, ReconcileAbsentShare, ReconcileResendShare, FinalizeShare,
               FinalizeClearShare
            DEF ReconcilerStep
        <3> QED
            BY <3>1
    <2> QED
        BY <2>1, <2>2
<1>7. ASSUME ForeignComment \/ Restart PROVE ShareOK(f)'
    BY <1>7, ForeignCommentShare, RestartShare
<1>8. ASSUME UNCHANGED vars PROVE ShareOK(f)'
    BY <1>8, StutterShare
<1> QED
    BY <1>1, <1>2, <1>3, <1>4, <1>5, <1>6, <1>7, <1>8 DEF Next

Begun == {c \in Comment : send[c].status # "none"}

SparesOthers(c) == \A d \in Comment \ {c} : send'[d] = send[d]

\* A step changes the send of one comment at most.
LEMMA OneSendMoves ==
    ASSUME Consistent, [Next]_vars
    PROVE  \E c : SparesOthers(c)
<1>1. send \in [Comment -> SendState]
    BY DEF Consistent, TypeOK, DatabaseTypeOK
<1>2. \A c, id, b : ConfirmStores(c, id, b) => SparesOthers(c)
    BY <1>1 DEF ConfirmStores, SparesOthers
<1>3. \A c, from, to : Transition(c, from, to) => SparesOthers(c)
    BY <1>1 DEF Transition, SparesOthers
<1>4. UNCHANGED send => SparesOthers(NoComment)
    BY DEF SparesOthers
<1>5. ASSUME NEW w \in Worker, SenderStep(w) PROVE \E c : SparesOthers(c)
    <2>1. CASE ClaimNew(w) \/ ClaimRejected(w) \/ PreviewDeferred(w) \/ Refresh(w)
        <3>1. SparesOthers(job[w].cm)
            BY <1>1, <2>1 DEF ClaimNew, ClaimRejected, PreviewDeferred, Refresh, SparesOthers
        <3> QED
            BY <3>1
    <2>2. CASE SettleRefused(w) \/ SettleUnknown(w)
        BY <1>3, <2>2 DEF SettleRefused, SettleUnknown
    <2>3. CASE SettleConfirmed(w)
        BY <1>2, <1>4, <2>3 DEF SettleConfirmed
    <2>4. CASE \/ LinkMissing(w) \/ LinkedSkip(w) \/ LinkedUpdate(w) \/ ReadWatermark(w)
               \/ ClaimDenied(w) \/ Post(w) \/ PostRefused(w) \/ CallRetry(w)
               \/ AnswerOk(w) \/ AnswerUnknown(w) \/ Preview(w) \/ Rewrite(w) \/ Repreview(w)
        <3>1. UNCHANGED send
            BY <2>4 DEF LinkMissing, LinkedSkip, LinkedUpdate, ReadWatermark, ClaimDenied, Post,
               PostRefused, CallRetry, AnswerOk, AnswerUnknown, Preview, Rewrite, Repreview, database
        <3> QED
            BY <1>4, <3>1
    <2> QED
        BY <1>5, <2>1, <2>2, <2>3, <2>4 DEF SenderStep
<1>6. ASSUME ReconcilerStep PROVE \E c : SparesOthers(c)
    <2>1. CASE FinalizeClear
        <3>1. SparesOthers(job[Reconciler].cm)
            BY <1>1, <2>1 DEF FinalizeClear, SparesOthers
        <3> QED
            BY <3>1
    <2>2. CASE ReconcileDemote \/ ReconcileAbsent
        BY <1>3, <2>2 DEF ReconcileDemote, ReconcileAbsent
    <2>3. CASE ReconcileAdopt
        BY <1>2, <1>4, <2>3 DEF ReconcileAdopt
    <2>4. CASE \/ ReconcileList \/ ReconcileTry \/ ReconcileNothingFound \/ ReconcileResend
               \/ Finalize
        <3>1. UNCHANGED send
            BY <2>4 DEF ReconcileList, ReconcileTry, ReconcileNothingFound, ReconcileResend,
               Finalize, database
        <3> QED
            BY <1>4, <3>1
    <2> QED
        BY <1>6, <2>1, <2>2, <2>3, <2>4 DEF ReconcilerStep
<1>7. ASSUME NEW h \in Handler, HandlerStep(h) PROVE \E c : SparesOthers(c)
    <2>1. CASE WebhookAdopt(h)
        BY <1>2, <1>4, <2>1 DEF WebhookAdopt
    <2>2. CASE ~WebhookAdopt(h)
        <3>1. UNCHANGED send
            BY <1>7, <2>2 DEF HandlerStep, WebhookOwn, WebhookForeign, WebhookUnlinked, WebhookMatch,
               WebhookNoMatch, ImportUpdate, ImportNew, ImportReserve, ImportAdd, ImportUndone,
               database
        <3> QED
            BY <1>4, <3>1
    <2> QED
        BY <2>1, <2>2
<1>8. ASSUME ~(\E w \in Worker : SenderStep(w)), ~ReconcilerStep, ~(\E h \in Handler : HandlerStep(h))
      PROVE  UNCHANGED send
    BY <1>8 DEF Next, vars, database, BeginSync, BitrixAdds, BitrixDrops, Abandon, ReconcilePick,
       FinalizePick, ForeignComment, Restart, HAbandon, WebhookBegin
<1> QED
    BY <1>4, <1>5, <1>6, <1>7, <1>8

FiniteJournal == IsFiniteSet(Begun)

LEMMA BegunHolds == Spec => [](Consistent /\ FiniteJournal)
<1>1. Init => FiniteJournal
    <2>1. Init => Begun = {}
        BY DEF Init, Begun, NoSend
    <2> QED
        BY <2>1, FS_EmptySet DEF FiniteJournal
<1>2. ASSUME Consistent, FiniteJournal, [Next]_vars PROVE FiniteJournal'
    <2>1. PICK c : SparesOthers(c)
        BY <1>2, OneSendMoves
    <2>2. IsFiniteSet(Begun \cup {c})
        BY <1>2, FS_AddElement DEF FiniteJournal
    <2>3. Begun' \in SUBSET (Begun \cup {c})
        BY <2>1 DEF Begun, SparesOthers
    <2> QED
        BY <2>2, <2>3, FS_Subset DEF FiniteJournal
<1> QED
    BY <1>1, <1>2, InitConsistent, NextConsistent, PTL DEF Spec

Accounted == \E f : ShareOK(f)

LEMMA AccountedHolds ==
    ASSUME Timely, Handler = {}
    PROVE  Spec => [](Consistent /\ Accounted)
<1>1. Init => Accounted
    BY ShareInit DEF Accounted
<1>2. Consistent /\ Consistent' /\ Accounted /\ [Next]_vars => Accounted'
    BY ShareNext DEF Accounted
<1> QED
    BY <1>1, <1>2, InitConsistent, NextConsistent, PTL DEF Spec

\* Each own comment of the timeline is the share of another send.
LEMMA SharesCount ==
    ASSUME FiniteJournal, NEW f \in [Own -> Begun], \A i, k \in Own : f[i] = f[k] => i = k
    PROVE  NoSurplusCopies
<1>1. f \in Injection(Own, Begun)
    BY DEF Injection, IsInjective
<1>2. Cardinality(Own) <= Cardinality(Begun)
    BY <1>1, FS_Injection DEF FiniteJournal
<1> QED
    BY <1>2 DEF NoSurplusCopies, Own, Begun

\* NoSurplusCopies, if every attempt ends within the grace period, and texts tell comments
\* apart or there are no webhooks: the timeline holds no more own comments than the journal
\* has sends, without webhooks also when any of them have the same text.  A slow sender
\* (slow_sender.cfg), or webhooks and one text (twin_resent.cfg), make more.
THEOREM NoSurplusHolds ==
    ASSUME Timely, TextsDiffer \/ Handler = {}
    PROVE  Spec => []NoSurplusCopies
<1>1. CASE Handler = {}
    <2>1. Consistent /\ FiniteJournal /\ Accounted => NoSurplusCopies
        <3> SUFFICES ASSUME Consistent, FiniteJournal, Accounted PROVE NoSurplusCopies
            OBVIOUS
        <3>1. PICK f : ShareOK(f)
            BY DEF Accounted
        <3>2. f \in [Own -> Comment] /\ \A c \in Comment : Account(f, c)
            BY <3>1 DEF ShareOK, Ledger
        <3>3. f \in [Own -> Begun]
            BY <3>2 DEF Account, Share, Begun
        <3>4. \A i, k \in Own : f[i] = f[k] => i = k
            BY <3>2 DEF Account, Share
        <3> QED
            BY <3>3, <3>4, SharesCount
    <2> QED
        BY <1>1, <2>1, AccountedHolds, BegunHolds, PTL
<1>2. CASE TextsDiffer
    <2>0. Distinguishable
        BY <1>2 DEF Distinguishable
    <2>1. Consistent /\ OnceOK /\ FiniteJournal => NoSurplusCopies
        <3> SUFFICES ASSUME Consistent, OnceOK, FiniteJournal PROVE NoSurplusCopies
            OBVIOUS
        <3>1. PICK f : f = [i \in Own |-> timeline[i].src]
            OBVIOUS
        <3>2. ASSUME NEW i \in Own PROVE f[i] \in Begun /\ i \in OwnCopies(f[i])
            <4>1. PICK c \in Comment : f[i] = c /\ i \in OwnCopies(c)
                BY <3>1, TimelineFacts DEF Own, OwnCopies
            <4>2. SendFits(c) /\ send[c].status \in Status
                BY SendFacts DEF OnceOK, SendsOK
            <4> QED
                BY <4>1, <4>2 DEF SendFits, Begun
        <3>3. f \in [Own -> Begun]
            BY <3>1, <3>2
        <3>4. \A i, k \in Own : f[i] = f[k] => i = k
            BY <3>2 DEF OnceOK, SendsOK, SendFits, Begun
        <3> QED
            BY <3>3, <3>4, SharesCount
    <2> QED
        BY <2>0, <2>1, OnceHolds, BegunHolds, PTL
<1> QED
    BY <1>1, <1>2
=============================================================================
