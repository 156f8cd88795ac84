------------------------- MODULE BitrixCommentSend -------------------------
(***************************************************************************)
(* Outgoing comments of one ticket and its Bitrix24 deal.                  *)
(*                                                                         *)
(* Several goroutines send the comments of a ticket to the timeline of a   *)
(* Bitrix24 deal: the handler of a comment event, the ticket sync and the  *)
(* background reconciliation.  crm.timeline.comment.add has no idempotency *)
(* key, so every send is first reserved in the table comment_send_state    *)
(* (variable send), and its result is settled there afterwards.  A webhook *)
(* that announces a new Bitrix24 comment may confirm a pending send before *)
(* the answer of Bitrix24 does.                                            *)
(*                                                                         *)
(* Bitrix24 hands out growing identifiers, so the timeline is a sequence   *)
(* and an identifier is an index into it.  A text stands for the           *)
(* fingerprint of an outgoing version of a comment: markup, file uploads   *)
(* and formatting are abstracted away, and so are private comments, closed *)
(* deals and the tickets that are not synchronised at all.                 *)
(***************************************************************************)
EXTENDS Integers, Sequences, FiniteSets

CONSTANTS
    Comment,        \* comments of the ticket, by etalon_comment_id
    Text,           \* fingerprints
    TextsOf,        \* [Comment -> SUBSET Text]: the versions of each comment
    HasFiles,       \* the comments with inline images, which need a preview
    Sender,         \* goroutines of the event bridge and of the ticket sync
    Reconciler,     \* the goroutine of startCommentReconcileLoop
    Handler,        \* consumers of the webhook queue
    NoComment, NoText,
    Orphans,        \* own-account comments in the timeline from before the journal
    OrphanText,     \* the texts they may have
    MaxAttempts,    \* bitrixCommentMaxSendAttempts
    CallAttempts,   \* bitrixMaxAttempts: tries of one API call
    Margin,         \* bitrixCommentWatermarkMargin
    Skew,           \* comments Bitrix24 may create within bitrixCommentCreatedSkew
    Timely,         \* TRUE: an attempt with all its tries ends within the grace period
    MaxForeign,     \* bound: comments other people write in Bitrix24
    MaxFaults       \* bound: errors and restarts

Worker == Sender \cup {Reconciler}

ASSUME SetsAssumption ==
    /\ NoComment \notin Comment
    /\ NoText \notin Text
    /\ Reconciler \notin Sender
    /\ TextsOf \in [Comment -> SUBSET Text]
    /\ HasFiles \subseteq Comment
    /\ OrphanText \subseteq Text

ASSUME NumbersAssumption ==
    /\ MaxAttempts \in Nat \ {0}
    /\ CallAttempts \in Nat \ {0}
    /\ {Orphans, Margin, Skew, MaxForeign, MaxFaults} \subseteq Nat
    /\ Timely \in BOOLEAN

VARIABLES
    send,      \* comment_send_state, by comment
    link,      \* comment_link of direction etalon_to_b24: its b24_comment_id or 0
    foreign,   \* b24_comment_id of the rows of comment_link imported from Bitrix24
    imported,  \* Bitrix24 comments that have a row of their own in the ticket
    local,     \* who wrote the text and author of a comment row last
    timeline,  \* the timeline of the deal, at Bitrix24
    styled,    \* Bitrix24 comments whose image preview is in place
    wire,      \* per worker, a request to add a comment Bitrix24 has yet to run
    pc, job,   \* per worker, its next step and its local variables
    found,     \* matching comments the reconciler has listed and not tried yet
    hpc, hjob, \* per webhook consumer, the same
    faults     \* errors and restarts so far

database == <<send, link, foreign, imported, local>>
bitrix   == <<timeline, styled, wire>>
workers  == <<pc, job, found>>
handlers == <<hpc, hjob>>
vars     == <<database, bitrix, workers, handlers, faults>>

-----------------------------------------------------------------------------
(* Types.                                                                  *)

Open   == {"sending", "ambiguous"}
Status == {"none", "rejected", "confirmed"} \cup Open

SendState == [status: Status, attempts: 0..MaxAttempts, fp: Text \cup {NoText},
              b24: Nat, wm: Nat, born: Nat, fin: BOOLEAN]

Entry   == [src: Comment \cup {NoComment}, txt: Text, mine: BOOLEAN]
Request == [cm: Comment \cup {NoComment}, txt: Text \cup {NoText}]

Job  == [cm: Comment \cup {NoComment}, txt: Text \cup {NoText},
         id: Nat, wm: Nat, tries: 0..CallAttempts]
HJob == [id: Nat, txt: Text \cup {NoText}, cm: Comment \cup {NoComment}]

NoJob     == [cm |-> NoComment, txt |-> NoText, id |-> 0, wm |-> 0, tries |-> 0]
NoHJob    == [id |-> 0, txt |-> NoText, cm |-> NoComment]
NoRequest == [cm |-> NoComment, txt |-> NoText]
NoSend    == [status |-> "none", attempts |-> 0, fp |-> NoText,
              b24 |-> 0, wm |-> 0, born |-> 0, fin |-> FALSE]

\* An attempt is under way: the claim is ours and its result is not stored yet.
AttemptPhase == {"post", "wait", "refused", "unknown", "confirm"}

SyncPhase  == {"link", "watermark", "claim", "preview", "refresh", "rewrite", "repreview"}
                  \cup AttemptPhase
RecPhase   == {"demote", "list", "try", "adopt", "absent", "resend",
               "finalize", "clear"}
Phase      == {"idle"} \cup SyncPhase \cup RecPhase

HPhase == {"idle", "link", "list", "adopt", "import", "reserve", "add"}

DatabaseTypeOK ==
    /\ send \in [Comment -> SendState]
    /\ link \in [Comment -> Nat]
    /\ foreign \subseteq Nat
    /\ imported \subseteq Nat
    /\ local \in [Comment -> {"own", "bitrix"}]

BitrixTypeOK ==
    /\ timeline \in Seq(Entry)
    /\ styled \subseteq Nat
    /\ wire \in [Worker -> Request]

WorkersTypeOK ==
    /\ pc \in [Worker -> Phase]
    /\ \A w \in Sender : pc[w] \notin RecPhase
    /\ job \in [Worker -> Job]
    /\ found \subseteq Nat

HandlersTypeOK ==
    /\ hpc \in [Handler -> HPhase]
    /\ hjob \in [Handler -> HJob]

TypeOK ==
    /\ DatabaseTypeOK
    /\ BitrixTypeOK
    /\ WorkersTypeOK
    /\ HandlersTypeOK
    /\ faults \in 0..MaxFaults

-----------------------------------------------------------------------------
(* Helpers.                                                                *)

Linked == {link[c] : c \in Comment} \ {0}

LinkedIds == Linked \cup foreign

\* Mutant of MatchesSend: the time of creation is not compared.
MatchesSendAnyAge(c, fp, id, txt) ==
    /\ timeline[id].mine
    /\ id > send[c].wm - Margin
    /\ txt = fp

\* Mutant of MatchesSend: the margin is added to the watermark.
MatchesSendMarginAdded(c, fp, id, txt) ==
    /\ timeline[id].mine
    /\ id > send[c].wm + Margin
    /\ id > send[c].born - Skew
    /\ txt = fp

\* Mutant of MatchesSend: the author is not compared.
MatchesSendAnyAuthor(c, fp, id, txt) ==
    /\ id > send[c].wm - Margin
    /\ id > send[c].born - Skew
    /\ txt = fp

\* The comment of Bitrix24 is the version of comment c that the journal waits for:
\* same text and account, above the watermark, not created before the first claim.
MatchesSend(c, fp, id, txt) ==
    /\ timeline[id].mine
    /\ id > send[c].wm - Margin
    /\ id > send[c].born - Skew
    /\ txt = fp

\* No call to Bitrix24 that may add a copy of c is under way on our side.
Settled(c) == \A w \in Worker : pc[w] \in AttemptPhase => job[w].cm # c

\* Bitrix24 has run every request to add c, or will never run it.
Quiet(c) == \A w \in Worker : wire[w].cm # c

\* Mutant of Transition: the UPDATE is not conditional.
TransitionAlways(c, from, to) ==
    send' = [send EXCEPT ![c].status = to]

\* Status updates are conditional UPDATEs.
Transition(c, from, to) ==
    send' = IF send[c].status \in from
            THEN [send EXCEPT ![c].status = to]
            ELSE send

\* Mutant of ConfirmFails: b24_comment_id is not unique.
ConfirmFailsNever(c, id) == FALSE

\* ConfirmCommentSend: the transaction fails when another comment holds the link
\* to id, changes nothing when the send is confirmed already, else stores both.
ConfirmFails(c, id) ==
    /\ send[c].status # "confirmed"
    /\ \/ id \in foreign
       \/ \E d \in Comment \ {c} : link[d] = id

ConfirmRefused(c, id) == send[c].status = "confirmed" /\ send[c].b24 # id

ConfirmStands(c, id) == send[c].status = "confirmed" /\ send[c].b24 = id

ConfirmStores(c, id, pending) ==
    /\ send[c].status # "confirmed"
    /\ ~ConfirmFails(c, id)
    /\ send' = [send EXCEPT ![c].status = "confirmed",
                            ![c].b24 = id,
                            ![c].fin = pending]
    /\ link' = [link EXCEPT ![c] = id]

SetPc(w, p)      == pc' = [pc EXCEPT ![w] = p]
Finish(w)        == SetPc(w, "idle") /\ job' = [job EXCEPT ![w] = NoJob]
HSetPc(h, p)     == hpc' = [hpc EXCEPT ![h] = p]
HFinish(h)       == HSetPc(h, "idle") /\ hjob' = [hjob EXCEPT ![h] = NoHJob]

-----------------------------------------------------------------------------
(* Sending: SyncComment, syncPendingComments and sendNewComment.           *)

\* A comment event, the ticket sync or a redelivered event asks for the comment.
\* The event carries the text it was published with, and the ticket sync builds
\* the text without the author's mention, so any version may be the one sent.
BeginSync(w, c) ==
    /\ pc[w] = "idle"
    /\ \E t \in TextsOf[c] : job' = [job EXCEPT ![w].cm = c, ![w].txt = t]
    /\ SetPc(w, "link")
    /\ UNCHANGED <<database, bitrix, found, handlers, faults>>

\* GetCommentLinkByEtalonID found nothing: a new comment.
LinkMissing(w) ==
    /\ pc[w] = "link"
    /\ link[job[w].cm] = 0
    /\ SetPc(w, "watermark")
    /\ UNCHANGED <<database, bitrix, job, found, handlers, faults>>

\* syncPendingComments skips a linked comment.
LinkedSkip(w) ==
    /\ pc[w] = "link"
    /\ link[job[w].cm] # 0
    /\ Finish(w)
    /\ UNCHANGED <<database, bitrix, found, handlers, faults>>

\* SyncComment updates a linked comment.
LinkedUpdate(w) ==
    /\ pc[w] = "link"
    /\ link[job[w].cm] # 0
    /\ SetPc(w, "refresh")
    /\ job' = [job EXCEPT ![w].id = link[job[w].cm]]
    /\ UNCHANGED <<database, bitrix, found, handlers, faults>>

\* MaxCommentLinkB24ID.
ReadWatermark(w) ==
    /\ pc[w] = "watermark"
    /\ \E m \in LinkedIds \cup {0} :
          /\ \A i \in LinkedIds : i <= m
          /\ job' = [job EXCEPT ![w].wm = m]
    /\ SetPc(w, "claim")
    /\ UNCHANGED <<database, bitrix, found, handlers, faults>>

\* ClaimCommentSend inserts the row ...
ClaimNew(w) ==
    LET c == job[w].cm IN
    /\ pc[w] = "claim"
    /\ send[c].status = "none"
    /\ send' = [send EXCEPT ![c] = [status |-> "sending", attempts |-> 1,
                                    fp |-> job[w].txt, b24 |-> 0, wm |-> job[w].wm,
                                    born |-> Len(timeline), fin |-> FALSE]]
    /\ SetPc(w, "post")
    /\ UNCHANGED <<link, foreign, imported, local, bitrix, job, found, handlers, faults>>

\* Mutant of ClaimRejected: the attempts are not limited.
ClaimRejectedForever(w) ==
    LET c == job[w].cm IN
    /\ pc[w] = "claim"
    /\ send[c].status = "rejected"
    /\ send' = [send EXCEPT ![c].status = "sending",
                            ![c].attempts = @ + 1,
                            ![c].fp = job[w].txt]
    /\ SetPc(w, "post")
    /\ UNCHANGED <<link, foreign, imported, local, bitrix, job, found, handlers, faults>>

\* Mutant of ClaimRejected: the fingerprint of the first attempt is kept.
ClaimRejectedOldText(w) ==
    LET c == job[w].cm IN
    /\ pc[w] = "claim"
    /\ send[c].status = "rejected"
    /\ send[c].attempts < MaxAttempts
    /\ send' = [send EXCEPT ![c].status = "sending", ![c].attempts = @ + 1]
    /\ SetPc(w, "post")
    /\ UNCHANGED <<link, foreign, imported, local, bitrix, job, found, handlers, faults>>

\* ... or takes a rejected one over, while attempts are left.
ClaimRejected(w) ==
    LET c == job[w].cm IN
    /\ pc[w] = "claim"
    /\ send[c].status = "rejected"
    /\ send[c].attempts < MaxAttempts
    /\ send' = [send EXCEPT ![c].status = "sending",
                            ![c].attempts = @ + 1,
                            ![c].fp = job[w].txt]
    /\ SetPc(w, "post")
    /\ UNCHANGED <<link, foreign, imported, local, bitrix, job, found, handlers, faults>>

\* explainUnclaimedCommentSend: someone else sends it, has sent it, or gave up.
ClaimDenied(w) ==
    LET s == send[job[w].cm] IN
    /\ pc[w] = "claim"
    /\ \/ s.status \in Open \cup {"confirmed"}
       \/ s.status = "rejected" /\ s.attempts = MaxAttempts
    /\ Finish(w)
    /\ UNCHANGED <<database, bitrix, found, handlers, faults>>

\* One try of the API call puts the request on the wire.
Post(w) ==
    /\ pc[w] = "post"
    /\ wire[w] = NoRequest
    /\ job[w].tries < CallAttempts
    /\ wire' = [wire EXCEPT ![w] = [cm |-> job[w].cm, txt |-> job[w].txt]]
    /\ job' = [job EXCEPT ![w].tries = @ + 1]
    /\ SetPc(w, "wait")
    /\ UNCHANGED <<database, timeline, styled, found, handlers, faults>>

\* The call ends and the request certainly did not run: no connection, the limit
\* of calls, or an error answer of Bitrix24.
PostRefused(w) ==
    /\ pc[w] = "post"
    /\ SetPc(w, "refused")
    /\ UNCHANGED <<database, bitrix, job, found, handlers, faults>>

\* Dial error, 429, 503 or QUERY_LIMIT_EXCEEDED: the request did not run, and
\* the call tries again.
CallRetry(w) ==
    /\ pc[w] = "wait"
    /\ wire[w] = NoRequest
    /\ job[w].id = 0
    /\ SetPc(w, "post")
    /\ UNCHANGED <<database, bitrix, job, found, handlers, faults>>

\* The identifier of the new comment arrives.
AnswerOk(w) ==
    /\ pc[w] = "wait"
    /\ job[w].id # 0
    /\ SetPc(w, "confirm")
    /\ UNCHANGED <<database, bitrix, job, found, handlers, faults>>

\* ErrResultUnknown: timeout, broken connection or a 5xx answer, whether the
\* request has run, will run or is lost.
AnswerUnknown(w) ==
    /\ pc[w] = "wait"
    /\ SetPc(w, "unknown")
    /\ UNCHANGED <<database, bitrix, job, found, handlers, faults>>

\* MarkCommentSendRejected.
SettleRefused(w) ==
    /\ pc[w] = "refused"
    /\ Transition(job[w].cm, {"sending"}, "rejected")
    /\ Finish(w)
    /\ UNCHANGED <<link, foreign, imported, local, bitrix, found, handlers, faults>>

\* Mutant of SettleUnknown: an unknown result counts as a refusal.
SettleUnknownAsRefused(w) ==
    /\ pc[w] = "unknown"
    /\ Transition(job[w].cm, {"sending"}, "rejected")
    /\ Finish(w)
    /\ UNCHANGED <<link, foreign, imported, local, bitrix, found, handlers, faults>>

\* MarkCommentSendAmbiguous.
SettleUnknown(w) ==
    /\ pc[w] = "unknown"
    /\ Transition(job[w].cm, {"sending"}, "ambiguous")
    /\ Finish(w)
    /\ UNCHANGED <<link, foreign, imported, local, bitrix, found, handlers, faults>>

\* ConfirmCommentSend with the identifier Bitrix24 answered, preview still to do.
SettleConfirmed(w) ==
    LET c == job[w].cm  id == job[w].id IN
    /\ pc[w] = "confirm"
    /\ \/ /\ ConfirmStores(c, id, FALSE)
          /\ SetPc(w, "preview")
          /\ UNCHANGED job
       \/ /\ ConfirmStands(c, id)
          /\ SetPc(w, "preview")
          /\ UNCHANGED <<send, link, job>>
       \/ /\ ConfirmRefused(c, id) \/ ConfirmFails(c, id)
          /\ Finish(w)
          /\ UNCHANGED <<send, link>>
    /\ UNCHANGED <<foreign, imported, local, bitrix, found, handlers, faults>>

\* applyImagePreview rewrites the Bitrix24 comment from the message it was built of.
Style(id, c, t) ==
    IF c \in HasFiles
    THEN /\ timeline' = [timeline EXCEPT ![id].txt = t]
         /\ styled' = styled \cup {id}
    ELSE UNCHANGED <<timeline, styled>>

Preview(w) ==
    /\ pc[w] = "preview"
    /\ Style(job[w].id, job[w].cm, job[w].txt)
    /\ Finish(w)
    /\ UNCHANGED <<database, wire, found, handlers, faults>>

\* Mutant of PreviewDeferred: finalize_pending is not set.
PreviewForgotten(w) ==
    /\ pc[w] = "preview"
    /\ job[w].cm \in HasFiles
    /\ Finish(w)
    /\ UNCHANGED <<database, bitrix, found, handlers, faults>>

\* The preview failed: the reconciliation will finish it.
PreviewDeferred(w) ==
    /\ pc[w] = "preview"
    /\ job[w].cm \in HasFiles
    /\ send' = [send EXCEPT ![job[w].cm].fin = TRUE]
    /\ Finish(w)
    /\ UNCHANGED <<link, foreign, imported, local, bitrix, found, handlers, faults>>

\* A linked comment: UpdateCommentSendFingerprint comes before the call, ...
Refresh(w) ==
    /\ pc[w] = "refresh"
    /\ send' = [send EXCEPT ![job[w].cm].fp = job[w].txt]
    /\ SetPc(w, "rewrite")
    /\ UNCHANGED <<link, foreign, imported, local, bitrix, job, found, handlers, faults>>

\* ... then TimelineCommentUpdateWithFiles ...
Rewrite(w) ==
    /\ pc[w] = "rewrite"
    /\ timeline' = [timeline EXCEPT ![job[w].id].txt = job[w].txt]
    /\ styled' = styled \ {job[w].id}
    /\ SetPc(w, "repreview")
    /\ UNCHANGED <<database, wire, job, found, handlers, faults>>

\* ... and applyImagePreview.
Repreview(w) ==
    /\ pc[w] = "repreview"
    /\ Style(job[w].id, job[w].cm, job[w].txt)
    /\ Finish(w)
    /\ UNCHANGED <<database, wire, found, handlers, faults>>

SenderStep(w) ==
    \/ LinkMissing(w) \/ LinkedSkip(w) \/ LinkedUpdate(w) \/ ReadWatermark(w)
    \/ ClaimNew(w) \/ ClaimRejected(w) \/ ClaimDenied(w)
    \/ Post(w) \/ PostRefused(w) \/ CallRetry(w)
    \/ AnswerOk(w) \/ AnswerUnknown(w)
    \/ SettleRefused(w) \/ SettleUnknown(w) \/ SettleConfirmed(w)
    \/ Preview(w) \/ PreviewDeferred(w)
    \/ Refresh(w) \/ Rewrite(w) \/ Repreview(w)

-----------------------------------------------------------------------------
(* The background reconciliation: ReconcileCommentSends.                   *)

\* Mutant of ReconcilePick: the grace period is not waited for.
ReconcilePickAtOnce(c) ==
    LET r == Reconciler IN
    /\ pc[r] = "idle"
    /\ send[c].status \in Open
    /\ job' = [job EXCEPT ![r].cm = c, ![r].txt = send[c].fp]
    /\ SetPc(r, IF send[c].status = "sending" THEN "demote" ELSE "list")
    /\ UNCHANGED <<database, bitrix, found, handlers, faults>>

\* Mutant of ReconcilePick: sends that were left in "sending" are not listed.
ReconcilePickAmbiguous(c) ==
    LET r == Reconciler IN
    /\ pc[r] = "idle"
    /\ send[c].status = "ambiguous"
    /\ Quiet(c)
    /\ Timely => Settled(c)
    /\ job' = [job EXCEPT ![r].cm = c, ![r].txt = send[c].fp]
    /\ SetPc(r, "list")
    /\ UNCHANGED <<database, bitrix, found, handlers, faults>>

\* ListCommentSendsForReconcile returned the send: its last attempt began more
\* than the grace period ago, longer than Bitrix24 works on one request
\* (BITRIX_WRITE_TIMEOUT_SEC).  With Timely, all tries of the call are over.
ReconcilePick(c) ==
    LET r == Reconciler IN
    /\ pc[r] = "idle"
    /\ send[c].status \in Open
    /\ Quiet(c)
    /\ Timely => Settled(c)
    /\ job' = [job EXCEPT ![r].cm = c, ![r].txt = send[c].fp]
    /\ SetPc(r, IF send[c].status = "sending" THEN "demote" ELSE "list")
    /\ UNCHANGED <<database, bitrix, found, handlers, faults>>

\* MarkCommentSendNeedsReconcile; if the send has moved on there is nothing to do.
ReconcileDemote ==
    LET r == Reconciler  c == job[r].cm IN
    /\ pc[r] = "demote"
    /\ Transition(c, {"sending"}, "ambiguous")
    /\ IF send[c].status = "sending"
       THEN SetPc(r, "list") /\ UNCHANGED job
       ELSE Finish(r)
    /\ UNCHANGED <<link, foreign, imported, local, bitrix, found, handlers, faults>>

\* TimelineCommentListSince, reduced to the comments that match the send.
ReconcileList ==
    LET r == Reconciler  c == job[r].cm IN
    /\ pc[r] = "list"
    /\ found' = {id \in DOMAIN timeline : MatchesSend(c, job[r].txt, id, timeline[id].txt)}
    /\ SetPc(r, "try")
    /\ UNCHANGED <<database, bitrix, job, handlers, faults>>

\* The earliest match that no row of comment_link holds will be adopted.
ReconcileTry ==
    LET r == Reconciler IN
    /\ pc[r] = "try"
    /\ \E id \in found :
          /\ \A other \in found : id <= other
          /\ IF id \in LinkedIds
             THEN found' = found \ {id} /\ UNCHANGED <<pc, job>>
             ELSE /\ found' = {}
                  /\ job' = [job EXCEPT ![r].id = id]
                  /\ SetPc(r, "adopt")
    /\ UNCHANGED <<database, bitrix, handlers, faults>>

\* adoptSentComment.
ReconcileAdopt ==
    LET r == Reconciler  c == job[r].cm  id == job[r].id IN
    /\ pc[r] = "adopt"
    /\ \/ /\ ConfirmStores(c, id, TRUE)
          /\ SetPc(r, "finalize")
          /\ UNCHANGED job
       \/ /\ ConfirmStands(c, id)
          /\ SetPc(r, "finalize")
          /\ UNCHANGED <<send, link, job>>
       \/ /\ ConfirmRefused(c, id) \/ ConfirmFails(c, id)
          /\ Finish(r)
          /\ UNCHANGED <<send, link>>
    /\ UNCHANGED <<foreign, imported, local, bitrix, found, handlers, faults>>

ReconcileNothingFound ==
    /\ pc[Reconciler] = "try"
    /\ found = {}
    /\ SetPc(Reconciler, "absent")
    /\ UNCHANGED <<database, bitrix, job, found, handlers, faults>>

\* ResolveCommentSendAbsent.
ReconcileAbsent ==
    LET r == Reconciler  c == job[r].cm IN
    /\ pc[r] = "absent"
    /\ Transition(c, Open, "rejected")
    /\ IF send[c].status \in Open
       THEN SetPc(r, "resend") /\ UNCHANGED job
       ELSE Finish(r)
    /\ UNCHANGED <<link, foreign, imported, local, bitrix, found, handlers, faults>>

\* resendRejectedComment calls SyncComment with the comment as it is now.
ReconcileResend ==
    LET r == Reconciler  c == job[r].cm IN
    /\ pc[r] = "resend"
    /\ \E t \in TextsOf[c] : job' = [job EXCEPT ![r] = [NoJob EXCEPT !.cm = c, !.txt = t]]
    /\ SetPc(r, "link")
    /\ UNCHANGED <<database, bitrix, found, handlers, faults>>

\* The same list returns confirmed sends whose preview is pending.
FinalizePick(c) ==
    LET r == Reconciler IN
    /\ pc[r] = "idle"
    /\ send[c].status = "confirmed"
    /\ send[c].fin
    /\ job' = [job EXCEPT ![r].cm = c]
    /\ SetPc(r, "finalize")
    /\ UNCHANGED <<database, bitrix, found, handlers, faults>>

\* finalizeConfirmedComment reads the send again, builds the text and styles it.
Finalize ==
    LET r == Reconciler  c == job[r].cm IN
    /\ pc[r] = "finalize"
    /\ IF send[c].status = "confirmed" /\ send[c].fin
       THEN /\ \E t \in TextsOf[c] : Style(send[c].b24, c, t)
            /\ SetPc(r, "clear")
            /\ UNCHANGED job
       ELSE /\ Finish(r)
            /\ UNCHANGED <<timeline, styled>>
    /\ UNCHANGED <<database, wire, found, handlers, faults>>

FinalizeClear ==
    LET r == Reconciler IN
    /\ pc[r] = "clear"
    /\ send' = [send EXCEPT ![job[r].cm].fin = FALSE]
    /\ Finish(r)
    /\ UNCHANGED <<link, foreign, imported, local, bitrix, found, handlers, faults>>

ReconcilerStep ==
    \/ ReconcileDemote \/ ReconcileList \/ ReconcileTry \/ ReconcileAdopt
    \/ ReconcileNothingFound \/ ReconcileAbsent \/ ReconcileResend
    \/ Finalize \/ FinalizeClear

-----------------------------------------------------------------------------
(* The webhook ONCRMTIMELINECOMMENTADD: handleTimelineCommentAdd.          *)

\* Any comment of the timeline may be announced, late and more than once.  The
\* anti-loop key lives for BITRIX_SUPPRESS_TTL_SEC at most and Redis may be down,
\* so it may always be missing: an event it suppresses changes nothing.
\* commentLocks lets one handler at a time work on an identifier.
WebhookBegin(h, id) ==
    /\ hpc[h] = "idle"
    /\ \A g \in Handler : hjob[g].id # id
    /\ HSetPc(h, "link")
    /\ hjob' = [hjob EXCEPT ![h].id = id, ![h].txt = timeline[id].txt]
    /\ UNCHANGED <<database, bitrix, workers, faults>>

\* GetCommentLinkByB24ID: an own comment needs nothing.
WebhookOwn(h) ==
    /\ hpc[h] = "link"
    /\ hjob[h].id \in Linked
    /\ HFinish(h)
    /\ UNCHANGED <<database, bitrix, workers, faults>>

\* An imported comment is updated, a new one may be the answer to a pending send.
WebhookForeign(h) ==
    /\ hpc[h] = "link"
    /\ hjob[h].id \in foreign
    /\ HSetPc(h, "import")
    /\ UNCHANGED <<database, bitrix, workers, hjob, faults>>

WebhookUnlinked(h) ==
    /\ hpc[h] = "link"
    /\ hjob[h].id \notin LinkedIds
    /\ HSetPc(h, "list")
    /\ UNCHANGED <<database, bitrix, workers, hjob, faults>>

\* Mutant of Awaiting: sends whose answer was lost are forgotten.
AwaitingSending(h) ==
    {c \in Comment : /\ send[c].status = "sending"
                     /\ MatchesSend(c, send[c].fp, hjob[h].id, hjob[h].txt)}

\* The pending sends the announced comment may belong to (adoptOutgoingComment).
Awaiting(h) ==
    {c \in Comment : /\ send[c].status \in Open
                     /\ MatchesSend(c, send[c].fp, hjob[h].id, hjob[h].txt)}

\* ListOpenCommentSendsByTicket; the order of last_attempt_at is left open.
WebhookMatch(h) ==
    /\ hpc[h] = "list"
    /\ \E c \in Awaiting(h) : hjob' = [hjob EXCEPT ![h].cm = c]
    /\ HSetPc(h, "adopt")
    /\ UNCHANGED <<database, bitrix, workers, faults>>

WebhookNoMatch(h) ==
    /\ hpc[h] = "list"
    /\ Awaiting(h) = {}
    /\ HSetPc(h, "import")
    /\ UNCHANGED <<database, bitrix, workers, hjob, faults>>

WebhookAdopt(h) ==
    LET c == hjob[h].cm  id == hjob[h].id IN
    /\ hpc[h] = "adopt"
    /\ \/ /\ ConfirmStores(c, id, TRUE)
          /\ HFinish(h)
       \/ /\ ConfirmStands(c, id) \/ ConfirmFails(c, id)
          /\ HFinish(h)
          /\ UNCHANGED <<send, link>>
       \/ /\ ConfirmRefused(c, id)
          /\ HSetPc(h, "import")
          /\ UNCHANGED <<send, link, hjob>>
    /\ UNCHANGED <<foreign, imported, local, bitrix, workers, faults>>

\* addOrUpdateCommentFromBitrix reads the link again.  A linked comment takes the
\* text and author of Bitrix24, ...
ImportUpdate(h) ==
    /\ hpc[h] = "import"
    /\ hjob[h].id \in LinkedIds
    /\ local' = [c \in Comment |-> IF link[c] = hjob[h].id THEN "bitrix" ELSE local[c]]
    /\ HFinish(h)
    /\ UNCHANGED <<send, link, foreign, imported, bitrix, workers, faults>>

ImportNew(h) ==
    /\ hpc[h] = "import"
    /\ hjob[h].id \notin LinkedIds
    /\ HSetPc(h, "reserve")
    /\ UNCHANGED <<database, bitrix, workers, hjob, faults>>

\* Mutant of ImportReserve: the handler takes its own reservation for another's.
ImportReserveOnly(h) ==
    /\ hpc[h] = "reserve"
    /\ foreign' = foreign \cup ({hjob[h].id} \ LinkedIds)
    /\ HFinish(h)
    /\ UNCHANGED <<send, link, imported, local, bitrix, workers, faults>>

\* ... for a new one InsertCommentLinkIfAbsent comes first, ...
ImportReserve(h) ==
    /\ hpc[h] = "reserve"
    /\ IF hjob[h].id \in LinkedIds
       THEN HFinish(h) /\ UNCHANGED foreign
       ELSE /\ foreign' = foreign \cup {hjob[h].id}
            /\ HSetPc(h, "add")
            /\ UNCHANGED hjob
    /\ UNCHANGED <<send, link, imported, local, bitrix, workers, faults>>

\* ... then AddComments, ...
ImportAdd(h) ==
    /\ hpc[h] = "add"
    /\ imported' = imported \cup {hjob[h].id}
    /\ HFinish(h)
    /\ UNCHANGED <<send, link, foreign, local, bitrix, workers, faults>>

\* ... and the reservation is dropped if that fails.
ImportUndone(h) ==
    /\ hpc[h] = "add"
    /\ faults < MaxFaults
    /\ faults' = faults + 1
    /\ foreign' = foreign \ {hjob[h].id}
    /\ HFinish(h)
    /\ UNCHANGED <<send, link, imported, local, bitrix, workers>>

HandlerStep(h) ==
    \/ WebhookOwn(h) \/ WebhookForeign(h) \/ WebhookUnlinked(h)
    \/ WebhookMatch(h) \/ WebhookNoMatch(h) \/ WebhookAdopt(h)
    \/ ImportUpdate(h) \/ ImportNew(h) \/ ImportReserve(h)
    \/ ImportAdd(h) \/ ImportUndone(h)

-----------------------------------------------------------------------------
(* Bitrix24, its users, and failures.                                      *)

\* Bitrix24 runs a request; the answer reaches the worker if it still waits.
BitrixAdds(w) ==
    /\ wire[w] # NoRequest
    /\ timeline' = Append(timeline, [src |-> wire[w].cm, txt |-> wire[w].txt, mine |-> TRUE])
    /\ wire' = [wire EXCEPT ![w] = NoRequest]
    /\ job' = IF pc[w] = "wait" THEN [job EXCEPT ![w].id = Len(timeline) + 1] ELSE job
    /\ UNCHANGED <<database, styled, pc, found, handlers, faults>>

\* A request is lost or answered with an error.
BitrixDrops(w) ==
    /\ wire[w] # NoRequest
    /\ wire' = [wire EXCEPT ![w] = NoRequest]
    /\ UNCHANGED <<database, timeline, styled, workers, handlers, faults>>

\* Somebody else comments on the deal.
ForeignComment ==
    /\ Cardinality({i \in DOMAIN timeline : ~timeline[i].mine}) < MaxForeign
    /\ \E t \in Text : timeline' = Append(timeline, [src |-> NoComment, txt |-> t, mine |-> FALSE])
    /\ UNCHANGED <<database, styled, wire, workers, handlers, faults>>

\* A step of a worker or of a handler fails, and the rest of its work is skipped.
Abandon(w) ==
    /\ pc[w] # "idle"
    /\ faults < MaxFaults
    /\ faults' = faults + 1
    /\ Finish(w)
    /\ found' = IF w = Reconciler THEN {} ELSE found
    /\ UNCHANGED <<database, bitrix, handlers>>

HAbandon(h) ==
    /\ hpc[h] # "idle"
    /\ faults < MaxFaults
    /\ faults' = faults + 1
    /\ HFinish(h)
    /\ UNCHANGED <<database, bitrix, workers>>

\* The server restarts: goroutines are gone, tables and requests on the wire stay.
Restart ==
    /\ faults < MaxFaults
    /\ faults' = faults + 1
    /\ pc' = [w \in Worker |-> "idle"]
    /\ job' = [w \in Worker |-> NoJob]
    /\ found' = {}
    /\ hpc' = [h \in Handler |-> "idle"]
    /\ hjob' = [h \in Handler |-> NoHJob]
    /\ UNCHANGED <<database, bitrix>>

-----------------------------------------------------------------------------
(* The system.                                                             *)

Init ==
    /\ send = [c \in Comment |-> NoSend]
    /\ link = [c \in Comment |-> 0]
    /\ foreign = {}
    /\ imported = {}
    /\ local = [c \in Comment |-> "own"]
    /\ timeline \in [1..Orphans -> [src: {NoComment}, txt: OrphanText, mine: {TRUE}]]
    /\ styled = {}
    /\ wire = [w \in Worker |-> NoRequest]
    /\ pc = [w \in Worker |-> "idle"]
    /\ job = [w \in Worker |-> NoJob]
    /\ found = {}
    /\ hpc = [h \in Handler |-> "idle"]
    /\ hjob = [h \in Handler |-> NoHJob]
    /\ faults = 0

Next ==
    \/ \E w \in Sender, c \in Comment : BeginSync(w, c)
    \/ \E w \in Worker : SenderStep(w) \/ BitrixAdds(w) \/ BitrixDrops(w) \/ Abandon(w)
    \/ \E c \in Comment : ReconcilePick(c) \/ FinalizePick(c)
    \/ ReconcilerStep
    \/ \E h \in Handler : HandlerStep(h) \/ HAbandon(h)
    \/ \E h \in Handler : \E id \in DOMAIN timeline : WebhookBegin(h, id)
    \/ ForeignComment
    \/ Restart

Spec == Init /\ [][Next]_vars

\* Goroutines run on, API calls end, Bitrix24 runs or loses a request, and every
\* pass of the reconciliation takes up to 20 of the sends that are due, so none is
\* passed over for ever.  Nobody has to write, to announce or to fail.
Fairness ==
    /\ \A w \in Worker : /\ WF_vars(SenderStep(w))
                         /\ WF_vars(BitrixAdds(w) \/ BitrixDrops(w))
    /\ WF_vars(ReconcilerStep)
    /\ \A c \in Comment : SF_vars(ReconcilePick(c)) /\ SF_vars(FinalizePick(c))
    /\ \A h \in Handler : WF_vars(HandlerStep(h))

FairSpec == Spec /\ Fairness

-----------------------------------------------------------------------------
(* Safety.                                                                 *)

OwnCopies(c) == {i \in DOMAIN timeline : timeline[i].src = c}

\* However events, ticket syncs, retries and reconciliation interleave, a comment
\* of the ticket appears in the timeline of the deal at most once.
AtMostOneCopy == \A c \in Comment : Cardinality(OwnCopies(c)) <= 1

\* A comment that this server wrote to Bitrix24 never comes back into the ticket as
\* somebody else's: no webhook reserves or imports it.
OwnNeverImported ==
    \A i \in foreign \cup imported : timeline[i].src = NoComment

\* comment_link and comment_send_state are two tables written by several
\* transactions; they agree on which sends are confirmed, and with what.
JournalMatchesLink ==
    \A c \in Comment :
        /\ send[c].status = "confirmed" => link[c] # 0 /\ send[c].b24 = link[c]
        /\ send[c].status # "confirmed" => link[c] = 0

\* No Bitrix24 comment is taken for two comments of the ticket, or for one of the
\* ticket and one of somebody else, even when their texts are the same.
LinksApart ==
    /\ \A c, d \in Comment : c # d /\ link[c] # 0 => link[c] # link[d]
    /\ Linked \cap foreign = {}

\* Comments with the same text may be taken for each other, but the timeline never
\* holds more comments of this server than the ticket has sent.
NoSurplusCopies ==
    Cardinality({i \in DOMAIN timeline : timeline[i].src # NoComment})
        <= Cardinality({c \in Comment : send[c].status # "none"})

\* A new attempt is claimed only when no earlier one has left a copy at Bitrix24 and
\* none can leave one later.
RetryOnlyWhenAbsent ==
    [][\A c \in Comment :
          send'[c].attempts > send[c].attempts =>
              /\ OwnCopies(c) = {}
              /\ Quiet(c)]_vars

\* A webhook that announces the copy of an own comment never overwrites the text and
\* author of that comment: "the comment was created by ServiceDesk itself".
NotOverwritten == \A c \in Comment : local[c] = "own"

-----------------------------------------------------------------------------
(* Why the journal and the links agree: the local variables of goroutines, *)
(* and the requests on the wire, make sense at every step.                 *)

WireOK ==
    \A w \in Worker :
        wire[w] # NoRequest => wire[w].cm \in Comment /\ wire[w].txt \in Text

JobsOK ==
    /\ \A w \in Worker :
        /\ pc[w] # "idle" => job[w].cm \in Comment
        /\ pc[w] \in SyncPhase => job[w].txt \in Text
        /\ pc[w] \in {"confirm", "adopt"} => job[w].id # 0
    /\ 0 \notin found

HooksOK ==
    \A h \in Handler :
        /\ hpc[h] # "idle" => hjob[h].id # 0
        /\ hpc[h] = "adopt" => hjob[h].cm \in Comment

Consistent == TypeOK /\ WireOK /\ JobsOK /\ HooksOK /\ JournalMatchesLink /\ LinksApart

-----------------------------------------------------------------------------
(* The promise to the user.                                                *)

\* "broken" is no stage of CommentDelivery, so no behaviour of it gets there.
Stage(c) ==
    LET copies == OwnCopies(c) IN
    CASE copies = {} /\ link[c] = 0        -> "unsent"
      [] copies # {} /\ link[c] = 0
           /\ Cardinality(copies) = 1      -> "delivered"
      [] copies # {} /\ copies = {link[c]} -> "linked"
      [] OTHER                             -> "broken"

Delivery == INSTANCE CommentDelivery WITH stage <- [c \in Comment |-> Stage(c)]

\* The journal implements CommentDelivery: one copy, then the link to that very
\* copy and not to an older comment with the same text, for ever.
ImplementsDelivery == Delivery!Spec

-----------------------------------------------------------------------------
(* Liveness.                                                               *)

\* A send whose result is unknown, or was lost in a restart, is decided: it is
\* confirmed, or rejected and thereby free for another attempt.
OpenIsSettled ==
    \A c \in Comment : send[c].status \in Open ~> send[c].status \notin Open

\* A comment that reached Bitrix24 is linked in the end, whether its answer, a
\* webhook or the reconciliation brings the identifier.
DeliveredIsLinked == Delivery!Arrives

\* As long as no step fails, the images of every linked comment get their preview,
\* by the sender or, when that is deferred, by the reconciliation.
PreviewFinishes ==
    \A c \in HasFiles : link[c] # 0 ~> (faults > 0 \/ link[c] \in styled)

\* As long as no step fails, a comment whose link is reserved gets imported.
ReservedIsImported ==
    \A i \in 1..(Orphans + MaxForeign) :
        i \in foreign ~> (faults > 0 \/ i \in imported)

\* README, 8.4: the background reconciliation finishes an unfinished preview.
PreviewSurvivesFailure ==
    \A c \in HasFiles : link[c] # 0 ~> link[c] \in styled

\* README, 8.4: when the absence of the comment is established, the send is repeated.
AbsentIsResent ==
    \A c \in Comment : \A n \in 1..MaxAttempts - 1 :
        (pc[Reconciler] = "resend" /\ job[Reconciler].cm = c /\ send[c].attempts = n)
            ~> send[c].attempts > n
=============================================================================
