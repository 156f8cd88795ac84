----------------------------- MODULE BitrixQueue -----------------------------
(***************************************************************************)
(* The queue of incoming Bitrix24 events: a row per webhook in Postgres, a *)
(* Redis stream that tells workers about rows, and a dispatcher that looks *)
(* for rows nobody was told about or whose handler failed.                 *)
(*                                                                         *)
(* Unlike that of Pyrus, this queue claims nothing: every update of a row  *)
(* is unconditional, and a row may be handled twice, even at the same      *)
(* time.  Its promise is that no event is forgotten before it was handled, *)
(* because a message is acknowledged only afterwards.                      *)
(***************************************************************************)
EXTENDS Integers, EventStream

CONSTANTS
    Claimer,     \* the worker that is claimPendingLoop; it processes what it claims itself
    MaxAttempts, \* BITRIX_INCOMING_MAX_ATTEMPTS
    MaxFaults    \* bound: restarts and failed statements

ASSUME LimitsAssumption ==
    Claimer \in Worker /\ MaxAttempts \in Nat \ {0} /\ MaxFaults \in Nat

VARIABLES
    row,         \* bitrix_incoming_events
    call,        \* the step of HandleWebhook for an event
    todo,        \* what dispatchLoop has listed and not yet enqueued
    marking,     \* the event it is about to mark as queued
    at,          \* the step of a worker
    ev,          \* the event it works on
    result,      \* the outcome of the handler it is about to store
    handled,     \* events whose handler came to an end; no code reads it
    unread,      \* events a worker gave up because it could not read the row
    faults

workerVars == <<at, ev, result>>
vars == <<stream, msg, row, call, todo, marking, at, ev, result, handled, unread, faults>>

Status == {"none", "new", "queued", "processing", "done", "ignored", "failed"}

Outcome == {"done", "ignored", "failed"}

\* The back-off after updated_at is left out: its end may come between any two steps.
TypeOK ==
    /\ StreamOK
    /\ row \in [Event -> [status : Status, attempts : Nat]]
    /\ call \in [Event -> {"idle", "enqueue", "mark"}]
    /\ todo \subseteq Event
    /\ marking \in Event \cup {NoEvent}
    /\ at \in [Worker -> {"idle", "read", "mark", "run", "store", "ack"}]
    /\ ev \in [Worker -> Event \cup {NoEvent}]
    /\ result \in [Worker -> Outcome \cup {"none"}]
    /\ handled \subseteq Event
    /\ unread \subseteq Event
    /\ faults \in 0..MaxFaults

Init ==
    /\ StreamInit
    /\ row = [e \in Event |-> [status |-> "none", attempts |-> 0]]
    /\ call = [e \in Event |-> "idle"]
    /\ todo = {}
    /\ marking = NoEvent
    /\ at = [w \in Worker |-> "idle"]
    /\ ev = [w \in Worker |-> NoEvent]
    /\ result = [w \in Worker |-> "none"]
    /\ handled = {}
    /\ unread = {}
    /\ faults = 0

Fault == faults < MaxFaults /\ faults' = faults + 1

Mark(e, status) == row' = [row EXCEPT ![e].status = status]

-----------------------------------------------------------------------------
(* HandleWebhook.                                                          *)

\* A payload with a known hash inserts nothing.
Receive(e) ==
    /\ row[e].status = "none"
    /\ Mark(e, "new")
    /\ call' = [call EXCEPT ![e] = "enqueue"]
    /\ UNCHANGED <<streamVars, todo, marking, workerVars, handled, unread, faults>>

Enqueue(e) ==
    /\ call[e] = "enqueue"
    /\ XAdd(e)
    /\ call' = [call EXCEPT ![e] = "mark"]
    /\ UNCHANGED <<msg, row, todo, marking, workerVars, handled, unread, faults>>

\* Mutant of EnqueueFails: the row is marked although nobody was told about it.
EnqueueFailsUnseen(e) ==
    /\ call[e] = "enqueue"
    /\ Fault
    /\ call' = [call EXCEPT ![e] = "mark"]
    /\ UNCHANGED <<streamVars, row, todo, marking, workerVars, handled, unread>>

\* Redis cannot be reached: the row stays new.
EnqueueFails(e) ==
    /\ call[e] = "enqueue"
    /\ Fault
    /\ call' = [call EXCEPT ![e] = "idle"]
    /\ UNCHANGED <<streamVars, row, todo, marking, workerVars, handled, unread>>

\* MarkQueued, whatever became of the event meanwhile.
MarkQueued(e) ==
    /\ call[e] = "mark"
    /\ Mark(e, "queued")
    /\ call' = [call EXCEPT ![e] = "idle"]
    /\ UNCHANGED <<streamVars, todo, marking, workerVars, handled, unread, faults>>

-----------------------------------------------------------------------------
(* dispatchLoop.                                                           *)

\* Mutant of Due: a handler that failed is not run again.
DueNotFailed(e) == row[e].status = "new"

\* ListNewOrFailedForEnqueue and shouldEnqueueNow
Due(e) ==
    \/ row[e].status = "new"
    \/ row[e].status = "failed" /\ row[e].attempts < MaxAttempts

List ==
    /\ todo = {} /\ marking = NoEvent
    /\ todo' = {e \in Event : Due(e)}
    /\ todo' # {}
    /\ UNCHANGED <<streamVars, row, call, marking, workerVars, handled, unread, faults>>

DispatchEnqueue(e) ==
    /\ marking = NoEvent /\ e \in todo
    /\ XAdd(e)
    /\ todo' = todo \ {e}
    /\ marking' = e
    /\ UNCHANGED <<msg, row, call, workerVars, handled, unread, faults>>

DispatchFails(e) ==
    /\ marking = NoEvent /\ e \in todo
    /\ Fault
    /\ todo' = todo \ {e}
    /\ UNCHANGED <<streamVars, row, call, marking, workerVars, handled, unread>>

DispatchMark ==
    /\ marking # NoEvent
    /\ Mark(marking, "queued")
    /\ marking' = NoEvent
    /\ UNCHANGED <<streamVars, call, todo, workerVars, handled, unread, faults>>

-----------------------------------------------------------------------------
(* processAndAck.                                                          *)

Take(w, e) ==
    /\ at' = [at EXCEPT ![w] = "read"]
    /\ ev' = [ev EXCEPT ![w] = e]
    /\ UNCHANGED result

\* consumeLoop
Deliver(w, m) ==
    /\ at[w] = "idle" /\ w # Claimer
    /\ XReadGroup(w, m)
    /\ Take(w, stream[m].event)
    /\ UNCHANGED <<row, call, todo, marking, handled, unread, faults>>

\* claimPendingLoop: the last worker died, or has been busy for a minute.
ClaimPending(m) ==
    /\ at[Claimer] = "idle"
    /\ XClaim(Claimer, m)
    /\ Take(Claimer, stream[m].event)
    /\ UNCHANGED <<row, call, todo, marking, handled, unread, faults>>

\* GetByID
Read(w) ==
    /\ at[w] = "read"
    /\ at' = [at EXCEPT ![w] = "mark"]
    /\ UNCHANGED <<streamVars, row, call, todo, marking, ev, result, handled, unread, faults>>

\* The message is acknowledged although the event was not even read.
ReadFails(w) ==
    /\ at[w] = "read"
    /\ Fault
    /\ unread' = unread \cup {ev[w]}
    /\ at' = [at EXCEPT ![w] = "ack"]
    /\ ev' = [ev EXCEPT ![w] = NoEvent]
    /\ UNCHANGED <<streamVars, row, call, todo, marking, result, handled>>

MarkProcessing(w) ==
    /\ at[w] = "mark"
    /\ row' = [row EXCEPT ![ev[w]] = [status |-> "processing", attempts |-> @.attempts + 1]]
    /\ at' = [at EXCEPT ![w] = "run"]
    /\ UNCHANGED <<streamVars, call, todo, marking, ev, result, handled, unread, faults>>

\* The error is not looked at.
MarkProcessingFails(w) ==
    /\ at[w] = "mark"
    /\ Fault
    /\ at' = [at EXCEPT ![w] = "run"]
    /\ UNCHANGED <<streamVars, row, call, todo, marking, ev, result, handled, unread>>

\* handleIncomingEvent returns; after an error the worker waits before it stores it.
Handle(w) ==
    /\ at[w] = "run"
    /\ \E r \in Outcome : result' = [result EXCEPT ![w] = r]
    /\ handled' = handled \cup {ev[w]}
    /\ at' = [at EXCEPT ![w] = "store"]
    /\ UNCHANGED <<streamVars, row, call, todo, marking, ev, unread, faults>>

Leave(w) ==
    /\ at' = [at EXCEPT ![w] = "ack"]
    /\ ev' = [ev EXCEPT ![w] = NoEvent]
    /\ result' = [result EXCEPT ![w] = "none"]

\* MarkDone, MarkIgnored or MarkFailed
StoreResult(w) ==
    /\ at[w] = "store"
    /\ Mark(ev[w], result[w])
    /\ Leave(w)
    /\ UNCHANGED <<streamVars, call, todo, marking, handled, unread, faults>>

StoreFails(w) ==
    /\ at[w] = "store"
    /\ Fault
    /\ Leave(w)
    /\ UNCHANGED <<streamVars, row, call, todo, marking, handled, unread>>

\* Mutant of Acked: a message is taken out of the stream as soon as it is read.
AckedEarly(w) == at[w] \in {"mark", "ack"}

Acked(w) == at[w] = "ack"

Ack(w) ==
    /\ Acked(w)
    /\ XAck(w)
    /\ at' = [at EXCEPT ![w] = IF @ = "ack" THEN "idle" ELSE @]
    /\ UNCHANGED <<row, call, todo, marking, ev, result, handled, unread, faults>>

\* The server stops and starts.  When it stops in good order, its last statements fail
\* because their context is cancelled: to the rows and the stream that is the same.
Restart ==
    /\ Fault
    /\ call' = [e \in Event |-> "idle"]
    /\ todo' = {}
    /\ marking' = NoEvent
    /\ at' = [w \in Worker |-> "idle"]
    /\ ev' = [w \in Worker |-> NoEvent]
    /\ result' = [w \in Worker |-> "none"]
    /\ msg' = [w \in Worker |-> NoMessage]
    /\ UNCHANGED <<stream, row, handled, unread>>

-----------------------------------------------------------------------------
CallStep(e) == Enqueue(e) \/ EnqueueFails(e) \/ MarkQueued(e)

LoopStep ==
    \/ List
    \/ DispatchMark
    \/ \E e \in Event : DispatchEnqueue(e) \/ DispatchFails(e)

WorkerStep(w) ==
    \/ Read(w) \/ ReadFails(w)
    \/ MarkProcessing(w) \/ MarkProcessingFails(w)
    \/ Handle(w)
    \/ StoreResult(w) \/ StoreFails(w)
    \/ Ack(w)

Next ==
    \/ \E e \in Event : Receive(e) \/ CallStep(e)
    \/ LoopStep
    \/ \E w \in Worker : WorkerStep(w) \/ \E m \in Message : Deliver(w, m)
    \/ \E m \in Message : ClaimPending(m)
    \/ Restart

Spec == Init /\ [][Next]_vars

\* The loops run for ever and handlers return.  A message is taken by some worker in
\* the end, however busy they are; one that is orphaned is claimed after a minute.
FairSpec ==
    /\ Spec
    /\ WF_vars(LoopStep)
    /\ \A e \in Event : WF_vars(CallStep(e))
    /\ \A w \in Worker : WF_vars(WorkerStep(w))
    /\ \A m \in Message :
          SF_vars((\E w \in Worker : Deliver(w, m)) \/ (Orphaned(m) /\ ClaimPending(m)))

-----------------------------------------------------------------------------
Named(e) == \E m \in Message : stream[m].state # "free" /\ stream[m].event = e

\* An event that was accepted and not yet handled is known to the dispatcher, named by
\* a message, or on its way into the stream, whatever stops in between; only a worker
\* that cannot read the row makes the queue forget it (processAndAck).
NeverForgotten ==
    \A e \in Event :
        row[e].status # "none" /\ e \notin handled \cup unread =>
            row[e].status = "new" \/ Named(e)

\* The same as a promise: an accepted event is handled in the end.
AcceptedIsHandled ==
    \A e \in Event : row[e].status # "none" ~> e \in handled \cup unread

\* No loop looks at the row, and no worker or message knows it.
Stranded(e) ==
    /\ row[e].status \in {"queued", "processing"}
    /\ ~Named(e)
    /\ call[e] = "idle" /\ marking # e
    /\ \A w \in Worker : ev[w] # e

\* A handler that fails is run again until it succeeds or has used up its attempts.  The
\* exception: its row is stranded, by a statement that fails or by a MarkQueued that
\* comes after the handler has failed.
ErrorsAreRetried ==
    \A e \in Event :
        row[e].status = "failed" ~>
            \/ row[e].status \in {"done", "ignored"}
            \/ row[e].status = "failed" /\ row[e].attempts >= MaxAttempts
            \/ Stranded(e)
=============================================================================
