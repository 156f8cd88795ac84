----------------------------- MODULE PyrusQueue -----------------------------
(***************************************************************************)
(* The queue of incoming Pyrus events: a row per webhook in Postgres, a    *)
(* Redis stream that tells workers about rows, a dispatcher that looks for *)
(* rows nobody was told about or that are to be tried again, and an        *)
(* operator who replays and cancels events.  Without Redis the workers     *)
(* take the rows from Postgres.                                            *)
(*                                                                         *)
(* Several messages may name one row, and a message may reach two workers. *)
(* What keeps them apart is the conditional UPDATE that takes a row into   *)
(* "processing" (TryMark).                                                 *)
(***************************************************************************)
EXTENDS Integers, EventStream

CONSTANTS
    Claimer,     \* the worker that is claimPendingLoop; it processes what it claims itself
    MaxAttempts, \* PYRUS_INCOMING_MAX_ATTEMPTS
    MaxWait,     \* deferrals that exhaust PYRUS_INCOMING_WAIT_MAX_AGE_HOURS
    MaxReplays,  \* bound: replays by the operator, per event
    MaxFaults    \* bound: restarts and failed statements

ASSUME LimitsAssumption ==
    /\ Claimer \in Worker
    /\ MaxAttempts \in Nat \ {0} /\ MaxWait \in Nat \ {0}
    /\ MaxReplays \in Nat /\ MaxFaults \in Nat

VARIABLES
    redis,       \* whether the server runs with Redis
    row,         \* pyrus_incoming_events
    replays,     \* replay_count
    call,        \* the step of HandleWebhook or ReplayEvent for an event
    todo,        \* what a loop has listed and not yet taken
    marking,     \* the event dispatchLoop is about to mark as queued
    at,          \* the step of a worker
    ev,          \* the event it works on
    seen,        \* wait_started_at as it read it
    failures,    \* handler errors since the last replay; no code reads it
    faults

workerVars == <<at, ev, seen>>
vars == <<stream, msg, redis, row, replays, call, todo, marking, at, ev, seen,
          failures, faults>>

Status == {"none", "new", "queued", "processing", "done", "ignored", "failed",
           "waiting", "cancelled"}

Closed == {"done", "ignored", "cancelled"}

\* attempts may pass MaxAttempts, see AttemptsBounded; "age" is zero while
\* wait_started_at is NULL and else counts the deferrals since.  next_retry_at and the
\* back-off are left out: the time they name may pass between any two steps.
Row == [status : Status, attempts : Nat, age : 0..MaxWait]

TypeOK ==
    /\ StreamOK
    /\ redis \in BOOLEAN
    /\ row \in [Event -> Row]
    /\ replays \in [Event -> 0..MaxReplays]
    /\ call \in [Event -> {"idle", "enqueue", "mark"}]
    /\ todo \subseteq Event
    /\ marking \in Event \cup {NoEvent}
    /\ at \in [Worker -> {"idle", "read", "try", "run", "ack"}]
    /\ ev \in [Worker -> Event \cup {NoEvent}]
    /\ seen \in [Worker -> 0..MaxWait]
    /\ failures \in [Event -> Nat]
    /\ faults \in 0..MaxFaults

Init ==
    /\ StreamInit
    /\ redis \in BOOLEAN
    /\ row = [e \in Event |-> [status |-> "none", attempts |-> 0, age |-> 0]]
    /\ replays = [e \in Event |-> 0]
    /\ call = [e \in Event |-> "idle"]
    /\ todo = {}
    /\ marking = NoEvent
    /\ at = [w \in Worker |-> "idle"]
    /\ ev = [w \in Worker |-> NoEvent]
    /\ seen = [w \in Worker |-> 0]
    /\ failures = [e \in Event |-> 0]
    /\ faults = 0

\* An UPDATE of the row of e.
Store(e, status, attempts, age) ==
    row' = [row EXCEPT ![e] = [status |-> status, attempts |-> attempts, age |-> age]]

Fault == faults < MaxFaults /\ faults' = faults + 1

-----------------------------------------------------------------------------
(* HandleWebhook, ReplayEvent and the operator's cancel.                   *)

\* HandleWebhook: a payload with a known hash inserts nothing.
Receive(e) ==
    /\ row[e].status = "none"
    /\ row' = [row EXCEPT ![e].status = "new"]
    /\ call' = [call EXCEPT ![e] = IF redis THEN "enqueue" ELSE "idle"]
    /\ UNCHANGED <<streamVars, redis, replays, todo, marking, workerVars, failures, faults>>

Enqueue(e) ==
    /\ call[e] = "enqueue"
    /\ XAdd(e)
    /\ call' = [call EXCEPT ![e] = "mark"]
    /\ UNCHANGED <<msg, redis, row, replays, todo, marking, workerVars, failures, faults>>

EnqueueFails(e) ==
    /\ call[e] = "enqueue"
    /\ Fault
    /\ call' = [call EXCEPT ![e] = "idle"]
    /\ UNCHANGED <<streamVars, redis, row, replays, todo, marking, workerVars, failures>>

\* Mutant of Queued: MarkIncomingQueued does not look at the status.
QueuedAlways(e) == row' = [row EXCEPT ![e].status = "queued"]

\* MarkIncomingQueued
Queued(e) ==
    row' = [row EXCEPT ![e].status = IF @ = "new" THEN "queued" ELSE @]

MarkQueued(e) ==
    /\ call[e] = "mark"
    /\ Queued(e)
    /\ call' = [call EXCEPT ![e] = "idle"]
    /\ UNCHANGED <<streamVars, redis, replays, todo, marking, workerVars, failures, faults>>

\* ReplayEvent; ReplayTask and ReplayProblemTasks call it for one event after another.
Replay(e) ==
    /\ call[e] = "idle"
    /\ row[e].status \in {"failed", "waiting"}
    /\ replays[e] < MaxReplays
    /\ Store(e, "new", 0, 0)
    /\ replays' = [replays EXCEPT ![e] = @ + 1]
    /\ call' = [call EXCEPT ![e] = IF redis THEN "enqueue" ELSE "idle"]
    /\ failures' = [failures EXCEPT ![e] = 0]
    /\ UNCHANGED <<streamVars, redis, todo, marking, workerVars, faults>>

\* CancelIncomingEvents; the cancel of a task is that of each of its events.
Cancel(e) ==
    /\ row[e].status \in {"new", "queued", "failed", "waiting"}
    /\ Store(e, "cancelled", row[e].attempts, 0)
    /\ UNCHANGED <<streamVars, redis, replays, call, todo, marking, workerVars, failures, faults>>

-----------------------------------------------------------------------------
(* dispatchLoop, and the listing half of consumeFromPostgresLoop.          *)

\* Mutant of Due: an event that waits for data is not looked at again.
DueNotWaiting(e) ==
    \/ row[e].status = "new"
    \/ row[e].status = "failed" /\ row[e].attempts < MaxAttempts

\* ListIncomingDueForProcessing and shouldProcessIncomingNow
Due(e) ==
    \/ row[e].status = "new"
    \/ row[e].status = "failed" /\ row[e].attempts < MaxAttempts
    \/ row[e].status = "waiting"

\* Without Redis the next listing waits for the goroutines of the last one.
List ==
    /\ todo = {} /\ marking = NoEvent
    /\ ~redis => \A w \in Worker : at[w] = "idle"
    /\ todo' = {e \in Event : Due(e)}
    /\ todo' # {}
    /\ UNCHANGED <<streamVars, redis, row, replays, call, marking, workerVars, failures, faults>>

DispatchEnqueue(e) ==
    /\ redis /\ marking = NoEvent /\ e \in todo
    /\ XAdd(e)
    /\ todo' = todo \ {e}
    /\ marking' = e
    /\ UNCHANGED <<msg, redis, row, replays, call, workerVars, failures, faults>>

DispatchFails(e) ==
    /\ redis /\ marking = NoEvent /\ e \in todo
    /\ Fault
    /\ todo' = todo \ {e}
    /\ UNCHANGED <<streamVars, redis, row, replays, call, marking, workerVars, failures>>

DispatchMark ==
    /\ marking # NoEvent
    /\ Queued(marking)
    /\ marking' = NoEvent
    /\ UNCHANGED <<streamVars, redis, replays, call, todo, workerVars, failures, faults>>

-----------------------------------------------------------------------------
(* processIncomingEvent.                                                   *)

Take(w, e) ==
    /\ at' = [at EXCEPT ![w] = "read"]
    /\ ev' = [ev EXCEPT ![w] = e]
    /\ UNCHANGED seen

\* processIncomingEvent returns, and only the message is left to acknowledge.
Leave(w) ==
    /\ at' = [at EXCEPT ![w] = "ack"]
    /\ ev' = [ev EXCEPT ![w] = NoEvent]
    /\ seen' = [seen EXCEPT ![w] = 0]

\* consumeLoop
Deliver(w, m) ==
    /\ redis /\ at[w] = "idle" /\ w # Claimer
    /\ XReadGroup(w, m)
    /\ Take(w, stream[m].event)
    /\ UNCHANGED <<redis, row, replays, call, todo, marking, failures, faults>>

\* claimPendingLoop: the last worker died, or has been busy for a minute.
ClaimPending(m) ==
    /\ redis /\ at[Claimer] = "idle"
    /\ XClaim(Claimer, m)
    /\ Take(Claimer, stream[m].event)
    /\ UNCHANGED <<redis, row, replays, call, todo, marking, failures, faults>>

\* consumeFromPostgresLoop
Poll(w, e) ==
    /\ ~redis /\ at[w] = "idle" /\ w # Claimer /\ e \in todo
    /\ todo' = todo \ {e}
    /\ Take(w, e)
    /\ UNCHANGED <<streamVars, redis, row, replays, call, marking, failures, faults>>

\* GetIncomingEventByID
Read(w) ==
    /\ at[w] = "read"
    /\ seen' = [seen EXCEPT ![w] = row[ev[w]].age]
    /\ at' = [at EXCEPT ![w] = "try"]
    /\ UNCHANGED <<streamVars, redis, row, replays, call, todo, marking, ev, failures, faults>>

\* Mutant of Claimable: a replayed or redelivered event is taken over from its worker.
ClaimableBusy == {"new", "queued", "failed", "waiting", "processing"}

\* Mutant of Claimable: an event that ran out of attempts needs no replay.
ClaimableClosed == {"new", "queued", "failed", "waiting", "cancelled"}

Claimable == {"new", "queued", "failed", "waiting"}

\* TryMarkIncomingProcessing
TryMark(w) ==
    /\ at[w] = "try"
    /\ row[ev[w]].status \in Claimable
    /\ Store(ev[w], "processing", row[ev[w]].attempts + 1, row[ev[w]].age)
    /\ at' = [at EXCEPT ![w] = "run"]
    /\ UNCHANGED <<streamVars, redis, replays, call, todo, marking, ev, seen, failures, faults>>

TryMarkRefused(w) ==
    /\ at[w] = "try"
    /\ row[ev[w]].status \notin Claimable
    /\ Leave(w)
    /\ UNCHANGED <<streamVars, redis, row, replays, call, todo, marking, failures, faults>>

\* handleIncomingEvent is over: MarkIncomingDone, MarkIncomingIgnored, MarkIncomingFailed
\* or deferIncomingEvent stores its outcome.
Finish(w, status, attempts, age) ==
    /\ at[w] = "run"
    /\ Store(ev[w], status, attempts, age)
    /\ Leave(w)
    /\ UNCHANGED <<streamVars, redis, replays, call, todo, marking, faults>>

Complete(w) ==
    /\ \E s \in {"done", "ignored"} : Finish(w, s, row[ev[w]].attempts, 0)
    /\ UNCHANGED failures

Fail(w) ==
    /\ Finish(w, "failed", row[ev[w]].attempts, row[ev[w]].age)
    /\ failures' = [failures EXCEPT ![ev[w]] = @ + 1]

\* Mutant of Refund: an attempt that lacked data counts.
RefundNot(n) == n

\* The attempts of MarkIncomingWaiting.
Refund(n) == IF n > 0 THEN n - 1 ELSE 0

\* deferIncomingEvent goes by the wait_started_at that was read before the claim.
Defer(w) ==
    /\ seen[w] < MaxWait
    /\ Finish(w, "waiting", Refund(row[ev[w]].attempts), seen[w] + 1)
    /\ UNCHANGED failures

\* MarkIncomingExpired
Expire(w) ==
    /\ seen[w] > 0
    /\ Finish(w, "failed", MaxAttempts, row[ev[w]].age)
    /\ failures' = [failures EXCEPT ![ev[w]] = MaxAttempts]

\* GetIncomingEventByID, TryMarkIncomingProcessing or the statement at the end fails:
\* the message is acknowledged all the same.
StatementFails(w) ==
    /\ at[w] \in {"read", "try", "run"}
    /\ Fault
    /\ Leave(w)
    /\ UNCHANGED <<streamVars, redis, row, replays, call, todo, marking, failures>>

Ack(w) ==
    /\ at[w] = "ack"
    /\ XAck(w)
    /\ at' = [at EXCEPT ![w] = "idle"]
    /\ UNCHANGED <<redis, row, replays, call, todo, marking, ev, seen, failures, faults>>

\* The server stops and starts: what was in memory is gone.
Restart ==
    /\ Fault
    /\ call' = [e \in Event |-> "idle"]
    /\ todo' = {}
    /\ marking' = NoEvent
    /\ at' = [w \in Worker |-> "idle"]
    /\ ev' = [w \in Worker |-> NoEvent]
    /\ seen' = [w \in Worker |-> 0]
    /\ msg' = [w \in Worker |-> NoMessage]
    /\ UNCHANGED <<stream, redis, row, replays, failures>>

-----------------------------------------------------------------------------
Operator == \E e \in Event : Receive(e) \/ Replay(e) \/ Cancel(e)

CallStep(e) == Enqueue(e) \/ EnqueueFails(e) \/ MarkQueued(e)

LoopStep ==
    \/ List
    \/ DispatchMark
    \/ \E e \in Event : DispatchEnqueue(e) \/ DispatchFails(e)

WorkerStep(w) ==
    \/ Read(w)
    \/ TryMark(w) \/ TryMarkRefused(w)
    \/ Complete(w) \/ Fail(w) \/ Defer(w) \/ Expire(w)
    \/ StatementFails(w)
    \/ Ack(w)

Next ==
    \/ Operator
    \/ \E e \in Event : CallStep(e)
    \/ LoopStep
    \/ \E w \in Worker :
        \/ WorkerStep(w)
        \/ \E m \in Message : Deliver(w, m)
        \/ \E e \in Event : Poll(w, e)
    \/ \E m \in Message : ClaimPending(m)
    \/ Restart

Spec == Init /\ [][Next]_vars

\* The loops run for ever and handlers return.  A message is taken by some worker in
\* the end, however busy they are; one that is orphaned is claimed after a minute.
FairSpec ==
    /\ Spec
    /\ WF_vars(LoopStep)
    /\ \A e \in Event :
        /\ WF_vars(CallStep(e))
        /\ SF_vars(\E w \in Worker : Poll(w, e))
    /\ \A w \in Worker : WF_vars(WorkerStep(w))
    /\ \A m \in Message :
          SF_vars((\E w \in Worker : Deliver(w, m)) \/ (Orphaned(m) /\ ClaimPending(m)))

-----------------------------------------------------------------------------
\* However many messages name an event, and whoever claims a message from a slow
\* worker, one worker at a time processes the event, and its row says so.
OneWorker ==
    \A w \in Worker : at[w] = "run" =>
        /\ row[ev[w]].status = "processing"
        /\ \A v \in Worker : at[v] = "run" /\ ev[v] = ev[w] => v = w

\* An event that is done, ignored or cancelled stays so, in spite of old messages,
\* of a dispatcher that listed it before, and of replays.
ClosedStays ==
    [][\A e \in Event :
        row[e].status \in Closed => row'[e].status = row[e].status]_vars

\* README.md: waiting for data spends no attempts.  The attempts of an event are its
\* errors since the last replay and the attempt that succeeded or is under way, whatever
\* a worker read before it claimed the row.
AttemptsAreFailures ==
    \A e \in Event :
        row[e].attempts = failures[e] +
            (IF row[e].status \in {"processing", "done", "ignored"} THEN 1 ELSE 0)

\* README.md: errors are retried up to PYRUS_INCOMING_MAX_ATTEMPTS.
AttemptsBounded == \A e \in Event : row[e].attempts <= MaxAttempts

\* A worker died, or could not store the outcome, while it processed e.
Abandoned(e) ==
    row[e].status = "processing" /\ ~\E w \in Worker : at[w] = "run" /\ ev[w] = e

\* No message names e, and nobody is about to send one.
Untold(e) ==
    /\ row[e].status = "queued" /\ call[e] = "idle" /\ marking # e
    /\ \A m \in Message : stream[m].event # e
    /\ ~\E w \in Worker : ev[w] = e /\ at[w] \in {"read", "try"}

\* An event that was accepted is processed, ignored or cancelled in the end, or has
\* failed for good; it is forgotten only when a statement fails or the server stops
\* during its processing.
AcceptedIsSettled ==
    \A e \in Event :
        row[e].status # "none" ~>
            \/ row[e].status \in Closed
            \/ row[e].status = "failed" /\ row[e].attempts >= MaxAttempts
            \/ Abandoned(e)
            \/ Untold(e)
=============================================================================
