-------------------------- MODULE PyrusQueueProofs --------------------------
(***************************************************************************)
(* What holds for any number of events, messages, workers, attempts,       *)
(* replays and failures: one worker at a time processes an event, a closed *)
(* event stays closed, and the attempts of an event are its errors.        *)
(*                                                                         *)
(* OneWorker and AttemptsAreFailures are inductive once it is known that   *)
(* messages and busy workers name events (Named) and that the types hold.  *)
(***************************************************************************)
EXTENDS PyrusQueue, TLAPS

Named ==
    /\ \A m \in Message : stream[m].state # "free" => stream[m].event \in Event
    /\ \A w \in Worker : at[w] \in {"read", "try", "run"} => ev[w] \in Event
    /\ \A w \in Worker : at[w] \notin {"read", "try", "run"} => seen[w] = 0

Consistent == TypeOK /\ Named /\ OneWorker /\ AttemptsAreFailures

\* What the rows and the workers promise each other, apart from types.
Pairing == Named /\ OneWorker /\ AttemptsAreFailures

USE DEF Status, Closed, Row, streamVars, workerVars

LEMMA InitConsistent == Init => Consistent
  BY LimitsAssumption, StreamAssumption
     DEF Init, StreamInit, Consistent, TypeOK, StreamOK, Named, OneWorker,
         AttemptsAreFailures

-----------------------------------------------------------------------------
(* Steps that change no row and no worker keep the pairing.                *)

LEMMA OthersKeep ==
    ASSUME Pairing,
           UNCHANGED <<row, at, ev, seen, failures>>,
           \A m \in Message : stream'[m].state # "free" => stream'[m].event \in Event
    PROVE  Pairing'
  BY DEF Pairing, Named, OneWorker, AttemptsAreFailures

LEMMA XAddNames ==
    ASSUME StreamOK, NEW e \in Event, XAdd(e),
           \A m \in Message : stream[m].state # "free" => stream[m].event \in Event
    PROVE  /\ stream' \in [Message -> [state : {"free", "queued", "pending"},
                                       event : Event \cup {NoEvent}]]
           /\ \A m \in Message : stream'[m].state # "free" => stream'[m].event \in Event
  BY DEF StreamOK, XAdd

\* A step that writes one row, of an event nobody processes, and no worker.
LEMMA RowKeeps ==
    ASSUME Consistent, NEW e \in Event,
           row' \in [Event -> Row],
           \A f \in Event : f # e => row'[f] = row[f] /\ failures'[f] = failures[f],
           UNCHANGED <<stream, at, ev, seen>>,
           row[e].status # "processing" \/ row'[e].status = "processing",
           row'[e].attempts = failures'[e] +
                (IF row'[e].status \in {"processing", "done", "ignored"} THEN 1 ELSE 0)
    PROVE  Pairing'
  <1>1. \A w \in Worker : at[w] = "run" => row'[ev[w]].status = "processing"
    BY DEF Consistent, TypeOK, Named, OneWorker
  <1> QED
    BY <1>1 DEF Consistent, TypeOK, Pairing, Named, OneWorker, AttemptsAreFailures

LEMMA QueuedKeeps ==
    ASSUME Consistent, NEW e \in Event, Queued(e),
           UNCHANGED <<stream, at, ev, seen, failures>>
    PROVE  Pairing' /\ row' \in [Event -> Row]
  <1>1. CASE row[e].status = "new"
    <2>1. /\ row' = [row EXCEPT ![e].status = "queued"]
          /\ row' \in [Event -> Row]
      BY <1>1 DEF Consistent, TypeOK, Queued
    <2>2. row'[e].status = "queued" /\ row'[e].attempts = row[e].attempts
      BY <2>1 DEF Consistent, TypeOK
    <2> QED
      BY <1>1, <2>1, <2>2, RowKeeps DEF Consistent, TypeOK, AttemptsAreFailures
  <1>2. CASE row[e].status # "new"
    <2>1. row' = row
      BY <1>2 DEF Consistent, TypeOK, Queued
    <2> QED
      BY <2>1, OthersKeep DEF Consistent, TypeOK, Pairing, Named
  <1> QED
    BY <1>1, <1>2

-----------------------------------------------------------------------------
(* HandleWebhook, ReplayEvent, the operator's cancel and the loops.        *)

LEMMA ReceiveConsistent ==
    ASSUME Consistent, NEW e \in Event, Receive(e)  PROVE Consistent'
  <1>1. /\ row' \in [Event -> Row] /\ row[e].status = "none"
        /\ row'[e].status = "new" /\ row'[e].attempts = row[e].attempts
        /\ row[e].attempts = failures[e]
        /\ \A f \in Event : f # e => row'[f] = row[f]
    BY DEF Consistent, TypeOK, AttemptsAreFailures, Receive
  <1>2. UNCHANGED <<stream, at, ev, seen, failures>> /\ failures \in [Event -> Nat]
    BY DEF Consistent, TypeOK, Receive
  <1>3. Pairing'
    BY <1>1, <1>2, RowKeeps
  <1> QED
    BY <1>1, <1>3 DEF Consistent, Pairing, TypeOK, StreamOK, Receive

LEMMA ReplayConsistent ==
    ASSUME Consistent, NEW e \in Event, Replay(e)  PROVE Consistent'
  <1>1. /\ row' \in [Event -> Row] /\ row[e].status # "processing"
        /\ row'[e].status = "new" /\ row'[e].attempts = 0
        /\ \A f \in Event : f # e => row'[f] = row[f]
    BY LimitsAssumption DEF Consistent, TypeOK, Replay, Store
  <1>2. /\ failures' \in [Event -> Nat] /\ failures'[e] = 0
        /\ \A f \in Event : f # e => failures'[f] = failures[f]
        /\ UNCHANGED <<stream, at, ev, seen>>
    BY DEF Consistent, TypeOK, Replay
  <1>3. Pairing'
    BY <1>1, <1>2, RowKeeps
  <1> QED
    BY <1>1, <1>2, <1>3, LimitsAssumption
       DEF Consistent, Pairing, TypeOK, StreamOK, Replay

LEMMA CancelConsistent ==
    ASSUME Consistent, NEW e \in Event, Cancel(e)  PROVE Consistent'
  <1>1. /\ row' \in [Event -> Row]
        /\ row[e].status \in {"new", "queued", "failed", "waiting"}
        /\ row'[e].status = "cancelled" /\ row'[e].attempts = row[e].attempts
        /\ \A f \in Event : f # e => row'[f] = row[f]
    BY LimitsAssumption DEF Consistent, TypeOK, Cancel, Store
  <1>2. UNCHANGED <<stream, at, ev, seen, failures>> /\ failures \in [Event -> Nat]
    BY DEF Consistent, TypeOK, Cancel
  <1>3. row[e].attempts = failures[e]
    BY <1>1, <1>2 DEF Consistent, TypeOK, AttemptsAreFailures
  <1>4. Pairing'
    BY <1>1, <1>2, <1>3, RowKeeps
  <1> QED
    BY <1>1, <1>4 DEF Consistent, Pairing, TypeOK, StreamOK, Cancel

LEMMA CallConsistent ==
    ASSUME Consistent, NEW e \in Event, CallStep(e)  PROVE Consistent'
  <1>1. CASE Enqueue(e)
    <2>1. Pairing' /\ StreamOK'
      BY <1>1, XAddNames, OthersKeep DEF Consistent, Pairing, Named, TypeOK, StreamOK, Enqueue
    <2> QED
      BY <1>1, <2>1 DEF Consistent, Pairing, TypeOK, Enqueue
  <1>2. CASE EnqueueFails(e)
    <2>1. Pairing'
      BY <1>2, OthersKeep DEF Consistent, Pairing, Named, EnqueueFails
    <2> QED
      BY <1>2, <2>1, LimitsAssumption
         DEF Consistent, Pairing, TypeOK, StreamOK, EnqueueFails, Fault
  <1>3. CASE MarkQueued(e)
    <2>1. Pairing' /\ row' \in [Event -> Row]
      BY <1>3, QueuedKeeps DEF MarkQueued
    <2> QED
      BY <1>3, <2>1 DEF Consistent, Pairing, TypeOK, StreamOK, MarkQueued
  <1> QED
    BY <1>1, <1>2, <1>3 DEF CallStep

LEMMA LoopConsistent ==
    ASSUME Consistent, LoopStep  PROVE Consistent'
  <1>1. CASE List
    <2>1. Pairing'
      BY <1>1, OthersKeep DEF Consistent, Pairing, Named, List
    <2> QED
      BY <1>1, <2>1 DEF Consistent, Pairing, TypeOK, StreamOK, List
  <1>2. CASE DispatchMark
    <2>1. Pairing' /\ row' \in [Event -> Row]
      BY <1>2, QueuedKeeps DEF Consistent, TypeOK, DispatchMark
    <2> QED
      BY <1>2, <2>1 DEF Consistent, Pairing, TypeOK, StreamOK, DispatchMark
  <1>3. ASSUME NEW e \in Event, DispatchEnqueue(e)  PROVE Consistent'
    <2>1. Pairing' /\ StreamOK'
      BY <1>3, XAddNames, OthersKeep
         DEF Consistent, Pairing, Named, TypeOK, StreamOK, DispatchEnqueue
    <2> QED
      BY <1>3, <2>1 DEF Consistent, Pairing, TypeOK, DispatchEnqueue
  <1>4. ASSUME NEW e \in Event, DispatchFails(e)  PROVE Consistent'
    <2>1. Pairing'
      BY <1>4, OthersKeep DEF Consistent, Pairing, Named, DispatchFails
    <2> QED
      BY <1>4, <2>1, LimitsAssumption
         DEF Consistent, Pairing, TypeOK, StreamOK, DispatchFails, Fault
  <1> QED
    BY <1>1, <1>2, <1>3, <1>4 DEF LoopStep

-----------------------------------------------------------------------------
(* The workers.                                                            *)

\* A worker that does not process anything afterwards disturbs nobody.
LEMMA WorkerKeeps ==
    ASSUME Consistent, NEW w \in Worker,
           \A v \in Worker : v # w =>
                at'[v] = at[v] /\ ev'[v] = ev[v] /\ seen'[v] = seen[v],
           at'[w] # "run",
           at'[w] \in {"read", "try"} => ev'[w] \in Event,
           at'[w] \notin {"read", "try"} => seen'[w] = 0,
           UNCHANGED <<row, failures>>,
           \A m \in Message : stream'[m].state # "free" => stream'[m].event \in Event
    PROVE  Pairing'
  BY DEF Consistent, TypeOK, Pairing, Named, OneWorker, AttemptsAreFailures

LEMMA TakeKeeps ==
    ASSUME Consistent, NEW w \in Worker, NEW e \in Event, Take(w, e), at[w] = "idle",
           UNCHANGED <<row, failures>>,
           \A m \in Message : stream'[m].state # "free" => stream'[m].event \in Event
    PROVE  /\ Pairing'
           /\ at' \in [Worker -> {"idle", "read", "try", "run", "ack"}]
           /\ ev' \in [Worker -> Event \cup {NoEvent}]
           /\ seen' = seen
  BY WorkerKeeps DEF Consistent, TypeOK, Named, Take

LEMMA TakeConsistent ==
    ASSUME Consistent, NEW w \in Worker,
           \/ \E m \in Message : Deliver(w, m) \/ (w = Claimer /\ ClaimPending(m))
           \/ \E e \in Event : Poll(w, e)
    PROVE  Consistent'
  <1>1. ASSUME NEW m \in Message, Deliver(w, m)  PROVE Consistent'
    <2>1. /\ stream[m].event \in Event /\ StreamOK'
          /\ \A n \in Message : stream'[n].state # "free" => stream'[n].event \in Event
      BY <1>1 DEF Consistent, Named, TypeOK, StreamOK, Deliver, XReadGroup
    <2> QED
      BY <1>1, <2>1, TakeKeeps DEF Consistent, Pairing, TypeOK, Deliver
  <1>2. ASSUME NEW m \in Message, w = Claimer, ClaimPending(m)  PROVE Consistent'
    <2>1. /\ stream[m].event \in Event /\ StreamOK'
          /\ \A n \in Message : stream'[n].state # "free" => stream'[n].event \in Event
      BY <1>2 DEF Consistent, Named, TypeOK, StreamOK, ClaimPending, XClaim
    <2> QED
      BY <1>2, <2>1, TakeKeeps DEF Consistent, Pairing, TypeOK, ClaimPending
  <1>3. ASSUME NEW e \in Event, Poll(w, e)  PROVE Consistent'
    <2>1. \A n \in Message : stream'[n].state # "free" => stream'[n].event \in Event
      BY <1>3 DEF Consistent, Named, Poll
    <2> QED
      BY <1>3, <2>1, TakeKeeps DEF Consistent, Pairing, TypeOK, StreamOK, Poll
  <1> QED
    BY <1>1, <1>2, <1>3

\* Leave, as the steps that give up or finish use it.
LEMMA LeaveTypes ==
    ASSUME Consistent, NEW w \in Worker, Leave(w)
    PROVE  /\ at' \in [Worker -> {"idle", "read", "try", "run", "ack"}]
           /\ ev' \in [Worker -> Event \cup {NoEvent}]
           /\ seen' \in [Worker -> 0..MaxWait]
  BY LimitsAssumption DEF Consistent, TypeOK, Leave

LEMMA GiveUpConsistent ==
    ASSUME Consistent, NEW w \in Worker, Leave(w), faults' \in 0..MaxFaults,
           UNCHANGED <<stream, msg, redis, row, replays, call, todo, marking, failures>>
    PROVE  Consistent'
  <1>1. \A m \in Message : stream'[m].state # "free" => stream'[m].event \in Event
    BY DEF Consistent, Named
  <1>2. /\ at'[w] = "ack" /\ seen'[w] = 0
        /\ \A v \in Worker : v # w =>
                at'[v] = at[v] /\ ev'[v] = ev[v] /\ seen'[v] = seen[v]
    BY DEF Leave, Consistent, TypeOK
  <1>3. Pairing'
    BY <1>1, <1>2, WorkerKeeps
  <1> QED
    BY <1>3, LeaveTypes DEF Consistent, Pairing, TypeOK, StreamOK

LEMMA ReadConsistent ==
    ASSUME Consistent, NEW w \in Worker, Read(w)  PROVE Consistent'
  <1>1. ev[w] \in Event /\ row[ev[w]].age \in 0..MaxWait
    BY DEF Consistent, TypeOK, Named, Read
  <1>2. /\ at'[w] = "try" /\ ev' = ev
        /\ \A v \in Worker : v # w => at'[v] = at[v] /\ seen'[v] = seen[v]
    BY DEF Consistent, TypeOK, Read
  <1>3. /\ at' \in [Worker -> {"idle", "read", "try", "run", "ack"}]
        /\ seen' \in [Worker -> 0..MaxWait]
    BY <1>1 DEF Read, Consistent, TypeOK
  <1>4. /\ UNCHANGED <<stream, row, failures>>
        /\ \A m \in Message : stream[m].state # "free" => stream[m].event \in Event
    BY DEF Read, Consistent, Named
  <1>5. Pairing'
    BY <1>1, <1>2, <1>4, WorkerKeeps
  <1> QED
    BY <1>3, <1>5 DEF Consistent, Pairing, TypeOK, StreamOK, Read

LEMMA TryMarkConsistent ==
    ASSUME Consistent, NEW w \in Worker, TryMark(w)  PROVE Consistent'
  <1>1. /\ ev[w] \in Event
        /\ row[ev[w]].status \in {"new", "queued", "failed", "waiting"}
    BY DEF Consistent, Named, TryMark, Claimable
  <1>2. /\ row' \in [Event -> Row]
        /\ row'[ev[w]].status = "processing"
        /\ row'[ev[w]].attempts = row[ev[w]].attempts + 1
        /\ \A e \in Event : e # ev[w] => row'[e] = row[e]
    BY <1>1 DEF Consistent, TypeOK, TryMark, Store
  <1>3. \A v \in Worker : at[v] = "run" => ev[v] # ev[w]
    BY <1>1 DEF Consistent, OneWorker
  <1>4. OneWorker'
    BY <1>1, <1>2, <1>3 DEF Consistent, TypeOK, Named, OneWorker, TryMark
  <1>5. AttemptsAreFailures'
    BY <1>1, <1>2 DEF Consistent, TypeOK, AttemptsAreFailures, TryMark
  <1>6. Named'
    BY DEF Consistent, TypeOK, Named, TryMark
  <1> QED
    BY <1>2, <1>4, <1>5, <1>6 DEF Consistent, TypeOK, StreamOK, TryMark

\* A worker that stores the outcome of its event.
LEMMA FinishConsistent ==
    ASSUME Consistent, NEW w \in Worker,
           NEW status, NEW attempts, NEW age, Finish(w, status, attempts, age),
           status \in Status \ {"processing"}, attempts \in Nat, age \in 0..MaxWait,
           failures' \in [Event -> Nat],
           \A e \in Event : e # ev[w] => failures'[e] = failures[e],
           attempts = failures'[ev[w]] + (IF status \in {"done", "ignored"} THEN 1 ELSE 0)
    PROVE  Consistent'
  <1>1. ev[w] \in Event /\ at[w] = "run"
    BY DEF Consistent, Named, Finish
  <1>2. /\ row' \in [Event -> Row]
        /\ row'[ev[w]].status = status /\ row'[ev[w]].attempts = attempts
        /\ \A e \in Event : e # ev[w] => row'[e] = row[e]
    BY <1>1 DEF Consistent, TypeOK, Finish, Store
  <1>3. \A v \in Worker : at'[v] = "run" => v # w /\ at[v] = "run" /\ ev'[v] = ev[v]
                                               /\ ev[v] # ev[w]
    BY <1>1 DEF Consistent, TypeOK, OneWorker, Finish, Leave
  <1>4. OneWorker'
    BY <1>2, <1>3 DEF Consistent, Named, OneWorker
  <1>5. AttemptsAreFailures'
    BY <1>1, <1>2 DEF Consistent, TypeOK, AttemptsAreFailures
  <1>6. Named'
    BY DEF Consistent, TypeOK, Named, Finish, Leave
  <1> QED
    BY <1>2, <1>4, <1>5, <1>6, LeaveTypes DEF Consistent, TypeOK, StreamOK, Finish

LEMMA OutcomeConsistent ==
    ASSUME Consistent, NEW w \in Worker,
           Complete(w) \/ Fail(w) \/ Defer(w) \/ Expire(w)
    PROVE  Consistent'
  <1>1. /\ ev[w] \in Event /\ row[ev[w]] \in Row /\ seen[w] \in 0..MaxWait
        /\ row[ev[w]].status = "processing"
        /\ row[ev[w]].attempts = failures[ev[w]] + 1
        /\ failures \in [Event -> Nat]
    BY DEF Consistent, TypeOK, Named, OneWorker, AttemptsAreFailures,
           Complete, Fail, Defer, Expire, Finish
  <1>2. CASE Complete(w)
    BY <1>1, <1>2, FinishConsistent, LimitsAssumption DEF Complete
  <1>3. CASE Fail(w)
    <2> DEFINE n == row[ev[w]].attempts
           a == row[ev[w]].age
    <2>1. /\ failures' \in [Event -> Nat] /\ failures'[ev[w]] = n
          /\ \A e \in Event : e # ev[w] => failures'[e] = failures[e]
      BY <1>1, <1>3 DEF Fail
    <2>2. Finish(w, "failed", n, a)
      BY <1>3 DEF Fail
    <2>3. n \in Nat /\ a \in 0..MaxWait
      BY <1>1
    <2> HIDE DEF n, a
    <2>4. n = failures'[ev[w]] + (IF "failed" \in {"done", "ignored"} THEN 1 ELSE 0)
      BY <2>1, <2>3
    <2>5. "failed" \in Status \ {"processing"}
      OBVIOUS
    <2> QED
      BY <2>1, <2>2, <2>3, <2>4, <2>5, FinishConsistent
  <1>4. CASE Defer(w)
    <2>1. Refund(row[ev[w]].attempts) = failures[ev[w]] /\ failures[ev[w]] \in Nat
      BY <1>1 DEF Refund
    <2>2. Finish(w, "waiting", failures[ev[w]], seen[w] + 1) /\ failures' = failures
      BY <1>4, <2>1 DEF Defer
    <2>3. seen[w] + 1 \in 0..MaxWait
      BY <1>1, <1>4, LimitsAssumption DEF Defer
    <2> QED
      BY <1>1, <2>1, <2>2, <2>3, FinishConsistent
  <1>5. CASE Expire(w)
    <2>1. /\ failures' \in [Event -> Nat] /\ failures'[ev[w]] = MaxAttempts
          /\ \A e \in Event : e # ev[w] => failures'[e] = failures[e]
      BY <1>1, <1>5, LimitsAssumption DEF Expire
    <2>2. Finish(w, "failed", MaxAttempts, row[ev[w]].age)
      BY <1>5 DEF Expire
    <2>3. row[ev[w]].age \in 0..MaxWait
      BY <1>1
    <2> QED
      BY <1>1, <2>1, <2>2, <2>3, FinishConsistent, LimitsAssumption
  <1> QED
    BY <1>2, <1>3, <1>4, <1>5

LEMMA AckConsistent ==
    ASSUME Consistent, NEW w \in Worker, Ack(w)  PROVE Consistent'
  <1>1. StreamOK' /\ \A m \in Message : stream'[m].state # "free" => stream'[m].event \in Event
    BY DEF Consistent, TypeOK, StreamOK, Named, Ack, XAck
  <1>2. Named'
    BY <1>1 DEF Consistent, TypeOK, Named, Ack
  <1>3. OneWorker' /\ AttemptsAreFailures'
    BY DEF Consistent, TypeOK, OneWorker, AttemptsAreFailures, Ack
  <1> QED
    BY <1>1, <1>2, <1>3 DEF Consistent, TypeOK, Ack

LEMMA WorkerConsistent ==
    ASSUME Consistent, NEW w \in Worker, WorkerStep(w)  PROVE Consistent'
  <1>1. CASE TryMarkRefused(w)
    BY <1>1, GiveUpConsistent DEF TryMarkRefused, Consistent, TypeOK
  <1>2. CASE StatementFails(w)
    BY <1>2, GiveUpConsistent, LimitsAssumption DEF StatementFails, Fault, Consistent, TypeOK
  <1> QED
    BY <1>1, <1>2, ReadConsistent, TryMarkConsistent, OutcomeConsistent, AckConsistent
       DEF WorkerStep

LEMMA RestartConsistent ==
    ASSUME Consistent, Restart  PROVE Consistent'
  BY LimitsAssumption
     DEF Consistent, TypeOK, StreamOK, Named, OneWorker, AttemptsAreFailures, Restart, Fault

LEMMA NextConsistent == Consistent /\ [Next]_vars => Consistent'
  <1> SUFFICES ASSUME Consistent, [Next]_vars  PROVE Consistent'
    OBVIOUS
  <1>1. CASE UNCHANGED vars
    BY <1>1 DEF vars, Consistent, TypeOK, StreamOK, Named, OneWorker, AttemptsAreFailures
  <1>2. CASE Operator
    BY <1>2, ReceiveConsistent, ReplayConsistent, CancelConsistent DEF Operator
  <1> QED
    BY <1>1, <1>2, CallConsistent, LoopConsistent, WorkerConsistent, TakeConsistent,
       RestartConsistent, LimitsAssumption
       DEF Next

-----------------------------------------------------------------------------
(* Theorems.                                                               *)

\* Consistent holds in every state.
THEOREM QueueConsistent == Spec => []Consistent
  BY InitConsistent, NextConsistent, PTL DEF Spec

\* One worker at a time processes an event, however many messages name it and however
\* many workers claim a message of a slow one (processIncomingEvent).
THEOREM OneWorkerHolds == Spec => []OneWorker
  <1>1. Consistent => OneWorker
    BY DEF Consistent
  <1> QED
    BY <1>1, QueueConsistent, PTL

\* Waiting for data spends no attempts (MarkIncomingWaiting).
THEOREM AttemptsHold == Spec => []AttemptsAreFailures
  <1>1. Consistent => AttemptsAreFailures
    BY DEF Consistent
  <1> QED
    BY <1>1, QueueConsistent, PTL

\* The step of an event that is closed does not write its status.
LEMMA NextKeepsClosed ==
    ASSUME Consistent, [Next]_vars, NEW e \in Event, row[e].status \in Closed
    PROVE  row'[e].status = row[e].status
  <1>1. \A w \in Worker : at[w] = "run" => ev[w] # e
    BY DEF Consistent, OneWorker
  <1>2. ASSUME NEW w \in Worker, WorkerStep(w)  PROVE row'[e] = row[e]
    <2>1. CASE TryMark(w)
      BY <2>1 DEF TryMark, Claimable, Store, Consistent, TypeOK
    <2>2. CASE Complete(w) \/ Fail(w) \/ Defer(w) \/ Expire(w)
      BY <1>1, <2>2 DEF Complete, Fail, Defer, Expire, Finish, Store, Consistent, TypeOK
    <2> QED
      BY <1>2, <2>1, <2>2 DEF WorkerStep, Read, TryMarkRefused, StatementFails, Ack
  <1>3. ASSUME Operator  PROVE row'[e] = row[e]
    BY <1>3 DEF Operator, Receive, Replay, Cancel, Store, Consistent, TypeOK
  <1>4. ASSUME NEW f \in Event, Queued(f)  PROVE row'[e].status = row[e].status
    BY <1>4 DEF Queued, Consistent, TypeOK
  <1>5. ASSUME NEW f \in Event, CallStep(f)  PROVE row'[e].status = row[e].status
    BY <1>4, <1>5 DEF CallStep, Enqueue, EnqueueFails, MarkQueued
  <1>6. ASSUME LoopStep  PROVE row'[e].status = row[e].status
    BY <1>4, <1>6 DEF LoopStep, List, DispatchMark, DispatchEnqueue, DispatchFails,
                      Consistent, TypeOK
  <1>7. ASSUME \/ \E w \in Worker, m \in Message : Deliver(w, m)
               \/ \E w \in Worker, f \in Event : Poll(w, f)
               \/ \E m \in Message : ClaimPending(m)
               \/ Restart
               \/ UNCHANGED vars
        PROVE  row' = row
    BY <1>7 DEF Deliver, ClaimPending, Poll, Restart, vars
  <1> QED
    BY <1>2, <1>3, <1>5, <1>6, <1>7 DEF Next

\* A closed event stays closed, whatever old messages, listings and replays do.
THEOREM ClosedEventsStay == Spec => ClosedStays
  <1>1. Consistent /\ [Next]_vars => [\A e \in Event :
            row[e].status \in Closed => row'[e].status = row[e].status]_vars
    BY NextKeepsClosed
  <1> QED
    BY <1>1, QueueConsistent, PTL DEF Spec, ClosedStays
=============================================================================
