-------------------------- MODULE BitrixQueueProofs --------------------------
(***************************************************************************)
(* No event of Bitrix24 is forgotten before it was handled, for any number *)
(* of events, messages, workers, restarts and failed statements.           *)
(*                                                                         *)
(* The argument follows a message: it is taken out of the stream only by a *)
(* worker whose event was handled or could not be read (WorkersOK), and a  *)
(* row leaves "new" only when a message names it or has done so and is     *)
(* gone for that reason (AnnouncedOK).                                     *)
(***************************************************************************)
EXTENDS BitrixQueue, TLAPS

Known == handled \cup unread

Busy == {"read", "mark", "run", "store"}

MessagesOK == \A m \in Message : stream[m].state # "free" => stream[m].event \in Event

\* What a worker knows about the message it holds.
Holds(w) ==
    /\ at[w] # "idle" => msg[w] \in Message /\ stream[msg[w]].state # "queued"
    /\ at[w] \in Busy =>
        /\ ev[w] \in Event
        /\ stream[msg[w]].state = "pending" => stream[msg[w]].event = ev[w]
        /\ stream[msg[w]].state = "free" => ev[w] \in Known
    /\ at[w] = "store" => ev[w] \in handled /\ result[w] \in Outcome
    /\ at[w] = "ack" /\ stream[msg[w]].state = "pending" => stream[msg[w]].event \in Known

WorkersOK == \A w \in Worker : Holds(w)

AnnouncedOK ==
    \A e \in Event : call[e] = "mark" \/ marking = e => Named(e) \/ e \in Known

Tracked == MessagesOK /\ WorkersOK /\ AnnouncedOK /\ NeverForgotten

Consistent == TypeOK /\ Tracked

USE DEF Status, Outcome, streamVars, workerVars

LEMMA InitConsistent == Init => Consistent
  <1> SUFFICES ASSUME Init PROVE Consistent
    OBVIOUS
  <1>1. StreamOK
    BY StreamAssumption DEF Init, StreamInit, StreamOK
  <1>2. TypeOK
    BY <1>1, LimitsAssumption DEF Init, TypeOK
  <1>3. MessagesOK
    BY DEF Init, StreamInit, MessagesOK
  <1>4. WorkersOK
    BY DEF Init, WorkersOK, Holds, Busy
  <1>5. AnnouncedOK
    BY StreamAssumption DEF Init, AnnouncedOK
  <1>6. NeverForgotten
    BY DEF Init, NeverForgotten
  <1> QED
    BY <1>2, <1>3, <1>4, <1>5, <1>6 DEF Consistent, Tracked

-----------------------------------------------------------------------------
(* The stream.                                                             *)

\* A message that is added touches no message somebody holds.
LEMMA XAddFacts ==
    ASSUME Consistent, NEW e \in Event, XAdd(e), UNCHANGED msg
    PROVE  /\ StreamOK' /\ MessagesOK' /\ Named(e)'
           /\ \A f \in Event : Named(f) => Named(f)'
           /\ \A w \in Worker : at[w] # "idle" => stream'[msg[w]] = stream[msg[w]]
  <1>1. PICK m \in Message :
            /\ stream[m].state = "free"
            /\ \A w \in Worker : msg[w] # m
            /\ stream' = [stream EXCEPT ![m] = [state |-> "queued", event |-> e]]
    BY DEF XAdd
  <1>2. StreamOK' /\ MessagesOK'
    BY <1>1 DEF Consistent, Tracked, TypeOK, StreamOK, MessagesOK
  <1>3. stream'[m].state = "queued" /\ stream'[m].event = e
    BY <1>1 DEF Consistent, TypeOK, StreamOK
  <1>4. \A n \in Message : n # m => stream'[n] = stream[n]
    BY <1>1 DEF Consistent, TypeOK, StreamOK
  <1>5. \A f \in Event : Named(f) => Named(f)'
    BY <1>1, <1>4 DEF Named
  <1>6. \A w \in Worker : at[w] # "idle" => stream'[msg[w]] = stream[msg[w]]
    BY <1>1, <1>4 DEF Consistent, Tracked, WorkersOK, Holds
  <1> QED
    BY <1>2, <1>3, <1>5, <1>6 DEF Named

\* A worker that neither changes its own state nor sees its message change.
LEMMA HoldsKept ==
    ASSUME Consistent, NEW w \in Worker,
           at'[w] = at[w], ev'[w] = ev[w], result'[w] = result[w], msg'[w] = msg[w],
           at[w] # "idle" => stream'[msg[w]] = stream[msg[w]],
           handled \subseteq handled', unread \subseteq unread'
    PROVE  Holds(w)'
  BY DEF Consistent, Tracked, WorkersOK, Holds, Busy, Known

\* A step that leaves workers alone, drops no message, and marks at most the row of an
\* event that is named or known.
LEMMA RowsKeep ==
    ASSUME Consistent, MessagesOK',
           UNCHANGED <<msg, at, ev, result, handled, unread>>,
           \A f \in Event : Named(f) => Named(f)',
           \A w \in Worker : at[w] # "idle" => stream'[msg[w]] = stream[msg[w]],
           \A e \in Event : \/ row'[e] = row[e]
                            \/ row'[e].status = "new"
                            \/ Named(e)' \/ e \in Known,
           \A e \in Event : call'[e] = "mark" =>
                               call[e] = "mark" \/ Named(e)' \/ e \in Known,
           \A e \in Event : marking' = e => marking = e \/ Named(e)' \/ e \in Known
    PROVE  Tracked'
  <1>1. WorkersOK'
    BY HoldsKept DEF WorkersOK
  <1>2. AnnouncedOK' /\ NeverForgotten'
    BY DEF Consistent, Tracked, AnnouncedOK, NeverForgotten, Known
  <1> QED
    BY <1>1, <1>2 DEF Tracked

\* The premises of RowsKeep about the stream when it does not change.
LEMMA StreamKept ==
    ASSUME Consistent, UNCHANGED stream
    PROVE  /\ MessagesOK'
           /\ \A f \in Event : Named(f) <=> Named(f)'
           /\ \A w \in Worker : at[w] # "idle" => stream'[msg[w]] = stream[msg[w]]
  BY DEF Consistent, Tracked, MessagesOK, Named

-----------------------------------------------------------------------------
(* HandleWebhook and dispatchLoop.                                         *)

LEMMA MarkTypes ==
    ASSUME TypeOK, NEW e \in Event, NEW s \in Status, Mark(e, s)
    PROVE  /\ row' \in [Event -> [status : Status, attempts : Nat]]
           /\ row'[e].status = s
           /\ \A f \in Event : f # e => row'[f] = row[f]
  BY DEF TypeOK, Mark

LEMMA ReceiveConsistent ==
    ASSUME Consistent, NEW e \in Event, Receive(e)  PROVE Consistent'
  <1>1. /\ row' \in [Event -> [status : Status, attempts : Nat]]
        /\ row'[e].status = "new" /\ \A f \in Event : f # e => row'[f] = row[f]
    BY MarkTypes DEF Receive, Consistent
  <1>2. /\ call' \in [Event -> {"idle", "enqueue", "mark"}]
        /\ \A f \in Event : call'[f] = "mark" => call[f] = "mark"
    BY DEF Receive, Consistent, TypeOK
  <1>3. UNCHANGED <<stream, msg, marking, at, ev, result, handled, unread>>
    BY DEF Receive
  <1>4. Tracked'
    BY <1>1, <1>2, <1>3, StreamKept, RowsKeep
  <1> QED
    BY <1>1, <1>2, <1>4 DEF Receive, Consistent, TypeOK, StreamOK

LEMMA CallConsistent ==
    ASSUME Consistent, NEW e \in Event, CallStep(e)  PROVE Consistent'
  <1>1. CASE Enqueue(e)
    <2>1. /\ StreamOK' /\ MessagesOK' /\ Named(e)'
          /\ \A f \in Event : Named(f) => Named(f)'
          /\ \A w \in Worker : at[w] # "idle" => stream'[msg[w]] = stream[msg[w]]
      BY <1>1, XAddFacts DEF Enqueue
    <2>2. /\ call' \in [Event -> {"idle", "enqueue", "mark"}]
          /\ \A f \in Event : call'[f] = "mark" => call[f] = "mark" \/ f = e
      BY <1>1 DEF Enqueue, Consistent, TypeOK
    <2>3. UNCHANGED <<row, msg, marking, at, ev, result, handled, unread>>
      BY <1>1 DEF Enqueue
    <2>4. Tracked'
      BY <2>1, <2>2, <2>3, RowsKeep
    <2> QED
      BY <1>1, <2>1, <2>2, <2>4 DEF Enqueue, Consistent, TypeOK
  <1>2. CASE EnqueueFails(e)
    <2>1. /\ call' \in [Event -> {"idle", "enqueue", "mark"}]
          /\ \A f \in Event : call'[f] = "mark" => call[f] = "mark"
      BY <1>2 DEF EnqueueFails, Consistent, TypeOK
    <2>2. UNCHANGED <<row, stream, msg, marking, at, ev, result, handled, unread>>
      BY <1>2 DEF EnqueueFails
    <2>3. Tracked'
      BY <2>1, <2>2, StreamKept, RowsKeep
    <2> QED
      BY <1>2, <2>1, <2>3, LimitsAssumption
         DEF EnqueueFails, Fault, Consistent, TypeOK, StreamOK
  <1>3. CASE MarkQueued(e)
    <2>1. /\ row' \in [Event -> [status : Status, attempts : Nat]]
          /\ \A f \in Event : f # e => row'[f] = row[f]
      BY <1>3, MarkTypes DEF MarkQueued, Consistent
    <2>2. /\ call' \in [Event -> {"idle", "enqueue", "mark"}]
          /\ \A f \in Event : call'[f] = "mark" => call[f] = "mark"
      BY <1>3 DEF MarkQueued, Consistent, TypeOK
    <2>3. Named(e) \/ e \in Known
      BY <1>3 DEF MarkQueued, Consistent, Tracked, AnnouncedOK
    <2>4. UNCHANGED <<stream, msg, marking, at, ev, result, handled, unread>>
      BY <1>3 DEF MarkQueued
    <2>5. Tracked'
      BY <2>1, <2>2, <2>3, <2>4, StreamKept, RowsKeep
    <2> QED
      BY <1>3, <2>1, <2>2, <2>5 DEF MarkQueued, Consistent, TypeOK, StreamOK
  <1> QED
    BY <1>1, <1>2, <1>3 DEF CallStep

LEMMA LoopConsistent ==
    ASSUME Consistent, LoopStep  PROVE Consistent'
  <1>1. CASE List
    <2>1. UNCHANGED <<row, call, stream, msg, marking, at, ev, result, handled, unread>>
      BY <1>1 DEF List
    <2>2. Tracked'
      BY <2>1, StreamKept, RowsKeep
    <2> QED
      BY <1>1, <2>2 DEF List, Consistent, TypeOK, StreamOK
  <1>2. CASE DispatchMark
    <2>0. marking \in Event
      BY <1>2 DEF DispatchMark, Consistent, TypeOK
    <2>1. /\ row' \in [Event -> [status : Status, attempts : Nat]]
          /\ \A f \in Event : f # marking => row'[f] = row[f]
      BY <1>2, <2>0, MarkTypes DEF DispatchMark, Consistent
    <2>2. Named(marking) \/ marking \in Known
      BY <1>2, <2>0 DEF Consistent, Tracked, AnnouncedOK
    <2>3. /\ UNCHANGED <<call, stream, msg, at, ev, result, handled, unread>>
          /\ marking' = NoEvent
      BY <1>2 DEF DispatchMark
    <2>4. Tracked'
      BY <2>0, <2>1, <2>2, <2>3, StreamKept, RowsKeep, StreamAssumption
    <2> QED
      BY <1>2, <2>1, <2>4 DEF DispatchMark, Consistent, TypeOK, StreamOK
  <1>3. ASSUME NEW e \in Event, DispatchEnqueue(e)  PROVE Consistent'
    <2>1. /\ StreamOK' /\ MessagesOK' /\ Named(e)'
          /\ \A f \in Event : Named(f) => Named(f)'
          /\ \A w \in Worker : at[w] # "idle" => stream'[msg[w]] = stream[msg[w]]
      BY <1>3, XAddFacts DEF DispatchEnqueue
    <2>2. UNCHANGED <<row, call, msg, at, ev, result, handled, unread>> /\ marking' = e
      BY <1>3 DEF DispatchEnqueue
    <2>3. Tracked'
      BY <2>1, <2>2, RowsKeep
    <2> QED
      BY <1>3, <2>1, <2>3 DEF DispatchEnqueue, Consistent, TypeOK
  <1>4. ASSUME NEW e \in Event, DispatchFails(e)  PROVE Consistent'
    <2>1. UNCHANGED <<row, call, stream, msg, marking, at, ev, result, handled, unread>>
      BY <1>4 DEF DispatchFails
    <2>2. Tracked'
      BY <2>1, StreamKept, RowsKeep
    <2> QED
      BY <1>4, <2>2, LimitsAssumption DEF DispatchFails, Fault, Consistent, TypeOK, StreamOK
  <1> QED
    BY <1>1, <1>2, <1>3, <1>4 DEF LoopStep

-----------------------------------------------------------------------------
(* The workers.                                                            *)

\* A step of one worker that keeps what is named, and stores a result of a known event
\* at most.
LEMMA WorkerKeeps ==
    ASSUME Consistent, NEW w \in Worker, MessagesOK', Holds(w)',
           UNCHANGED <<call, marking>>,
           handled \subseteq handled', unread \subseteq unread',
           \A v \in Worker : v # w =>
                at'[v] = at[v] /\ ev'[v] = ev[v] /\ result'[v] = result[v] /\ msg'[v] = msg[v],
           \A v \in Worker : v # w /\ at[v] # "idle" => stream'[msg[v]] = stream[msg[v]],
           \A f \in Event : Named(f) => Named(f)',
           \A e \in Event : row'[e] = row[e] \/ Named(e) \/ e \in Known
    PROVE  Tracked'
  <1>1. WorkersOK'
    BY HoldsKept DEF WorkersOK
  <1>2. AnnouncedOK' /\ NeverForgotten'
    BY DEF Consistent, Tracked, AnnouncedOK, NeverForgotten, Known
  <1> QED
    BY <1>1, <1>2 DEF Tracked

\* A message that changes hands: it was queued, or the claimer takes it.
LEMMA TakeConsistent ==
    ASSUME Consistent, NEW w \in Worker, NEW m \in Message, at[w] = "idle",
           stream[m].state # "free", Take(w, stream[m].event),
           stream' = [stream EXCEPT ![m].state = "pending"],
           msg' = [msg EXCEPT ![w] = m],
           stream[m].state = "queued" \/ stream[m].state = "pending",
           UNCHANGED <<row, call, todo, marking, handled, unread, faults>>
    PROVE  Consistent'
  <1>1. stream[m].event \in Event
    BY DEF Consistent, Tracked, MessagesOK
  <1>2. /\ stream'[m].state = "pending" /\ stream'[m].event = stream[m].event
        /\ \A n \in Message : n # m => stream'[n] = stream[n]
        /\ StreamOK'
    BY DEF Consistent, TypeOK, StreamOK
  <1>3. MessagesOK'
    BY <1>1, <1>2 DEF Consistent, Tracked, MessagesOK
  <1>4. /\ at'[w] = "read" /\ ev'[w] = stream[m].event /\ msg'[w] = m
        /\ \A v \in Worker : v # w =>
              at'[v] = at[v] /\ ev'[v] = ev[v] /\ result'[v] = result[v] /\ msg'[v] = msg[v]
    BY DEF Take, Consistent, TypeOK, StreamOK
  <1>5. Holds(w)'
    BY <1>1, <1>2, <1>4 DEF Holds, Busy
  <1>6. \A v \in Worker : v # w /\ at[v] # "idle" => stream'[msg[v]] = stream[msg[v]]
    <2> SUFFICES ASSUME NEW v \in Worker, v # w, at[v] # "idle", msg[v] = m
                 PROVE  stream'[m] = stream[m]
      BY <1>2 DEF Consistent, Tracked, WorkersOK, Holds
    <2>1. stream[m].state = "pending"
      BY DEF Consistent, Tracked, WorkersOK, Holds
    <2> QED
      BY <2>1 DEF Consistent, TypeOK, StreamOK
  <1>7. \A f \in Event : Named(f) => Named(f)'
    BY <1>2 DEF Named
  <1>8. Tracked'
    BY <1>3, <1>4, <1>5, <1>6, <1>7, WorkerKeeps
  <1> QED
    BY <1>1, <1>2, <1>8 DEF Take, Consistent, TypeOK

LEMMA DeliverConsistent ==
    ASSUME Consistent, NEW w \in Worker, NEW m \in Message,
           Deliver(w, m) \/ (w = Claimer /\ ClaimPending(m))
    PROVE  Consistent'
  <1>1. CASE Deliver(w, m)
    BY <1>1, TakeConsistent DEF Deliver, XReadGroup
  <1>2. CASE w = Claimer /\ ClaimPending(m)
    <2>1. stream' = [stream EXCEPT ![m].state = "pending"]
      BY <1>2 DEF ClaimPending, XClaim, Consistent, TypeOK, StreamOK
    <2> QED
      BY <1>2, <2>1, TakeConsistent DEF ClaimPending, XClaim
  <1> QED
    BY <1>1, <1>2

\* The steps between the delivery and the acknowledgement.
LEMMA ProcessConsistent ==
    ASSUME Consistent, NEW w \in Worker,
           \/ Read(w) \/ ReadFails(w) \/ MarkProcessing(w) \/ MarkProcessingFails(w)
           \/ Handle(w) \/ StoreResult(w) \/ StoreFails(w)
    PROVE  Consistent'
  <1>1. /\ at[w] \in Busy /\ ev[w] \in Event /\ msg[w] \in Message
        /\ stream[msg[w]].state \in {"free", "pending"}
        /\ stream[msg[w]].state = "pending" => stream[msg[w]].event = ev[w]
        /\ stream[msg[w]].state = "free" => ev[w] \in Known
    BY DEF Consistent, Tracked, WorkersOK, Holds, Busy, TypeOK, StreamOK, Read, ReadFails,
           MarkProcessing, MarkProcessingFails, Handle, StoreResult, StoreFails
  <1>2. Named(ev[w]) \/ ev[w] \in Known
    BY <1>1 DEF Named
  <1>3. /\ UNCHANGED <<stream, msg, call, todo, marking>>
        /\ handled \subseteq handled' /\ unread \subseteq unread'
    BY DEF Read, ReadFails, MarkProcessing, MarkProcessingFails, Handle, StoreResult, StoreFails
  <1>4. /\ MessagesOK'
        /\ \A f \in Event : Named(f) => Named(f)'
        /\ \A v \in Worker : at[v] # "idle" => stream'[msg[v]] = stream[msg[v]]
    BY <1>3, StreamKept
  <1>5. /\ at' \in [Worker -> {"idle", "read", "mark", "run", "store", "ack"}]
        /\ ev' \in [Worker -> Event \cup {NoEvent}]
        /\ result' \in [Worker -> Outcome \cup {"none"}]
        /\ \A v \in Worker : v # w =>
              at'[v] = at[v] /\ ev'[v] = ev[v] /\ result'[v] = result[v] /\ msg'[v] = msg[v]
    BY <1>3 DEF Consistent, TypeOK, Leave, Read, ReadFails, MarkProcessing,
                MarkProcessingFails, Handle, StoreResult, StoreFails
  <1>6. Holds(w)'
    <2>1. CASE Read(w) \/ MarkProcessing(w) \/ MarkProcessingFails(w)
      BY <1>1, <1>3, <2>1 DEF Holds, Busy, Known, Consistent, TypeOK,
                              Read, MarkProcessing, MarkProcessingFails
    <2>2. CASE Handle(w)
      BY <1>1, <1>3, <2>2 DEF Holds, Busy, Known, Consistent, TypeOK, Handle
    <2>3. CASE ReadFails(w)
      BY <1>1, <1>3, <2>3 DEF Holds, Busy, Known, Consistent, TypeOK, ReadFails
    <2>4. CASE StoreResult(w) \/ StoreFails(w)
      <3>1. ev[w] \in handled
        BY <2>4 DEF Consistent, Tracked, WorkersOK, Holds, StoreResult, StoreFails
      <3>2. at'[w] = "ack" /\ handled' = handled
        BY <2>4 DEF Consistent, TypeOK, StoreResult, StoreFails, Leave
      <3> QED
        BY <1>1, <1>3, <3>1, <3>2 DEF Holds, Busy, Known
    <2> QED
      BY <2>1, <2>2, <2>3, <2>4
  <1>7. /\ row' \in [Event -> [status : Status, attempts : Nat]]
        /\ \A e \in Event : e # ev[w] => row'[e] = row[e]
    <2>1. CASE MarkProcessing(w)
      BY <1>1, <2>1 DEF MarkProcessing, Consistent, TypeOK
    <2>2. CASE StoreResult(w)
      <3>1. result[w] \in Status
        BY <2>2 DEF StoreResult, Consistent, Tracked, WorkersOK, Holds
      <3> QED
        BY <1>1, <2>2, <3>1, MarkTypes DEF StoreResult, Consistent
    <2> QED
      BY <2>1, <2>2 DEF Read, ReadFails, MarkProcessingFails, Handle, StoreFails,
                        Consistent, TypeOK
  <1>8. Tracked'
    BY <1>2, <1>3, <1>4, <1>5, <1>6, <1>7, WorkerKeeps
  <1>9. handled' \subseteq Event /\ unread' \subseteq Event /\ faults' \in 0..MaxFaults
    BY <1>1, LimitsAssumption
       DEF Consistent, TypeOK, Fault, Read, ReadFails, MarkProcessing, MarkProcessingFails,
           Handle, StoreResult, StoreFails
  <1> QED
    BY <1>3, <1>5, <1>7, <1>8, <1>9 DEF Consistent, TypeOK, StreamOK

\* The message that goes away named a known event, and so do the others' views of it.
LEMMA AckConsistent ==
    ASSUME Consistent, NEW w \in Worker, Ack(w)  PROVE Consistent'
  <1> DEFINE m == msg[w]
  <1>1. /\ at[w] = "ack" /\ m \in Message
        /\ stream[m].state \in {"free", "pending"}
        /\ stream[m].state = "pending" => stream[m].event \in Known
    BY DEF Ack, Acked, Consistent, Tracked, WorkersOK, Holds, TypeOK, StreamOK
  <1>2. /\ StreamOK' /\ stream'[m].state = "free"
        /\ \A n \in Message : n # m => stream'[n] = stream[n]
        /\ \A n \in Message : stream'[n].state # "free" => stream'[n] = stream[n]
    BY <1>1 DEF Ack, XAck, Consistent, TypeOK, StreamOK
  <1>3. /\ at'[w] = "idle"
        /\ at' \in [Worker -> {"idle", "read", "mark", "run", "store", "ack"}]
        /\ \A v \in Worker : v # w => at'[v] = at[v] /\ msg'[v] = msg[v]
        /\ UNCHANGED <<row, call, todo, marking, ev, result, handled, unread, faults>>
    BY <1>1 DEF Ack, XAck, Consistent, TypeOK, StreamOK
  <1>4. MessagesOK'
    BY <1>2 DEF Consistent, Tracked, MessagesOK
  <1>5. \A e \in Event : Named(e) => Named(e)' \/ e \in Known
    BY <1>1, <1>2 DEF Named
  <1>6. \A v \in Worker : Holds(v)'
    <2> SUFFICES ASSUME NEW v \in Worker, v # w  PROVE Holds(v)'
      BY <1>3 DEF Holds, Busy
    <2>1. CASE at[v] # "idle" /\ msg[v] = m
      BY <1>1, <1>2, <1>3, <2>1 DEF Consistent, Tracked, WorkersOK, Holds, Busy, Known
    <2>2. CASE at[v] = "idle" \/ msg[v] # m
      BY <1>2, <1>3, <2>2 DEF Consistent, Tracked, WorkersOK, Holds, Busy, Known
    <2> QED
      BY <2>1, <2>2
  <1>7. Tracked'
    BY <1>3, <1>4, <1>5, <1>6
       DEF Consistent, Tracked, WorkersOK, AnnouncedOK, NeverForgotten, Known
  <1> QED
    BY <1>2, <1>3, <1>7 DEF Consistent, TypeOK

LEMMA RestartConsistent ==
    ASSUME Consistent, Restart  PROVE Consistent'
  <1>1. TypeOK'
    BY LimitsAssumption DEF Consistent, TypeOK, StreamOK, Restart, Fault
  <1>2. WorkersOK' /\ MessagesOK'
    BY DEF Consistent, Tracked, WorkersOK, Holds, Busy, MessagesOK, Restart
  <1>3. AnnouncedOK' /\ NeverForgotten'
    BY StreamAssumption
       DEF Consistent, Tracked, AnnouncedOK, NeverForgotten, Known, Named, Restart
  <1> QED
    BY <1>1, <1>2, <1>3 DEF Consistent, Tracked

LEMMA NextConsistent == Consistent /\ [Next]_vars => Consistent'
  <1> SUFFICES ASSUME Consistent, [Next]_vars  PROVE Consistent'
    OBVIOUS
  <1>1. CASE UNCHANGED vars
    BY <1>1 DEF vars, Consistent, Tracked, TypeOK, StreamOK, MessagesOK, WorkersOK, Holds,
                Busy, AnnouncedOK, NeverForgotten, Named, Known
  <1>2. ASSUME NEW w \in Worker, WorkerStep(w)  PROVE Consistent'
    BY <1>2, ProcessConsistent, AckConsistent DEF WorkerStep
  <1> QED
    BY <1>1, <1>2, ReceiveConsistent, CallConsistent, LoopConsistent, DeliverConsistent,
       RestartConsistent, LimitsAssumption
       DEF Next

-----------------------------------------------------------------------------
(* Theorems.                                                               *)

\* The types, and why no event is forgotten, hold in every state.
THEOREM QueueConsistent == Spec => []Consistent
  BY InitConsistent, NextConsistent, PTL DEF Spec

\* However often the server stops and Redis fails, an accepted event is handled, or named
\* by a message, or listed by the dispatcher (HandleWebhook, processAndAck).
THEOREM EventsAreNotForgotten == Spec => []NeverForgotten
  <1>1. Consistent => NeverForgotten
    BY DEF Consistent, Tracked
  <1> QED
    BY <1>1, QueueConsistent, PTL
=============================================================================
