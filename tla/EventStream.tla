---------------------------- MODULE EventStream ----------------------------
(***************************************************************************)
(* A Redis stream with one consumer group, as the queues of incoming       *)
(* events use it: XADD appends a message that names an event, XREADGROUP   *)
(* hands a message to one consumer and keeps it as pending, XACK takes it  *)
(* out, and XPENDING with XCLAIM hand a message that has been pending for  *)
(* a minute to another consumer, whether the first one died or is slow.    *)
(*                                                                         *)
(* The consumers of a group work in parallel, so the order of the messages *)
(* means nothing to them.  A message that was acknowledged is used again   *)
(* for a later XADD once no worker holds it; Message bounds how many are   *)
(* in flight, not how many are ever sent.                                  *)
(***************************************************************************)

CONSTANTS
    Event,       \* rows of the table of incoming events
    Message,     \* messages in the stream at a time
    Worker,      \* goroutines that process messages
    NoEvent, NoMessage

ASSUME StreamAssumption == NoEvent \notin Event /\ NoMessage \notin Message

VARIABLES
    stream,      \* what became of a message, and the event it names
    msg          \* the message a worker is to acknowledge, or NoMessage

streamVars == <<stream, msg>>

StreamOK ==
    /\ stream \in [Message -> [state : {"free", "queued", "pending"},
                               event : Event \cup {NoEvent}]]
    /\ msg \in [Worker -> Message \cup {NoMessage}]

StreamInit ==
    /\ stream = [m \in Message |-> [state |-> "free", event |-> NoEvent]]
    /\ msg = [w \in Worker |-> NoMessage]

XAdd(e) ==
    \E m \in Message :
        /\ stream[m].state = "free"
        /\ \A w \in Worker : msg[w] # m
        /\ stream' = [stream EXCEPT ![m] = [state |-> "queued", event |-> e]]

XReadGroup(w, m) ==
    /\ stream[m].state = "queued"
    /\ stream' = [stream EXCEPT ![m].state = "pending"]
    /\ msg' = [msg EXCEPT ![w] = m]

XClaim(w, m) ==
    /\ stream[m].state = "pending"
    /\ msg' = [msg EXCEPT ![w] = m]
    /\ UNCHANGED stream

\* A message that was acknowledged before is not there any more.
XAck(w) ==
    /\ stream' = [m \in Message |->
                    IF m = msg[w] /\ stream[m].state = "pending"
                    THEN [state |-> "free", event |-> NoEvent]
                    ELSE stream[m]]
    /\ msg' = [msg EXCEPT ![w] = NoMessage]

\* Nobody is left who could acknowledge m.
Orphaned(m) == stream[m].state = "pending" /\ \A w \in Worker : msg[w] # m
=============================================================================
