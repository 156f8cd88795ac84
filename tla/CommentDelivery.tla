--------------------------- MODULE CommentDelivery ---------------------------
(***************************************************************************)
(* What the journal of outgoing comments promises to the user of a ticket: *)
(* a comment appears in the timeline of the Bitrix24 deal at most once,    *)
(* and the ticket learns which Bitrix24 comment it is, once and for all.   *)
(* Retries, lost answers, webhooks and restarts do not show.               *)
(***************************************************************************)

CONSTANT Comment

VARIABLE stage

Stages == {"unsent", "delivered", "linked"}

Init == stage = [c \in Comment |-> "unsent"]

\* The one copy of c appears in the timeline.
Deliver(c) ==
    /\ stage[c] = "unsent"
    /\ stage' = [stage EXCEPT ![c] = "delivered"]

\* The ticket learns the identifier of that copy.
Learn(c) ==
    /\ stage[c] = "delivered"
    /\ stage' = [stage EXCEPT ![c] = "linked"]

Next == \E c \in Comment : Deliver(c) \/ Learn(c)

Spec == Init /\ [][Next]_stage

\* A delivered comment does not stay unknown to the ticket.
Arrives == \A c \in Comment : stage[c] = "delivered" ~> stage[c] = "linked"
=============================================================================
