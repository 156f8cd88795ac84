----------------------------- MODULE MCAgentLink -----------------------------
(* Two commands for one saga: the second is enqueued after the first.      *)
EXTENDS AgentLink

MCSagaOf == [c \in Cmd |-> "self_update"]
=============================================================================
