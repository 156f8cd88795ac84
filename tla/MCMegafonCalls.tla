--------------------------- MODULE MCMegafonCalls ---------------------------
(***************************************************************************)
(* Two calls.  The first is transferred to the second, which is answered   *)
(* before and names the first when it ends: the last two events lock both  *)
(* calls, and name them the other way round.                               *)
(***************************************************************************)
EXTENDS MegafonCalls

CONSTANTS accepted, transferred, completed

MCOf == [e \in Event |-> IF e = transferred THEN 1 ELSE 2]

MCSecond ==
    [e \in Event |-> CASE e = transferred -> 2 [] e = completed -> 1 [] OTHER -> NoCall]

MCSays ==
    [e \in Event |-> CASE e = transferred -> 30 [] e = completed -> 50 [] OTHER -> 20]
=============================================================================
