--------------------------- MODULE MCEntityDeletion ---------------------------
(* Servers are told apart by nothing but their rows, and users by nothing    *)
(* but their own.                                                            *)
EXTENDS EntityDeletion

Symmetry == Permutations(Entity) \cup Permutations(User)
=============================================================================
