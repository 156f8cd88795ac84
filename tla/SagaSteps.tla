------------------------------ MODULE SagaSteps ------------------------------
(***************************************************************************)
(* What a saga of the agent promises: its steps act in the order of the    *)
(* plan, each at least once, and it is reported as completed only when all *)
(* of them have, or when the plan turned out to be needless: a self-update *)
(* whose target runs already.                                              *)
(*                                                                         *)
(* The step that installs the target does so itself, or, detached, starts  *)
(* something that does it later, or fails to, and may even undo it.        *)
(***************************************************************************)
EXTENDS Integers

CONSTANTS
    N,           \* the number of steps
    Apply        \* the step that installs the target

VARIABLES
    did,         \* the steps that acted
    installed,   \* the target is installed
    runs,        \* the target runs
    detached,    \* Apply starts the installation and does not wait for it
    outcome      \* "open", or "completed" once the server was told so

vars == <<did, installed, runs, detached, outcome>>

Init ==
    /\ did = {}
    /\ installed \in BOOLEAN /\ runs = installed
    /\ detached \in BOOLEAN
    /\ outcome = "open"

Do(s) ==
    /\ 1..(s - 1) \subseteq did
    /\ did' = did \cup {s}
    /\ installed' = (installed \/ (s = Apply /\ ~detached))
    /\ UNCHANGED <<runs, detached, outcome>>

\* What a detached installation comes to.
Install ==
    /\ detached /\ Apply \in did
    /\ installed' \in BOOLEAN
    /\ UNCHANGED <<did, runs, detached, outcome>>

Start ==
    /\ runs' = installed
    /\ UNCHANGED <<did, installed, detached, outcome>>

Finish ==
    /\ did = 1..N \/ runs
    /\ outcome' = "completed"
    /\ UNCHANGED <<did, installed, runs, detached>>

Next == (\E s \in 1..N : Do(s)) \/ Install \/ Start \/ Finish

Spec == Init /\ [][Next]_vars
=============================================================================
