------------------------------ MODULE MCPackages -------------------------------
(***************************************************************************)
(* Instances of Packages for TLC.  The calls are interchangeable, and so   *)
(* are the builds, which SYMMETRY may not say where liveness is checked.   *)
(* What is called never changes, so that it is enough to begin with one of *)
(* the choices that are the same but for the names.                        *)
(***************************************************************************)
EXTENDS Packages

CONSTANTS t1, t2, v1, v2

Place(o) == CASE o = [tool |-> "uninstall", force |-> FALSE] -> 0
              [] o = [tool |-> "uninstall", force |-> TRUE]  -> 1
              [] o = [tool |-> "install", pin |-> None]      -> 2
              [] o = [tool |-> "install", pin |-> v1]        -> 3
              [] o = [tool |-> "install", pin |-> v2]        -> 4

\* The calls in their order, and the build v2 asked for only beside v1.
MCInit ==
    /\ Init
    /\ Place(op[t1]) <= Place(op[t2])
    /\ Place(op[t2]) = 4 => Place(op[t1]) = 3

\* FairSpec from these states.
MCSpec == MCInit /\ [][Next]_vars /\ \A t \in Tasks : WF_vars(Continue(t))
===============================================================================
