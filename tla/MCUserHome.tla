------------------------------ MODULE MCUserHome ------------------------------
(* Instances of UserHome for TLC.                                          *)
EXTENDS UserHome, TLC

\* The volumes, and the calls, are interchangeable.
Symmetry == Permutations(Tasks) \cup Permutations(Volumes)
===============================================================================
