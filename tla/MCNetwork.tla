------------------------------- MODULE MCNetwork -------------------------------
(* Instances of Network for TLC.                                           *)
EXTENDS Network, TLC

\* The interfaces and the speeds are interchangeable.
Symmetry == Permutations(Nics) \cup Permutations(Speeds)
===============================================================================
