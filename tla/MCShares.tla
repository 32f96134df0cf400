------------------------------- MODULE MCShares --------------------------------
(* Instances of Shares for TLC.                                            *)
EXTENDS Shares, TLC

\* The volumes, the flags and the calls are interchangeable.
Symmetry == Permutations(Tasks) \cup Permutations(Volumes) \cup Permutations(Flags)
===============================================================================
