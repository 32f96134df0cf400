------------------------------ MODULE MCSshAccess ------------------------------
(* Instances of SshAccess for TLC.                                         *)
EXTENDS SshAccess, TLC

\* The calls are interchangeable.
Symmetry == Permutations(Tasks)
===============================================================================
