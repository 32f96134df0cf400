---------------------------- MODULE MCPackagesList -----------------------------
(* Instances of PackagesList for TLC.                                      *)
EXTENDS PackagesList, TLC

\* The calls, and the packages that nothing is special about, are
\* interchangeable.
Symmetry == Permutations(Calls) \cup Permutations(Packages \ (Asked \cup {ContainerManager}))
===============================================================================
