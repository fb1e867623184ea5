---------------------------- MODULE MCListServer ----------------------------
(* A small heap for TLC.                                                   *)
EXTENDS ListServer, TLC

\* The nodes malloc gives out are interchangeable.
Symmetry == Permutations(Nodes)
=============================================================================
