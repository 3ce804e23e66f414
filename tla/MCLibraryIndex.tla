---------------------------- MODULE MCLibraryIndex ---------------------------
(* LibraryIndex for TLC: files that nothing tells apart. *)
EXTENDS LibraryIndex, TLC

Symmetry == Permutations(Path)
=============================================================================
