--------------------------- MODULE MCFileSystem ---------------------------
(* The file system for TLC: names and cell values are interchangeable.      *)
EXTENDS FileSystem, TLC

Symmetry == Permutations(Name) \cup Permutations(Value)
=============================================================================
