---------------------------- MODULE MCOpenFiles ----------------------------
(* Open files for TLC: slab objects and names are interchangeable.           *)
EXTENDS OpenFiles, TLC

Symmetry == Permutations(FileObj) \cup Permutations(DentryObj) \cup Permutations(Name)
=============================================================================
