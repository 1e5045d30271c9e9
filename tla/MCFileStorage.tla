--------------------------- MODULE MCFileStorage ---------------------------
(***************************************************************************)
(* Small instances of FileStorage.  The entries of a table play the same   *)
(* part each.                                                              *)
(***************************************************************************)
EXTENDS FileStorage, TLC

Symmetry == Permutations(Entries)
=============================================================================
