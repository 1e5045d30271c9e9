--------------------------- MODULE MCFleetManager ---------------------------
(***************************************************************************)
(* Small instances of FleetManager.  Rental codes and threads play the     *)
(* same part each, so safety runs may permute them; vehicles differ by     *)
(* membership of SeedFleet and stay fixed.                                 *)
(***************************************************************************)
EXTENDS FleetManager, TLC

Symmetry == Permutations(Threads) \cup Permutations(Codes)
=============================================================================
