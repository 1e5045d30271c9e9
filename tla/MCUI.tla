-------------------------------- MODULE MCUI --------------------------------
(* UI for TLC: what fleet.txt, rentals.txt and the files of records may hold *)
(* when the program starts.                                                  *)
EXTENDS UI, TLC

CONSTANTS v1, v2, c1, c2

Load(s1, s2, r1, h1, h2) ==
    [fleet |-> v1 :> s1 @@ v2 :> s2, rentals |-> c1 :> r1 @@ c2 :> NoVehicle,
     history |-> v1 :> h1 @@ v2 :> h2]

MCLoaded == {
    Load("Available", Absent, NoVehicle, 0, 0),
    \* a rental of an earlier session, and more records than the limit
    Load("Rented", "Available", v1, 3, 0),
    \* stopped between two saves: let but with no code; a record left behind
    Load("Rented", Absent, NoVehicle, 1, 1),
    \* stopped between two saves: let under a code but not so in the fleet
    Load("Available", "Maintenance", v1, 0, 1)}
=============================================================================
