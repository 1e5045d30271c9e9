---------------------------- MODULE RentalLedger ----------------------------
(***************************************************************************)
(* The rental business as one atomic object: the status of every vehicle   *)
(* and the active rental codes, with one action per mutating operation of  *)
(* FleetManager (src/src/FleetMgmt.cpp).  Each action carries the checks   *)
(* the code makes under its lock, and no others: Update, for one, does not *)
(* look at the status it overwrites.                                       *)
(***************************************************************************)
EXTENDS Naturals

CONSTANTS Vehicles, Codes, NoVehicle

VARIABLES
    status,     \* status of every vehicle id, "Absent" when not in the fleet
    active      \* vehicle of every active rental code, NoVehicle when inactive

ledger == <<status, active>>

VehicleStatus == {"Available", "Rented", "Maintenance"}

LedgerTypeOK ==
    /\ status \in [Vehicles -> VehicleStatus \cup {"Absent"}]
    /\ active \in [Codes -> Vehicles \cup {NoVehicle}]

\* FleetManager's constructor takes whatever fleet.txt and rentals.txt hold.
\* Each is saved by a call of its own, so after a stop the two may disagree.
LedgerInit == LedgerTypeOK

Put(v, s) == status' = [status EXCEPT ![v] = s]

\* Mutant: a rented vehicle may be rented again.
RentAgain(v, c) ==
    /\ status[v] \in {"Available", "Rented"} /\ Put(v, "Rented")
    /\ active[c] = NoVehicle /\ active' = [active EXCEPT ![c] = v]

Rent(v, c) ==
    /\ status[v] = "Available" /\ Put(v, "Rented")
    /\ active[c] = NoVehicle /\ active' = [active EXCEPT ![c] = v]

Return(c) ==
    /\ active[c] # NoVehicle /\ status[active[c]] # "Absent"
    /\ Put(active[c], "Available")
    /\ active' = [active EXCEPT ![c] = NoVehicle]

Add(v)       == status[v] = "Absent" /\ Put(v, "Available") /\ UNCHANGED active
Remove(v)    == status[v] \notin {"Absent", "Rented"} /\ Put(v, "Absent") /\ UNCHANGED active
Update(v, s) == status[v] # "Absent" /\ Put(v, s) /\ UNCHANGED active

\* What a caller may ask for: updateVehicleStatus only moves a vehicle that is
\* not rented between Available and Maintenance.
DisciplinedNext ==
    \/ \E v \in Vehicles, c \in Codes : Rent(v, c)
    \/ \E c \in Codes : Return(c)
    \/ \E v \in Vehicles : Add(v) \/ Remove(v)
    \/ \E v \in Vehicles, s \in {"Available", "Maintenance"} :
         status[v] # "Rented" /\ Update(v, s)

DisciplinedSpec == LedgerInit /\ [][DisciplinedNext]_ledger

\* The status of a vehicle and the active codes agree: it is Rented exactly when
\* a code names it, and then one code only.
Agrees(v) ==
    /\ status[v] = "Rented" <=> \E c \in Codes : active[c] = v
    /\ \A c, d \in Codes : active[c] = v /\ active[d] = v => c = d

OneRental == \A v \in Vehicles : Agrees(v)
=============================================================================
