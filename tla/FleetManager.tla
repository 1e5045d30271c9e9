---------------------------- MODULE FleetManager ----------------------------
(***************************************************************************)
(* FleetManager (src/src/FleetMgmt.cpp): the vehicles and the active       *)
(* rentals kept in memory under one std::shared_mutex, and on disk through *)
(* IStorage.  A mutating call copies the state, writes the copy with two   *)
(* or three storage calls, commits it to memory, releases the lock, and    *)
(* prints a receipt.  Every storage call may throw, the process may stop   *)
(* between any two of them, and several threads call at once.              *)
(*                                                                         *)
(* The fleet maps every vehicle id to its status, or to "Absent" when no   *)
(* vehicle of the vector has the id: addVehicle keeps ids unique and no    *)
(* handler depends on the order of the vector.  Prices, names and times    *)
(* are left to module Billing.                                             *)
(***************************************************************************)
EXTENDS Naturals, Sequences, FiniteSets

CONSTANTS
    Threads,            \* threads that call the manager
    Vehicles,           \* vehicle ids
    Codes,              \* rental codes generateRentalCode may draw
    SeedFleet,          \* ids main saves when it finds an empty fleet
    NoThread, NoVehicle, NoCode,
    Ops,                \* operations the callers use
    UpdateStatuses,     \* statuses passed to updateVehicleStatus
    PrinterOutcomes,    \* what the printer may do; {} when there is none
    CodeReuse,          \* may a code that was drawn before be drawn again?
    MaxCalls,           \* bound: calls made
    MaxFaults,          \* bound: storage calls that fail
    MaxRestarts         \* bound: times the process stops and starts again

Status == {"Available", "Rented", "Maintenance"}
Absent == "Absent"
AllOps == {"Add", "Remove", "Rent", "ReturnById", "ReturnByCode", "Update"}

ASSUME SetsAssumption ==
    /\ NoThread \notin Threads /\ NoVehicle \notin Vehicles /\ NoCode \notin Codes
    /\ SeedFleet \subseteq Vehicles /\ SeedFleet # {}
ASSUME CallersAssumption ==
    /\ Ops \subseteq AllOps
    /\ UpdateStatuses \subseteq Status
    /\ PrinterOutcomes \subseteq {"printed", "PrinterException", "otherException"}
    /\ CodeReuse \in BOOLEAN
ASSUME BoundsAssumption == MaxCalls \in Nat /\ MaxFaults \in Nat /\ MaxRestarts \in Nat

VARIABLES
    fleet, rentals,                          \* memory: fleet_, active_rentals_
    diskFleet, diskRentals, diskRecords,     \* fleet.txt, rentals.txt, records/<id>.txt
    owner,                                   \* thread that holds mutex_ exclusively
    pc, op, veh, code, stat,                 \* each thread's call: place, operation, arguments
    newFleet, newRentals,                    \* each thread's working copies
    outcome,                                 \* each thread's last result
    owed,                                    \* history: vehicle a committed code stands for
    drawn,                                   \* history: codes drawn so far
    calls, faults, restarts                  \* bounded counters

memory == <<fleet, rentals>>
disk   == <<diskFleet, diskRentals, diskRecords>>
locals == <<op, veh, code, stat, newFleet, newRentals>>
vars   == <<memory, disk, owner, pc, locals, outcome, owed, drawn, calls, faults, restarts>>

PCs == {"idle", "lookup", "entry", "saveFleet", "saveRentals", "appendRecord",
        "deleteRecords", "commit", "unlocked"}
Locked == {"saveFleet", "saveRentals", "appendRecord", "deleteRecords", "commit"}
IsReturn(o) == o \in {"ReturnById", "ReturnByCode"}

Record == [type : {"Checkout", "Returned", "Maintenance", "Note"}, code : Codes \cup {NoCode}]
Fleets == [Vehicles -> Status \cup {Absent}]
RentalMaps == [Codes -> Vehicles \cup {NoVehicle}]

TypeOK ==
    /\ fleet \in Fleets /\ diskFleet \in Fleets
    /\ rentals \in RentalMaps /\ diskRentals \in RentalMaps /\ owed \in RentalMaps
    /\ diskRecords \in [Vehicles -> Seq(Record)]
    /\ owner \in Threads \cup {NoThread}
    /\ pc \in [Threads -> PCs]
    /\ op \in [Threads -> AllOps]
    /\ veh \in [Threads -> Vehicles \cup {NoVehicle}]
    /\ code \in [Threads -> Codes \cup {NoCode}]
    /\ stat \in [Threads -> Status]
    /\ newFleet \in [Threads -> Fleets]
    /\ newRentals \in [Threads -> RentalMaps]
    /\ outcome \in [Threads -> {"none", "ok", "error"}]
    /\ drawn \subseteq Codes
    /\ calls \in 0..MaxCalls /\ faults \in 0..MaxFaults /\ restarts \in 0..MaxRestarts

NoRentals == [c \in Codes |-> NoVehicle]
NoFleet   == [v \in Vehicles |-> Absent]

\* The program starts from a data directory with any set of available vehicles.
Init ==
    /\ fleet \in {f \in [Vehicles -> {"Available", Absent}] :
                    \A v \in SeedFleet : f[v] = "Available"}
    /\ diskFleet = fleet
    /\ rentals = NoRentals /\ diskRentals = NoRentals /\ owed = NoRentals
    /\ diskRecords = [v \in Vehicles |-> <<>>]
    /\ owner = NoThread
    /\ pc = [t \in Threads |-> "idle"]
    /\ op = [t \in Threads |-> "Rent"]
    /\ veh = [t \in Threads |-> NoVehicle]
    /\ code = [t \in Threads |-> NoCode]
    /\ stat = [t \in Threads |-> "Available"]
    /\ newFleet = [t \in Threads |-> NoFleet]
    /\ newRentals = [t \in Threads |-> NoRentals]
    /\ outcome = [t \in Threads |-> "none"]
    /\ drawn = {}
    /\ calls = 0 /\ faults = 0 /\ restarts = 0

----------------------------------------------------------------------------
(* Calls and their results. *)

Enter(t, place, o, v, c, s) ==
    /\ pc[t] = "idle" /\ calls < MaxCalls /\ o \in Ops
    /\ calls' = calls + 1
    /\ pc' = [pc EXCEPT ![t] = place]
    /\ op' = [op EXCEPT ![t] = o]
    /\ veh' = [veh EXCEPT ![t] = v]
    /\ code' = [code EXCEPT ![t] = c]
    /\ stat' = [stat EXCEPT ![t] = s]
    /\ outcome' = [outcome EXCEPT ![t] = "none"]
    /\ UNCHANGED <<memory, disk, owner, newFleet, newRentals, owed, drawn, faults, restarts>>

CallAdd(t)    == \E v \in Vehicles : Enter(t, "entry", "Add", v, NoCode, "Available")
CallRemove(t) == \E v \in Vehicles : Enter(t, "entry", "Remove", v, NoCode, "Available")
CallRent(t)   == \E v \in Vehicles : Enter(t, "entry", "Rent", v, NoCode, "Available")
CallReturnVehicle(t) ==
    \E v \in Vehicles : Enter(t, "lookup", "ReturnById", v, NoCode, "Available")
CallReturnCode(t) ==
    \E c \in Codes : Enter(t, "entry", "ReturnByCode", NoVehicle, c, "Available")
CallUpdate(t) ==
    \E v \in Vehicles, s \in UpdateStatuses : Enter(t, "entry", "Update", v, NoCode, s)

\* The locals of a call that is over are reset: no later step reads them.
Leave(t, result) ==
    /\ pc' = [pc EXCEPT ![t] = "idle"]
    /\ op' = [op EXCEPT ![t] = "Rent"]
    /\ veh' = [veh EXCEPT ![t] = NoVehicle]
    /\ code' = [code EXCEPT ![t] = NoCode]
    /\ stat' = [stat EXCEPT ![t] = "Available"]
    /\ newFleet' = [newFleet EXCEPT ![t] = NoFleet]
    /\ newRentals' = [newRentals EXCEPT ![t] = NoRentals]
    /\ outcome' = [outcome EXCEPT ![t] = result]

\* validateCustomerDetails, validateNotes or isValidRentalCode refuses an
\* argument before the exclusive lock is taken.
RejectArguments(t) ==
    /\ pc[t] = "entry" /\ op[t] \notin {"Add", "Remove"}
    /\ Leave(t, "error")
    /\ UNCHANGED <<memory, disk, owner, owed, drawn, calls, faults, restarts>>

\* returnVehicle(vehicle_id) finds a code under the shared lock, releases the
\* lock, and goes on as returnVehicle(rental_code).
Lookup(t) ==
    /\ pc[t] = "lookup" /\ owner = NoThread
    /\ \E c \in Codes :
         /\ rentals[c] = veh[t]
         /\ code' = [code EXCEPT ![t] = c]
    /\ pc' = [pc EXCEPT ![t] = "entry"]
    /\ UNCHANGED <<memory, disk, owner, op, veh, stat, newFleet, newRentals,
                   outcome, owed, drawn, calls, faults, restarts>>

LookupFails(t) ==
    /\ pc[t] = "lookup" /\ owner = NoThread
    /\ \A c \in Codes : rentals[c] # veh[t]
    /\ Leave(t, "error")
    /\ UNCHANGED <<memory, disk, owner, owed, drawn, calls, faults, restarts>>

----------------------------------------------------------------------------
(* Under the exclusive lock, before the first storage call: the checks on    *)
(* memory and the working copies.                                            *)

RentAllowedPresent(v) == fleet[v] # Absent      \* mutant: no check of the status
RentAllowed(v) == fleet[v] = "Available"
ReturnAllowed(c) == rentals[c] # NoVehicle /\ fleet[rentals[c]] # Absent
RemoveAllowedRented(v) == fleet[v] # Absent     \* mutant: no check of the status
RemoveAllowed(v) == fleet[v] \notin {Absent, "Rented"}
AddAllowed(v) == fleet[v] = Absent
UpdateAllowed(v) == fleet[v] # Absent

\* Mutant: the writers take the lock in shared mode.
AtLockShared(t) == pc[t] = "entry"

\* std::unique_lock is granted.
AtLock(t) == pc[t] = "entry" /\ owner = NoThread

Prepare(t, v, c, f, r) ==
    /\ owner' = t
    /\ pc' = [pc EXCEPT ![t] = "saveFleet"]
    /\ veh' = [veh EXCEPT ![t] = v]
    /\ code' = [code EXCEPT ![t] = c]
    /\ newFleet' = [newFleet EXCEPT ![t] = f]
    /\ newRentals' = [newRentals EXCEPT ![t] = r]
    /\ UNCHANGED <<memory, disk, op, stat, outcome, owed, calls, faults, restarts>>

\* Mutant: the drawn code is not looked up among the active ones.
FreshCodesUnchecked == {c \in Codes : CodeReuse \/ c \notin drawn}

FreshCodes == {c \in Codes : rentals[c] = NoVehicle /\ (CodeReuse \/ c \notin drawn)}

PrepareRent(t) ==
    /\ AtLock(t) /\ op[t] = "Rent" /\ RentAllowed(veh[t])
    /\ \E c \in FreshCodes :
         /\ Prepare(t, veh[t], c, [fleet EXCEPT ![veh[t]] = "Rented"],
                                  [rentals EXCEPT ![c] = veh[t]])
         /\ drawn' = drawn \cup {c}

PrepareReturn(t) ==
    /\ AtLock(t) /\ IsReturn(op[t]) /\ ReturnAllowed(code[t])
    /\ Prepare(t, rentals[code[t]], code[t],
               [fleet EXCEPT ![rentals[code[t]]] = "Available"],
               [rentals EXCEPT ![code[t]] = NoVehicle])
    /\ UNCHANGED drawn

PrepareAdd(t) ==
    /\ AtLock(t) /\ op[t] = "Add" /\ AddAllowed(veh[t])
    /\ Prepare(t, veh[t], NoCode, [fleet EXCEPT ![veh[t]] = "Available"], rentals)
    /\ UNCHANGED drawn

PrepareRemove(t) ==
    /\ AtLock(t) /\ op[t] = "Remove" /\ RemoveAllowed(veh[t])
    /\ Prepare(t, veh[t], NoCode, [fleet EXCEPT ![veh[t]] = Absent], rentals)
    /\ UNCHANGED drawn

PrepareUpdate(t) ==
    /\ AtLock(t) /\ op[t] = "Update" /\ UpdateAllowed(veh[t])
    /\ Prepare(t, veh[t], NoCode, [fleet EXCEPT ![veh[t]] = stat[t]], rentals)
    /\ UNCHANGED drawn

\* The check under the lock throws; the lock is released on the way out.
Refuse(t) ==
    /\ AtLock(t)
    /\ \/ op[t] = "Rent" /\ ~RentAllowed(veh[t])
       \/ IsReturn(op[t]) /\ ~ReturnAllowed(code[t])
       \/ op[t] = "Add" /\ ~AddAllowed(veh[t])
       \/ op[t] = "Remove" /\ ~RemoveAllowed(veh[t])
       \/ op[t] = "Update" /\ ~UpdateAllowed(veh[t])
    /\ Leave(t, "error")
    /\ UNCHANGED <<memory, disk, owner, owed, drawn, calls, faults, restarts>>

----------------------------------------------------------------------------
(* The storage calls each operation makes under the lock, in order. *)

\* Mutants: a storage call is forgotten.
RemoveOrderKeepsHistory == [saveFleet |-> "commit"]
RentOrderNoRentals   == [saveFleet |-> "appendRecord", appendRecord |-> "commit"]

AddOrder    == [saveFleet |-> "commit"]
RemoveOrder == [saveFleet |-> "deleteRecords", deleteRecords |-> "commit"]
RentOrder   == [saveFleet |-> "saveRentals", saveRentals |-> "appendRecord",
                appendRecord |-> "commit"]
ReturnOrder == [saveFleet |-> "appendRecord", appendRecord |-> "saveRentals",
                saveRentals |-> "commit"]
UpdateOrder == [saveFleet |-> "appendRecord", appendRecord |-> "commit"]

NextPlace(o, p) ==
    CASE o = "Add"    -> AddOrder[p]
      [] o = "Remove" -> RemoveOrder[p]
      [] o = "Rent"   -> RentOrder[p]
      [] IsReturn(o)  -> ReturnOrder[p]
      [] o = "Update" -> UpdateOrder[p]

Advance(t, p) ==
    /\ pc[t] = p
    /\ pc' = [pc EXCEPT ![t] = NextPlace(op[t], p)]
    /\ UNCHANGED <<memory, owner, locals, outcome, drawn, calls, restarts>>

SaveFleet(t) ==
    /\ Advance(t, "saveFleet")
    /\ diskFleet' = newFleet[t]
    /\ UNCHANGED <<diskRentals, diskRecords, owed, faults>>

\* A return whose rentals file is written has paid the code back for good.
SaveRentals(t) ==
    /\ Advance(t, "saveRentals")
    /\ diskRentals' = newRentals[t]
    /\ owed' = IF IsReturn(op[t]) THEN [owed EXCEPT ![code[t]] = NoVehicle] ELSE owed
    /\ UNCHANGED <<diskFleet, diskRecords, faults>>

\* Mutant: the vehicle's status is stored as the type of the record.
RecordForStatus(t) ==
    CASE op[t] = "Rent"    -> [type |-> "Checkout", code |-> code[t]]
      [] IsReturn(op[t])   -> [type |-> "Returned", code |-> NoCode]
      [] op[t] = "Update"  -> [type |-> stat[t], code |-> NoCode]

RecordFor(t) ==
    CASE op[t] = "Rent"    -> [type |-> "Checkout", code |-> code[t]]
      [] IsReturn(op[t])   -> [type |-> "Returned", code |-> NoCode]
      [] op[t] = "Update"  ->
            [type |-> IF stat[t] = "Maintenance" THEN "Maintenance" ELSE "Note", code |-> NoCode]

AppendRecord(t) ==
    /\ Advance(t, "appendRecord")
    /\ diskRecords' = [diskRecords EXCEPT ![veh[t]] = Append(@, RecordFor(t))]
    /\ UNCHANGED <<diskFleet, diskRentals, owed, faults>>

\* FileStorage::deleteRecords ignores the error of a removal that fails.
DeleteRecords(t) ==
    /\ Advance(t, "deleteRecords")
    /\ \/ /\ diskRecords' = [diskRecords EXCEPT ![veh[t]] = <<>>]
          /\ UNCHANGED faults
       \/ /\ faults < MaxFaults /\ faults' = faults + 1
          /\ UNCHANGED diskRecords
    /\ UNCHANGED <<diskFleet, diskRentals, owed>>

\* Mutant: the failing call leaves the mutex locked, and the others spin on it.
StorageFailsLocked(t) ==
    \/ /\ pc[t] \in {"saveFleet", "saveRentals", "appendRecord"}
       /\ faults < MaxFaults /\ faults' = faults + 1
       /\ Leave(t, "error")
       /\ UNCHANGED <<memory, disk, owner, owed, drawn, calls, restarts>>
    \/ pc[t] \in {"lookup", "entry"} /\ owner # NoThread /\ UNCHANGED vars

\* A storage call throws StorageException before it writes: the working
\* copies and the lock go, memory keeps its old value, and whatever earlier
\* calls wrote stays on disk.
StorageFails(t) ==
    /\ pc[t] \in {"saveFleet", "saveRentals", "appendRecord"}
    /\ faults < MaxFaults /\ faults' = faults + 1
    /\ owner' = NoThread
    /\ Leave(t, "error")
    /\ UNCHANGED <<memory, disk, owed, drawn, calls, restarts>>

\* The copies become the memory and the lock is released.
Commit(t) ==
    /\ pc[t] = "commit"
    /\ fleet' = newFleet[t] /\ rentals' = newRentals[t]
    /\ owner' = NoThread
    /\ pc' = [pc EXCEPT ![t] = "unlocked"]
    /\ owed' = IF op[t] = "Rent" THEN [owed EXCEPT ![code[t]] = veh[t]] ELSE owed
    /\ UNCHANGED <<disk, locals, outcome, drawn, calls, faults, restarts>>

----------------------------------------------------------------------------
(* After the lock: the receipt, and the answer to the caller. *)

Prints(o) == PrinterOutcomes # {} /\ (o = "Rent" \/ IsReturn(o))

Reply(t) ==
    /\ pc[t] = "unlocked" /\ ~Prints(op[t])
    /\ Leave(t, "ok")
    /\ UNCHANGED <<memory, disk, owner, owed, drawn, calls, faults, restarts>>

\* A PrinterException becomes a warning in the answer.
PrintAndReply(t) ==
    /\ pc[t] = "unlocked" /\ Prints(op[t])
    /\ PrinterOutcomes \cap {"printed", "PrinterException"} # {}
    /\ Leave(t, "ok")
    /\ UNCHANGED <<memory, disk, owner, owed, drawn, calls, faults, restarts>>

\* Any other exception of the printer leaves the call.
PrintThrows(t) ==
    /\ pc[t] = "unlocked" /\ Prints(op[t])
    /\ "otherException" \in PrinterOutcomes
    /\ Leave(t, "error")
    /\ UNCHANGED <<memory, disk, owner, owed, drawn, calls, faults, restarts>>

----------------------------------------------------------------------------
(* The process stops anywhere and starts again: main seeds an empty fleet    *)
(* file, and the constructor loads both files.                               *)

\* Mutant: the default vehicles are added whatever the file holds.
SeededFleetAlways(f) ==
    [v \in Vehicles |-> IF v \in SeedFleet /\ f[v] = Absent THEN "Available" ELSE f[v]]

SeededFleet(f) ==
    IF f = NoFleet
    THEN [v \in Vehicles |-> IF v \in SeedFleet THEN "Available" ELSE Absent]
    ELSE f

Restart ==
    /\ restarts < MaxRestarts /\ restarts' = restarts + 1
    /\ diskFleet' = SeededFleet(diskFleet)
    /\ fleet' = diskFleet' /\ rentals' = diskRentals
    /\ owner' = NoThread
    /\ pc' = [t \in Threads |-> "idle"]
    /\ op' = [t \in Threads |-> "Rent"]
    /\ veh' = [t \in Threads |-> NoVehicle]
    /\ code' = [t \in Threads |-> NoCode]
    /\ stat' = [t \in Threads |-> "Available"]
    /\ newFleet' = [t \in Threads |-> NoFleet]
    /\ newRentals' = [t \in Threads |-> NoRentals]
    /\ outcome' = [t \in Threads |-> "none"]
    /\ UNCHANGED <<diskRentals, diskRecords, owed, drawn, calls, faults>>

----------------------------------------------------------------------------
Call(t) ==
    \/ CallAdd(t) \/ CallRemove(t) \/ CallRent(t)
    \/ CallReturnVehicle(t) \/ CallReturnCode(t) \/ CallUpdate(t)

Step(t) ==
    \/ RejectArguments(t) \/ Lookup(t) \/ LookupFails(t)
    \/ PrepareRent(t) \/ PrepareReturn(t) \/ PrepareAdd(t)
    \/ PrepareRemove(t) \/ PrepareUpdate(t) \/ Refuse(t)
    \/ SaveFleet(t) \/ SaveRentals(t) \/ AppendRecord(t) \/ DeleteRecords(t)
    \/ StorageFails(t) \/ Commit(t)
    \/ Reply(t) \/ PrintAndReply(t) \/ PrintThrows(t)

\* All calls are made and answered.
Quiescent ==
    /\ calls = MaxCalls /\ \A t \in Threads : pc[t] = "idle"
    /\ UNCHANGED vars

Next == (\E t \in Threads : Call(t) \/ Step(t)) \/ Restart \/ Quiescent

Spec == Init /\ [][Next]_vars

\* A thread inside a call keeps running; callers need not call.
FairSpec == Spec /\ \A t \in Threads : WF_vars(Step(t))

----------------------------------------------------------------------------
(* Properties. *)

\* A rental code that a rentVehicle committed stands for its vehicle, in
\* memory and in rentals.txt, until a return of that code has been written:
\* no failed call, restart or concurrent call loses it.
DurableRentals ==
    \A c \in Codes : owed[c] # NoVehicle =>
        rentals[c] = owed[c] /\ diskRentals[c] = owed[c]

RentedIffLet ==
    /\ \A v \in Vehicles : fleet[v] = "Rented" <=> \E c \in Codes : rentals[c] = v
    /\ \A c, d \in Codes : rentals[c] = rentals[d] /\ rentals[c] # NoVehicle => c = d

\* Until a stop lands between two files, a vehicle is Rented in memory exactly
\* when one active rental names it, and no vehicle is let twice, however rents,
\* returns and failures interleave.
OneRentalPerVehicle == restarts = 0 => RentedIffLet

\* Records that repeat the one before them, in a history without status updates:
\* a second return of one rental, a second checkout of a vehicle that is out.
Repeated(history) == {i \in DOMAIN history :
    history[i].type = IF i = 1 THEN "Returned" ELSE history[i - 1].type}
RepeatsIn(records) == UNION {{v} \X Repeated(records[v]) : v \in Vehicles}

HasCheckout(history, c) ==
    \E i \in DOMAIN history : history[i] = [type |-> "Checkout", code |-> c]

\* Until a stop lands between two files, and without updateVehicleStatus, the
\* history of a vehicle that is out holds the checkout record of the code it is
\* out under, and a history tells every rental and return once, except that a
\* return which fails after its record is written, and is tried again, is told
\* once more for each failure.
CheckoutRecorded == restarts = 0 =>
    /\ \A c \in Codes : owed[c] # NoVehicle => HasCheckout(diskRecords[owed[c]], c)
    /\ Cardinality(RepeatsIn(diskRecords)) <= faults

\* Between calls the files hold what memory holds: a call that fails is rolled
\* back cleanly.
DiskMatchesMemory ==
    owner = NoThread => diskFleet = fleet /\ diskRentals = rentals

StatusAfter(history) ==
    IF history = <<>> THEN "Available"
    ELSE LET last == history[Len(history)].type IN
         CASE last = "Checkout" -> "Rented"
           [] last = "Maintenance" -> "Maintenance"
           [] OTHER -> "Available"

\* As long as storage works, the last record of a vehicle's history tells its
\* status between calls: the audit trail misses no transition and records none
\* that did not happen.
HistoryTellsStatus ==
    owner = NoThread /\ faults = 0 /\ restarts = 0 =>
        \A v \in Vehicles : fleet[v] # Absent => fleet[v] = StatusAfter(diskRecords[v])

Inconsistent == {v \in Vehicles :
    ~(diskFleet[v] = "Rented" <=> \E c \in Codes : diskRentals[c] = v)}
InFlight == IF owner = NoThread THEN {} ELSE {veh[owner]}

\* The two files are written one after the other, so a stop or a failure between
\* them leaves fleet.txt and rentals.txt in disagreement; each stop or failure
\* damages one vehicle at most, and later calls never spread the damage.
DamageBounded == Cardinality(Inconsistent \ InFlight) <= restarts + faults

RevivedByAdd(v) == \E t \in Threads : op[t] = "Add" /\ veh[t] = v /\ pc[t] = "commit"
RevivedBySeed(v) == diskFleet = NoFleet /\ v \in SeedFleet
NoOtherRevival == \A v \in Vehicles :
    fleet[v] = Absent /\ fleet'[v] # Absent => RevivedByAdd(v) \/ RevivedBySeed(v)

\* A decommissioned vehicle comes back only when addVehicle adds it again, or
\* when it is one of the default vehicles and a start finds fleet.txt empty: no
\* failure, stop or working copy of another thread revives it.
DecommissionHolds == [][NoOtherRevival]_vars

\* Every call ends, whatever fails and whoever else is calling.
CallsEnd == \A t \in Threads : pc[t] # "idle" ~> pc[t] = "idle"

----------------------------------------------------------------------------
(* Refinement: each call takes effect at its Commit. *)

CallPhase == [t \in Threads |-> CASE pc[t] = "idle" -> "idle"
                                  [] pc[t] = "unlocked" -> "done"
                                  [] OTHER -> "pending"]

\* A call is told by its arguments: the vehicle or the code of a return.
CallRequest == [t \in Threads |->
    [op   |-> op[t],
     veh  |-> IF op[t] = "ReturnByCode" THEN NoVehicle ELSE veh[t],
     code |-> IF op[t] = "ReturnByCode" THEN code[t] ELSE NoCode,
     stat |-> stat[t]]]

Service == INSTANCE RentalService WITH
    status <- fleet, active <- rentals,
    phase <- CallPhase, request <- CallRequest, result <- outcome

\* Every call either takes effect in one atomic step between its invocation
\* and its answer and succeeds, or has no effect and fails.
Linearizable == Service!Spec
=============================================================================
