------------------------ MODULE FleetManager_proofs ------------------------
(***************************************************************************)
(* Theorems about FleetManager, for every set of threads, vehicles and     *)
(* codes, every choice of operations and every number of calls, storage    *)
(* failures and restarts.                                                  *)
(***************************************************************************)
EXTENDS FleetManager, SequenceTheorems, FiniteSetTheorems, TLAPS

(***************************************************************************)
(* Type correctness.  Which storage call comes next is looked up by the    *)
(* operation, and a return reads the vehicle of its code, so the types     *)
(* depend on where each operation may be and what its arguments are there. *)
(***************************************************************************)
CallInv == \A t \in Threads :
    /\ pc[t] = "lookup" => op[t] = "ReturnById"
    /\ pc[t] = "entry" /\ IsReturn(op[t]) => code[t] \in Codes
    /\ pc[t] \in {"lookup", "entry"} /\ op[t] # "ReturnByCode" => veh[t] \in Vehicles
    /\ pc[t] = "saveRentals" => op[t] = "Rent" \/ IsReturn(op[t])
    /\ pc[t] = "appendRecord" => op[t] \in {"Rent", "Update"} \/ IsReturn(op[t])
    /\ pc[t] = "deleteRecords" => op[t] = "Remove"

TypeInv == TypeOK /\ CallInv

\* The place each operation is at after each of its storage calls.
LEMMA NextPlaceValue ==
    ASSUME NEW o \in AllOps
    PROVE  /\ NextPlace(o, "saveFleet") = CASE o = "Add" -> "commit"
                                            [] o = "Remove" -> "deleteRecords"
                                            [] o = "Rent" -> "saveRentals"
                                            [] OTHER -> "appendRecord"
           /\ o = "Rent" => /\ NextPlace(o, "saveRentals") = "appendRecord"
                            /\ NextPlace(o, "appendRecord") = "commit"
           /\ IsReturn(o) => /\ NextPlace(o, "saveRentals") = "commit"
                             /\ NextPlace(o, "appendRecord") = "saveRentals"
           /\ o = "Update" => NextPlace(o, "appendRecord") = "commit"
           /\ o = "Remove" => NextPlace(o, "deleteRecords") = "commit"
BY DEF NextPlace, AddOrder, RemoveOrder, RentOrder, ReturnOrder, UpdateOrder, IsReturn, AllOps

LEMMA TypeInvInit == Init => TypeInv
<1> SUFFICES ASSUME Init PROVE TypeInv
  OBVIOUS
<1> USE SetsAssumption, BoundsAssumption DEF Init
<1>1. TypeOK
  BY DEF TypeOK, Fleets, RentalMaps, Status, Absent, PCs, AllOps, NoRentals, NoFleet, Record
<1>2. CallInv
  BY DEF CallInv
<1> QED
  BY <1>1, <1>2 DEF TypeInv

LEMMA TypeInvEnter ==
    ASSUME TypeInv, NEW t \in Threads, NEW place \in {"entry", "lookup"}, NEW o \in AllOps,
           NEW v \in Vehicles \cup {NoVehicle}, NEW c \in Codes \cup {NoCode}, NEW s \in Status,
           Enter(t, place, o, v, c, s),
           place = "lookup" => o = "ReturnById",
           place = "entry" /\ IsReturn(o) => c \in Codes,
           o # "ReturnByCode" => v \in Vehicles
    PROVE  TypeInv'
<1>1. TypeOK'
  BY BoundsAssumption DEF TypeInv, TypeOK, Enter, memory, disk, PCs
<1>2. CallInv'
  BY DEF TypeInv, TypeOK, CallInv, Enter
<1> QED
  BY <1>1, <1>2 DEF TypeInv

LEMMA TypeInvCall == ASSUME TypeInv, NEW t \in Threads, Call(t) PROVE TypeInv'
<1> USE DEF AllOps, Status, IsReturn
<1>1. CASE CallAdd(t)
  BY <1>1, TypeInvEnter DEF CallAdd
<1>2. CASE CallRemove(t)
  BY <1>2, TypeInvEnter DEF CallRemove
<1>3. CASE CallRent(t)
  BY <1>3, TypeInvEnter DEF CallRent
<1>4. CASE CallReturnVehicle(t)
  BY <1>4, TypeInvEnter DEF CallReturnVehicle
<1>5. CASE CallReturnCode(t)
  BY <1>5, TypeInvEnter DEF CallReturnCode
<1>6. CASE CallUpdate(t)
  BY <1>6, TypeInvEnter, CallersAssumption DEF CallUpdate
<1> QED
  BY <1>1, <1>2, <1>3, <1>4, <1>5, <1>6 DEF Call

\* What a call that ends leaves of its thread's variables.
LEMMA TypeInvLeave ==
    ASSUME TypeInv, NEW t \in Threads, NEW result \in {"ok", "error"}, Leave(t, result)
    PROVE  /\ pc' \in [Threads -> PCs] /\ op' \in [Threads -> AllOps]
           /\ veh' \in [Threads -> Vehicles \cup {NoVehicle}]
           /\ code' \in [Threads -> Codes \cup {NoCode}]
           /\ stat' \in [Threads -> Status]
           /\ newFleet' \in [Threads -> Fleets] /\ newRentals' \in [Threads -> RentalMaps]
           /\ outcome' \in [Threads -> {"none", "ok", "error"}]
           /\ CallInv'
<1>1. NoFleet \in Fleets /\ NoRentals \in RentalMaps
  BY DEF NoFleet, NoRentals, Fleets, RentalMaps
<1>2. CallInv'
  BY DEF TypeInv, TypeOK, CallInv, Leave
<1> QED
  BY <1>1, <1>2 DEF TypeInv, TypeOK, Leave, PCs, AllOps, Status

LEMMA TypeInvPrepare ==
    ASSUME TypeInv, NEW t \in Threads, NEW v \in Vehicles, NEW c \in Codes \cup {NoCode},
           NEW f \in Fleets, NEW r \in RentalMaps, Prepare(t, v, c, f, r),
           drawn' \subseteq Codes
    PROVE  TypeInv'
<1>1. TypeOK'
  BY DEF TypeInv, TypeOK, Prepare, memory, disk, PCs
<1>2. CallInv'
  BY DEF TypeInv, TypeOK, CallInv, Prepare
<1> QED
  BY <1>1, <1>2 DEF TypeInv

LEMMA TypeInvAdvance ==
    ASSUME TypeInv, NEW t \in Threads,
           NEW p \in {"saveFleet", "saveRentals", "appendRecord", "deleteRecords"}, Advance(t, p),
           diskFleet' \in Fleets, diskRentals' \in RentalMaps, owed' \in RentalMaps,
           diskRecords' \in [Vehicles -> Seq(Record)], faults' \in 0..MaxFaults
    PROVE  TypeInv'
<1> DEFINE q == NextPlace(op[t], p)
<1>1. /\ q \in {"saveRentals", "appendRecord", "deleteRecords", "commit"}
      /\ q = "saveRentals" => op[t] = "Rent" \/ IsReturn(op[t])
      /\ q = "appendRecord" => op[t] \in {"Rent", "Update"} \/ IsReturn(op[t])
      /\ q = "deleteRecords" => op[t] = "Remove"
  <2>1. op[t] \in AllOps /\ pc[t] = p
    BY DEF TypeInv, TypeOK, Advance
  <2>2. CASE p = "saveFleet"
    BY <2>1, <2>2, NextPlaceValue DEF AllOps, IsReturn
  <2>3. CASE p = "saveRentals"
    BY <2>1, <2>3, NextPlaceValue DEF AllOps, IsReturn, TypeInv, CallInv
  <2>4. CASE p = "appendRecord"
    BY <2>1, <2>4, NextPlaceValue DEF AllOps, IsReturn, TypeInv, CallInv
  <2>5. CASE p = "deleteRecords"
    BY <2>1, <2>5, NextPlaceValue DEF AllOps, IsReturn, TypeInv, CallInv
  <2> QED
    BY <2>2, <2>3, <2>4, <2>5
<1>2. pc' = [pc EXCEPT ![t] = q] /\ UNCHANGED <<memory, owner, locals, outcome, drawn, calls, restarts>>
  BY DEF Advance
<1> HIDE DEF q
<1>3. TypeOK'
  BY <1>1, <1>2 DEF TypeInv, TypeOK, PCs, memory, locals
<1>4. CallInv'
  BY <1>1, <1>2 DEF TypeInv, TypeOK, CallInv, locals
<1> QED
  BY <1>3, <1>4 DEF TypeInv

LEMMA TypeInvStep == ASSUME TypeInv, NEW t \in Threads, Step(t) PROVE TypeInv'
<1> USE DEF TypeInv
<1>1. CASE RejectArguments(t)
  BY <1>1, TypeInvLeave DEF RejectArguments, TypeOK, memory, disk
<1>2. CASE Lookup(t)
  BY <1>2 DEF Lookup, TypeOK, CallInv, memory, disk, PCs, IsReturn
<1>3. CASE LookupFails(t)
  BY <1>3, TypeInvLeave DEF LookupFails, TypeOK, memory, disk
<1>4. CASE PrepareRent(t)
  <2>1. PICK c \in FreshCodes :
          /\ Prepare(t, veh[t], c, [fleet EXCEPT ![veh[t]] = "Rented"],
                                   [rentals EXCEPT ![c] = veh[t]])
          /\ drawn' = drawn \cup {c}
    BY <1>4 DEF PrepareRent
  <2>2. veh[t] \in Vehicles /\ c \in Codes
    BY <1>4 DEF PrepareRent, AtLock, CallInv, FreshCodes
  <2>3. /\ [fleet EXCEPT ![veh[t]] = "Rented"] \in Fleets
        /\ [rentals EXCEPT ![c] = veh[t]] \in RentalMaps /\ drawn' \subseteq Codes
    BY <2>1, <2>2 DEF TypeOK, Fleets, RentalMaps, Status
  <2> QED
    BY <2>1, <2>2, <2>3, TypeInvPrepare
<1>5. CASE PrepareReturn(t)
  <2>1. code[t] \in Codes /\ rentals[code[t]] \in Vehicles
    BY <1>5 DEF PrepareReturn, AtLock, CallInv, ReturnAllowed, TypeOK, RentalMaps
  <2>2. /\ [fleet EXCEPT ![rentals[code[t]]] = "Available"] \in Fleets
        /\ [rentals EXCEPT ![code[t]] = NoVehicle] \in RentalMaps
    BY <2>1 DEF TypeOK, Fleets, RentalMaps, Status
  <2> QED
    BY <1>5, <2>1, <2>2, TypeInvPrepare DEF PrepareReturn, TypeOK
<1>6. ASSUME AtLock(t), op[t] # "ReturnByCode",
             NEW s \in Status \cup {Absent}, UNCHANGED drawn,
             Prepare(t, veh[t], NoCode, [fleet EXCEPT ![veh[t]] = s], rentals)
      PROVE  TypeInv'
  <2>1. veh[t] \in Vehicles
    BY <1>6 DEF AtLock, CallInv
  <2>2. [fleet EXCEPT ![veh[t]] = s] \in Fleets
    BY <1>6, <2>1 DEF TypeOK, Fleets
  <2> QED
    BY <1>6, <2>1, <2>2, TypeInvPrepare DEF TypeOK
<1>7. CASE PrepareAdd(t)
  BY <1>6, <1>7 DEF PrepareAdd, Status
<1>8. CASE PrepareRemove(t)
  BY <1>6, <1>8 DEF PrepareRemove
<1>9. CASE PrepareUpdate(t)
  BY <1>6, <1>9 DEF PrepareUpdate, TypeOK
<1>10. CASE Refuse(t)
  BY <1>10, TypeInvLeave DEF Refuse, TypeOK, memory, disk
<1>11. CASE SaveFleet(t)
  BY <1>11, TypeInvAdvance DEF SaveFleet, TypeOK
<1>12. CASE SaveRentals(t)
  BY <1>12, TypeInvAdvance DEF SaveRentals, TypeOK, RentalMaps
<1>13. CASE AppendRecord(t)
  <2>1. RecordFor(t) \in Record
    BY <1>13 DEF AppendRecord, Advance, RecordFor, Record, TypeOK, CallInv, IsReturn
  <2>2. diskRecords' \in [Vehicles -> Seq(Record)]
    <3>1. \A v \in Vehicles : diskRecords[v] \in Seq(Record)
      BY DEF TypeOK
    <3>2. \A v \in Vehicles : Append(diskRecords[v], RecordFor(t)) \in Seq(Record)
      BY <2>1, <3>1, AppendProperties
    <3>3. diskRecords' = [diskRecords EXCEPT ![veh[t]] = Append(diskRecords[veh[t]], RecordFor(t))]
      BY <1>13 DEF AppendRecord
    <3>4. diskRecords \in [Vehicles -> Seq(Record)]
      BY DEF TypeOK
    <3> DEFINE h == Append(diskRecords[veh[t]], RecordFor(t))
    <3>5. veh[t] \in Vehicles => h \in Seq(Record)
      BY <3>2
    <3>6. diskRecords' = [diskRecords EXCEPT ![veh[t]] = h]
      BY <3>3
    <3> HIDE DEF h
    <3> QED
      BY <3>4, <3>5, <3>6
  <2>3. /\ diskFleet' \in Fleets /\ diskRentals' \in RentalMaps /\ owed' \in RentalMaps
        /\ faults' \in 0..MaxFaults /\ Advance(t, "appendRecord")
    BY <1>13 DEF AppendRecord, TypeOK
  <2> QED
    BY <2>2, <2>3, TypeInvAdvance
<1>14. CASE DeleteRecords(t)
  <2>1. diskRecords' \in [Vehicles -> Seq(Record)]
    <3>1. <<>> \in Seq(Record)
      OBVIOUS
    <3> QED
      BY <1>14, <3>1 DEF DeleteRecords, TypeOK
  <2>2. /\ diskFleet' \in Fleets /\ diskRentals' \in RentalMaps /\ owed' \in RentalMaps
        /\ faults' \in 0..MaxFaults /\ Advance(t, "deleteRecords")
    BY <1>14, BoundsAssumption DEF DeleteRecords, TypeOK
  <2> QED
    BY <2>1, <2>2, TypeInvAdvance
<1>15. CASE StorageFails(t)
  BY <1>15, TypeInvLeave, BoundsAssumption DEF StorageFails, TypeOK, memory, disk
<1>16. CASE Commit(t)
  <2>1. owed' \in RentalMaps
    BY <1>16 DEF Commit, TypeOK, RentalMaps
  <2>2. TypeOK'
    BY <1>16, <2>1 DEF Commit, TypeOK, disk, locals, PCs
  <2>3. CallInv'
    BY <1>16 DEF Commit, TypeOK, CallInv, locals
  <2> QED
    BY <2>2, <2>3
<1>17. CASE Reply(t)
  BY <1>17, TypeInvLeave DEF Reply, TypeOK, memory, disk
<1>18. CASE PrintAndReply(t)
  BY <1>18, TypeInvLeave DEF PrintAndReply, TypeOK, memory, disk
<1>19. CASE PrintThrows(t)
  BY <1>19, TypeInvLeave DEF PrintThrows, TypeOK, memory, disk
<1> QED
  BY <1>1, <1>2, <1>3, <1>4, <1>5, <1>7, <1>8, <1>9, <1>10, <1>11, <1>12, <1>13, <1>14, <1>15,
     <1>16, <1>17, <1>18, <1>19 DEF Step

LEMMA TypeInvRestart == ASSUME TypeInv, Restart PROVE TypeInv'
<1>1. SeededFleet(diskFleet) \in Fleets
  BY DEF TypeInv, TypeOK, SeededFleet, Fleets, Status
<1>2. TypeOK'
  BY <1>1, BoundsAssumption DEF TypeInv, TypeOK, Restart, PCs, AllOps, Status, Fleets, RentalMaps,
     NoFleet, NoRentals
<1>3. CallInv'
  BY DEF Restart, CallInv
<1> QED
  BY <1>2, <1>3 DEF TypeInv

LEMMA TypeInvNext == TypeInv /\ [Next]_vars => TypeInv'
<1> SUFFICES ASSUME TypeInv, [Next]_vars PROVE TypeInv'
  OBVIOUS
<1>1. CASE UNCHANGED vars
  BY <1>1 DEF vars, memory, disk, locals, TypeInv, TypeOK, CallInv
<1> QED
  BY <1>1, TypeInvCall, TypeInvStep, TypeInvRestart DEF Next, Quiescent

\* Every variable keeps its type in every run of FleetManager.
THEOREM TypeCorrect == Spec => []TypeOK
<1>1. TypeInv => TypeOK
  BY DEF TypeInv
<1> QED
  BY <1>1, TypeInvInit, TypeInvNext, PTL DEF Spec

(***************************************************************************)
(* The inductive invariant behind the safety theorems.  LockInv: a thread  *)
(* is among the storage calls exactly when it holds the mutex, so at most  *)
(* one is.  CopyInv: what a thread's working copies differ in from memory, *)
(* and the checks it made, stay true until it commits, because nobody else *)
(* can commit.  DiskInv: a rent that has written rentals.txt, and a return *)
(* about to commit, left on disk what they are about to put into memory.   *)
(***************************************************************************)
LockInv == \A t \in Threads : pc[t] \in Locked <=> owner = t

Copied(t) ==
    /\ veh[t] \in Vehicles
    /\ op[t] = "Rent" =>
         /\ code[t] \in Codes /\ rentals[code[t]] = NoVehicle /\ fleet[veh[t]] = "Available"
         /\ newFleet[t] = [fleet EXCEPT ![veh[t]] = "Rented"]
         /\ newRentals[t] = [rentals EXCEPT ![code[t]] = veh[t]]
    /\ IsReturn(op[t]) =>
         /\ code[t] \in Codes /\ rentals[code[t]] = veh[t] /\ fleet[veh[t]] # Absent
         /\ newFleet[t] = [fleet EXCEPT ![veh[t]] = "Available"]
         /\ newRentals[t] = [rentals EXCEPT ![code[t]] = NoVehicle]
    /\ op[t] = "Add" => /\ fleet[veh[t]] = Absent
                        /\ newFleet[t] = [fleet EXCEPT ![veh[t]] = "Available"]
    /\ op[t] = "Remove" => /\ fleet[veh[t]] \notin {Absent, "Rented"}
                           /\ newFleet[t] = [fleet EXCEPT ![veh[t]] = Absent]
    /\ op[t] = "Update" => /\ fleet[veh[t]] # Absent
                           /\ newFleet[t] = [fleet EXCEPT ![veh[t]] = stat[t]]
    /\ op[t] \in {"Add", "Remove", "Update"} => newRentals[t] = rentals

CopyInv == \A t \in Threads : pc[t] \in Locked => Copied(t)

DiskInv == \A t \in Threads :
    /\ op[t] = "Rent" /\ pc[t] \in {"appendRecord", "commit"} => diskRentals = newRentals[t]
    /\ IsReturn(op[t]) /\ pc[t] = "commit" =>
         diskRentals = newRentals[t] /\ owed[code[t]] = NoVehicle

SafeInv == TypeInv /\ LockInv /\ CopyInv /\ DiskInv /\ DurableRentals

LEMMA SafeInvInit == Init => SafeInv
<1> SUFFICES ASSUME Init PROVE SafeInv
  OBVIOUS
<1>1. LockInv /\ CopyInv /\ DiskInv
  BY SetsAssumption DEF Init, LockInv, CopyInv, Copied, DiskInv, Locked
<1>2. DurableRentals
  BY DEF Init, DurableRentals, NoRentals
<1> QED
  BY <1>1, <1>2, TypeInvInit DEF SafeInv

\* The locals of every thread but t stay as they are.
OnlyMoves(t) == \A u \in Threads \ {t} :
    /\ pc'[u] = pc[u] /\ op'[u] = op[u] /\ veh'[u] = veh[u] /\ code'[u] = code[u]
    /\ newFleet'[u] = newFleet[u] /\ newRentals'[u] = newRentals[u] /\ stat'[u] = stat[u]

\* A step outside the lock.
LEMMA SafeInvOutside ==
    ASSUME SafeInv, TypeInv', NEW t \in Threads, OnlyMoves(t),
           pc[t] \notin Locked, pc'[t] \notin Locked, UNCHANGED <<memory, disk, owed, owner>>
    PROVE  SafeInv'
<1>1. LockInv'
  BY DEF SafeInv, LockInv, OnlyMoves
<1>2. CopyInv'
  <2>1. UNCHANGED <<fleet, rentals>>
    BY DEF memory
  <2>2. ASSUME NEW u \in Threads, pc'[u] \in Locked
        PROVE  /\ pc'[u] = pc[u] /\ op'[u] = op[u] /\ veh'[u] = veh[u] /\ code'[u] = code[u]
               /\ newFleet'[u] = newFleet[u] /\ newRentals'[u] = newRentals[u]
               /\ stat'[u] = stat[u]
    BY <2>2 DEF OnlyMoves
  <2>3. ASSUME NEW u \in Threads, pc'[u] \in Locked
        PROVE  Copied(u)'
    <3>1. Copied(u)
      BY <2>2, <2>3 DEF SafeInv, CopyInv
    <3> QED
      BY <2>1, <2>2, <2>3, <3>1 DEF Copied
  <2> QED
    BY <2>3 DEF CopyInv
<1>3. DiskInv'
  BY DEF SafeInv, DiskInv, OnlyMoves, disk, Locked
<1>4. DurableRentals'
  BY DEF SafeInv, DurableRentals, memory, disk
<1> QED
  BY <1>1, <1>2, <1>3, <1>4 DEF SafeInv

LEMMA SafeInvCall ==
    ASSUME SafeInv, TypeInv', NEW t \in Threads, Call(t) PROVE SafeInv'
<1>1. ASSUME NEW place \in {"entry", "lookup"}, NEW o, NEW v, NEW c, NEW s,
             Enter(t, place, o, v, c, s)
      PROVE  SafeInv'
  <2>1. OnlyMoves(t) /\ pc'[t] = place
    BY <1>1 DEF OnlyMoves, Enter, SafeInv, TypeInv, TypeOK
  <2>2. pc[t] \notin Locked /\ pc'[t] \notin Locked
    BY <1>1, <2>1 DEF Enter, Locked
  <2> QED
    BY <1>1, <2>1, <2>2, SafeInvOutside DEF Enter
<1>2. CASE CallAdd(t)
  BY <1>1, <1>2 DEF CallAdd
<1>3. CASE CallRemove(t)
  BY <1>1, <1>3 DEF CallRemove
<1>4. CASE CallRent(t)
  BY <1>1, <1>4 DEF CallRent
<1>5. CASE CallReturnVehicle(t)
  BY <1>1, <1>5 DEF CallReturnVehicle
<1>6. CASE CallReturnCode(t)
  BY <1>1, <1>6 DEF CallReturnCode
<1>7. CASE CallUpdate(t)
  BY <1>1, <1>7 DEF CallUpdate
<1> QED
  BY <1>2, <1>3, <1>4, <1>5, <1>6, <1>7 DEF Call

\* A call that ends without having changed anything after its checks.
LEMMA SafeInvLeave ==
    ASSUME SafeInv, TypeInv', NEW t \in Threads, NEW result, Leave(t, result),
           pc[t] \notin Locked, UNCHANGED <<memory, disk, owed, owner>>
    PROVE  SafeInv'
<1>1. OnlyMoves(t) /\ pc'[t] = "idle"
  BY DEF OnlyMoves, Leave, SafeInv, TypeInv, TypeOK
<1> QED
  BY <1>1, SafeInvOutside DEF Locked

\* The lock is free before a Prepare, so nobody else has working copies.
LEMMA SafeInvPrepare ==
    ASSUME SafeInv, TypeInv', NEW t \in Threads, NEW v, NEW c, NEW f, NEW r, AtLock(t),
           Prepare(t, v, c, f, r), CopyInv'
    PROVE  SafeInv'
<1>1. LockInv'
  BY SetsAssumption DEF SafeInv, TypeInv, TypeOK, LockInv, Prepare, AtLock, Locked
<1>2. DiskInv'
  BY DEF SafeInv, TypeInv, TypeOK, DiskInv, Prepare, AtLock, disk
<1>3. DurableRentals'
  BY DEF SafeInv, DurableRentals, Prepare, memory, disk
<1> QED
  BY <1>1, <1>2, <1>3 DEF SafeInv

\* One thread at a time is among the storage calls.
LEMMA OneLocked ==
    ASSUME SafeInv, NEW t \in Threads, NEW u \in Threads, pc[t] \in Locked, pc[u] \in Locked
    PROVE  u = t
BY DEF SafeInv, LockInv

\* A storage call of the thread that holds the lock moves it one place on.
LEMMA AdvanceEffect ==
    ASSUME SafeInv, NEW t \in Threads,
           NEW p \in {"saveFleet", "saveRentals", "appendRecord", "deleteRecords"}, Advance(t, p)
    PROVE  /\ OnlyMoves(t) /\ pc[t] = p /\ op[t] \in AllOps
           /\ pc'[t] = NextPlace(op[t], p) /\ UNCHANGED <<op, veh, code, stat, newFleet, newRentals>>
           /\ p = "saveFleet" => IsReturn(op[t]) \/ pc'[t] # "appendRecord" \/ op[t] = "Update"
           /\ LockInv' /\ CopyInv'
<1>1. /\ OnlyMoves(t) /\ pc[t] = p /\ op[t] \in AllOps
      /\ pc'[t] = NextPlace(op[t], p) /\ UNCHANGED <<op, veh, code, stat, newFleet, newRentals>>
      /\ UNCHANGED <<memory, owner>>
  BY DEF OnlyMoves, Advance, SafeInv, TypeInv, TypeOK, locals
<1>2. NextPlace(op[t], p) \in Locked
  BY <1>1, NextPlaceValue DEF SafeInv, TypeInv, CallInv, AllOps, IsReturn, Locked
<1>3. p = "saveFleet" => IsReturn(op[t]) \/ pc'[t] # "appendRecord" \/ op[t] = "Update"
  BY <1>1, NextPlaceValue DEF AllOps, IsReturn
<1>4. p \in Locked
  BY DEF Locked
<1>5. LockInv'
  BY <1>1, <1>2, <1>4 DEF SafeInv, LockInv, OnlyMoves
<1>6. CopyInv'
  BY <1>1, <1>2, <1>4 DEF SafeInv, CopyInv, Copied, OnlyMoves, memory
<1> QED
  BY <1>1, <1>3, <1>5, <1>6

LEMMA SafeInvStorage ==
    ASSUME SafeInv, TypeInv', NEW t \in Threads,
           SaveFleet(t) \/ AppendRecord(t) \/ DeleteRecords(t)
    PROVE  SafeInv'
<1>1. PICK p \in {"saveFleet", "appendRecord", "deleteRecords"} : Advance(t, p)
  BY DEF SaveFleet, AppendRecord, DeleteRecords
<1>2. UNCHANGED <<diskRentals, owed, memory>>
  BY DEF SaveFleet, AppendRecord, DeleteRecords, Advance
<1>3. LockInv' /\ CopyInv'
  BY <1>1, AdvanceEffect
<1>4. DurableRentals'
  BY <1>2 DEF SafeInv, DurableRentals, memory
<1>5. DiskInv'
  <2> SUFFICES ASSUME NEW u \in Threads
               PROVE  /\ op'[u] = "Rent" /\ pc'[u] \in {"appendRecord", "commit"}
                           => diskRentals' = newRentals'[u]
                      /\ IsReturn(op'[u]) /\ pc'[u] = "commit"
                           => diskRentals' = newRentals'[u] /\ owed'[code'[u]] = NoVehicle
    BY DEF DiskInv
  <2>1. CASE u # t
    BY <1>1, <1>2, <2>1, AdvanceEffect DEF OnlyMoves, SafeInv, DiskInv
  <2>2. CASE u = t
    <3>1. /\ pc[t] = p /\ pc'[t] = NextPlace(op[t], p) /\ op[t] \in AllOps
          /\ UNCHANGED <<op, veh, code, stat, newFleet, newRentals>>
      BY <1>1, AdvanceEffect
    <3>2. op[t] = "Rent" /\ pc'[t] \in {"appendRecord", "commit"} => p = "appendRecord"
      BY <3>1, NextPlaceValue DEF SafeInv, TypeInv, CallInv, IsReturn
    <3>3. ~(IsReturn(op[t]) /\ pc'[t] = "commit")
      BY <3>1, NextPlaceValue DEF SafeInv, TypeInv, CallInv, IsReturn
    <3> QED
      BY <1>2, <2>2, <3>1, <3>2, <3>3 DEF SafeInv, DiskInv
  <2> QED
    BY <2>1, <2>2
<1> QED
  BY <1>3, <1>4, <1>5 DEF SafeInv

LEMMA SafeInvSaveRentals ==
    ASSUME SafeInv, TypeInv', NEW t \in Threads, SaveRentals(t) PROVE SafeInv'
<1>1. /\ Advance(t, "saveRentals") /\ diskRentals' = newRentals[t]
      /\ owed' = IF IsReturn(op[t]) THEN [owed EXCEPT ![code[t]] = NoVehicle] ELSE owed
      /\ UNCHANGED memory
  BY DEF SaveRentals, Advance
<1>2. /\ OnlyMoves(t) /\ pc[t] = "saveRentals" /\ op[t] \in AllOps /\ LockInv' /\ CopyInv'
      /\ UNCHANGED <<op, veh, code, stat, newFleet, newRentals>>
  BY <1>1, AdvanceEffect
<1>3. op[t] = "Rent" \/ IsReturn(op[t])
  BY <1>2 DEF SafeInv, TypeInv, CallInv
<1>4. /\ code[t] \in Codes
      /\ op[t] = "Rent" => /\ rentals[code[t]] = NoVehicle
                           /\ newRentals[t] = [rentals EXCEPT ![code[t]] = veh[t]]
      /\ IsReturn(op[t]) => newRentals[t] = [rentals EXCEPT ![code[t]] = NoVehicle]
  BY <1>2, <1>3 DEF SafeInv, CopyInv, Copied, Locked
<1>5. rentals \in RentalMaps /\ owed \in RentalMaps
  BY DEF SafeInv, TypeInv, TypeOK
<1>6. DurableRentals'
  <2>1. CASE op[t] = "Rent"
    BY <1>1, <1>4, <1>5, <2>1 DEF SafeInv, DurableRentals, memory, RentalMaps, IsReturn
  <2>2. CASE IsReturn(op[t])
    BY <1>1, <1>4, <1>5, <2>2 DEF SafeInv, DurableRentals, memory, RentalMaps
  <2> QED
    BY <1>3, <2>1, <2>2
<1>7. DiskInv'
  <2> SUFFICES ASSUME NEW u \in Threads, u # t \/ u = t
               PROVE  /\ op'[u] = "Rent" /\ pc'[u] \in {"appendRecord", "commit"}
                           => diskRentals' = newRentals'[u]
                      /\ IsReturn(op'[u]) /\ pc'[u] = "commit"
                           => diskRentals' = newRentals'[u] /\ owed'[code'[u]] = NoVehicle
    BY DEF DiskInv
  <2>1. CASE u # t
    BY <1>2, <2>1, OneLocked DEF OnlyMoves, Locked
  <2>2. CASE u = t
    BY <1>1, <1>2, <1>4, <1>5, <2>2 DEF RentalMaps
  <2> QED
    BY <2>1, <2>2
<1> QED
  BY <1>2, <1>6, <1>7 DEF SafeInv

LEMMA SafeInvFails ==
    ASSUME SafeInv, TypeInv', NEW t \in Threads, StorageFails(t) PROVE SafeInv'
<1>1. /\ OnlyMoves(t) /\ pc'[t] = "idle" /\ owner' = NoThread /\ pc[t] \in Locked
      /\ UNCHANGED <<fleet, rentals, diskRentals, owed>>
  BY DEF StorageFails, Leave, OnlyMoves, SafeInv, TypeInv, TypeOK, memory, disk, Locked
<1>2. \A u \in Threads : pc'[u] \notin Locked
  BY <1>1, OneLocked DEF OnlyMoves, Locked
<1>3. LockInv' /\ CopyInv'
  BY <1>1, <1>2, SetsAssumption DEF LockInv, CopyInv, Copied
<1>4. DiskInv'
  BY <1>2 DEF DiskInv, Locked
<1>5. DurableRentals'
  BY <1>1 DEF SafeInv, DurableRentals
<1> QED
  BY <1>3, <1>4, <1>5 DEF SafeInv

LEMMA SafeInvCommit ==
    ASSUME SafeInv, TypeInv', NEW t \in Threads, Commit(t) PROVE SafeInv'
<1>1. /\ OnlyMoves(t) /\ pc[t] = "commit" /\ pc'[t] = "unlocked" /\ owner' = NoThread
      /\ rentals' = newRentals[t] /\ UNCHANGED diskRentals
      /\ owed' = IF op[t] = "Rent" THEN [owed EXCEPT ![code[t]] = veh[t]] ELSE owed
  BY DEF Commit, OnlyMoves, SafeInv, TypeInv, TypeOK, locals, disk
<1>2. \A u \in Threads : pc'[u] \notin Locked
  BY <1>1, OneLocked DEF OnlyMoves, Locked
<1>3. LockInv' /\ CopyInv'
  BY <1>1, <1>2, SetsAssumption DEF LockInv, CopyInv, Copied
<1>4. DiskInv'
  BY <1>2 DEF DiskInv, Locked
<1>5. DurableRentals'
  <2>1. /\ rentals \in RentalMaps /\ owed \in RentalMaps /\ op[t] \in AllOps
        /\ veh[t] \in Vehicles
    BY <1>1 DEF SafeInv, TypeInv, TypeOK, CopyInv, Copied, Locked
  <2>2. CASE op[t] = "Rent"
    <3>1. /\ code[t] \in Codes /\ newRentals[t] = [rentals EXCEPT ![code[t]] = veh[t]]
          /\ rentals[code[t]] = NoVehicle /\ diskRentals = newRentals[t]
      BY <1>1, <2>2 DEF SafeInv, CopyInv, Copied, DiskInv, Locked
    <3> QED
      BY <1>1, <2>1, <2>2, <3>1 DEF SafeInv, DurableRentals, RentalMaps
  <2>3. CASE IsReturn(op[t])
    <3>1. /\ code[t] \in Codes /\ newRentals[t] = [rentals EXCEPT ![code[t]] = NoVehicle]
          /\ owed[code[t]] = NoVehicle /\ owed' = owed
      BY <1>1, <2>3 DEF SafeInv, CopyInv, Copied, DiskInv, Locked, IsReturn
    <3> QED
      BY <1>1, <2>1, <3>1 DEF SafeInv, DurableRentals, RentalMaps
  <2>4. CASE op[t] \in {"Add", "Remove", "Update"}
    <3>1. newRentals[t] = rentals /\ owed' = owed
      BY <1>1, <2>4 DEF SafeInv, CopyInv, Copied, Locked
    <3> QED
      BY <1>1, <3>1 DEF SafeInv, DurableRentals
  <2> QED
    BY <2>1, <2>2, <2>3, <2>4 DEF AllOps, IsReturn
<1> QED
  BY <1>3, <1>4, <1>5 DEF SafeInv

LEMMA SafeInvRestart == ASSUME SafeInv, TypeInv', Restart PROVE SafeInv'
<1>1. \A u \in Threads : pc'[u] = "idle"
  BY DEF Restart
<1>2. LockInv' /\ CopyInv' /\ DiskInv'
  BY <1>1, SetsAssumption DEF Restart, LockInv, CopyInv, Copied, DiskInv, Locked
<1>3. DurableRentals'
  BY DEF Restart, SafeInv, DurableRentals
<1> QED
  BY <1>2, <1>3 DEF SafeInv

LEMMA SafeInvStep ==
    ASSUME SafeInv, TypeInv', NEW t \in Threads, Step(t) PROVE SafeInv'
<1>1. CASE RejectArguments(t) \/ LookupFails(t) \/ Refuse(t)
           \/ Reply(t) \/ PrintAndReply(t) \/ PrintThrows(t)
  <2>1. /\ pc[t] \notin Locked /\ UNCHANGED <<memory, disk, owed, owner>>
        /\ Leave(t, "ok") \/ Leave(t, "error")
    BY <1>1 DEF RejectArguments, LookupFails, Refuse, Reply, PrintAndReply, PrintThrows, AtLock,
       Locked
  <2> QED
    BY <2>1, SafeInvLeave
<1>2. CASE Lookup(t)
  <2>1. /\ OnlyMoves(t) /\ pc[t] = "lookup" /\ pc'[t] = "entry"
        /\ UNCHANGED <<memory, disk, owed, owner>>
    BY <1>2 DEF Lookup, OnlyMoves, SafeInv, TypeInv, TypeOK
  <2> QED
    BY <2>1, SafeInvOutside DEF Locked
<1>3. ASSUME NEW v, NEW c, NEW f, NEW r, AtLock(t), Prepare(t, v, c, f, r)
      PROVE  /\ OnlyMoves(t) /\ veh'[t] = v /\ code'[t] = c /\ op'[t] = op[t] /\ stat'[t] = stat[t]
             /\ newFleet'[t] = f /\ newRentals'[t] = r
             /\ UNCHANGED <<fleet, rentals>>
             /\ \A u \in Threads : pc'[u] \in Locked => u = t
  BY <1>3, SetsAssumption DEF OnlyMoves, Prepare, SafeInv, LockInv, TypeInv, TypeOK, AtLock, memory
<1>4. CASE PrepareRent(t)
  <2>1. PICK c \in FreshCodes :
          Prepare(t, veh[t], c, [fleet EXCEPT ![veh[t]] = "Rented"],
                                [rentals EXCEPT ![c] = veh[t]])
    BY <1>4 DEF PrepareRent
  <2>2. /\ veh[t] \in Vehicles /\ c \in Codes /\ rentals[c] = NoVehicle /\ AtLock(t)
        /\ fleet[veh[t]] = "Available" /\ op[t] = "Rent"
    BY <1>4 DEF PrepareRent, RentAllowed, AtLock, SafeInv, TypeInv, CallInv, FreshCodes
  <2>3. \A u \in Threads : pc'[u] \in Locked => u = t
    BY <1>3, <2>1, <2>2
  <2>4. /\ veh'[t] = veh[t] /\ code'[t] = c /\ op'[t] = "Rent" /\ UNCHANGED <<fleet, rentals>>
        /\ newFleet'[t] = [fleet EXCEPT ![veh[t]] = "Rented"]
        /\ newRentals'[t] = [rentals EXCEPT ![c] = veh[t]]
    BY <1>3, <2>1, <2>2
  <2>5. CopyInv'
    BY <2>2, <2>3, <2>4 DEF CopyInv, Copied, IsReturn
  <2> QED
    BY <2>1, <2>2, <2>5, SafeInvPrepare
<1>5. CASE PrepareReturn(t)
  <2>1. /\ code[t] \in Codes /\ rentals[code[t]] \in Vehicles /\ IsReturn(op[t]) /\ AtLock(t)
        /\ fleet[rentals[code[t]]] # Absent
        /\ Prepare(t, rentals[code[t]], code[t],
                   [fleet EXCEPT ![rentals[code[t]]] = "Available"],
                   [rentals EXCEPT ![code[t]] = NoVehicle])
    BY <1>5 DEF PrepareReturn, AtLock, ReturnAllowed, SafeInv, TypeInv, TypeOK, CallInv, RentalMaps
  <2>2. \A u \in Threads : pc'[u] \in Locked => u = t
    BY <1>3, <2>1
  <2>3. /\ veh'[t] = rentals[code[t]] /\ code'[t] = code[t] /\ op'[t] = op[t]
        /\ newFleet'[t] = [fleet EXCEPT ![veh'[t]] = "Available"]
        /\ newRentals'[t] = [rentals EXCEPT ![code[t]] = NoVehicle]
        /\ UNCHANGED <<fleet, rentals>>
    BY <1>3, <2>1
  <2>4. CopyInv'
    BY <2>1, <2>2, <2>3 DEF CopyInv, Copied, IsReturn
  <2> QED
    BY <2>1, <2>4, SafeInvPrepare
<1>6. ASSUME NEW f, op[t] \in {"Add", "Remove", "Update"}, AtLock(t),
             Prepare(t, veh[t], NoCode, f, rentals),
             op[t] = "Add" => /\ fleet[veh[t]] = Absent
                              /\ f = [fleet EXCEPT ![veh[t]] = "Available"],
             op[t] = "Remove" => /\ fleet[veh[t]] \notin {Absent, "Rented"}
                                 /\ f = [fleet EXCEPT ![veh[t]] = Absent],
             op[t] = "Update" => /\ fleet[veh[t]] # Absent
                                 /\ f = [fleet EXCEPT ![veh[t]] = stat[t]]
      PROVE  SafeInv'
  <2>1. veh[t] \in Vehicles
    BY <1>6 DEF AtLock, SafeInv, TypeInv, CallInv
  <2>2. /\ veh'[t] = veh[t] /\ op'[t] = op[t] /\ stat'[t] = stat[t] /\ UNCHANGED <<fleet, rentals>>
        /\ newFleet'[t] = f /\ newRentals'[t] = rentals
        /\ \A u \in Threads : pc'[u] \in Locked => u = t
    BY <1>3, <1>6
  <2>3. Copied(t)'
    BY <1>6, <2>1, <2>2 DEF Copied, IsReturn
  <2>4. CopyInv'
    BY <2>2, <2>3 DEF CopyInv
  <2> QED
    BY <1>6, <2>4, SafeInvPrepare
<1>7. CASE PrepareAdd(t)
  BY <1>6, <1>7 DEF PrepareAdd, AddAllowed
<1>8. CASE PrepareRemove(t)
  BY <1>6, <1>8 DEF PrepareRemove, RemoveAllowed
<1>9. CASE PrepareUpdate(t)
  BY <1>6, <1>9 DEF PrepareUpdate, UpdateAllowed
<1> QED
  BY <1>1, <1>2, <1>4, <1>5, <1>7, <1>8, <1>9, SafeInvStorage, SafeInvSaveRentals, SafeInvFails,
     SafeInvCommit DEF Step

LEMMA SafeInvNext == SafeInv /\ [Next]_vars => SafeInv'
<1> SUFFICES ASSUME SafeInv, [Next]_vars PROVE SafeInv'
  OBVIOUS
<1>1. TypeInv'
  BY TypeInvNext DEF SafeInv
<1>2. CASE UNCHANGED vars
  BY <1>1, <1>2 DEF vars, memory, disk, locals, SafeInv, LockInv, CopyInv, Copied, DiskInv,
     DurableRentals
<1> QED
  BY <1>1, <1>2, SafeInvCall, SafeInvStep, SafeInvRestart DEF Next, Quiescent

LEMMA SafeInvAlways == Spec => []SafeInv
BY SafeInvInit, SafeInvNext, PTL DEF Spec

\* A rental code that a rent committed stays, in memory and in rentals.txt, until
\* a return of it is written: for any number of failures and restarts.
THEOREM CommittedRentalsDurable == Spec => []DurableRentals
<1>1. SafeInv => DurableRentals
  BY DEF SafeInv
<1> QED
  BY <1>1, SafeInvAlways, PTL

(***************************************************************************)
(* One rental per vehicle.  It needs callers that do not change statuses   *)
(* behind the rentals' back, and a process that does not stop between two  *)
(* files.  Storage may fail at will: memory changes only at Commit, and    *)
(* CopyInv says what a commit changes.                                     *)
(***************************************************************************)
NoUpdates == \A t \in Threads : op[t] # "Update"

OneInv == SafeInv /\ NoUpdates /\ OneRentalPerVehicle

LEMMA OneRentalCommit ==
    ASSUME OneInv, restarts = 0, NEW t \in Threads, Commit(t) PROVE RentedIffLet'
<1>1. fleet' = newFleet[t] /\ rentals' = newRentals[t] /\ Copied(t)
  BY DEF Commit, OneInv, SafeInv, CopyInv, Locked
<1>2. /\ fleet \in Fleets /\ rentals \in RentalMaps /\ op[t] \in AllOps \ {"Update"}
      /\ veh[t] \in Vehicles /\ veh[t] # NoVehicle
  BY <1>1, SetsAssumption DEF OneInv, NoUpdates, SafeInv, TypeInv, TypeOK, Copied
<1>3. CASE op[t] = "Rent"
  <2>1. /\ code[t] \in Codes /\ rentals[code[t]] = NoVehicle /\ fleet[veh[t]] = "Available"
        /\ fleet' = [fleet EXCEPT ![veh[t]] = "Rented"]
        /\ rentals' = [rentals EXCEPT ![code[t]] = veh[t]]
    BY <1>1, <1>3 DEF Copied
  <2>2. \A c \in Codes : rentals[c] # veh[t]
    BY <1>2, <2>1 DEF OneInv, OneRentalPerVehicle, RentedIffLet
  <2>3. /\ \A v \in Vehicles : fleet'[v] = IF v = veh[t] THEN "Rented" ELSE fleet[v]
        /\ \A c \in Codes : rentals'[c] = IF c = code[t] THEN veh[t] ELSE rentals[c]
    BY <1>2, <2>1 DEF Fleets, RentalMaps
  <2> QED
    BY <1>2, <2>1, <2>2, <2>3, SetsAssumption DEF OneInv, OneRentalPerVehicle, RentedIffLet
<1>4. CASE IsReturn(op[t])
  <2>1. /\ code[t] \in Codes /\ rentals[code[t]] = veh[t]
        /\ fleet' = [fleet EXCEPT ![veh[t]] = "Available"]
        /\ rentals' = [rentals EXCEPT ![code[t]] = NoVehicle]
    BY <1>1, <1>4 DEF Copied
  <2>2. /\ \A v \in Vehicles : fleet'[v] = IF v = veh[t] THEN "Available" ELSE fleet[v]
        /\ \A c \in Codes : rentals'[c] = IF c = code[t] THEN NoVehicle ELSE rentals[c]
    BY <1>2, <2>1 DEF Fleets, RentalMaps
  <2> QED
    BY <1>2, <2>1, <2>2, SetsAssumption DEF OneInv, OneRentalPerVehicle, RentedIffLet
<1>5. CASE op[t] \in {"Add", "Remove"}
  <2>1. /\ fleet[veh[t]] # "Rented" /\ rentals' = rentals
        /\ \/ fleet' = [fleet EXCEPT ![veh[t]] = "Available"]
           \/ fleet' = [fleet EXCEPT ![veh[t]] = Absent]
    BY <1>1, <1>5 DEF Copied, Absent
  <2>2. \A v \in Vehicles : fleet'[v] = "Rented" <=> fleet[v] = "Rented"
    BY <1>2, <2>1 DEF Fleets, Absent
  <2> QED
    BY <2>1, <2>2 DEF OneInv, OneRentalPerVehicle, RentedIffLet
<1> QED
  BY <1>2, <1>3, <1>4, <1>5 DEF AllOps, IsReturn

LEMMA OneInvNext ==
    ASSUME "Update" \notin Ops
    PROVE  OneInv /\ [Next]_vars => OneInv'
<1> SUFFICES ASSUME OneInv, [Next]_vars PROVE OneInv'
  OBVIOUS
<1>1. SafeInv'
  BY SafeInvNext DEF OneInv
<1>2. NoUpdates' /\ (OneRentalPerVehicle' \/ \E t \in Threads : Commit(t))
  <2>1. ASSUME NEW t \in Threads, NEW place, NEW o, NEW v, NEW c, NEW s,
               Enter(t, place, o, v, c, s)
        PROVE  NoUpdates' /\ UNCHANGED <<memory, restarts>>
    BY <2>1 DEF OneInv, NoUpdates, SafeInv, TypeInv, TypeOK, Enter
  <2>2. ASSUME NEW t \in Threads, NEW result, Leave(t, result)
        PROVE  NoUpdates'
    BY <2>2 DEF OneInv, NoUpdates, SafeInv, TypeInv, TypeOK, Leave
  <2>3. UNCHANGED op => NoUpdates'
    BY DEF OneInv, NoUpdates
  <2>4. UNCHANGED <<memory, restarts>> => OneRentalPerVehicle'
    BY DEF OneInv, OneRentalPerVehicle, RentedIffLet, memory
  <2>5. ASSUME NEW t \in Threads, Call(t) PROVE NoUpdates' /\ UNCHANGED <<memory, restarts>>
    BY <2>1, <2>5 DEF Call, CallAdd, CallRemove, CallRent, CallReturnVehicle, CallReturnCode,
       CallUpdate
  <2>6. ASSUME NEW t \in Threads, Step(t)
        PROVE  NoUpdates' /\ (UNCHANGED <<memory, restarts>> \/ Commit(t))
    <3>1. CASE RejectArguments(t) \/ LookupFails(t) \/ Refuse(t) \/ StorageFails(t)
               \/ Reply(t) \/ PrintAndReply(t) \/ PrintThrows(t)
      BY <2>2, <3>1 DEF RejectArguments, LookupFails, Refuse, StorageFails, Reply, PrintAndReply,
         PrintThrows
    <3>2. CASE PrepareRent(t) \/ PrepareReturn(t) \/ PrepareAdd(t) \/ PrepareRemove(t)
               \/ PrepareUpdate(t)
      BY <2>3, <3>2 DEF PrepareRent, PrepareReturn, PrepareAdd, PrepareRemove, PrepareUpdate, Prepare
    <3>3. CASE Lookup(t) \/ SaveFleet(t) \/ SaveRentals(t) \/ AppendRecord(t)
               \/ DeleteRecords(t) \/ Commit(t)
      BY <2>3, <3>3 DEF Lookup, SaveFleet, SaveRentals, AppendRecord, DeleteRecords, Commit,
         Advance, locals
    <3> QED
      BY <2>6, <3>1, <3>2, <3>3 DEF Step
  <2>7. CASE Restart
    BY <2>7 DEF Restart, OneInv, NoUpdates, OneRentalPerVehicle, SafeInv, TypeInv, TypeOK
  <2>8. CASE UNCHANGED vars
    BY <2>3, <2>4, <2>8 DEF vars, locals
  <2> QED
    BY <2>4, <2>5, <2>6, <2>7, <2>8 DEF Next, Quiescent
<1>3. ASSUME NEW t \in Threads, Commit(t) PROVE OneRentalPerVehicle'
  BY <1>3, OneRentalCommit DEF Commit, OneRentalPerVehicle
<1> QED
  BY <1>1, <1>2, <1>3 DEF OneInv

\* While no status is updated and the process has not been stopped, a vehicle is
\* Rented in memory exactly when one active rental names it, whatever calls of
\* other threads and storage failures come between.
THEOREM OneRentalHolds ==
    ASSUME "Update" \notin Ops
    PROVE  Spec => []OneRentalPerVehicle
<1>1. Init => OneInv
  <2> SUFFICES ASSUME Init PROVE OneInv
    OBVIOUS
  <2>1. NoUpdates
    BY DEF Init, NoUpdates
  <2>2. OneRentalPerVehicle
    BY SetsAssumption DEF Init, OneRentalPerVehicle, RentedIffLet, NoRentals, Absent
  <2> QED
    BY <2>1, <2>2, SafeInvInit DEF OneInv
<1>2. OneInv => OneRentalPerVehicle
  BY DEF OneInv
<1> QED
  BY <1>1, <1>2, OneInvNext, PTL DEF Spec

(***************************************************************************)
(* FleetManager implements RentalService: the step that takes effect is    *)
(* Commit, a call that ends before it has none, and every other step is    *)
(* invisible.  returnVehicle(vehicle_id) looks its code up under one lock  *)
(* and uses it under another; DrawnInv says that meanwhile the code can    *)
(* only have been returned, never let again for another vehicle, which     *)
(* needs codes that are drawn once.                                        *)
(***************************************************************************)
DrawnInv ==
    /\ \A c \in Codes : rentals[c] # NoVehicle => c \in drawn
    /\ \A u \in Threads : pc[u] \in Locked /\ op[u] = "Rent" => code[u] \in drawn
    /\ \A t \in Threads : pc[t] = "entry" /\ op[t] = "ReturnById" =>
         /\ code[t] \in drawn /\ rentals[code[t]] \in {veh[t], NoVehicle}
         /\ \A u \in Threads : pc[u] \in Locked /\ op[u] = "Rent" => code[u] # code[t]

ServiceInv == SafeInv /\ DrawnInv

\* What the actions of a thread do to the variables of the others.
LEMMA StepMovesOne ==
    ASSUME TypeInv, NEW t \in Threads, Call(t) \/ Step(t) PROVE OnlyMoves(t)
<1> USE DEF TypeInv, TypeOK, OnlyMoves
<1>1. ASSUME NEW place, NEW o, NEW v, NEW c, NEW s, Enter(t, place, o, v, c, s)
      PROVE  OnlyMoves(t)
  BY <1>1 DEF Enter
<1>2. ASSUME NEW result, Leave(t, result) PROVE OnlyMoves(t)
  BY <1>2 DEF Leave
<1>3. ASSUME NEW v, NEW c, NEW f, NEW r, Prepare(t, v, c, f, r) PROVE OnlyMoves(t)
  BY <1>3 DEF Prepare
<1>4. ASSUME NEW p, Advance(t, p) PROVE OnlyMoves(t)
  BY <1>4 DEF Advance, locals
<1>5. CASE Lookup(t) \/ Commit(t)
  BY <1>5 DEF Lookup, Commit, locals
<1> HIDE DEF TypeInv, TypeOK, OnlyMoves
<1>6. CASE Call(t)
  BY <1>1, <1>6 DEF Call, CallAdd, CallRemove, CallRent, CallReturnVehicle, CallReturnCode,
     CallUpdate
<1>7. CASE RejectArguments(t) \/ LookupFails(t) \/ Refuse(t) \/ StorageFails(t)
           \/ Reply(t) \/ PrintAndReply(t) \/ PrintThrows(t)
  BY <1>2, <1>7 DEF RejectArguments, LookupFails, Refuse, StorageFails, Reply, PrintAndReply,
     PrintThrows
<1>8. CASE PrepareRent(t) \/ PrepareReturn(t) \/ PrepareAdd(t) \/ PrepareRemove(t)
           \/ PrepareUpdate(t)
  BY <1>3, <1>8 DEF PrepareRent, PrepareReturn, PrepareAdd, PrepareRemove, PrepareUpdate
<1>9. CASE SaveFleet(t) \/ SaveRentals(t) \/ AppendRecord(t) \/ DeleteRecords(t)
  BY <1>4, <1>9 DEF SaveFleet, SaveRentals, AppendRecord, DeleteRecords
<1> QED
  BY <1>5, <1>6, <1>7, <1>8, <1>9 DEF Step

\* A step that changes neither the rentals nor the codes drawn.
LEMMA DrawnInvSame ==
    ASSUME ServiceInv, NEW t \in Threads, OnlyMoves(t), UNCHANGED <<rentals, drawn>>,
           \/ pc'[t] \notin Locked
           \/ op'[t] # "Rent"
           \/ pc[t] \in Locked /\ op'[t] = op[t] /\ code'[t] = code[t],
           pc'[t] = "entry" => op'[t] # "ReturnById"
    PROVE  DrawnInv'
BY DEF ServiceInv, DrawnInv, OnlyMoves

LEMMA ServiceInvCall == ASSUME ServiceInv, NEW t \in Threads, Call(t) PROVE DrawnInv'
<1>1. ASSUME NEW place \in {"entry", "lookup"}, NEW o, NEW v, NEW c, NEW s,
             Enter(t, place, o, v, c, s), place = "entry" => o # "ReturnById"
      PROVE  DrawnInv'
  <2>1. pc'[t] = place /\ op'[t] = o /\ UNCHANGED <<rentals, drawn>> /\ OnlyMoves(t)
    BY <1>1, StepMovesOne DEF Enter, memory, ServiceInv, SafeInv, TypeInv, TypeOK
  <2> QED
    BY <1>1, <2>1, DrawnInvSame DEF Locked
<1>2. CASE CallAdd(t)
  BY <1>1, <1>2 DEF CallAdd
<1>3. CASE CallRemove(t)
  BY <1>1, <1>3 DEF CallRemove
<1>4. CASE CallRent(t)
  BY <1>1, <1>4 DEF CallRent
<1>5. CASE CallReturnVehicle(t)
  BY <1>1, <1>5 DEF CallReturnVehicle
<1>6. CASE CallReturnCode(t)
  BY <1>1, <1>6 DEF CallReturnCode
<1>7. CASE CallUpdate(t)
  BY <1>1, <1>7 DEF CallUpdate
<1> QED
  BY <1>2, <1>3, <1>4, <1>5, <1>6, <1>7 DEF Call

LEMMA ServiceInvStep ==
    ASSUME CodeReuse = FALSE, ServiceInv, NEW t \in Threads, Step(t) PROVE DrawnInv'
<1>1. OnlyMoves(t) /\ TypeInv
  BY StepMovesOne DEF ServiceInv, SafeInv
<1>2. CASE RejectArguments(t) \/ LookupFails(t) \/ Refuse(t) \/ StorageFails(t)
           \/ Reply(t) \/ PrintAndReply(t) \/ PrintThrows(t)
  <2>1. pc'[t] = "idle" /\ UNCHANGED <<rentals, drawn>>
    BY <1>1, <1>2 DEF RejectArguments, LookupFails, Refuse, StorageFails, Reply, PrintAndReply,
       PrintThrows, Leave, memory, TypeInv, TypeOK
  <2> QED
    BY <1>1, <2>1, DrawnInvSame DEF Locked
<1>3. CASE Lookup(t)
  <2>1. PICK c \in Codes : rentals[c] = veh[t] /\ code' = [code EXCEPT ![t] = c]
    BY <1>3 DEF Lookup
  <2>2. /\ pc[t] = "lookup" /\ op[t] = "ReturnById" /\ veh[t] \in Vehicles
        /\ pc'[t] = "entry" /\ code'[t] = c
        /\ UNCHANGED <<rentals, drawn, op, veh>>
        /\ \A u \in Threads : pc[u] \notin Locked
    BY <1>1, <1>3, <2>1, SetsAssumption DEF Lookup, memory, TypeInv, TypeOK, CallInv, ServiceInv,
       SafeInv, LockInv
  <2>3. \A u \in Threads : pc'[u] \notin Locked
    BY <1>1, <2>2 DEF OnlyMoves, Locked
  <2>4. c \in drawn
    BY <2>1, <2>2, SetsAssumption DEF ServiceInv, DrawnInv
  <2> QED
    BY <1>1, <2>1, <2>2, <2>3, <2>4 DEF ServiceInv, DrawnInv, OnlyMoves
<1>4. CASE PrepareRent(t)
  <2>1. PICK c \in FreshCodes :
          /\ Prepare(t, veh[t], c, [fleet EXCEPT ![veh[t]] = "Rented"],
                                   [rentals EXCEPT ![c] = veh[t]])
          /\ drawn' = drawn \cup {c}
    BY <1>4 DEF PrepareRent
  <2>2. /\ c \in Codes /\ c \notin drawn /\ code'[t] = c /\ op'[t] = "Rent" /\ pc'[t] = "saveFleet"
        /\ UNCHANGED rentals
        /\ \A u \in Threads : pc[u] \notin Locked
    BY <1>1, <1>4, <2>1, SetsAssumption DEF PrepareRent, Prepare, AtLock, FreshCodes, memory,
       TypeInv, TypeOK, ServiceInv, SafeInv, LockInv
  <2>3. \A u \in Threads : pc'[u] \in Locked => u = t
    BY <1>1, <2>2 DEF OnlyMoves
  <2> QED
    BY <1>1, <2>1, <2>2, <2>3 DEF ServiceInv, DrawnInv, OnlyMoves
<1>5. CASE PrepareReturn(t) \/ PrepareAdd(t) \/ PrepareRemove(t) \/ PrepareUpdate(t)
  <2>1. op'[t] # "Rent" /\ pc'[t] = "saveFleet" /\ UNCHANGED <<rentals, drawn>>
    BY <1>1, <1>5 DEF PrepareReturn, PrepareAdd, PrepareRemove, PrepareUpdate, Prepare, IsReturn,
       memory, TypeInv, TypeOK
  <2> QED
    BY <1>1, <2>1, DrawnInvSame
<1>6. CASE SaveFleet(t) \/ SaveRentals(t) \/ AppendRecord(t) \/ DeleteRecords(t)
  <2>1. PICK p \in {"saveFleet", "saveRentals", "appendRecord", "deleteRecords"} : Advance(t, p)
    BY <1>6 DEF SaveFleet, SaveRentals, AppendRecord, DeleteRecords
  <2>2. pc[t] \in Locked /\ UNCHANGED <<rentals, drawn, op, code>>
    BY <2>1 DEF Advance, memory, locals, Locked
  <2>3. pc'[t] \in Locked
    BY <2>1, <2>2, AdvanceEffect DEF ServiceInv, SafeInv, LockInv, Advance
  <2> QED
    BY <1>1, <2>2, <2>3, DrawnInvSame DEF Locked
<1>7. CASE Commit(t)
  <2>1. /\ pc[t] = "commit" /\ pc'[t] = "unlocked" /\ rentals' = newRentals[t] /\ Copied(t)
        /\ UNCHANGED <<drawn, op, code, veh>> /\ op[t] \in AllOps
        /\ rentals \in RentalMaps
    BY <1>1, <1>7 DEF Commit, TypeInv, TypeOK, locals, ServiceInv, SafeInv, CopyInv, Locked
  <2>2. \A u \in Threads : pc'[u] \notin Locked
    BY <1>1, <2>1, OneLocked DEF ServiceInv, OnlyMoves, Locked
  <2>3. ASSUME NEW c \in Codes
        PROVE  rentals'[c] \in {rentals[c], NoVehicle} \/ (op[t] = "Rent" /\ c = code[t])
    BY <2>1 DEF Copied, AllOps, IsReturn, RentalMaps
  <2>4. op[t] = "Rent" => code[t] \in drawn
    BY <2>1 DEF ServiceInv, DrawnInv, Locked
  <2>5. \A c \in Codes : rentals'[c] # NoVehicle => c \in drawn'
    BY <2>1, <2>3, <2>4 DEF ServiceInv, DrawnInv
  <2>6. ASSUME NEW u \in Threads, pc'[u] = "entry", op'[u] = "ReturnById"
        PROVE  code'[u] \in drawn' /\ rentals'[code'[u]] \in {veh'[u], NoVehicle}
    <3>1. pc[u] = "entry" /\ op[u] = "ReturnById" /\ code[u] \in Codes
      BY <1>1, <2>1, <2>6 DEF OnlyMoves, TypeInv, CallInv, IsReturn
    <3>2. op[t] = "Rent" => code[u] # code[t]
      BY <2>1, <3>1 DEF ServiceInv, DrawnInv, Locked
    <3> QED
      BY <2>1, <2>3, <3>1, <3>2 DEF ServiceInv, DrawnInv
  <2> QED
    BY <2>2, <2>5, <2>6 DEF DrawnInv
<1> QED
  BY <1>2, <1>3, <1>4, <1>5, <1>6, <1>7 DEF Step

LEMMA ServiceInvNext ==
    ASSUME CodeReuse = FALSE, MaxRestarts = 0
    PROVE  ServiceInv /\ [Next]_vars => ServiceInv'
<1> SUFFICES ASSUME ServiceInv, [Next]_vars PROVE ServiceInv'
  OBVIOUS
<1>1. SafeInv'
  BY SafeInvNext DEF ServiceInv
<1>2. ~Restart
  BY DEF Restart, ServiceInv, SafeInv, TypeInv, TypeOK
<1>3. CASE UNCHANGED vars
  BY <1>1, <1>3 DEF vars, memory, locals, ServiceInv, DrawnInv
<1> QED
  BY <1>1, <1>2, <1>3, ServiceInvCall, ServiceInvStep DEF Next, Quiescent, ServiceInv

\* A step of one thread changes the abstract call of that thread only.
LEMMA CallMoves ==
    ASSUME NEW t \in Threads, OnlyMoves(t)
    PROVE  /\ CallPhase' = [CallPhase EXCEPT ![t] = CallPhase'[t]]
           /\ CallRequest' = [CallRequest EXCEPT ![t] = CallRequest'[t]]
<1>1. CallPhase' = [CallPhase EXCEPT ![t] = CallPhase'[t]]
  BY DEF OnlyMoves, CallPhase
<1>2. CallRequest' = [CallRequest EXCEPT ![t] = CallRequest'[t]]
  BY DEF OnlyMoves, CallRequest
<1> QED
  BY <1>1, <1>2

LEMMA CallShown ==
    ASSUME NEW t \in Threads
    PROVE  /\ CallPhase[t] = CASE pc[t] = "idle" -> "idle"
                               [] pc[t] = "unlocked" -> "done"
                               [] OTHER -> "pending"
           /\ CallRequest[t] = [op   |-> op[t],
                                veh  |-> IF op[t] = "ReturnByCode" THEN NoVehicle ELSE veh[t],
                                code |-> IF op[t] = "ReturnByCode" THEN code[t] ELSE NoCode,
                                stat |-> stat[t]]
BY DEF CallPhase, CallRequest

\* Steps the service does not see.
LEMMA HiddenStep ==
    ASSUME NEW t \in Threads, OnlyMoves(t), UNCHANGED <<fleet, rentals, outcome, op, stat>>,
           pc[t] \notin {"idle", "unlocked"}, pc'[t] \notin {"idle", "unlocked"},
           op[t] = "ReturnByCode" => code'[t] = code[t],
           op[t] # "ReturnByCode" => veh'[t] = veh[t]
    PROVE  UNCHANGED Service!svcVars
<1>1. CallPhase' = CallPhase
  BY DEF OnlyMoves, CallPhase
<1>2. CallRequest' = CallRequest
  BY DEF OnlyMoves, CallRequest
<1> QED
  BY <1>1, <1>2 DEF Service!svcVars, Service!ledger

LEMMA CallIsInvoke ==
    ASSUME TypeInv, TypeInv', NEW t \in Threads, Call(t) PROVE Service!Invoke(t)
<1>1. OnlyMoves(t)
  BY StepMovesOne
<1>2. ASSUME NEW place \in {"entry", "lookup"}, NEW o, NEW v, NEW c, NEW s,
             Enter(t, place, o, v, c, s)
      PROVE  Service!Invoke(t)
  <2>1. /\ pc[t] = "idle" /\ pc'[t] = place /\ outcome' = [outcome EXCEPT ![t] = "none"]
        /\ UNCHANGED <<fleet, rentals>>
    BY <1>2 DEF Enter, memory, TypeInv, TypeOK
  <2>2. CallPhase[t] = "idle" /\ CallPhase'[t] = "pending"
    BY <2>1 DEF CallPhase
  <2>3. CallRequest'[t] \in Service!Requests
    BY DEF CallRequest, Service!Requests, Service!VehicleStatus, TypeInv, TypeOK, AllOps, Status
  <2> QED
    BY <1>1, <2>1, <2>2, <2>3, CallMoves DEF Service!Invoke, Service!ledger
<1> QED
  BY <1>2 DEF Call, CallAdd, CallRemove, CallRent, CallReturnVehicle, CallReturnCode, CallUpdate

LEMMA LeaveIsAnswer ==
    ASSUME TypeInv, NEW t \in Threads, OnlyMoves(t), UNCHANGED <<fleet, rentals>>,
           NEW result \in {"ok", "error"}, Leave(t, result), pc[t] # "idle",
           pc[t] = "unlocked" <=> result = "ok"
    PROVE  Service!Answer(t, "done", "ok") \/ Service!Answer(t, "pending", "error")
<1>1. /\ pc'[t] = "idle" /\ op'[t] = "Rent" /\ veh'[t] = NoVehicle /\ code'[t] = NoCode
      /\ stat'[t] = "Available" /\ outcome' = [outcome EXCEPT ![t] = result]
  BY DEF Leave, TypeInv, TypeOK
<1>2. CallPhase[t] = (IF result = "ok" THEN "done" ELSE "pending") /\ CallPhase'[t] = "idle"
  BY <1>1 DEF CallPhase
<1>3. CallRequest'[t] = Service!NoRequest
  BY <1>1 DEF CallRequest, Service!NoRequest
<1> QED
  BY <1>1, <1>2, <1>3, CallMoves DEF Service!Answer, Service!ledger

LEMMA CommitIsEffect ==
    ASSUME SafeInv, NEW t \in Threads, OnlyMoves(t), Commit(t) PROVE Service!TakeEffect(t)
<1>1. /\ pc[t] = "commit" /\ pc'[t] = "unlocked" /\ UNCHANGED <<op, veh, code, stat, outcome>>
      /\ fleet' = newFleet[t] /\ rentals' = newRentals[t] /\ Copied(t) /\ op[t] \in AllOps
  BY DEF Commit, SafeInv, TypeInv, TypeOK, CopyInv, locals, Locked
<1>2. CallPhase[t] = "pending" /\ CallPhase'[t] = "done"
  BY <1>1 DEF CallPhase
<1>3. CallRequest' = CallRequest
  BY <1>1 DEF CallRequest
<1>4. Service!Effect(CallRequest[t])
  <2> DEFINE r == CallRequest[t]
  <2>1. /\ r.op = op[t] /\ r.stat = stat[t]
        /\ op[t] # "ReturnByCode" => r.veh = veh[t]
        /\ op[t] = "ReturnByCode" => r.code = code[t]
    BY DEF CallRequest
  <2> SUFFICES Service!Effect(r)
    OBVIOUS
  <2> HIDE DEF r
  <2>2. veh[t] \in Vehicles /\ veh[t] # NoVehicle
    BY <1>1, SetsAssumption DEF Copied
  <2>3. IsReturn(op[t]) =>
          code[t] \in Codes /\ rentals[code[t]] = veh[t] /\ Service!Return(code[t])
    BY <1>1, <2>2 DEF Copied, Service!Return, Service!Put, Absent
  <2>4. CASE op[t] = "Rent"
    BY <1>1, <2>1, <2>4 DEF Copied, Service!Effect, Service!Rent, Service!Put
  <2>5. CASE op[t] = "ReturnById"
    BY <2>1, <2>3, <2>5 DEF IsReturn, Service!Effect
  <2>6. CASE op[t] = "ReturnByCode"
    BY <2>1, <2>3, <2>6 DEF IsReturn, Service!Effect
  <2>7. CASE op[t] = "Add"
    BY <1>1, <2>1, <2>7 DEF Copied, Service!Effect, Service!Add, Service!Put, Absent
  <2>8. CASE op[t] = "Remove"
    BY <1>1, <2>1, <2>8 DEF Copied, Service!Effect, Service!Remove, Service!Put, Absent
  <2>9. CASE op[t] = "Update"
    BY <1>1, <2>1, <2>9 DEF Copied, Service!Effect, Service!Update, Service!Put, Absent
  <2>10. op[t] \in {"Rent", "ReturnById", "ReturnByCode", "Add", "Remove", "Update"}
    BY <1>1 DEF AllOps
  <2> QED
    BY <2>4, <2>5, <2>6, <2>7, <2>8, <2>9, <2>10
<1> QED
  BY <1>1, <1>2, <1>3, <1>4, CallMoves DEF Service!TakeEffect

LEMMA StepIsService ==
    ASSUME CodeReuse = FALSE, "otherException" \notin PrinterOutcomes,
           ServiceInv, NEW t \in Threads, Step(t)
    PROVE  [Service!Next]_(Service!svcVars)
<1> USE DEF ServiceInv, SafeInv
<1>1. OnlyMoves(t)
  BY StepMovesOne
<1>2. CASE RejectArguments(t) \/ LookupFails(t) \/ Refuse(t) \/ StorageFails(t)
  BY <1>1, <1>2, LeaveIsAnswer DEF RejectArguments, LookupFails, Refuse, StorageFails, AtLock,
     memory, Service!Next
<1>3. CASE Reply(t) \/ PrintAndReply(t)
  BY <1>1, <1>3, LeaveIsAnswer DEF Reply, PrintAndReply, memory, Service!Next
<1>4. ~PrintThrows(t)
  BY DEF PrintThrows
<1>5. CASE Lookup(t)
  <2>1. /\ pc[t] = "lookup" /\ pc'[t] = "entry" /\ op[t] = "ReturnById"
        /\ UNCHANGED <<fleet, rentals, outcome, op, stat, veh>>
    BY <1>5 DEF Lookup, memory, TypeInv, TypeOK, CallInv
  <2> QED
    BY <1>1, <2>1, HiddenStep
<1>6. ASSUME NEW v, NEW c, NEW f, NEW r, Prepare(t, v, c, f, r), AtLock(t),
             op[t] = "ReturnByCode" => c = code[t],
             op[t] # "ReturnByCode" => v = veh[t]
      PROVE  UNCHANGED Service!svcVars
  <2>1. /\ pc[t] = "entry" /\ pc'[t] = "saveFleet" /\ veh'[t] = v /\ code'[t] = c
        /\ UNCHANGED <<fleet, rentals, outcome, op, stat>>
    BY <1>6 DEF Prepare, AtLock, memory, TypeInv, TypeOK
  <2> QED
    BY <1>1, <1>6, <2>1, HiddenStep
<1>7. CASE PrepareRent(t)
  BY <1>6, <1>7 DEF PrepareRent
<1>8. CASE PrepareReturn(t)
  <2>1. op[t] # "ReturnByCode" => rentals[code[t]] = veh[t]
    BY <1>8 DEF PrepareReturn, AtLock, ReturnAllowed, IsReturn, DrawnInv
  <2> QED
    BY <1>6, <1>8, <2>1 DEF PrepareReturn
<1>9. CASE PrepareAdd(t) \/ PrepareRemove(t) \/ PrepareUpdate(t)
  BY <1>6, <1>9 DEF PrepareAdd, PrepareRemove, PrepareUpdate
<1>10. CASE SaveFleet(t) \/ SaveRentals(t) \/ AppendRecord(t) \/ DeleteRecords(t)
  <2>1. PICK p \in {"saveFleet", "saveRentals", "appendRecord", "deleteRecords"} : Advance(t, p)
    BY <1>10 DEF SaveFleet, SaveRentals, AppendRecord, DeleteRecords
  <2>2. pc[t] \in Locked /\ UNCHANGED <<fleet, rentals, outcome, op, stat, code, veh, owner>>
    BY <2>1 DEF Advance, memory, locals, Locked
  <2>3. pc'[t] \in Locked
    BY <2>1, <2>2, AdvanceEffect DEF LockInv
  <2> QED
    BY <1>1, <2>2, <2>3, HiddenStep DEF Locked
<1>11. CASE Commit(t)
  BY <1>1, <1>11, CommitIsEffect DEF Service!Next
<1> QED
  BY <1>2, <1>3, <1>4, <1>5, <1>7, <1>8, <1>9, <1>10, <1>11 DEF Step

\* Every call of every thread takes effect in one atomic step between its
\* invocation and its answer and then succeeds, or it fails and has no effect,
\* whatever storage calls fail: as long as the process does not stop, a code
\* is drawn once, and the printer throws what FleetManager expects.
THEOREM FleetManagerLinearizable ==
    ASSUME CodeReuse = FALSE, MaxRestarts = 0, "otherException" \notin PrinterOutcomes
    PROVE  Spec => Linearizable
<1>1. Init => ServiceInv
  <2> SUFFICES ASSUME Init PROVE ServiceInv
    OBVIOUS
  <2>1. DrawnInv
    BY DEF Init, DrawnInv, NoRentals, Locked
  <2> QED
    BY <2>1, SafeInvInit DEF ServiceInv
<1>2. Init => Service!Init
  <2> SUFFICES ASSUME Init PROVE Service!Init
    OBVIOUS
  <2>1. fleet \in [Vehicles -> {"Available", "Absent"}] /\ rentals = [c \in Codes |-> NoVehicle]
    BY DEF Init, NoRentals, Absent
  <2>2. CallPhase = [t \in Threads |-> "idle"]
    BY DEF Init, CallPhase
  <2>3. CallRequest = [t \in Threads |-> Service!NoRequest]
    BY DEF Init, CallRequest, Service!NoRequest
  <2>4. Service!LedgerInit
    BY <2>1 DEF Service!LedgerInit, Service!LedgerTypeOK, Service!VehicleStatus
  <2> QED
    BY <2>1, <2>2, <2>3, <2>4 DEF Init, Service!Init
<1>3. ServiceInv /\ [Next]_vars => [Service!Next]_(Service!svcVars)
  <2> SUFFICES ASSUME ServiceInv, [Next]_vars PROVE [Service!Next]_(Service!svcVars)
    OBVIOUS
  <2>1. TypeInv /\ TypeInv' /\ ~Restart
    BY TypeInvNext DEF Restart, ServiceInv, SafeInv, TypeInv, TypeOK
  <2>2. CASE UNCHANGED vars
    <3>1. UNCHANGED <<fleet, rentals, outcome, pc, op, veh, code, stat>>
      BY <2>2 DEF vars, memory, locals
    <3>2. CallPhase' = CallPhase /\ CallRequest' = CallRequest
      BY <3>1 DEF CallPhase, CallRequest
    <3> QED
      BY <3>1, <3>2 DEF Service!svcVars, Service!ledger
  <2>3. ASSUME NEW t \in Threads, Call(t) PROVE Service!Next
    BY <2>1, <2>3, CallIsInvoke DEF Service!Next
  <2> QED
    BY <2>1, <2>2, <2>3, StepIsService DEF Next, Quiescent
<1> QED
  BY <1>1, <1>2, <1>3, ServiceInvNext, PTL DEF Spec, Linearizable, Service!Spec

(***************************************************************************)
(* Decommissioned vehicles.  fleet.txt is the first file every operation   *)
(* writes, so a later place of a call finds the working copy there, and a  *)
(* vehicle that memory does not have is in fleet.txt only between the two  *)
(* steps of its addVehicle: a stop there brings it back as a vehicle that  *)
(* was added, and no other stop brings one back.                           *)
(***************************************************************************)
FilesInv ==
    /\ \A t \in Threads : pc[t] \in Locked \ {"saveFleet"} => diskFleet = newFleet[t]
    /\ \A v \in Vehicles : fleet[v] = Absent /\ diskFleet[v] # Absent => RevivedByAdd(v)

FleetFileInv == SafeInv /\ FilesInv

\* A step that writes neither fleet nor fleet.txt.
LEMMA FilesInvSame ==
    ASSUME FleetFileInv, NEW t \in Threads, OnlyMoves(t), UNCHANGED <<fleet, diskFleet>>,
           \/ pc[t] \notin Locked /\ pc'[t] \notin Locked \ {"saveFleet"}
           \/ pc[t] = "saveFleet" /\ pc'[t] \notin Locked
           \/ /\ pc[t] \in Locked \ {"saveFleet"} /\ pc[t] # "commit"
              /\ UNCHANGED newFleet
    PROVE  FilesInv'
<1>1. pc[t] # "commit"
  BY DEF Locked
<1>2. ASSUME NEW v \in Vehicles, RevivedByAdd(v) PROVE RevivedByAdd(v)'
  BY <1>1, <1>2 DEF RevivedByAdd, OnlyMoves
<1>3. ASSUME NEW u \in Threads, pc'[u] \in Locked \ {"saveFleet"} PROVE diskFleet' = newFleet'[u]
  BY <1>3 DEF FleetFileInv, FilesInv, OnlyMoves, Locked
<1> QED
  BY <1>2, <1>3 DEF FleetFileInv, FilesInv

LEMMA FilesInvSaveFleet ==
    ASSUME FleetFileInv, NEW t \in Threads, SaveFleet(t) PROVE FilesInv'
<1> USE DEF FleetFileInv
<1>1. /\ OnlyMoves(t) /\ pc[t] = "saveFleet" /\ op[t] \in AllOps /\ Advance(t, "saveFleet")
      /\ pc'[t] = NextPlace(op[t], "saveFleet") /\ UNCHANGED <<op, veh, code, stat, newFleet>>
      /\ diskFleet' = newFleet[t] /\ UNCHANGED fleet
  BY AdvanceEffect DEF SaveFleet, memory, Advance
<1>2. \A u \in Threads : u # t => pc'[u] \notin Locked
  BY <1>1, OneLocked DEF OnlyMoves, Locked
<1>3. \A u \in Threads : pc'[u] \in Locked \ {"saveFleet"} => diskFleet' = newFleet'[u]
  BY <1>1, <1>2
<1>4. ASSUME NEW v \in Vehicles, fleet'[v] = Absent, diskFleet'[v] # Absent
      PROVE  RevivedByAdd(v)'
  <2>1. Copied(t) /\ fleet \in Fleets /\ newFleet[t][v] # fleet[v] /\ fleet[v] = Absent
    BY <1>1, <1>4 DEF SafeInv, CopyInv, TypeInv, TypeOK, Locked
  <2>2. op[t] = "Add" /\ v = veh[t]
    BY <1>1, <2>1 DEF Copied, AllOps, IsReturn, Fleets, Absent
  <2>3. pc'[t] = "commit"
    BY <1>1, <2>2, NextPlaceValue DEF AllOps
  <2> QED
    BY <1>1, <2>2, <2>3 DEF RevivedByAdd
<1> QED
  BY <1>3, <1>4 DEF FilesInv

LEMMA FilesInvNext == FleetFileInv /\ [Next]_vars => FleetFileInv'
<1> SUFFICES ASSUME FleetFileInv, [Next]_vars PROVE FleetFileInv'
  OBVIOUS
<1> USE DEF FleetFileInv
<1>1. SafeInv' /\ TypeInv /\ TypeInv'
  BY SafeInvNext DEF SafeInv
<1>2. CASE UNCHANGED vars
  BY <1>1, <1>2 DEF vars, memory, disk, locals, FilesInv, RevivedByAdd
<1>3. ASSUME NEW t \in Threads, Call(t) PROVE FilesInv'
  <2>1. ASSUME NEW place \in {"entry", "lookup"}, NEW o, NEW v, NEW c, NEW s,
               Enter(t, place, o, v, c, s)
        PROVE  pc[t] \notin Locked /\ pc'[t] \notin Locked /\ UNCHANGED <<fleet, diskFleet>>
    BY <1>1, <2>1 DEF Enter, memory, disk, TypeInv, TypeOK, Locked
  <2>2. pc[t] \notin Locked /\ pc'[t] \notin Locked /\ UNCHANGED <<fleet, diskFleet>>
    BY <1>3, <2>1 DEF Call, CallAdd, CallRemove, CallRent, CallReturnVehicle, CallReturnCode,
       CallUpdate
  <2> QED
    BY <1>1, <1>3, <2>2, StepMovesOne, FilesInvSame
<1>4. ASSUME NEW t \in Threads, Step(t) PROVE FilesInv'
  <2>1. OnlyMoves(t)
    BY <1>1, <1>4, StepMovesOne
  <2>2. CASE RejectArguments(t) \/ LookupFails(t) \/ Refuse(t) \/ StorageFails(t)
             \/ Reply(t) \/ PrintAndReply(t) \/ PrintThrows(t)
    <3>1. /\ pc'[t] = "idle" /\ pc[t] # "commit" /\ UNCHANGED <<fleet, diskFleet>>
      BY <1>1, <2>2 DEF RejectArguments, LookupFails, Refuse, StorageFails, Reply, PrintAndReply,
         PrintThrows, Leave, AtLock, memory, disk, TypeInv, TypeOK
    <3>2. \A u \in Threads \ {t} : pc'[u] = pc[u] /\ newFleet'[u] = newFleet[u] /\ op'[u] = op[u]
                                   /\ veh'[u] = veh[u]
      BY <2>1 DEF OnlyMoves
    <3> QED
      BY <3>1, <3>2 DEF FilesInv, RevivedByAdd, Locked
  <2>3. CASE Lookup(t)
    <3>1. pc[t] = "lookup" /\ pc'[t] = "entry" /\ UNCHANGED <<fleet, diskFleet>>
      BY <1>1, <2>3 DEF Lookup, memory, disk, TypeInv, TypeOK
    <3> QED
      BY <2>1, <3>1, FilesInvSame DEF Locked
  <2>4. CASE PrepareRent(t) \/ PrepareReturn(t) \/ PrepareAdd(t) \/ PrepareRemove(t)
             \/ PrepareUpdate(t)
    <3>1. pc[t] = "entry" /\ pc'[t] = "saveFleet" /\ UNCHANGED <<fleet, diskFleet>>
      BY <1>1, <2>4 DEF PrepareRent, PrepareReturn, PrepareAdd, PrepareRemove, PrepareUpdate,
         Prepare, AtLock, memory, disk, TypeInv, TypeOK
    <3> QED
      BY <2>1, <3>1, FilesInvSame DEF Locked
  <2>5. CASE SaveFleet(t)
    BY <2>5, FilesInvSaveFleet
  <2>6. CASE SaveRentals(t) \/ AppendRecord(t) \/ DeleteRecords(t)
    <3>1. /\ pc[t] \in {"saveRentals", "appendRecord", "deleteRecords"}
          /\ UNCHANGED <<fleet, diskFleet, newFleet>>
      BY <2>6 DEF SaveRentals, AppendRecord, DeleteRecords, Advance, memory, locals
    <3> QED
      BY <2>1, <3>1, FilesInvSame DEF Locked
  <2>7. CASE Commit(t)
    <3>1. /\ pc[t] = "commit" /\ pc'[t] = "unlocked" /\ fleet' = newFleet[t] /\ UNCHANGED diskFleet
          /\ diskFleet = newFleet[t]
      BY <1>1, <2>7 DEF Commit, disk, FilesInv, TypeInv, TypeOK, Locked
    <3>2. \A u \in Threads : pc'[u] \notin Locked
      BY <2>1, <3>1, OneLocked DEF OnlyMoves, Locked
    <3> QED
      BY <3>1, <3>2 DEF FilesInv
  <2> QED
    BY <1>4, <2>2, <2>3, <2>4, <2>5, <2>6, <2>7 DEF Step
<1>5. CASE Restart
  <2>1. fleet' = diskFleet' /\ \A t \in Threads : pc'[t] \notin Locked
    BY <1>5 DEF Restart, Locked
  <2> QED
    BY <1>1, <2>1 DEF FilesInv
<1> QED
  BY <1>1, <1>2, <1>3, <1>4, <1>5 DEF Next, Quiescent

LEMMA RevivalStep == FleetFileInv /\ [Next]_vars => [NoOtherRevival]_vars
<1> SUFFICES ASSUME FleetFileInv, Next, NEW v \in Vehicles, fleet[v] = Absent, fleet'[v] # Absent
             PROVE  RevivedByAdd(v) \/ RevivedBySeed(v)
  BY DEF NoOtherRevival
<1> USE DEF FleetFileInv
<1>1. fleet \in Fleets
  BY DEF SafeInv, TypeInv, TypeOK
<1>2. CASE Restart
  <2>1. fleet' = SeededFleet(diskFleet)
    BY <1>2 DEF Restart
  <2>2. CASE diskFleet = NoFleet
    BY <2>1, <2>2 DEF SeededFleet, RevivedBySeed
  <2>3. CASE diskFleet # NoFleet
    BY <2>1, <2>3 DEF SeededFleet, FilesInv
  <2> QED
    BY <2>2, <2>3
<1>3. ASSUME NEW u \in Threads, Commit(u) PROVE RevivedByAdd(v)
  <2>1. pc[u] = "commit" /\ fleet' = newFleet[u] /\ Copied(u) /\ op[u] \in AllOps
    BY <1>3 DEF Commit, SafeInv, CopyInv, TypeInv, TypeOK, Locked
  <2>2. op[u] = "Add" /\ v = veh[u]
    BY <1>1, <2>1 DEF Copied, AllOps, IsReturn, Fleets, Absent
  <2> QED
    BY <2>1, <2>2 DEF RevivedByAdd
<1>4. ASSUME NEW t \in Threads, Step(t) PROVE RevivedByAdd(v)
  <2>1. Commit(t) \/ UNCHANGED fleet
    BY <1>4 DEF Step, RejectArguments, Lookup, LookupFails, PrepareRent, PrepareReturn, PrepareAdd,
       PrepareRemove, PrepareUpdate, Prepare, Refuse, SaveFleet, SaveRentals, AppendRecord,
       DeleteRecords, Advance, StorageFails, Reply, PrintAndReply, PrintThrows, memory
  <2> QED
    BY <1>3, <2>1
<1>5. ASSUME NEW t \in Threads, Call(t) PROVE FALSE
  BY <1>5 DEF Call, CallAdd, CallRemove, CallRent, CallReturnVehicle, CallReturnCode, CallUpdate,
     Enter, memory
<1>6. ~Quiescent
  BY DEF Quiescent, vars, memory
<1> QED
  BY <1>2, <1>4, <1>5, <1>6 DEF Next

\* A decommissioned vehicle comes back only when addVehicle adds it again, or as
\* one of the default vehicles when a start finds fleet.txt empty: for any number
\* of failures, stops and concurrent calls.
THEOREM DecommissionedStaysOut == Spec => DecommissionHolds
<1>1. Init => FleetFileInv
  <2> SUFFICES ASSUME Init PROVE FleetFileInv
    OBVIOUS
  <2>1. FilesInv
    BY DEF Init, FilesInv, Locked
  <2> QED
    BY <2>1, SafeInvInit DEF FleetFileInv
<1> QED
  BY <1>1, FilesInvNext, RevivalStep, PTL DEF Spec, DecommissionHolds

(***************************************************************************)
(* The audit trail.  A call writes its record before it commits, so what   *)
(* the histories tell is memory, or, once the record is written, the       *)
(* working copy of the thread that holds the lock.                         *)
(***************************************************************************)
Recorded(t) ==
    \/ pc[t] = "commit" /\ op[t] # "Add"
    \/ pc[t] = "saveRentals" /\ IsReturn(op[t])

Told == IF owner \in Threads /\ Recorded(owner) THEN newFleet[owner] ELSE fleet

Tells(history, s) == IF s = Absent THEN history = <<>> ELSE s = StatusAfter(history)

UpdatesInv == \A t \in Threads :
    pc[t] \in {"entry"} \cup Locked /\ op[t] = "Update" => stat[t] \in UpdateStatuses

HistoryInv == faults = 0 /\ restarts = 0 =>
    \A v \in Vehicles : Tells(diskRecords[v], Told[v])

TrailInv == SafeInv /\ UpdatesInv /\ HistoryInv

LEMMA StatusAfterAppend ==
    ASSUME NEW h \in Seq(Record), NEW r \in Record
    PROVE  StatusAfter(Append(h, r)) = CASE r.type = "Checkout" -> "Rented"
                                         [] r.type = "Maintenance" -> "Maintenance"
                                         [] OTHER -> "Available"
<1>1. /\ Len(Append(h, r)) = Len(h) + 1 /\ Len(h) \in Nat
      /\ Append(h, r)[Len(h) + 1] = r
  BY AppendProperties, LenProperties
<1>2. Append(h, r) # <<>>
  BY <1>1
<1> QED
  BY <1>1, <1>2 DEF StatusAfter

\* Which steps take what the histories tell from memory, or from a working copy.
LEMMA ToldMoves ==
    ASSUME SafeInv, NEW t \in Threads, Step(t) \/ Call(t), ~StorageFails(t)
    PROVE  \/ AppendRecord(t) \/ DeleteRecords(t) \/ Commit(t)
           \/ Told' = Told /\ UNCHANGED diskRecords
<1> USE DEF SafeInv, TypeInv
<1>1. OnlyMoves(t) /\ TypeOK
  BY StepMovesOne
<1>2. ASSUME pc[t] \notin Locked, pc'[t] \notin Locked, UNCHANGED <<fleet, owner>> PROVE Told' = Told
  BY <1>1, <1>2 DEF Told, Recorded, OnlyMoves, LockInv, TypeOK, Locked
<1>3. CASE Call(t)
  <2>1. ASSUME NEW place \in {"entry", "lookup"}, NEW o, NEW v, NEW c, NEW s,
               Enter(t, place, o, v, c, s)
        PROVE  /\ pc[t] \notin Locked /\ pc'[t] \notin Locked
               /\ UNCHANGED <<fleet, owner, diskRecords>>
    BY <1>1, <2>1 DEF Enter, memory, disk, TypeOK, Locked
  <2>2. pc[t] \notin Locked /\ pc'[t] \notin Locked /\ UNCHANGED <<fleet, owner, diskRecords>>
    BY <1>3, <2>1 DEF Call, CallAdd, CallRemove, CallRent, CallReturnVehicle, CallReturnCode,
       CallUpdate
  <2> QED
    BY <1>2, <2>2
<1>4. CASE RejectArguments(t) \/ LookupFails(t) \/ Refuse(t) \/ Reply(t) \/ PrintAndReply(t)
           \/ PrintThrows(t) \/ Lookup(t)
  <2>1. /\ pc[t] \notin Locked /\ pc'[t] \notin Locked /\ UNCHANGED <<fleet, owner, diskRecords>>
    BY <1>1, <1>4 DEF RejectArguments, LookupFails, Refuse, Reply, PrintAndReply, PrintThrows, Lookup,
       Leave, AtLock, memory, disk, TypeOK, Locked
  <2> QED
    BY <1>2, <2>1
<1>5. CASE PrepareRent(t) \/ PrepareReturn(t) \/ PrepareAdd(t) \/ PrepareRemove(t)
           \/ PrepareUpdate(t)
  <2>1. /\ owner = NoThread /\ owner' = t /\ pc'[t] = "saveFleet" /\ UNCHANGED <<fleet, diskRecords>>
    BY <1>1, <1>5 DEF PrepareRent, PrepareReturn, PrepareAdd, PrepareRemove, PrepareUpdate,
       Prepare, AtLock, memory, disk, TypeOK
  <2> QED
    BY <2>1, SetsAssumption DEF Told, Recorded
<1>6. CASE SaveFleet(t) \/ SaveRentals(t)
  <2>1. PICK p \in {"saveFleet", "saveRentals"} : Advance(t, p)
    BY <1>6 DEF SaveFleet, SaveRentals
  <2>2. /\ pc[t] = p /\ owner = t /\ op[t] \in AllOps /\ pc'[t] = NextPlace(op[t], p)
        /\ UNCHANGED <<fleet, owner, newFleet, diskRecords, op>>
    BY <1>1, <1>6, <2>1 DEF SaveFleet, SaveRentals, Advance, memory, locals, LockInv, Locked, TypeOK
  <2>3. Recorded(t)' <=> Recorded(t)
    BY <2>2, NextPlaceValue DEF Recorded, AllOps, IsReturn, CallInv
  <2> QED
    BY <2>2, <2>3 DEF Told
<1> QED
  BY <1>3, <1>4, <1>5, <1>6 DEF Step

LEMMA HistoryInvAppend ==
    ASSUME TrailInv, "Rented" \notin UpdateStatuses, NEW t \in Threads, AppendRecord(t)
    PROVE  HistoryInv'
<1> USE DEF TrailInv, SafeInv, TypeInv
<1>1. /\ pc[t] = "appendRecord" /\ owner = t /\ op[t] \in AllOps /\ owner' = t
      /\ pc'[t] = NextPlace(op[t], "appendRecord") /\ Copied(t)
      /\ UNCHANGED <<fleet, newFleet, op, faults, restarts>>
      /\ diskRecords' = [diskRecords EXCEPT ![veh[t]] = Append(diskRecords[veh[t]], RecordFor(t))]
  BY DEF AppendRecord, Advance, memory, locals, TypeOK, LockInv, CopyInv, Locked
<1>2. ~Recorded(t) /\ Recorded(t)' /\ (op[t] \in {"Rent", "Update"} \/ IsReturn(op[t]))
  BY <1>1, NextPlaceValue DEF Recorded, CallInv, IsReturn, AllOps
<1>3. Told = fleet /\ Told' = newFleet[t]
  BY <1>1, <1>2 DEF Told
<1> DEFINE r == RecordFor(t)
           n == Append(diskRecords[veh[t]], r)
<1>4. r \in Record /\ diskRecords[veh[t]] \in Seq(Record) /\ veh[t] \in Vehicles
  BY <1>1, <1>2 DEF Copied, RecordFor, Record, TypeOK, IsReturn
<1>5. Tells(n, newFleet[t][veh[t]])
  <2>1. fleet \in Fleets /\ stat[t] \in Status
    BY DEF TypeOK
  <2>2. CASE op[t] = "Rent"
    <3>1. newFleet[t][veh[t]] = "Rented" /\ r.type = "Checkout"
      BY <1>1, <1>4, <2>1, <2>2 DEF Copied, RecordFor, Fleets
    <3> QED
      BY <1>4, <3>1, StatusAfterAppend DEF Tells, Absent
  <2>3. CASE IsReturn(op[t])
    <3>1. newFleet[t][veh[t]] = "Available" /\ r.type = "Returned"
      BY <1>1, <1>4, <2>1, <2>3 DEF Copied, RecordFor, Fleets, IsReturn
    <3> QED
      BY <1>4, <3>1, StatusAfterAppend DEF Tells, Absent
  <2>4. CASE op[t] = "Update"
    <3>1. /\ newFleet[t][veh[t]] = stat[t]
          /\ r.type = IF stat[t] = "Maintenance" THEN "Maintenance" ELSE "Note"
      BY <1>1, <1>4, <2>1, <2>4 DEF Copied, RecordFor, Fleets, IsReturn
    <3>2. stat[t] \in {"Available", "Maintenance"}
      BY <1>1, <2>1, <2>4 DEF UpdatesInv, Locked, Status
    <3> QED
      BY <1>4, <3>1, <3>2, StatusAfterAppend DEF Tells, Absent
  <2> QED
    BY <1>2, <2>2, <2>3, <2>4
<1>6. \A w \in Vehicles : w # veh[t] => newFleet[t][w] = fleet[w]
  BY <1>1, <1>2 DEF Copied, TypeOK, Fleets, IsReturn
<1>7. diskRecords' = [diskRecords EXCEPT ![veh[t]] = n]
  BY <1>1
<1> HIDE DEF n, r
<1>8. ASSUME NEW w \in Vehicles, faults = 0, restarts = 0 PROVE Tells(diskRecords'[w], newFleet[t][w])
  <2>1. Tells(diskRecords[w], fleet[w])
    BY <1>3, <1>8 DEF HistoryInv
  <2> QED
    BY <1>4, <1>5, <1>6, <1>7, <2>1 DEF TypeOK
<1> QED
  BY <1>1, <1>3, <1>8 DEF HistoryInv

LEMMA HistoryInvDelete ==
    ASSUME TrailInv, NEW t \in Threads, DeleteRecords(t) PROVE HistoryInv'
<1> USE DEF TrailInv, SafeInv, TypeInv
<1>1. /\ pc[t] = "deleteRecords" /\ owner = t /\ op[t] = "Remove" /\ owner' = t
      /\ pc'[t] = NextPlace(op[t], "deleteRecords") /\ Copied(t)
      /\ UNCHANGED <<fleet, newFleet, op, restarts>>
      /\ \/ diskRecords' = [diskRecords EXCEPT ![veh[t]] = <<>>] /\ UNCHANGED faults
         \/ faults' = faults + 1
  BY DEF DeleteRecords, Advance, memory, locals, TypeOK, LockInv, CallInv, CopyInv, Locked
<1>2. ~Recorded(t) /\ Recorded(t)'
  BY <1>1, NextPlaceValue DEF Recorded, IsReturn, AllOps
<1>3. Told = fleet /\ Told' = newFleet[t]
  BY <1>1, <1>2 DEF Told
<1>4. newFleet[t] = [fleet EXCEPT ![veh[t]] = Absent] /\ fleet \in Fleets /\ veh[t] \in Vehicles
  BY <1>1 DEF Copied, TypeOK
<1>5. ASSUME NEW w \in Vehicles, faults' = 0, restarts = 0 PROVE Tells(diskRecords'[w], newFleet[t][w])
  <2>1. faults = 0 /\ diskRecords' = [diskRecords EXCEPT ![veh[t]] = <<>>]
    BY <1>1, <1>5, BoundsAssumption DEF TypeOK
  <2>2. Tells(diskRecords[w], fleet[w])
    BY <1>3, <1>5, <2>1 DEF HistoryInv
  <2> QED
    BY <1>4, <2>1, <2>2 DEF Tells, TypeOK, Fleets
<1> QED
  BY <1>1, <1>3, <1>5 DEF HistoryInv

LEMMA HistoryInvCommit ==
    ASSUME TrailInv, TypeInv', NEW t \in Threads, Commit(t) PROVE HistoryInv'
<1> USE DEF TrailInv, SafeInv, TypeInv
<1>1. /\ pc[t] = "commit" /\ owner = t /\ owner' = NoThread /\ Copied(t)
      /\ fleet' = newFleet[t] /\ UNCHANGED <<diskRecords, faults, restarts>>
  BY DEF Commit, disk, LockInv, CopyInv, Locked
<1>2. Told' = newFleet[t]
  BY <1>1, SetsAssumption DEF Told
<1>3. Told = IF op[t] = "Add" THEN fleet ELSE newFleet[t]
  BY <1>1 DEF Told, Recorded
<1>4. ASSUME NEW w \in Vehicles, faults = 0, restarts = 0, op[t] = "Add"
      PROVE  Tells(diskRecords[w], newFleet[t][w])
  <2>1. Tells(diskRecords[w], fleet[w])
    BY <1>3, <1>4 DEF HistoryInv
  <2> QED
    BY <1>1, <1>4, <2>1 DEF Tells, StatusAfter, Copied, TypeOK, Fleets, Absent
<1> QED
  BY <1>1, <1>2, <1>3, <1>4 DEF HistoryInv

LEMMA TrailInvNext ==
    ASSUME "Rented" \notin UpdateStatuses PROVE TrailInv /\ [Next]_vars => TrailInv'
<1> SUFFICES ASSUME TrailInv, [Next]_vars PROVE TrailInv'
  OBVIOUS
<1> USE DEF TrailInv
<1>1. SafeInv' /\ TypeInv /\ TypeInv' /\ TypeOK
  BY SafeInvNext DEF SafeInv, TypeInv
<1>2. CASE UNCHANGED vars
  BY <1>1, <1>2 DEF vars, memory, disk, locals, UpdatesInv, HistoryInv, Told, Recorded
<1>3. CASE Restart
  <2>1. restarts' # 0 /\ \A t \in Threads : op'[t] = "Rent"
    BY <1>1, <1>3, BoundsAssumption DEF Restart, TypeOK
  <2> QED
    BY <1>1, <2>1 DEF UpdatesInv, HistoryInv
<1>4. ASSUME NEW t \in Threads, Call(t) PROVE UpdatesInv' /\ HistoryInv'
  <2>1. UpdatesInv'
    <3>1. ASSUME NEW place, NEW o, NEW v, NEW c, NEW s, Enter(t, place, o, v, c, s),
                 o = "Update" => s \in UpdateStatuses
          PROVE  UpdatesInv'
      BY <1>1, <3>1 DEF Enter, UpdatesInv, TypeOK
    <3> QED
      BY <1>4, <3>1 DEF Call, CallAdd, CallRemove, CallRent, CallReturnVehicle, CallReturnCode,
         CallUpdate
  <2>2. UNCHANGED <<faults, restarts, diskRecords>>
    BY <1>4 DEF Call, CallAdd, CallRemove, CallRent, CallReturnVehicle, CallReturnCode, CallUpdate,
       Enter, disk
  <2>3. ~StorageFails(t) /\ ~AppendRecord(t) /\ ~DeleteRecords(t) /\ ~Commit(t)
    BY <1>4 DEF Call, CallAdd, CallRemove, CallRent, CallReturnVehicle, CallReturnCode, CallUpdate,
       Enter, StorageFails, AppendRecord, DeleteRecords, Advance, Commit
  <2>4. Told' = Told
    BY <1>4, <2>3, ToldMoves
  <2> QED
    BY <2>1, <2>2, <2>4 DEF HistoryInv
<1>5. ASSUME NEW t \in Threads, Step(t) PROVE UpdatesInv'
  <2>1. OnlyMoves(t)
    BY <1>1, <1>5, StepMovesOne
  <2>2. pc'[t] \in {"entry"} \cup Locked =>
          op'[t] # "Update" \/ (pc[t] \in {"entry"} \cup Locked /\ op'[t] = op[t] /\ stat'[t] = stat[t])
    <3>1. CASE RejectArguments(t) \/ LookupFails(t) \/ Refuse(t) \/ StorageFails(t)
               \/ Reply(t) \/ PrintAndReply(t) \/ PrintThrows(t)
      BY <1>1, <3>1 DEF RejectArguments, LookupFails, Refuse, StorageFails, Reply, PrintAndReply,
         PrintThrows, Leave, TypeOK
    <3>2. CASE Lookup(t) \/ Commit(t)
      BY <1>1, <3>2 DEF Lookup, Commit, locals, TypeInv, CallInv, TypeOK, Locked
    <3>3. CASE PrepareRent(t) \/ PrepareReturn(t) \/ PrepareAdd(t) \/ PrepareRemove(t)
               \/ PrepareUpdate(t)
      BY <3>3 DEF PrepareRent, PrepareReturn, PrepareAdd, PrepareRemove, PrepareUpdate, Prepare,
         AtLock
    <3>4. CASE SaveFleet(t) \/ SaveRentals(t) \/ AppendRecord(t) \/ DeleteRecords(t)
      BY <3>4 DEF SaveFleet, SaveRentals, AppendRecord, DeleteRecords, Advance, locals, Locked
    <3> QED
      BY <1>5, <3>1, <3>2, <3>3, <3>4 DEF Step
  <2> QED
    BY <2>1, <2>2 DEF UpdatesInv, OnlyMoves
<1>6. ASSUME NEW t \in Threads, Step(t) PROVE HistoryInv'
  <2>1. CASE StorageFails(t)
    <3>1. faults' # 0
      BY <1>1, <2>1, BoundsAssumption DEF StorageFails, TypeOK
    <3> QED
      BY <3>1 DEF HistoryInv
  <2>2. CASE AppendRecord(t)
    BY <2>2, HistoryInvAppend
  <2>3. CASE DeleteRecords(t)
    BY <2>3, HistoryInvDelete
  <2>4. CASE Commit(t)
    BY <1>1, <2>4, HistoryInvCommit
  <2>5. ~(StorageFails(t) \/ AppendRecord(t) \/ DeleteRecords(t) \/ Commit(t)) =>
          UNCHANGED <<faults, restarts>> /\ Told' = Told /\ UNCHANGED diskRecords
    <3>1. SUFFICES ASSUME ~(StorageFails(t) \/ AppendRecord(t) \/ DeleteRecords(t) \/ Commit(t))
                   PROVE  UNCHANGED <<faults, restarts>> /\ Told' = Told /\ UNCHANGED diskRecords
      OBVIOUS
    <3>2. Told' = Told /\ UNCHANGED diskRecords
      BY <1>6, <3>1, ToldMoves
    <3>3. UNCHANGED <<faults, restarts>>
      BY <1>6, <3>1 DEF Step, RejectArguments, Lookup, LookupFails, PrepareRent, PrepareReturn,
         PrepareAdd, PrepareRemove, PrepareUpdate, Prepare, Refuse, SaveFleet, SaveRentals, Advance,
         Reply, PrintAndReply, PrintThrows
    <3> QED
      BY <3>2, <3>3
  <2> QED
    BY <2>1, <2>2, <2>3, <2>4, <2>5 DEF HistoryInv
<1> QED
  BY <1>1, <1>2, <1>3, <1>4, <1>5, <1>6 DEF Next, Quiescent

\* As long as storage works, the last record of a vehicle's history tells its
\* status whenever no call holds the lock.  Only updateVehicleStatus(Rented),
\* which writes a record that reads "Available", would break it: the screen
\* passes Available and Maintenance only.
THEOREM HistoryIsFaithful ==
    ASSUME "Rented" \notin UpdateStatuses PROVE Spec => []HistoryTellsStatus
<1>1. Init => TrailInv
  <2> SUFFICES ASSUME Init PROVE TrailInv
    OBVIOUS
  <2>1. UpdatesInv
    BY DEF Init, UpdatesInv
  <2>2. Told = fleet
    BY SetsAssumption DEF Init, Told
  <2>3. HistoryInv
    BY <2>2 DEF Init, HistoryInv, Tells, StatusAfter
  <2> QED
    BY <2>1, <2>3, SafeInvInit DEF TrailInv
<1>2. TrailInv => HistoryTellsStatus
  <2> SUFFICES ASSUME TrailInv, owner = NoThread, faults = 0, restarts = 0,
                      NEW v \in Vehicles, fleet[v] # Absent
               PROVE  fleet[v] = StatusAfter(diskRecords[v])
    BY DEF HistoryTellsStatus
  <2> QED
    BY SetsAssumption DEF TrailInv, HistoryInv, Told, Tells
<1> QED
  BY <1>1, <1>2, TrailInvNext, PTL DEF Spec

(***************************************************************************)
(* The damage of stops and failures.  Suspects are the vehicles about      *)
(* which memory disagrees with itself or the files with memory, except     *)
(* that the files may disagree about the vehicle that is being let or      *)
(* returned.  A storage call writes what memory holds of every other       *)
(* vehicle, so no step of a call adds a suspect; a stop or a failure adds  *)
(* the vehicle it leaves half written.                                     *)
(***************************************************************************)
MemorySuspect(v) ==
    \/ ~(fleet[v] = "Rented" <=> \E c \in Codes : rentals[c] = v)
    \/ \E c, d \in Codes : c # d /\ rentals[c] = v /\ rentals[d] = v

FilesDiffer(v) ==
    \/ ~(diskFleet[v] = "Rented" <=> fleet[v] = "Rented")
    \/ \E c \in Codes : ~(diskRentals[c] = v <=> rentals[c] = v)

UnderWay(v) == \E t \in Threads :
    owner = t /\ v = veh[t] /\ (op[t] = "Rent" \/ IsReturn(op[t]))

Suspects == {v \in Vehicles : MemorySuspect(v) \/ (FilesDiffer(v) /\ ~UnderWay(v))}

DamageInv == IsFiniteSet(Suspects) /\ Cardinality(Suspects) <= restarts + faults

SuspectInv == FleetFileInv /\ NoUpdates /\ DamageInv

LEMMA NoUpdatesNext ==
    ASSUME "Update" \notin Ops, TypeInv, NoUpdates, [Next]_vars PROVE NoUpdates'
<1> USE DEF TypeInv, TypeOK, NoUpdates
<1>1. CASE UNCHANGED vars
  BY <1>1 DEF vars, locals
<1>2. ASSUME NEW t \in Threads, Call(t) PROVE NoUpdates'
  BY <1>2 DEF Call, CallAdd, CallRemove, CallRent, CallReturnVehicle, CallReturnCode, CallUpdate,
     Enter
<1>3. ASSUME NEW t \in Threads, Step(t) PROVE NoUpdates'
  <2>1. op'[t] \in {op[t], "Rent"}
    BY <1>3 DEF Step, RejectArguments, Lookup, LookupFails, PrepareRent, PrepareReturn, PrepareAdd,
       PrepareRemove, PrepareUpdate, Prepare, Refuse, SaveFleet, SaveRentals, AppendRecord,
       DeleteRecords, Advance, StorageFails, Commit, Reply, PrintAndReply, PrintThrows, Leave, locals
  <2> QED
    BY <1>3, <2>1, StepMovesOne DEF OnlyMoves
<1> QED
  BY <1>1, <1>2, <1>3 DEF Next, Quiescent, Restart

LEMMA CountOneMore ==
    ASSUME NEW S, IsFiniteSet(S), NEW T, NEW x, T \subseteq S \cup {x}
    PROVE  /\ IsFiniteSet(T) /\ Cardinality(T) \in Nat /\ Cardinality(S) \in Nat
           /\ Cardinality(T) <= Cardinality(S) + 1
<1>1. /\ IsFiniteSet(S \cup {x}) /\ Cardinality(S) \in Nat
      /\ Cardinality(S \cup {x}) \in {Cardinality(S), Cardinality(S) + 1}
  BY FS_AddElement, FS_CardinalityType
<1>2. IsFiniteSet(T) /\ Cardinality(T) <= Cardinality(S \cup {x}) /\ Cardinality(T) \in Nat
  BY <1>1, FS_Subset, FS_CardinalityType
<1> QED
  BY <1>1, <1>2

LEMMA CountNoMore ==
    ASSUME NEW S, IsFiniteSet(S), NEW T, T \subseteq S
    PROVE  /\ IsFiniteSet(T) /\ Cardinality(T) \in Nat /\ Cardinality(S) \in Nat
           /\ Cardinality(T) <= Cardinality(S)
BY FS_Subset, FS_CardinalityType

\* What the steps of one thread do to the suspects.
LEMMA SuspectsStep ==
    ASSUME FleetFileInv, NoUpdates, NEW t \in Threads, Call(t) \/ Step(t)
    PROVE  \/ Suspects' \subseteq Suspects
           \/ StorageFails(t) /\ Suspects' \subseteq Suspects \cup {veh[t]}
<1> USE DEF FleetFileInv, SafeInv, TypeInv
<1>1. OnlyMoves(t) /\ TypeOK /\ op[t] \in AllOps \ {"Update"} /\ fleet \in Fleets /\ rentals \in RentalMaps
  BY StepMovesOne DEF TypeOK, NoUpdates
<1>2. ASSUME UNCHANGED <<fleet, rentals, diskFleet, diskRentals>>,
             owner' = owner \/ owner = NoThread, owner = t => UNCHANGED <<op, veh>>
      PROVE  Suspects' \subseteq Suspects
  <2>1. \A v \in Vehicles : UnderWay(v) => UnderWay(v)'
    BY <1>1, <1>2, SetsAssumption DEF UnderWay, OnlyMoves
  <2> QED
    BY <1>2, <2>1 DEF Suspects, MemorySuspect, FilesDiffer
<1>3. CASE Call(t)
  <2>1. ASSUME NEW place, NEW o, NEW v, NEW c, NEW s, Enter(t, place, o, v, c, s)
        PROVE  UNCHANGED <<fleet, rentals, diskFleet, diskRentals, owner>> /\ owner # t
    BY <2>1 DEF Enter, memory, disk, LockInv, Locked
  <2>2. UNCHANGED <<fleet, rentals, diskFleet, diskRentals, owner>> /\ owner # t
    BY <1>3, <2>1 DEF Call, CallAdd, CallRemove, CallRent, CallReturnVehicle, CallReturnCode,
       CallUpdate
  <2> QED
    BY <1>2, <2>2
<1>4. CASE RejectArguments(t) \/ LookupFails(t) \/ Refuse(t) \/ Reply(t) \/ PrintAndReply(t)
           \/ PrintThrows(t) \/ Lookup(t)
  <2>1. UNCHANGED <<fleet, rentals, diskFleet, diskRentals, owner>> /\ owner # t
    BY <1>4 DEF RejectArguments, LookupFails, Refuse, Reply, PrintAndReply, PrintThrows, Lookup,
       AtLock, memory, disk, LockInv, Locked
  <2> QED
    BY <1>2, <2>1
<1>5. CASE PrepareRent(t) \/ PrepareReturn(t) \/ PrepareAdd(t) \/ PrepareRemove(t)
           \/ PrepareUpdate(t)
  <2>1. UNCHANGED <<fleet, rentals, diskFleet, diskRentals>> /\ owner = NoThread
    BY <1>5 DEF PrepareRent, PrepareReturn, PrepareAdd, PrepareRemove, PrepareUpdate, Prepare,
       AtLock, memory, disk
  <2> QED
    BY <1>2, <2>1, SetsAssumption
<1>6. CASE AppendRecord(t) \/ DeleteRecords(t)
  <2>1. UNCHANGED <<fleet, rentals, diskFleet, diskRentals, owner, op, veh>>
    BY <1>6 DEF AppendRecord, DeleteRecords, Advance, memory, locals
  <2> QED
    BY <1>2, <2>1
\* What the copies of the thread that holds the lock say of the other vehicles.
<1>7. ASSUME pc[t] \in Locked
      PROVE  /\ owner = t /\ Copied(t) /\ veh[t] \in Vehicles
             /\ \A v \in Vehicles : v # veh[t] =>
                  /\ newFleet[t][v] = fleet[v]
                  /\ \A c \in Codes : newRentals[t][c] = v <=> rentals[c] = v
             /\ op[t] \in {"Add", "Remove"} =>
                  /\ newRentals[t] = rentals
                  /\ fleet[veh[t]] # "Rented" /\ newFleet[t][veh[t]] # "Rented"
  <2>1. owner = t /\ Copied(t)
    BY <1>7 DEF LockInv, CopyInv
  <2>2. veh[t] \in Vehicles
    BY <2>1 DEF Copied
  <2>3. ASSUME NEW v \in Vehicles, v # veh[t] PROVE newFleet[t][v] = fleet[v]
    BY <1>1, <2>1, <2>3 DEF Copied, AllOps, IsReturn, Fleets
  <2>4. ASSUME NEW v \in Vehicles, v # veh[t], NEW c \in Codes
        PROVE  newRentals[t][c] = v <=> rentals[c] = v
    BY <1>1, <2>1, <2>4, SetsAssumption DEF Copied, AllOps, IsReturn, RentalMaps
  <2>5. op[t] \in {"Add", "Remove"} =>
          /\ newRentals[t] = rentals
          /\ fleet[veh[t]] # "Rented" /\ newFleet[t][veh[t]] # "Rented"
    BY <1>1, <2>1, <2>2 DEF Copied, Fleets, Absent
  <2> QED
    BY <2>1, <2>2, <2>3, <2>4, <2>5
<1>8. CASE SaveFleet(t)
  <2>1. /\ pc[t] \in Locked /\ diskFleet' = newFleet[t]
        /\ UNCHANGED <<fleet, rentals, diskRentals, owner, op, veh>>
    BY <1>8 DEF SaveFleet, Advance, memory, locals, Locked
  <2>2. ASSUME NEW v \in Vehicles, v # veh[t] \/ op[t] \in {"Add", "Remove"}
        PROVE  FilesDiffer(v)' => FilesDiffer(v)
    BY <1>7, <2>1, <2>2 DEF FilesDiffer
  <2>3. ASSUME NEW v \in Vehicles PROVE UnderWay(v)' <=> UnderWay(v)
    BY <2>1 DEF UnderWay
  <2>4. op[t] \notin {"Add", "Remove"} => UnderWay(veh[t])
    BY <1>1, <1>7, <2>1 DEF UnderWay, AllOps, IsReturn
  <2>5. ASSUME NEW v \in Vehicles PROVE MemorySuspect(v)' <=> MemorySuspect(v)
    BY <2>1 DEF MemorySuspect
  <2> QED
    BY <2>2, <2>3, <2>4, <2>5 DEF Suspects
<1>9. CASE SaveRentals(t)
  <2>1. /\ pc[t] \in Locked /\ diskRentals' = newRentals[t] /\ (op[t] = "Rent" \/ IsReturn(op[t]))
        /\ UNCHANGED <<fleet, rentals, diskFleet, owner, op, veh>>
    BY <1>9 DEF SaveRentals, Advance, memory, locals, Locked, CallInv
  <2>2. ASSUME NEW v \in Vehicles, v # veh[t] PROVE FilesDiffer(v)' => FilesDiffer(v)
    BY <1>7, <2>1, <2>2 DEF FilesDiffer
  <2>3. ASSUME NEW v \in Vehicles PROVE UnderWay(v)' <=> UnderWay(v)
    BY <2>1 DEF UnderWay
  <2>4. UnderWay(veh[t])
    BY <1>7, <2>1 DEF UnderWay
  <2>5. ASSUME NEW v \in Vehicles PROVE MemorySuspect(v)' <=> MemorySuspect(v)
    BY <2>1 DEF MemorySuspect
  <2> QED
    BY <2>2, <2>3, <2>4, <2>5 DEF Suspects
<1>10. CASE StorageFails(t)
  <2>1. UNCHANGED <<fleet, rentals, diskFleet, diskRentals>> /\ pc[t] \in Locked
    BY <1>10 DEF StorageFails, memory, disk, Locked
  <2>2. \A v \in Vehicles : UnderWay(v) => v = veh[t]
    BY <1>7, <2>1 DEF UnderWay
  <2> QED
    BY <1>10, <2>1, <2>2 DEF Suspects, MemorySuspect, FilesDiffer
<1>11. CASE Commit(t)
  <2>1. /\ pc[t] = "commit" /\ fleet' = newFleet[t] /\ rentals' = newRentals[t]
        /\ UNCHANGED <<diskFleet, diskRentals, op>> /\ diskFleet = newFleet[t] /\ owner' = NoThread
    BY <1>11 DEF Commit, disk, locals, FilesInv, Locked
  <2>2. ASSUME NEW v \in Vehicles, v # veh[t] PROVE MemorySuspect(v)' => MemorySuspect(v)
    BY <1>7, <2>1, <2>2 DEF MemorySuspect, Locked
  <2>3. CASE op[t] \in {"Add", "Remove"}
    <3>1. ASSUME NEW v \in Vehicles, v = veh[t] PROVE MemorySuspect(v)' => MemorySuspect(v)
      BY <1>7, <2>1, <2>3, <3>1 DEF MemorySuspect, Locked
    <3>2. \A v \in Vehicles : FilesDiffer(v)' => FilesDiffer(v)
      BY <1>7, <2>1, <2>3 DEF FilesDiffer, Locked
    <3>3. \A v \in Vehicles : ~UnderWay(v)
      BY <1>7, <2>1, <2>3 DEF UnderWay, IsReturn, Locked
    <3> QED
      BY <2>2, <3>1, <3>2, <3>3 DEF Suspects
  <2>4. CASE op[t] = "Rent" \/ IsReturn(op[t])
    <3>1. diskRentals = newRentals[t]
      BY <2>1, <2>4 DEF DiskInv
    <3>2. \A v \in Vehicles : ~FilesDiffer(v)'
      BY <2>1, <3>1 DEF FilesDiffer
    <3>3. ASSUME NEW v \in Vehicles, v = veh[t] PROVE MemorySuspect(v)' => MemorySuspect(v)
      <4>1. Copied(t)
        BY <1>7, <2>1 DEF Locked
      <4>2. CASE op[t] = "Rent"
        <5>1. /\ code[t] \in Codes /\ fleet[v] = "Available" /\ fleet'[v] = "Rented"
              /\ \A c \in Codes : rentals'[c] = IF c = code[t] THEN v ELSE rentals[c]
          BY <1>1, <2>1, <3>3, <4>1, <4>2 DEF Copied, Fleets, RentalMaps
        <5> QED
          BY <5>1 DEF MemorySuspect
      <4>3. CASE IsReturn(op[t])
        <5>1. /\ code[t] \in Codes /\ rentals[code[t]] = v /\ fleet'[v] = "Available"
              /\ \A c \in Codes : rentals'[c] = IF c = code[t] THEN NoVehicle ELSE rentals[c]
          BY <1>1, <2>1, <3>3, <4>1, <4>3 DEF Copied, Fleets, RentalMaps
        <5> QED
          BY <5>1, SetsAssumption DEF MemorySuspect
      <4> QED
        BY <2>4, <4>2, <4>3
    <3> QED
      BY <2>2, <3>2, <3>3 DEF Suspects
  <2> QED
    BY <1>1, <2>3, <2>4 DEF AllOps, IsReturn
<1> QED
  BY <1>3, <1>4, <1>5, <1>6, <1>8, <1>9, <1>10, <1>11 DEF Step

LEMMA SuspectsRestart ==
    ASSUME FleetFileInv, Restart
    PROVE  \E v \in Vehicles \cup {NoVehicle} : Suspects' \subseteq Suspects \cup {v}
<1>1. \A v \in Vehicles : fleet'[v] = "Rented" <=> diskFleet[v] = "Rented"
  BY DEF Restart, SeededFleet, NoFleet, Absent
<1>2. rentals' = diskRentals /\ UNCHANGED diskRentals /\ fleet' = diskFleet'
  BY DEF Restart
<1>3. \A v \in Vehicles : ~FilesDiffer(v)'
  BY <1>2 DEF FilesDiffer
<1>4. \A v \in Vehicles : MemorySuspect(v)' => MemorySuspect(v) \/ FilesDiffer(v)
  BY <1>1, <1>2 DEF MemorySuspect, FilesDiffer
<1>5. Suspects' \subseteq Suspects \cup {v \in Vehicles : UnderWay(v)}
  BY <1>3, <1>4 DEF Suspects
<1>6. \E v \in Vehicles \cup {NoVehicle} : \A w \in Vehicles : UnderWay(w) => w = v
  BY DEF UnderWay
<1> QED
  BY <1>5, <1>6

LEMMA SuspectInvNext ==
    ASSUME "Update" \notin Ops PROVE SuspectInv /\ [Next]_vars => SuspectInv'
<1> SUFFICES ASSUME SuspectInv, [Next]_vars PROVE SuspectInv'
  OBVIOUS
<1> USE DEF SuspectInv
<1>1. FleetFileInv' /\ TypeOK /\ TypeInv /\ TypeOK'
  BY FilesInvNext DEF FleetFileInv, SafeInv, TypeInv
<1>2. NoUpdates'
  BY <1>1, NoUpdatesNext
<1>3. restarts \in Nat /\ faults \in Nat
  BY <1>1, BoundsAssumption DEF TypeOK
<1>4. ASSUME Suspects' \subseteq Suspects, restarts' = restarts, faults' \in {faults, faults + 1}
      PROVE  DamageInv'
  <2>1. IsFiniteSet(Suspects) /\ Cardinality(Suspects) <= restarts + faults
    BY DEF DamageInv
  <2>2. /\ IsFiniteSet(Suspects') /\ Cardinality(Suspects') \in Nat /\ Cardinality(Suspects) \in Nat
        /\ Cardinality(Suspects') <= Cardinality(Suspects)
    BY <1>4, <2>1, CountNoMore
  <2>3. Cardinality(Suspects') <= restarts' + faults'
    BY <1>3, <1>4, <2>1, <2>2
  <2> QED
    BY <2>2, <2>3 DEF DamageInv
<1>5. ASSUME NEW x, Suspects' \subseteq Suspects \cup {x},
             restarts' + faults' = restarts + faults + 1
      PROVE  DamageInv'
  <2>1. IsFiniteSet(Suspects) /\ Cardinality(Suspects) <= restarts + faults
    BY DEF DamageInv
  <2>2. /\ IsFiniteSet(Suspects') /\ Cardinality(Suspects') \in Nat /\ Cardinality(Suspects) \in Nat
        /\ Cardinality(Suspects') <= Cardinality(Suspects) + 1
    BY <1>5, <2>1, CountOneMore
  <2>3. Cardinality(Suspects') <= restarts' + faults'
    BY <1>3, <1>5, <2>1, <2>2
  <2> QED
    BY <2>2, <2>3 DEF DamageInv
<1>6. CASE UNCHANGED vars
  <2>1. Suspects' = Suspects
    BY <1>6 DEF vars, memory, disk, locals, Suspects, MemorySuspect, FilesDiffer, UnderWay
  <2>2. UNCHANGED <<restarts, faults>>
    BY <1>6 DEF vars
  <2>3. DamageInv'
    BY <1>4, <2>1, <2>2
  <2> QED
    BY <1>1, <1>2, <2>3
<1>7. CASE Restart
  <2>1. restarts' + faults' = restarts + faults + 1
    BY <1>3, <1>7 DEF Restart
  <2>2. DamageInv'
    BY <1>5, <1>7, <2>1, SuspectsRestart
  <2> QED
    BY <1>1, <1>2, <2>2
<1>8. ASSUME NEW t \in Threads, Call(t) \/ Step(t) PROVE DamageInv'
  <2>1. CASE StorageFails(t)
    <3>1. restarts' + faults' = restarts + faults + 1
      BY <1>3, <2>1 DEF StorageFails
    <3>2. Suspects' \subseteq Suspects \cup {veh[t]}
      BY <1>8, SuspectsStep
    <3> QED
      BY <1>5, <3>1, <3>2
  <2>2. CASE ~StorageFails(t)
    <3>1. UNCHANGED restarts /\ faults' \in {faults, faults + 1}
      BY <1>8, <2>2 DEF Call, CallAdd, CallRemove, CallRent, CallReturnVehicle, CallReturnCode,
         CallUpdate, Enter, Step, RejectArguments, Lookup, LookupFails, PrepareRent, PrepareReturn,
         PrepareAdd, PrepareRemove, PrepareUpdate, Prepare, Refuse, SaveFleet, SaveRentals,
         AppendRecord, DeleteRecords, Advance, Commit, Reply, PrintAndReply, PrintThrows
    <3>2. Suspects' \subseteq Suspects
      BY <1>8, <2>2, SuspectsStep
    <3> QED
      BY <1>4, <3>1, <3>2
  <2> QED
    BY <2>1, <2>2
<1> QED
  BY <1>1, <1>2, <1>6, <1>7, <1>8 DEF Next, Quiescent

\* However many calls, failures and stops there are, fleet.txt and rentals.txt
\* disagree about one vehicle more at most for each stop and each failure.
THEOREM DamageIsBounded ==
    ASSUME "Update" \notin Ops PROVE Spec => []DamageBounded
<1>1. Init => SuspectInv
  <2> SUFFICES ASSUME Init PROVE SuspectInv
    OBVIOUS
  <2>1. FilesInv /\ NoUpdates
    BY DEF Init, FilesInv, Locked, NoUpdates
  <2>2. Suspects = {}
    BY SetsAssumption DEF Init, Suspects, MemorySuspect, FilesDiffer, NoRentals, Absent
  <2>3. DamageInv
    BY <2>2, FS_EmptySet DEF Init, DamageInv
  <2> QED
    BY <2>1, <2>3, SafeInvInit DEF SuspectInv, FleetFileInv
<1>2. SuspectInv => DamageBounded
  <2> SUFFICES ASSUME SuspectInv PROVE DamageBounded
    OBVIOUS
  <2>1. owner \in Threads \cup {NoThread} /\ restarts \in Nat /\ faults \in Nat
    BY BoundsAssumption DEF SuspectInv, FleetFileInv, SafeInv, TypeInv, TypeOK
  <2>2. ASSUME NEW v \in Inconsistent \ InFlight PROVE v \in Suspects
    <3>1. ~UnderWay(v)
      BY <2>1, SetsAssumption DEF UnderWay, InFlight
    <3> QED
      BY <3>1 DEF Inconsistent, Suspects, MemorySuspect, FilesDiffer
  <2>3. /\ IsFiniteSet(Suspects) /\ Cardinality(Suspects) <= restarts + faults
        /\ Inconsistent \ InFlight \subseteq Suspects
    BY <2>2 DEF SuspectInv, DamageInv
  <2>4. Cardinality(Inconsistent \ InFlight) \in Nat /\ Cardinality(Suspects) \in Nat
        /\ Cardinality(Inconsistent \ InFlight) <= Cardinality(Suspects)
    BY <2>3, CountNoMore
  <2> QED
    BY <2>1, <2>3, <2>4 DEF DamageBounded
<1> QED
  BY <1>1, <1>2, SuspectInvNext, PTL DEF Spec

(***************************************************************************)
(* The checkout records.  Without status updates a history alternates      *)
(* between checkouts and returns, beginning with a checkout; it departs    *)
(* from that only at a return that failed after its record was written.    *)
(* Retold are the vehicles that are out and whose last record says they    *)
(* came back: each failure makes one at most, and the return that is tried *)
(* again turns it into one repeated record.                                *)
(***************************************************************************)
LastType(history) == IF history = <<>> THEN "Returned" ELSE history[Len(history)].type

Retold == {v \in Vehicles : Told[v] = "Rented" /\ LastType(diskRecords[v]) = "Returned"}

WrittenInv ==
    /\ \A c \in Codes : owed[c] # NoVehicle => HasCheckout(diskRecords[owed[c]], c)
    /\ \A t \in Threads : pc[t] = "commit" /\ op[t] = "Rent" =>
         HasCheckout(diskRecords[veh[t]], code[t])

AlternateInv == \A v \in Vehicles :
    /\ LastType(diskRecords[v]) \in {"Checkout", "Returned"}
    /\ LastType(diskRecords[v]) = "Checkout" => Told[v] = "Rented"

RepeatsInv ==
    /\ IsFiniteSet(RepeatsIn(diskRecords)) /\ IsFiniteSet(Retold)
    /\ Cardinality(RepeatsIn(diskRecords)) + Cardinality(Retold) <= faults

CheckoutInv == OneInv /\ (restarts = 0 => WrittenInv /\ AlternateInv /\ RepeatsInv)

LEMMA HistoryGrows ==
    ASSUME NEW h \in Seq(Record), NEW r \in Record
    PROVE  /\ LastType(Append(h, r)) = r.type
           /\ Repeated(Append(h, r)) \subseteq
                Repeated(h) \cup (IF r.type = LastType(h) THEN {Len(h) + 1} ELSE {})
           /\ \A c : HasCheckout(h, c) => HasCheckout(Append(h, r), c)
           /\ \A c : r = [type |-> "Checkout", code |-> c] => HasCheckout(Append(h, r), c)
<1> DEFINE g == Append(h, r)
<1>1. /\ Len(g) = Len(h) + 1 /\ Len(h) \in Nat /\ g[Len(h) + 1] = r /\ g # <<>>
      /\ DOMAIN g = 1..Len(h) + 1 /\ DOMAIN h = 1..Len(h)
      /\ \A i \in 1..Len(h) : g[i] = h[i]
  BY AppendProperties, LenProperties
<1> HIDE DEF g
<1>2. LastType(g) = r.type
  BY <1>1 DEF LastType
<1>3. ASSUME NEW i \in Repeated(g), i \notin Repeated(h) PROVE i = Len(h) + 1 /\ r.type = LastType(h)
  <2>1. i \in 1..Len(h) + 1 /\ g[i].type = IF i = 1 THEN "Returned" ELSE g[i - 1].type
    BY <1>1, <1>3 DEF Repeated
  <2>2. CASE i \in 1..Len(h)
    <3>1. g[i] = h[i] /\ (i # 1 => g[i - 1] = h[i - 1])
      BY <1>1, <2>2
    <3> QED
      BY <1>1, <1>3, <2>1, <2>2, <3>1 DEF Repeated
  <2>3. CASE i = Len(h) + 1
    <3>1. g[i] = r /\ (i # 1 => g[i - 1] = h[Len(h)])
      BY <1>1, <2>3
    <3>2. i = 1 <=> h = <<>>
      BY <1>1, <2>3
    <3> QED
      BY <2>1, <2>3, <3>1, <3>2 DEF LastType
  <2> QED
    BY <1>1, <2>1, <2>2, <2>3
<1>4. ASSUME NEW c, HasCheckout(h, c) PROVE HasCheckout(g, c)
  <2>1. PICK i \in 1..Len(h) : h[i] = [type |-> "Checkout", code |-> c]
    BY <1>1, <1>4 DEF HasCheckout
  <2> QED
    BY <1>1, <2>1 DEF HasCheckout
<1>5. ASSUME NEW c, r = [type |-> "Checkout", code |-> c] PROVE HasCheckout(g, c)
  BY <1>1, <1>5 DEF HasCheckout
<1> QED
  BY <1>2, <1>3, <1>4, <1>5 DEF g

LEMMA RepeatsMember ==
    ASSUME NEW records, NEW p
    PROVE  p \in RepeatsIn(records) <=>
             \E v \in Vehicles : \E i \in Repeated(records[v]) : p = <<v, i>>
BY DEF RepeatsIn

\* Replacing one history changes the repeated records of its vehicle only.
LEMMA RepeatsReplace ==
    ASSUME NEW records, DOMAIN records = Vehicles, NEW v \in Vehicles, NEW h, NEW S,
           Repeated(h) \subseteq Repeated(records[v]) \cup S
    PROVE  RepeatsIn([records EXCEPT ![v] = h]) \subseteq RepeatsIn(records) \cup ({v} \X S)
<1> SUFFICES ASSUME NEW p \in RepeatsIn([records EXCEPT ![v] = h])
             PROVE  p \in RepeatsIn(records) \cup ({v} \X S)
  OBVIOUS
<1>1. PICK w \in Vehicles : \E i \in Repeated([records EXCEPT ![v] = h][w]) : p = <<w, i>>
  BY DEF RepeatsIn
<1>2. PICK i \in Repeated([records EXCEPT ![v] = h][w]) : p = <<w, i>>
  BY <1>1
<1>3. CASE w = v
  <2>1. i \in Repeated(records[v]) \/ i \in S
    BY <1>2, <1>3
  <2> QED
    BY <1>2, <1>3, <2>1, RepeatsMember
<1>4. CASE w # v
  <2>1. i \in Repeated(records[w])
    BY <1>2, <1>4
  <2> QED
    BY <1>2, <2>1, RepeatsMember
<1> QED
  BY <1>3, <1>4

\* The three ways a step changes the repeated records, A, and the retold
\* vehicles, B: neither grows, or a retold vehicle becomes a repeated record, or
\* a failure makes a vehicle retold.
LEMMA NoneRetold ==
    ASSUME NEW A, NEW B, NEW C, NEW D, IsFiniteSet(A), IsFiniteSet(B), C \subseteq A, D \subseteq B,
           NEW n \in Nat, Cardinality(A) + Cardinality(B) <= n
    PROVE  IsFiniteSet(C) /\ IsFiniteSet(D) /\ Cardinality(C) + Cardinality(D) <= n
<1>1. /\ IsFiniteSet(C) /\ Cardinality(C) \in Nat /\ Cardinality(C) <= Cardinality(A)
      /\ IsFiniteSet(D) /\ Cardinality(D) \in Nat /\ Cardinality(D) <= Cardinality(B)
      /\ Cardinality(A) \in Nat /\ Cardinality(B) \in Nat
  BY CountNoMore
<1> QED
  BY <1>1

LEMMA OneRepeated ==
    ASSUME NEW A, NEW B, NEW C, NEW D, IsFiniteSet(A), IsFiniteSet(B), NEW x, NEW y \in B,
           C \subseteq A \cup {x}, D \subseteq B \ {y},
           NEW n \in Nat, Cardinality(A) + Cardinality(B) <= n
    PROVE  IsFiniteSet(C) /\ IsFiniteSet(D) /\ Cardinality(C) + Cardinality(D) <= n
<1>1. IsFiniteSet(B \ {y}) /\ Cardinality(B \ {y}) = Cardinality(B) - 1 /\ Cardinality(B) \in Nat
  BY FS_RemoveElement, FS_CardinalityType
<1>2. IsFiniteSet(C) /\ Cardinality(C) \in Nat /\ Cardinality(A) \in Nat
      /\ Cardinality(C) <= Cardinality(A) + 1
  BY CountOneMore
<1>3. IsFiniteSet(D) /\ Cardinality(D) \in Nat /\ Cardinality(D) <= Cardinality(B \ {y})
  BY <1>1, CountNoMore
<1> QED
  BY <1>1, <1>2, <1>3

LEMMA OneRetold ==
    ASSUME NEW A, NEW B, NEW C, NEW D, IsFiniteSet(A), IsFiniteSet(B), NEW y,
           C \subseteq A, D \subseteq B \cup {y},
           NEW n \in Nat, Cardinality(A) + Cardinality(B) <= n
    PROVE  IsFiniteSet(C) /\ IsFiniteSet(D) /\ Cardinality(C) + Cardinality(D) <= n + 1
<1>1. /\ IsFiniteSet(C) /\ Cardinality(C) \in Nat /\ Cardinality(A) \in Nat
      /\ Cardinality(C) <= Cardinality(A)
  BY CountNoMore
<1>2. IsFiniteSet(D) /\ Cardinality(D) \in Nat /\ Cardinality(B) \in Nat
      /\ Cardinality(D) <= Cardinality(B) + 1
  BY CountOneMore
<1> QED
  BY <1>1, <1>2

LEMMA CheckoutAppend ==
    ASSUME CheckoutInv, restarts = 0, NEW t \in Threads, AppendRecord(t)
    PROVE  WrittenInv' /\ AlternateInv' /\ RepeatsInv'
<1> USE DEF CheckoutInv, OneInv, SafeInv, TypeInv
<1> DEFINE v == veh[t]
           h == diskRecords[v]
           r == RecordFor(t)
           g == Append(h, r)
<1>1. /\ pc[t] = "appendRecord" /\ owner = t /\ op[t] \in AllOps \ {"Update"} /\ owner' = t
      /\ pc'[t] = NextPlace(op[t], "appendRecord") /\ Copied(t) /\ OnlyMoves(t)
      /\ UNCHANGED <<fleet, newFleet, op, veh, code, faults, restarts, owed>>
      /\ diskRecords' = [diskRecords EXCEPT ![v] = g]
  BY StepMovesOne DEF AppendRecord, Advance, memory, locals, TypeOK, LockInv, CopyInv, Locked, Step,
     NoUpdates
<1>2. /\ ~Recorded(t) /\ Recorded(t)' /\ (op[t] = "Rent" \/ IsReturn(op[t]))
      /\ \A u \in Threads \ {t} : pc'[u] # "commit"
  BY <1>1, NextPlaceValue, OneLocked DEF Recorded, CallInv, IsReturn, AllOps, OnlyMoves, Locked
<1>3. Told = fleet /\ Told' = newFleet[t]
  BY <1>1, <1>2 DEF Told
<1>4. r \in Record /\ h \in Seq(Record) /\ v \in Vehicles /\ fleet \in Fleets /\ rentals \in RentalMaps
  BY <1>1, <1>2 DEF Copied, RecordFor, Record, TypeOK, IsReturn
<1>5. /\ \A w \in Vehicles : w # v => newFleet[t][w] = fleet[w]
      /\ op[t] = "Rent" => /\ newFleet[t][v] = "Rented" /\ fleet[v] = "Available"
                           /\ r = [type |-> "Checkout", code |-> code[t]]
      /\ IsReturn(op[t]) => newFleet[t][v] = "Available" /\ r.type = "Returned"
  BY <1>1, <1>2, <1>4 DEF Copied, Fleets, RecordFor, IsReturn
<1>6. IsReturn(op[t]) => fleet[v] = "Rented"
  <2>1. IsReturn(op[t]) => code[t] \in Codes /\ rentals[code[t]] = v
    BY <1>1 DEF Copied
  <2> QED
    BY <1>4, <2>1 DEF OneRentalPerVehicle, RentedIffLet
<1>7. /\ DOMAIN diskRecords = Vehicles
      /\ \A w \in Vehicles : diskRecords'[w] = IF w = v THEN g ELSE diskRecords[w]
  BY <1>1, <1>4 DEF TypeOK
<1>8. /\ LastType(g) = r.type
      /\ Repeated(g) \subseteq Repeated(h) \cup (IF r.type = LastType(h) THEN {Len(h) + 1} ELSE {})
      /\ \A c : HasCheckout(h, c) => HasCheckout(g, c)
      /\ \A c : r = [type |-> "Checkout", code |-> c] => HasCheckout(g, c)
  BY <1>4, HistoryGrows
<1>9. /\ LastType(h) \in {"Checkout", "Returned"}
      /\ LastType(h) = "Checkout" => fleet[v] = "Rented"
  BY <1>3, <1>4 DEF AlternateInv
<1>10. v' = v
  BY <1>1
<1> HIDE DEF v, h, r, g
<1>11. WrittenInv'
  <2>1. ASSUME NEW c \in Codes, owed'[c] # NoVehicle PROVE HasCheckout(diskRecords'[owed'[c]], c)
    <3>1. owed[c] \in Vehicles /\ HasCheckout(diskRecords[owed[c]], c) /\ owed' = owed
      BY <1>1, <2>1 DEF WrittenInv, TypeOK, RentalMaps
    <3> QED
      BY <1>7, <1>8, <3>1 DEF h
  <2>2. ASSUME NEW u \in Threads, pc'[u] = "commit", op'[u] = "Rent"
        PROVE  HasCheckout(diskRecords'[veh'[u]], code'[u])
    <3>1. u = t /\ op[t] = "Rent" /\ veh'[u] = v /\ code'[u] = code[t]
      BY <1>1, <1>2, <2>2 DEF v
    <3> QED
      BY <1>4, <1>5, <1>7, <1>8, <3>1
  <2> QED
    BY <2>1, <2>2 DEF WrittenInv
<1>12. AlternateInv'
  <2> SUFFICES ASSUME NEW w \in Vehicles
               PROVE  /\ LastType(diskRecords'[w]) \in {"Checkout", "Returned"}
                      /\ LastType(diskRecords'[w]) = "Checkout" => Told'[w] = "Rented"
    BY DEF AlternateInv
  <2>1. CASE w = v
    BY <1>2, <1>3, <1>4, <1>5, <1>7, <1>8, <2>1
  <2>2. CASE w # v
    BY <1>3, <1>5, <1>7, <2>2 DEF AlternateInv
  <2> QED
    BY <2>1, <2>2
<1> DEFINE S == IF r.type = LastType(h) THEN {Len(h) + 1} ELSE {}
<1>13. RepeatsIn(diskRecords') \subseteq RepeatsIn(diskRecords) \cup ({v} \X S)
  <2>1. Repeated(g) \subseteq Repeated(diskRecords[v]) \cup S
    BY <1>8 DEF h
  <2> HIDE DEF S
  <2> QED
    BY <1>1, <1>4, <1>7, <2>1, RepeatsReplace
<1>14. \/ RepeatsIn(diskRecords') \subseteq RepeatsIn(diskRecords) /\ Retold' \subseteq Retold
       \/ /\ RepeatsIn(diskRecords') \subseteq RepeatsIn(diskRecords) \cup {<<v, Len(h) + 1>>}
          /\ Retold' \subseteq Retold \ {v} /\ v \in Retold
  <2>1. CASE r.type # LastType(h)
    <3>1. RepeatsIn(diskRecords') \subseteq RepeatsIn(diskRecords)
      BY <1>13, <2>1
    <3>2. Retold' \subseteq Retold
      BY <1>2, <1>3, <1>5, <1>7, <1>8 DEF Retold
    <3> QED
      BY <3>1, <3>2
  <2>2. CASE r.type = LastType(h)
    <3>1. IsReturn(op[t]) /\ r.type = "Returned"
      BY <1>2, <1>5, <1>9, <2>2
    <3>2. RepeatsIn(diskRecords') \subseteq RepeatsIn(diskRecords) \cup {<<v, Len(h) + 1>>}
      BY <1>13, <2>2
    <3>3. v \in Retold
      BY <1>3, <1>4, <1>6, <2>2, <3>1 DEF Retold, h
    <3>4. Retold' \subseteq Retold \ {v}
      BY <1>3, <1>5, <1>7, <3>1 DEF Retold
    <3> QED
      BY <3>2, <3>3, <3>4
  <2> QED
    BY <2>1, <2>2
<1>15. RepeatsInv'
  <2>1. /\ IsFiniteSet(RepeatsIn(diskRecords)) /\ IsFiniteSet(Retold)
        /\ Cardinality(RepeatsIn(diskRecords)) + Cardinality(Retold) <= faults
        /\ faults \in Nat /\ faults' = faults
    BY <1>1, BoundsAssumption DEF RepeatsInv, TypeOK
  <2>2. /\ IsFiniteSet(RepeatsIn(diskRecords')) /\ IsFiniteSet(Retold')
        /\ Cardinality(RepeatsIn(diskRecords')) + Cardinality(Retold') <= faults
    <3>1. CASE RepeatsIn(diskRecords') \subseteq RepeatsIn(diskRecords) /\ Retold' \subseteq Retold
      BY <2>1, <3>1, NoneRetold
    <3>2. CASE /\ RepeatsIn(diskRecords') \subseteq RepeatsIn(diskRecords) \cup {<<v, Len(h) + 1>>}
               /\ Retold' \subseteq Retold \ {v} /\ v \in Retold
      BY <2>1, <3>2, OneRepeated
    <3> QED
      BY <1>14, <3>1, <3>2
  <2> QED
    BY <2>1, <2>2 DEF RepeatsInv
<1> QED
  BY <1>11, <1>12, <1>15

LEMMA CheckoutDelete ==
    ASSUME CheckoutInv, restarts = 0, NEW t \in Threads, DeleteRecords(t)
    PROVE  WrittenInv' /\ AlternateInv' /\ RepeatsInv'
<1> USE DEF CheckoutInv, OneInv, SafeInv, TypeInv
<1> DEFINE v == veh[t]
<1>1. /\ pc[t] = "deleteRecords" /\ owner = t /\ op[t] = "Remove" /\ owner' = t
      /\ pc'[t] = NextPlace(op[t], "deleteRecords") /\ Copied(t) /\ OnlyMoves(t)
      /\ UNCHANGED <<fleet, newFleet, op, veh, code, restarts, owed>>
      /\ \/ diskRecords' = [diskRecords EXCEPT ![v] = <<>>] /\ faults' = faults
         \/ diskRecords' = diskRecords /\ faults' = faults + 1
  BY StepMovesOne DEF DeleteRecords, Advance, memory, locals, TypeOK, LockInv, CallInv, CopyInv,
     Locked, Step
<1>2. /\ ~Recorded(t) /\ Recorded(t)' /\ \A u \in Threads : pc'[u] = "commit" => u = t
  BY <1>1, NextPlaceValue, OneLocked DEF Recorded, IsReturn, AllOps, OnlyMoves, Locked
<1>3. Told = fleet /\ Told' = newFleet[t]
  BY <1>1, <1>2 DEF Told
<1>4. /\ newFleet[t] = [fleet EXCEPT ![v] = Absent] /\ fleet[v] \notin {Absent, "Rented"}
      /\ fleet \in Fleets /\ v \in Vehicles /\ DOMAIN diskRecords = Vehicles
  BY <1>1 DEF Copied, TypeOK
<1>5. /\ newFleet[t][v] = Absent
      /\ \A w \in Vehicles : w # v => newFleet[t][w] = fleet[w] /\ diskRecords'[w] = diskRecords[w]
      /\ diskRecords'[v] \in {diskRecords[v], <<>>}
  BY <1>1, <1>4 DEF Fleets
<1> HIDE DEF v
<1>6. WrittenInv'
  <2>1. ASSUME NEW c \in Codes, owed'[c] # NoVehicle PROVE HasCheckout(diskRecords'[owed'[c]], c)
    <3>1. owed[c] \in Vehicles /\ HasCheckout(diskRecords[owed[c]], c) /\ owed' = owed
      BY <1>1, <2>1 DEF WrittenInv, TypeOK, RentalMaps
    <3>2. rentals[c] = owed[c]
      BY <1>1, <2>1 DEF DurableRentals
    <3>3. owed[c] # v
      BY <1>4, <3>1, <3>2 DEF OneRentalPerVehicle, RentedIffLet
    <3> QED
      BY <1>5, <3>1, <3>3
  <2>2. ASSUME NEW u \in Threads PROVE ~(pc'[u] = "commit" /\ op'[u] = "Rent")
    BY <1>1, <1>2
  <2> QED
    BY <2>1, <2>2 DEF WrittenInv
<1>7. /\ LastType(diskRecords[v]) = "Returned" /\ LastType(diskRecords'[v]) = "Returned"
  <2>1. LastType(diskRecords[v]) = "Returned"
    BY <1>3, <1>4 DEF AlternateInv
  <2>2. LastType(<<>>) = "Returned"
    BY DEF LastType
  <2> QED
    BY <1>5, <2>1, <2>2
<1>8. AlternateInv'
  <2> SUFFICES ASSUME NEW w \in Vehicles
               PROVE  /\ LastType(diskRecords'[w]) \in {"Checkout", "Returned"}
                      /\ LastType(diskRecords'[w]) = "Checkout" => Told'[w] = "Rented"
    BY DEF AlternateInv
  <2> QED
    BY <1>3, <1>5, <1>7 DEF AlternateInv
<1>9. RepeatsIn(diskRecords') \subseteq RepeatsIn(diskRecords)
  <2>1. Repeated(<<>>) = {}
    BY DEF Repeated
  <2>2. CASE diskRecords' = [diskRecords EXCEPT ![v] = <<>>]
    <3>1. Repeated(<<>>) \subseteq Repeated(diskRecords[v]) \cup {}
      BY <2>1
    <3>2. RepeatsIn([diskRecords EXCEPT ![v] = <<>>]) \subseteq RepeatsIn(diskRecords) \cup ({v} \X {})
      BY <1>4, <3>1, RepeatsReplace
    <3> QED
      BY <2>2, <3>2
  <2> QED
    BY <1>1, <2>2 DEF v
<1>10. Retold' \subseteq Retold
  BY <1>3, <1>5 DEF Retold, Absent
<1>11. RepeatsInv'
  <2>1. /\ IsFiniteSet(RepeatsIn(diskRecords)) /\ IsFiniteSet(Retold)
        /\ Cardinality(RepeatsIn(diskRecords)) + Cardinality(Retold) <= faults
        /\ faults' \in Nat /\ faults \in Nat /\ faults' \in {faults, faults + 1}
    BY <1>1, BoundsAssumption DEF RepeatsInv, TypeOK
  <2>2. /\ IsFiniteSet(RepeatsIn(diskRecords')) /\ IsFiniteSet(Retold')
        /\ Cardinality(RepeatsIn(diskRecords')) + Cardinality(Retold') <= faults
    BY <1>9, <1>10, <2>1, NoneRetold
  <2>3. Cardinality(RepeatsIn(diskRecords')) \in Nat /\ Cardinality(Retold') \in Nat
    BY <2>2, FS_CardinalityType
  <2>4. Cardinality(RepeatsIn(diskRecords')) + Cardinality(Retold') <= faults'
    BY <2>1, <2>2, <2>3
  <2> QED
    BY <2>2, <2>4 DEF RepeatsInv
<1> QED
  BY <1>6, <1>8, <1>11

LEMMA CheckoutFails ==
    ASSUME CheckoutInv, restarts = 0, NEW t \in Threads, StorageFails(t)
    PROVE  WrittenInv' /\ AlternateInv' /\ RepeatsInv'
<1> USE DEF CheckoutInv, OneInv, SafeInv, TypeInv
<1> DEFINE v == veh[t]
<1>1. /\ pc[t] \in {"saveFleet", "saveRentals", "appendRecord"} /\ pc'[t] = "idle" /\ OnlyMoves(t)
      /\ owner = t /\ owner' = NoThread /\ Copied(t) /\ fleet \in Fleets /\ v \in Vehicles
      /\ UNCHANGED <<fleet, rentals, diskRecords, owed>> /\ faults' = faults + 1
  BY StepMovesOne DEF StorageFails, Leave, memory, disk, TypeOK, LockInv, CopyInv, Locked, Step,
     Copied
<1>2. Told' = fleet /\ Told = IF Recorded(t) THEN newFleet[t] ELSE fleet
  BY <1>1, SetsAssumption DEF Told
<1>3. Recorded(t) =>
        /\ fleet[v] = "Rented"
        /\ \A w \in Vehicles : w # v => newFleet[t][w] = fleet[w]
  <2> SUFFICES ASSUME IsReturn(op[t])
               PROVE  /\ fleet[v] = "Rented"
                      /\ \A w \in Vehicles : w # v => newFleet[t][w] = fleet[w]
    BY <1>1 DEF Recorded
  <2>1. code[t] \in Codes /\ rentals[code[t]] = v /\ newFleet[t] = [fleet EXCEPT ![v] = "Available"]
    BY <1>1 DEF Copied
  <2>2. fleet[v] = "Rented"
    BY <1>1, <2>1 DEF OneRentalPerVehicle, RentedIffLet
  <2> QED
    BY <1>1, <2>1, <2>2 DEF Fleets
<1> HIDE DEF v
<1>4. WrittenInv'
  <2>1. \A u \in Threads : pc'[u] # "commit"
    BY <1>1, OneLocked DEF OnlyMoves, Locked
  <2> QED
    BY <1>1, <2>1 DEF WrittenInv
<1>5. AlternateInv'
  <2> SUFFICES ASSUME NEW w \in Vehicles
               PROVE  /\ LastType(diskRecords'[w]) \in {"Checkout", "Returned"}
                      /\ LastType(diskRecords'[w]) = "Checkout" => Told'[w] = "Rented"
    BY DEF AlternateInv
  <2> QED
    BY <1>1, <1>2, <1>3 DEF AlternateInv
<1>6. Retold' \subseteq Retold \cup {v} /\ RepeatsIn(diskRecords') \subseteq RepeatsIn(diskRecords)
  BY <1>1, <1>2, <1>3 DEF Retold
<1>7. RepeatsInv'
  <2>1. /\ IsFiniteSet(RepeatsIn(diskRecords)) /\ IsFiniteSet(Retold)
        /\ Cardinality(RepeatsIn(diskRecords)) + Cardinality(Retold) <= faults
        /\ faults \in Nat /\ faults' = faults + 1
    BY <1>1, BoundsAssumption DEF RepeatsInv, TypeOK
  <2>2. /\ IsFiniteSet(RepeatsIn(diskRecords')) /\ IsFiniteSet(Retold')
        /\ Cardinality(RepeatsIn(diskRecords')) + Cardinality(Retold') <= faults + 1
    BY <1>6, <2>1, OneRetold
  <2> QED
    BY <2>1, <2>2 DEF RepeatsInv
<1> QED
  BY <1>4, <1>5, <1>7

LEMMA CheckoutCommit ==
    ASSUME CheckoutInv, restarts = 0, NEW t \in Threads, Commit(t)
    PROVE  WrittenInv' /\ AlternateInv' /\ RepeatsInv'
<1> USE DEF CheckoutInv, OneInv, SafeInv, TypeInv
<1>1. /\ pc[t] = "commit" /\ pc'[t] = "unlocked" /\ owner = t /\ owner' = NoThread /\ Copied(t)
      /\ fleet' = newFleet[t] /\ UNCHANGED <<diskRecords, faults, restarts>> /\ OnlyMoves(t)
      /\ owed' = IF op[t] = "Rent" THEN [owed EXCEPT ![code[t]] = veh[t]] ELSE owed
      /\ fleet \in Fleets /\ veh[t] \in Vehicles /\ owed \in RentalMaps
  BY StepMovesOne DEF Commit, disk, LockInv, CopyInv, Locked, Step, TypeOK, Copied
<1>2. Told' = newFleet[t] /\ Told = IF op[t] = "Add" THEN fleet ELSE newFleet[t]
  BY <1>1, SetsAssumption DEF Told, Recorded
<1>3. op[t] = "Add" => /\ fleet[veh[t]] = Absent /\ newFleet[t][veh[t]] = "Available"
                       /\ \A w \in Vehicles : w # veh[t] => newFleet[t][w] = fleet[w]
  BY <1>1 DEF Copied, Fleets
<1>4. WrittenInv'
  <2>1. \A u \in Threads : pc'[u] # "commit"
    BY <1>1, OneLocked DEF OnlyMoves, Locked
  <2>2. ASSUME NEW c \in Codes, owed'[c] # NoVehicle PROVE HasCheckout(diskRecords[owed'[c]], c)
    <3>1. CASE op[t] = "Rent" /\ c = code[t]
      BY <1>1, <3>1 DEF WrittenInv, RentalMaps
    <3>2. CASE ~(op[t] = "Rent" /\ c = code[t])
      BY <1>1, <2>2, <3>2 DEF WrittenInv, RentalMaps
    <3> QED
      BY <3>1, <3>2
  <2> QED
    BY <1>1, <2>1, <2>2 DEF WrittenInv
<1>5. AlternateInv'
  <2> SUFFICES ASSUME NEW w \in Vehicles
               PROVE  /\ LastType(diskRecords'[w]) \in {"Checkout", "Returned"}
                      /\ LastType(diskRecords'[w]) = "Checkout" => Told'[w] = "Rented"
    BY DEF AlternateInv
  <2> QED
    BY <1>1, <1>2, <1>3 DEF AlternateInv, Absent
<1>6. Retold' \subseteq Retold /\ RepeatsIn(diskRecords') = RepeatsIn(diskRecords)
  BY <1>1, <1>2, <1>3 DEF Retold
<1>7. RepeatsInv'
  <2>1. /\ IsFiniteSet(RepeatsIn(diskRecords)) /\ IsFiniteSet(Retold)
        /\ Cardinality(RepeatsIn(diskRecords)) + Cardinality(Retold) <= faults
        /\ faults \in Nat /\ faults' = faults
    BY <1>1, BoundsAssumption DEF RepeatsInv, TypeOK
  <2>2. /\ IsFiniteSet(RepeatsIn(diskRecords')) /\ IsFiniteSet(Retold')
        /\ Cardinality(RepeatsIn(diskRecords')) + Cardinality(Retold') <= faults
    BY <1>6, <2>1, NoneRetold
  <2> QED
    BY <2>1, <2>2 DEF RepeatsInv
<1> QED
  BY <1>4, <1>5, <1>7

LEMMA CheckoutInvNext ==
    ASSUME "Update" \notin Ops PROVE CheckoutInv /\ [Next]_vars => CheckoutInv'
<1> SUFFICES ASSUME CheckoutInv, [Next]_vars PROVE CheckoutInv'
  OBVIOUS
<1>1. OneInv' /\ SafeInv /\ TypeOK /\ OneInv
  BY OneInvNext DEF CheckoutInv, OneInv, SafeInv, TypeInv
<1> SUFFICES ASSUME restarts' = 0 PROVE WrittenInv' /\ AlternateInv' /\ RepeatsInv'
  BY <1>1 DEF CheckoutInv
<1>2. ~Restart
  BY <1>1, BoundsAssumption DEF Restart, TypeOK
<1>3. ASSUME NEW t \in Threads, Call(t) \/ Step(t) PROVE restarts' = restarts /\ OnlyMoves(t)
  <2>1. OnlyMoves(t)
    BY <1>1, <1>3, StepMovesOne DEF SafeInv
  <2>2. restarts' = restarts
    BY <1>3 DEF Call, CallAdd, CallRemove, CallRent, CallReturnVehicle, CallReturnCode,
       CallUpdate, Enter, Step, RejectArguments, Lookup, LookupFails, PrepareRent, PrepareReturn,
       PrepareAdd, PrepareRemove, PrepareUpdate, Prepare, Refuse, SaveFleet, SaveRentals,
       AppendRecord, DeleteRecords, Advance, StorageFails, Commit, Reply, PrintAndReply, PrintThrows
  <2> QED
    BY <2>1, <2>2
\* Steps after which the histories say and tell what they did before.
<1>4. ASSUME Told' = Told, UNCHANGED <<diskRecords, faults, restarts>>,
             \A c \in Codes : owed'[c] \in {owed[c], NoVehicle},
             \A u \in Threads : pc'[u] = "commit" /\ op'[u] = "Rent" =>
                /\ pc[u] = "commit" /\ op[u] = "Rent" /\ veh'[u] = veh[u] /\ code'[u] = code[u]
      PROVE  WrittenInv' /\ AlternateInv' /\ RepeatsInv'
  <2>1. WrittenInv /\ AlternateInv /\ RepeatsInv
    BY <1>4 DEF CheckoutInv
  <2>2. Retold' = Retold /\ RepeatsIn(diskRecords') = RepeatsIn(diskRecords)
    BY <1>4 DEF Retold
  <2>3. WrittenInv'
    BY <1>4, <2>1 DEF WrittenInv
  <2>4. AlternateInv'
    BY <1>4, <2>1 DEF AlternateInv
  <2>5. RepeatsInv'
    BY <1>4, <2>1, <2>2 DEF RepeatsInv
  <2> QED
    BY <2>3, <2>4, <2>5
<1>5. CASE UNCHANGED vars
  <2>1. /\ UNCHANGED <<owner, pc, op, veh, code, newFleet, fleet, diskRecords, owed, faults, restarts>>
    BY <1>5 DEF vars, memory, disk, locals
  <2>2. Told' = Told
    BY <2>1 DEF Told, Recorded
  <2> QED
    BY <1>4, <2>1, <2>2
<1>6. ASSUME NEW t \in Threads, Call(t) PROVE WrittenInv' /\ AlternateInv' /\ RepeatsInv'
  <2>1. /\ pc'[t] # "commit" /\ UNCHANGED <<owed, diskRecords, faults>>
    <3>1. ASSUME NEW place \in {"entry", "lookup"}, NEW o, NEW v, NEW c, NEW s,
                 Enter(t, place, o, v, c, s)
          PROVE  pc'[t] # "commit" /\ UNCHANGED <<owed, diskRecords, faults>>
      BY <1>1, <3>1 DEF Enter, disk, TypeOK
    <3> QED
      BY <1>6, <3>1 DEF Call, CallAdd, CallRemove, CallRent, CallReturnVehicle, CallReturnCode,
         CallUpdate
  <2>2. ~StorageFails(t) /\ ~AppendRecord(t) /\ ~DeleteRecords(t) /\ ~Commit(t)
    BY <1>6 DEF Call, CallAdd, CallRemove, CallRent, CallReturnVehicle, CallReturnCode, CallUpdate,
       Enter, StorageFails, AppendRecord, DeleteRecords, Advance, Commit
  <2>3. Told' = Told
    BY <1>1, <1>6, <2>2, ToldMoves
  <2> QED
    BY <1>3, <1>4, <1>6, <2>1, <2>3 DEF OnlyMoves
<1>7. ASSUME NEW t \in Threads, Step(t) PROVE WrittenInv' /\ AlternateInv' /\ RepeatsInv'
  <2>1. CASE StorageFails(t) \/ AppendRecord(t) \/ DeleteRecords(t) \/ Commit(t)
    BY <1>3, <1>7, <2>1, CheckoutFails, CheckoutAppend, CheckoutDelete, CheckoutCommit
  <2>2. CASE ~(StorageFails(t) \/ AppendRecord(t) \/ DeleteRecords(t) \/ Commit(t))
    <3>1. Told' = Told /\ UNCHANGED diskRecords
      BY <1>1, <1>7, <2>2, ToldMoves
    <3>2. UNCHANGED faults
      BY <1>7, <2>2 DEF Step, RejectArguments, Lookup, LookupFails, PrepareRent, PrepareReturn,
         PrepareAdd, PrepareRemove, PrepareUpdate, Prepare, Refuse, SaveFleet, SaveRentals, Advance,
         Reply, PrintAndReply, PrintThrows
    <3>3. \A c \in Codes : owed'[c] \in {owed[c], NoVehicle}
      BY <1>1, <1>7, <2>2 DEF Step, RejectArguments, Lookup, LookupFails, PrepareRent, PrepareReturn,
         PrepareAdd, PrepareRemove, PrepareUpdate, Prepare, Refuse, SaveFleet, SaveRentals, Advance,
         Reply, PrintAndReply, PrintThrows, TypeOK, RentalMaps
    <3>4. ~(pc'[t] = "commit" /\ op'[t] = "Rent")
      <4>1. CASE SaveFleet(t) \/ SaveRentals(t)
        <5>1. PICK p \in {"saveFleet", "saveRentals"} : Advance(t, p)
          BY <4>1 DEF SaveFleet, SaveRentals
        <5>2. op[t] \in AllOps /\ op' = op /\ pc'[t] = NextPlace(op[t], p)
          BY <1>1, <5>1, AdvanceEffect
        <5> QED
          BY <5>2, NextPlaceValue
      <4>2. CASE ~(SaveFleet(t) \/ SaveRentals(t))
        BY <1>1, <1>7, <2>2, <4>2 DEF Step, RejectArguments, Lookup, LookupFails, PrepareRent,
           PrepareReturn, PrepareAdd, PrepareRemove, PrepareUpdate, Prepare, Refuse, Reply,
           PrintAndReply, PrintThrows, Leave, TypeOK
      <4> QED
        BY <4>1, <4>2
    <3> QED
      BY <1>3, <1>4, <1>7, <3>1, <3>2, <3>3, <3>4 DEF OnlyMoves
  <2> QED
    BY <2>1, <2>2
<1> QED
  BY <1>2, <1>5, <1>6, <1>7 DEF Next, Quiescent

\* While no status is updated and the process has not been stopped, every vehicle
\* that is out has the checkout record of its code, and every rental and return is
\* told once, except for one repetition at most per storage failure.
THEOREM CheckoutsAreRecorded ==
    ASSUME "Update" \notin Ops PROVE Spec => []CheckoutRecorded
<1>1. Init => CheckoutInv
  <2> SUFFICES ASSUME Init PROVE CheckoutInv
    OBVIOUS
  <2>1. NoUpdates /\ WrittenInv
    BY DEF Init, NoUpdates, WrittenInv, NoRentals
  <2>2. OneRentalPerVehicle
    BY SetsAssumption DEF Init, OneRentalPerVehicle, RentedIffLet, NoRentals, Absent
  <2>3. Told = fleet /\ \A v \in Vehicles : diskRecords[v] = <<>> /\ fleet[v] # "Rented"
    BY SetsAssumption DEF Init, Told, Absent
  <2>4. AlternateInv /\ Retold = {}
    BY <2>3 DEF AlternateInv, LastType, Retold
  <2>5. RepeatsIn(diskRecords) = {}
    <3>1. \A v \in Vehicles : Repeated(diskRecords[v]) = {}
      BY <2>3 DEF Repeated
    <3> QED
      BY <3>1, RepeatsMember
  <2>6. RepeatsInv
    <3>1. /\ IsFiniteSet(RepeatsIn(diskRecords)) /\ IsFiniteSet(Retold)
          /\ Cardinality(RepeatsIn(diskRecords)) = 0 /\ Cardinality(Retold) = 0
      BY <2>4, <2>5, FS_EmptySet
    <3>2. faults = 0
      BY DEF Init
    <3> QED
      BY <3>1, <3>2 DEF RepeatsInv
  <2> QED
    BY <2>1, <2>2, <2>4, <2>6, SafeInvInit DEF CheckoutInv, OneInv
<1>2. CheckoutInv => CheckoutRecorded
  <2> SUFFICES ASSUME CheckoutInv, restarts = 0 PROVE CheckoutRecorded
    BY DEF CheckoutRecorded
  <2>1. WrittenInv /\ RepeatsInv /\ faults \in Nat
    BY BoundsAssumption DEF CheckoutInv, OneInv, SafeInv, TypeInv, TypeOK
  <2>2. /\ Cardinality(RepeatsIn(diskRecords)) \in Nat /\ Cardinality(Retold) \in Nat
        /\ Cardinality(RepeatsIn(diskRecords)) + Cardinality(Retold) <= faults
    BY <2>1, FS_CardinalityType DEF RepeatsInv
  <2> QED
    BY <2>1, <2>2 DEF CheckoutRecorded, WrittenInv
<1> QED
  BY <1>1, <1>2, CheckoutInvNext, PTL DEF Spec
=============================================================================
