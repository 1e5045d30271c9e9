------------------------------ MODULE FleetLock ------------------------------
(***************************************************************************)
(* How the threads share FleetManager's std::shared_mutex                  *)
(* (src/include/FleetMgmt.h).  searchFleet holds it in shared mode while   *)
(* it asks a predicate about every vehicle, and the predicate the search   *)
(* box of the UI passes calls getRentalCodeByVehicleId, which locks it in  *)
(* shared mode once more on the same thread.  The C++ standard leaves that *)
(* undefined; libstdc++ uses a pthread rwlock, and glibc's default kind    *)
(* lets a reader in whenever no writer is inside, even if one waits.       *)
(***************************************************************************)
EXTENDS Naturals

CONSTANTS
    Searchers,          \* threads that call searchFleet: the UI thread
    Callers,            \* threads that call everything else: the worker
    NoThread,
    Cards               \* number of vehicles, which a search visits in turn

ASSUME LockAssumption ==
    /\ Searchers \cap Callers = {} /\ NoThread \notin Searchers \cup Callers
    /\ Cards \in Nat

Threads == Searchers \cup Callers
Fleet == 1..Cards

VARIABLES
    readers,    \* how many times each thread holds the mutex in shared mode
    writer,     \* the thread that holds it exclusively
    pc, left,   \* each thread's place; vehicles a search has yet to visit
    rented,     \* vehicles of the fleet that are out: their status, their rental codes
    found       \* the results of a search for them

vars == <<readers, writer, pc, left, rented, found>>

PCs == {"idle", "wantShared", "reading", "wantNested", "nested", "wantExclusive", "writing"}

TypeOK ==
    /\ readers \in [Threads -> 0..2] /\ writer \in Threads \cup {NoThread}
    /\ pc \in [Threads -> PCs] /\ left \in [Threads -> 0..Cards]
    /\ rented \subseteq Fleet /\ found \in [Searchers -> SUBSET Fleet]

Init ==
    /\ readers = [t \in Threads |-> 0] /\ writer = NoThread
    /\ pc = [t \in Threads |-> "idle"] /\ left = [t \in Threads |-> 0]
    /\ rented \in SUBSET Fleet /\ found = [t \in Searchers |-> {}]

Goto(t, place) == pc' = [pc EXCEPT ![t] = place]

----------------------------------------------------------------------------
(* The mutex. *)

MayShare == writer = NoThread

MayOwn == writer = NoThread /\ \A t \in Threads : readers[t] = 0

LockShared(t, from, to) ==
    /\ pc[t] = from /\ MayShare
    /\ readers' = [readers EXCEPT ![t] = @ + 1] /\ Goto(t, to)
    /\ UNCHANGED <<writer, left, rented, found>>

----------------------------------------------------------------------------
(* searchFleet. *)

\* The vehicle whose turn it is when n are left to visit.
Visited(n) == Cards + 1 - n

\* What the predicate learns of a vehicle at this moment.
Hit(v) == {v} \cap rented

BeginSearch(t) ==
    /\ t \in Searchers /\ pc[t] = "idle" /\ Goto(t, "wantShared")
    /\ left' = [left EXCEPT ![t] = Cards] /\ found' = [found EXCEPT ![t] = {}]
    /\ UNCHANGED <<readers, writer, rented>>

\* Mutant: each vehicle is read under a lock of its own.
VisitVehicleRelocks(t) ==
    /\ t \in Searchers /\ pc[t] = "reading" /\ left[t] > 0
    /\ left' = [left EXCEPT ![t] = @ - 1]
    /\ readers' = [readers EXCEPT ![t] = @ - 1] /\ Goto(t, "wantShared")
    /\ found' = [found EXCEPT ![t] = @ \cup Hit(Visited(left[t]))]
    /\ UNCHANGED <<writer, rented>>

\* The predicate answers from the vehicle alone, by its status ...
VisitVehicle(t) ==
    /\ t \in Searchers /\ pc[t] = "reading" /\ left[t] > 0
    /\ left' = [left EXCEPT ![t] = @ - 1]
    /\ found' = [found EXCEPT ![t] = @ \cup Hit(Visited(left[t]))]
    /\ UNCHANGED <<readers, writer, pc, rented>>

\* ... or asks the manager for the vehicle's rental code.
AskRentalCode(t) ==
    /\ t \in Searchers /\ pc[t] = "reading" /\ left[t] > 0
    /\ left' = [left EXCEPT ![t] = @ - 1] /\ Goto(t, "wantNested")
    /\ UNCHANGED <<readers, writer, rented, found>>

\* Mutant: the nested lock is not given back.
UnlockNestedLeaks(t) ==
    /\ pc[t] = "nested" /\ Goto(t, "reading")
    /\ UNCHANGED <<readers, writer, left, rented, found>>

UnlockNested(t) ==
    /\ t \in Searchers /\ pc[t] = "nested"
    /\ found' = [found EXCEPT ![t] = @ \cup Hit(Visited(left[t] + 1))]
    /\ readers' = [readers EXCEPT ![t] = @ - 1] /\ Goto(t, "reading")
    /\ UNCHANGED <<writer, left, rented>>

\* Mutant: the list is drawn again and again under one lock.
EndReadRedraws(t) ==
    /\ pc[t] = "reading" /\ left[t] = 0
    /\ left' = [left EXCEPT ![t] = Cards]
    /\ UNCHANGED <<readers, writer, pc, rented, found>>

EndRead(t) ==
    /\ pc[t] = "reading" /\ left[t] = 0
    /\ readers' = [readers EXCEPT ![t] = @ - 1] /\ Goto(t, "idle")
    /\ UNCHANGED <<writer, left, rented, found>>

----------------------------------------------------------------------------
(* The worker's calls. *)

BeginRead(t) ==
    /\ t \in Callers /\ pc[t] = "idle" /\ Goto(t, "wantShared")
    /\ UNCHANGED <<readers, writer, left, rented, found>>

BeginWrite(t) ==
    /\ t \in Callers /\ pc[t] = "idle" /\ Goto(t, "wantExclusive")
    /\ UNCHANGED <<readers, writer, left, rented, found>>

LockExclusive(t) ==
    /\ pc[t] = "wantExclusive" /\ MayOwn
    /\ writer' = t /\ Goto(t, "writing")
    /\ UNCHANGED <<readers, left, rented, found>>

\* A vehicle goes out or comes back, or an exception leaves the fleet as it was.
EndWrite(t) ==
    /\ pc[t] = "writing"
    /\ \/ UNCHANGED rented
       \/ \E v \in Fleet : rented' = (rented \ {v}) \cup ({v} \ rented)
    /\ writer' = NoThread /\ Goto(t, "idle")
    /\ UNCHANGED <<readers, left, found>>

----------------------------------------------------------------------------
Progress(t) ==
    \/ LockShared(t, "wantShared", "reading") \/ LockShared(t, "wantNested", "nested")
    \/ VisitVehicle(t) \/ AskRentalCode(t) \/ UnlockNested(t) \/ EndRead(t) \/ EndWrite(t)

Next == \E t \in Threads :
    Progress(t) \/ BeginSearch(t) \/ BeginRead(t) \/ BeginWrite(t) \/ LockExclusive(t)

Spec == Init /\ [][Next]_vars

\* Threads that are let in go on; the mutex is granted to a writer that finds
\* it free again and again, as it does with one thread that reads.
FairSpec == Spec /\ \A t \in Threads : WF_vars(Progress(t)) /\ SF_vars(LockExclusive(t))

----------------------------------------------------------------------------
(* Properties. *)

\* When a search has visited the last vehicle, its results are the vehicles that
\* are out at that moment: none of them came back meanwhile and no other left,
\* whether it was recognised by its status or by its code.
SearchExact ==
    \A t \in Searchers : pc[t] = "reading" /\ left[t] = 0 => found[t] = rented

\* A search that asks for the nested lock ends, whether or not a writer waits:
\* the thread never waits for a lock that only its own release would grant.
SearchEnds == \A t \in Searchers : pc[t] = "wantNested" ~> pc[t] = "idle"

\* A mutating call gets the mutex in the end, however often the list is drawn.
WriterServed == \A t \in Callers : pc[t] = "wantExclusive" ~> pc[t] = "writing"
=============================================================================
