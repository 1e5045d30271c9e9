-------------------------- MODULE FleetLock_proofs --------------------------
(***************************************************************************)
(* Theorems about the shared mutex of FleetManager, for every number of    *)
(* threads and vehicles: a writer is alone, and what a search finds is the *)
(* fleet as it stands when the search ends.                                *)
(***************************************************************************)
EXTENDS FleetLock, TLAPS

\* How many times a thread holds the mutex in shared mode at each place.
Shares(place) ==
    IF place = "nested" THEN 2 ELSE IF place \in {"reading", "wantNested"} THEN 1 ELSE 0

\* The mutex counts what its holders hold, and a writer excludes the readers.
MutexInv ==
    /\ \A t \in Threads : readers[t] = Shares(pc[t])
    /\ \A t \in Threads : writer = t <=> pc[t] = "writing"
    /\ writer # NoThread => \A t \in Threads : readers[t] = 0

\* The vehicles a search has been told about: while it asks for a rental code,
\* the one whose turn it is does not count yet.
Asking == {"wantNested", "nested"}
Seen(t) == {v \in Fleet : v + left[t] + (IF pc[t] \in Asking THEN 1 ELSE 0) <= Cards}

\* The results so far are exact for the vehicles visited so far.
FoundAt(t) ==
    /\ pc[t] \in Asking => t \in Searchers /\ left[t] < Cards
    /\ t \in Searchers =>
        /\ pc[t] = "wantShared" => found[t] = {} /\ left[t] = Cards
        /\ pc[t] \in Asking \cup {"reading"} => found[t] = rented \cap Seen(t)

FoundInv == \A t \in Threads : FoundAt(t)

SearchInv == TypeOK /\ MutexInv /\ FoundInv
----------------------------------------------------------------------------

LEMMA SearchInvInit == Init => SearchInv
BY LockAssumption DEF Init, SearchInv, TypeOK, PCs, MutexInv, Shares, FoundInv, FoundAt, Asking, Threads

Moves(t) ==
    Progress(t) \/ BeginSearch(t) \/ BeginRead(t) \/ BeginWrite(t) \/ LockExclusive(t)

\* No step of a thread leaves the types; the reader count needs MutexInv.
LEMMA TypeOKMoves ==
    ASSUME TypeOK, MutexInv, NEW t \in Threads, Moves(t) PROVE TypeOK'
<1> USE LockAssumption DEF TypeOK, PCs, Goto
<1>1. CASE LockShared(t, "wantShared", "reading")
  BY <1>1 DEF LockShared, MayShare, MutexInv, Shares
<1>2. CASE LockShared(t, "wantNested", "nested")
  BY <1>2 DEF LockShared, MayShare, MutexInv, Shares
<1>3. CASE VisitVehicle(t)
  <2>1. found[t] \cup Hit(Visited(left[t])) \subseteq Fleet
    BY <1>3 DEF VisitVehicle, Hit
  <2> QED
    BY <1>3, <2>1 DEF VisitVehicle
<1>4. CASE AskRentalCode(t)
  BY <1>4 DEF AskRentalCode
<1>5. CASE UnlockNested(t)
  <2>1. found[t] \cup Hit(Visited(left[t] + 1)) \subseteq Fleet /\ readers[t] = 2
    BY <1>5 DEF UnlockNested, Hit, MutexInv, Shares
  <2> QED
    BY <1>5, <2>1 DEF UnlockNested
<1>6. CASE EndRead(t)
  BY <1>6 DEF EndRead, MutexInv, Shares
<1>7. CASE EndWrite(t)
  BY <1>7 DEF EndWrite
<1>8. CASE BeginSearch(t)
  BY <1>8 DEF BeginSearch
<1>9. CASE BeginRead(t)
  BY <1>9 DEF BeginRead
<1>10. CASE BeginWrite(t)
  BY <1>10 DEF BeginWrite
<1>11. CASE LockExclusive(t)
  BY <1>11 DEF LockExclusive, MayOwn
<1> QED
  BY <1>1, <1>2, <1>3, <1>4, <1>5, <1>6, <1>7, <1>8, <1>9, <1>10, <1>11 DEF Moves, Progress

LEMMA MutexInvMoves ==
    ASSUME TypeOK, MutexInv, NEW t \in Threads, Moves(t) PROVE MutexInv'
<1> USE LockAssumption DEF TypeOK, PCs, Goto, MutexInv, Shares, Threads
<1>1. CASE LockShared(t, "wantShared", "reading")
  BY <1>1 DEF LockShared, MayShare
<1>2. CASE LockShared(t, "wantNested", "nested")
  BY <1>2 DEF LockShared, MayShare
<1>3. CASE VisitVehicle(t)
  BY <1>3 DEF VisitVehicle
<1>4. CASE AskRentalCode(t)
  BY <1>4 DEF AskRentalCode
<1>5. CASE UnlockNested(t)
  BY <1>5 DEF UnlockNested
<1>6. CASE EndRead(t)
  BY <1>6 DEF EndRead
<1>7. CASE EndWrite(t)
  BY <1>7 DEF EndWrite
<1>8. CASE BeginSearch(t)
  BY <1>8 DEF BeginSearch
<1>9. CASE BeginRead(t)
  BY <1>9 DEF BeginRead
<1>10. CASE BeginWrite(t)
  BY <1>10 DEF BeginWrite
<1>11. CASE LockExclusive(t)
  BY <1>11 DEF LockExclusive, MayOwn
<1> QED
  BY <1>1, <1>2, <1>3, <1>4, <1>5, <1>6, <1>7, <1>8, <1>9, <1>10, <1>11 DEF Moves, Progress

\* A step of one thread that leaves the fleet alone disturbs no other search.
LEMMA FoundFrame ==
    ASSUME FoundInv, NEW t \in Threads, FoundAt(t)', UNCHANGED rented,
           \A s \in Threads \ {t} : pc'[s] = pc[s] /\ left'[s] = left[s],
           \A s \in Searchers \ {t} : found'[s] = found[s]
    PROVE  FoundInv'
BY DEF FoundInv, FoundAt, Seen, Asking

LEMMA FoundInvMoves ==
    ASSUME TypeOK, MutexInv, FoundInv, NEW t \in Threads, Moves(t) PROVE FoundInv'
<1> USE LockAssumption DEF TypeOK, PCs, Goto, Threads
<1>1. CASE LockShared(t, "wantShared", "reading")
  <2>1. t \in Searchers => Seen(t)' = {}
    BY <1>1 DEF LockShared, FoundInv, FoundAt, Seen, Asking, Fleet
  <2>2. FoundAt(t)'
    BY <1>1, <2>1 DEF LockShared, FoundInv, FoundAt, Asking
  <2> QED
    BY <1>1, <2>2, FoundFrame DEF LockShared
<1>2. CASE LockShared(t, "wantNested", "nested")
  <2>1. Seen(t)' = Seen(t)
    BY <1>2 DEF LockShared, Seen, Asking
  <2>2. FoundAt(t)'
    BY <1>2, <2>1 DEF LockShared, FoundInv, FoundAt, Asking
  <2> QED
    BY <1>2, <2>2, FoundFrame DEF LockShared
<1>3. CASE VisitVehicle(t)
  <2>1. /\ Seen(t)' = Seen(t) \cup {Visited(left[t])} /\ Visited(left[t]) \in Fleet
    BY <1>3 DEF VisitVehicle, Seen, Visited, Asking, Fleet
  <2>2. FoundAt(t)'
    BY <1>3, <2>1 DEF VisitVehicle, FoundInv, FoundAt, Asking, Hit
  <2> QED
    BY <1>3, <2>2, FoundFrame DEF VisitVehicle
<1>4. CASE AskRentalCode(t)
  <2>1. Seen(t)' = Seen(t)
    BY <1>4 DEF AskRentalCode, Seen, Asking, Fleet
  <2>2. FoundAt(t)'
    BY <1>4, <2>1 DEF AskRentalCode, FoundInv, FoundAt, Asking
  <2> QED
    BY <1>4, <2>2, FoundFrame DEF AskRentalCode
<1>5. CASE UnlockNested(t)
  <2>1. /\ Seen(t)' = Seen(t) \cup {Visited(left[t] + 1)} /\ Visited(left[t] + 1) \in Fleet
    BY <1>5 DEF UnlockNested, FoundInv, FoundAt, Seen, Visited, Asking, Fleet
  <2>2. FoundAt(t)'
    BY <1>5, <2>1 DEF UnlockNested, FoundInv, FoundAt, Asking, Hit
  <2> QED
    BY <1>5, <2>2, FoundFrame DEF UnlockNested
<1>6. CASE EndRead(t) \/ BeginRead(t) \/ BeginWrite(t) \/ LockExclusive(t)
  <2>1. FoundAt(t)'
    BY <1>6 DEF EndRead, BeginRead, BeginWrite, LockExclusive, FoundAt, Asking
  <2> QED
    BY <1>6, <2>1, FoundFrame DEF EndRead, BeginRead, BeginWrite, LockExclusive
<1>7. CASE BeginSearch(t)
  <2>1. FoundAt(t)'
    BY <1>7 DEF BeginSearch, FoundAt, Asking
  <2> QED
    BY <1>7, <2>1, FoundFrame DEF BeginSearch
\* The fleet changes while a writer is inside, and then nobody reads.
<1>8. CASE EndWrite(t)
  <2>1. writer = t /\ t # NoThread
    BY <1>8 DEF EndWrite, MutexInv
  <2>2. \A s \in Threads : pc[s] \notin Asking \cup {"reading"}
    BY <2>1 DEF MutexInv, Shares, Asking
  <2>3. \A s \in Threads : FoundAt(s)'
    BY <1>8, <2>2 DEF EndWrite, FoundInv, FoundAt, Asking
  <2> QED
    BY <2>3 DEF FoundInv
<1> QED
  BY <1>1, <1>2, <1>3, <1>4, <1>5, <1>6, <1>7, <1>8 DEF Moves, Progress

LEMMA SearchInvNext == SearchInv /\ [Next]_vars => SearchInv'
<1> SUFFICES ASSUME SearchInv, [Next]_vars PROVE SearchInv'
  OBVIOUS
<1>1. CASE UNCHANGED vars
  BY <1>1 DEF vars, SearchInv, TypeOK, MutexInv, FoundInv, FoundAt, Seen
<1> QED
  BY <1>1, TypeOKMoves, MutexInvMoves, FoundInvMoves DEF SearchInv, Next, Moves
----------------------------------------------------------------------------
(* The theorems. *)

LEMMA SearchInvAlways == Spec => []SearchInv
BY SearchInvInit, SearchInvNext, PTL DEF Spec

\* No thread holds FleetManager's mutex in shared mode more than twice, which is
\* searchFleet and the getRentalCodeByVehicleId its predicate calls.
THEOREM LockTypes == Spec => []TypeOK
<1>1. SearchInv => TypeOK
  BY DEF SearchInv
<1> QED
  BY <1>1, SearchInvAlways, PTL

\* searchFleet returns the vehicles that are out when it ends, though it asked
\* about them one after the other and in part through the nested lock: no call of
\* the worker changes the fleet in between.
THEOREM SearchIsExact == Spec => []SearchExact
<1>1. SearchInv => SearchExact
  <2> SUFFICES ASSUME SearchInv, NEW t \in Searchers, pc[t] = "reading", left[t] = 0
               PROVE  found[t] = rented
    BY DEF SearchExact
  <2>1. Seen(t) = Fleet
    BY LockAssumption DEF Seen, Fleet, Asking
  <2> QED
    BY <2>1 DEF SearchInv, TypeOK, FoundInv, FoundAt, Threads
<1> QED
  BY <1>1, SearchInvAlways, PTL
=============================================================================
