---------------------------- MODULE FileStorage ----------------------------
(***************************************************************************)
(* FileStorage (src/src/FileStorage.cpp): fleet.txt and rentals.txt are    *)
(* truncated and written again line by line by every save, and the record  *)
(* file of one vehicle grows by one line per record.  The process may stop *)
(* inside a call, which tears the line being written; a full disk makes    *)
(* the stream bad, which the code does not look at.                        *)
(*                                                                         *)
(* A torn line of a table is unreadable: its last field is a single digit  *)
(* or ends in "Z", so the loader drops every proper prefix of a line.  A   *)
(* torn record is followed on the same line by the next record appended,   *)
(* and what the reader then makes of the line depends on where it was torn *)
(* (for vehicle ids above 3: a lower one can pass for the record's type).  *)
(***************************************************************************)
EXTENDS Naturals, Sequences, FiniteSets, SequencesExt

CONSTANTS
    Entries,            \* vehicles or rentals, one line each
    Torn, Nothing,
    MaxSaves, MaxAppends, MaxCrashes,   \* bounds
    MaxDropped,         \* bound: calls whose writes fail for want of space
    PageSizes           \* limits getRecordRange is asked for

ASSUME StorageAssumption ==
    /\ Torn \notin Entries /\ Nothing \notin Nat
    /\ {MaxSaves, MaxAppends, MaxCrashes, MaxDropped} \subseteq Nat
    /\ PageSizes \subseteq Nat \ {0}

VARIABLES
    file,       \* lines of fleet.txt and rentals.txt
    saving,     \* the save under way: table, content, lines still to write
    saved,      \* content of each table as its caller knows it
    records,    \* lines of records/<id>.txt
    appended,   \* records appended so far, numbered from 1
    told,       \* records whose appendRecord returned and that are not deleted
    saves, crashes, dropped

vars == <<file, saving, saved, records, appended, told, saves, crashes, dropped>>

Tables == {"fleet.txt", "rentals.txt"}
Contents == {s \in SeqOf(Entries, Cardinality(Entries)) : IsInjective(s)}
NoSave == [table |-> "none", content |-> <<>>, todo |-> <<>>]

\* Where a record that lost its end was cut: in the id, in the time or the type,
\* in the details.  "closed" lines end in a newline.
Places == {"id", "header", "details"}
Line == [shows : Nat \cup {Nothing}, end : Places \cup {"closed"}]

TypeOK ==
    /\ file \in [Tables -> Seq(Entries \cup {Torn})]
    /\ saving \in [table : Tables \cup {"none"}, content : Seq(Entries), todo : Seq(Entries)]
    /\ saved \in [Tables -> Seq(Entries)]
    /\ records \in Seq(Line)
    /\ appended \in 0..MaxAppends /\ told \subseteq 1..appended
    /\ saves \in 0..MaxSaves /\ crashes \in 0..MaxCrashes
    /\ dropped \in 0..MaxDropped

Init ==
    /\ file = [t \in Tables |-> <<>>] /\ saving = NoSave
    /\ saved = [t \in Tables |-> <<>>]
    /\ records = <<>> /\ appended = 0 /\ told = {}
    /\ saves = 0 /\ crashes = 0 /\ dropped = 0

----------------------------------------------------------------------------
(* loadFleet, loadActiveRentals, getRecordRange. *)

\* What the loops over the lines keep: the elements of s but x, in their order.
Without(s, x) ==
    LET kept == {i \in DOMAIN s : s[i] # x}
        place(k) == CHOOSE i \in kept : Cardinality({j \in kept : j <= i}) = k
    IN [k \in 1..Cardinality(kept) |-> s[place(k)]]

LoadTorn(t) == file[t]                 \* mutant: torn lines are kept
Load(t) == Without(file[t], Torn)

AllRecords == Without([i \in DOMAIN records |-> records[i].shows], Nothing)

\* Mutant: the range ends one record early.
GetRecordRangeShort(offset, limit) ==
    LET all == Reverse(AllRecords)
        end == IF offset + limit < Len(all) THEN offset + limit - 1 ELSE Len(all)
    IN IF offset >= Len(all) THEN <<>> ELSE SubSeq(all, offset + 1, end)

\* Newest first; offset counts from the newest.
GetRecordRange(offset, limit) ==
    LET all == Reverse(AllRecords)
        end == IF offset + limit < Len(all) THEN offset + limit ELSE Len(all)
    IN IF offset >= Len(all) THEN <<>> ELSE SubSeq(all, offset + 1, end)

----------------------------------------------------------------------------
(* saveFleet and saveActiveRentals. *)

Idle == saving = NoSave

StartSave(t, content, opened) ==
    /\ Idle /\ saves < MaxSaves /\ saves' = saves + 1
    /\ file' = [file EXCEPT ![t] = opened]
    /\ saving' = [table |-> t, content |-> content, todo |-> content]
    /\ UNCHANGED <<saved, records, appended, told, crashes, dropped>>

\* Mutant: the file is opened for appending.
OpenAppending(t, content) == StartSave(t, content, file[t])

\* std::ios::trunc.  A file that cannot be opened is left alone: the call
\* throws StorageException and nothing changes.
Open(t, content) == StartSave(t, content, <<>>)

WriteLine ==
    /\ ~Idle /\ saving.todo # <<>>
    /\ file' = [file EXCEPT ![saving.table] = Append(@, Head(saving.todo))]
    /\ saving' = [saving EXCEPT !.todo = Tail(@)]
    /\ UNCHANGED <<saved, records, appended, told, saves, crashes, dropped>>

DropWrites == dropped < MaxDropped /\ dropped' = dropped + 1

TornAfter(lines) == {lines, Append(lines, Torn)}

\* The stream is bad from here on, and nobody looks.
WritesDropped ==
    /\ DropWrites /\ ~Idle /\ saving.todo # <<>>
    /\ \E lines \in TornAfter(file[saving.table]) : file' = [file EXCEPT ![saving.table] = lines]
    /\ saving' = [saving EXCEPT !.todo = <<>>]
    /\ UNCHANGED <<saved, records, appended, told, saves, crashes>>

\* The destructor closes the file and the call returns.
Return ==
    /\ ~Idle /\ saving.todo = <<>>
    /\ saved' = [saved EXCEPT ![saving.table] = saving.content]
    /\ saving' = NoSave
    /\ UNCHANGED <<file, records, appended, told, saves, crashes, dropped>>

----------------------------------------------------------------------------
(* appendRecord and deleteRecords. *)

NewLine == [shows |-> Nothing, end |-> "id"]

\* The line once more text, record r cut at end, is written on it.  Text after
\* a cut in the id continues the id; after a cut in the time or the type it
\* makes the line unreadable; after a cut in the details it reads as details.
WrittenOn(line, r, end) ==
    CASE line.end = "id" ->
            [shows |-> IF end \in {"closed", "details"} THEN r ELSE Nothing, end |-> end]
      [] OTHER -> [line EXCEPT !.end = IF end = "closed" THEN end ELSE @]

Written(r, end) ==
    IF records = <<>> THEN <<WrittenOn(NewLine, r, end)>>
    ELSE IF Last(records).end = "closed" THEN Append(records, WrittenOn(NewLine, r, end))
    ELSE Append(Front(records), WrittenOn(Last(records), r, end))

NextRecord == Idle /\ appended < MaxAppends /\ appended' = appended + 1

\* Mutant: the newline is forgotten.
AppendOpenLine ==
    /\ NextRecord
    /\ records' = Written(appended', "details")
    /\ told' = told \cup {appended'}
    /\ UNCHANGED <<file, saving, saved, saves, crashes, dropped>>

AppendRecord ==
    /\ NextRecord
    /\ records' = Written(appended', "closed")
    /\ told' = told \cup {appended'}
    /\ UNCHANGED <<file, saving, saved, saves, crashes, dropped>>

\* The disk is full: nothing or a part is written, and the call returns.
AppendDropped ==
    /\ DropWrites /\ NextRecord
    /\ \E end \in Places : records' \in {records, Written(appended', end)}
    /\ told' = told \cup {appended'}
    /\ UNCHANGED <<file, saving, saved, saves, crashes>>

\* The error of a removal that fails is dropped.
DeleteRecords ==
    /\ Idle /\ records # <<>>
    /\ \/ records' = <<>> /\ told' = {}
       \/ UNCHANGED <<records, told>>
    /\ UNCHANGED <<file, saving, saved, appended, saves, crashes, dropped>>

----------------------------------------------------------------------------
(* The process stops inside a call.  The manager that starts next takes what  *)
(* the files hold for the truth.                                              *)

CountCrash == crashes < MaxCrashes /\ crashes' = crashes + 1

CrashInSave ==
    /\ ~Idle /\ CountCrash
    /\ \E lines \in IF saving.todo = <<>> THEN {file[saving.table]}
                    ELSE TornAfter(file[saving.table]) :
         file' = [file EXCEPT ![saving.table] = lines]
    /\ saved' = [saved EXCEPT ![saving.table] = Load(saving.table)]
    /\ saving' = NoSave
    /\ UNCHANGED <<records, appended, told, saves, dropped>>

CrashInAppend ==
    /\ NextRecord /\ CountCrash
    /\ \E end \in Places : records' = Written(appended', end)
    /\ UNCHANGED <<file, saving, saved, told, saves, dropped>>

----------------------------------------------------------------------------
Step == WriteLine \/ WritesDropped \/ Return

Next ==
    \/ \E t \in Tables, content \in Contents : Open(t, content)
    \/ Step \/ AppendRecord \/ AppendDropped \/ DeleteRecords
    \/ CrashInSave \/ CrashInAppend

Spec == Init /\ [][Next]_vars

----------------------------------------------------------------------------
(* Properties. *)

\* Wherever a save is stopped the next start reads a prefix of the content
\* being saved, no mixture with an older one, and the other table unharmed; a
\* disk that fills up costs the end of a table and nothing else.
StopLeavesPrefix ==
    \A t \in Tables :
        IF saving.table = t THEN IsPrefix(Load(t), saving.content)
        ELSE IF dropped = 0 THEN Load(t) = saved[t]
        ELSE IsPrefix(Load(t), saved[t])

Shown == {r \in 1..appended : \E i \in DOMAIN records : records[i].shows = r}

\* Each stop tears one record, which may swallow the record appended after it;
\* a full disk loses the record itself besides.  No more of the records whose
\* appendRecord returned are unreadable.
RecordLossBounded == Cardinality(told \ Shown) <= crashes + 2 * dropped

\* Paging through a history shows every readable record once, newest first,
\* for every page size.
PagesCoverHistory ==
    \A limit \in PageSizes :
        LET page == [n \in 1..(Len(records) + 1) |-> GetRecordRange((n - 1) * limit, limit)]
        IN /\ UNION {ToSet(page[n]) : n \in DOMAIN page} = Shown
           /\ \A m, n \in DOMAIN page : \A i \in DOMAIN page[m], j \in DOMAIN page[n] :
                m < n \/ (m = n /\ i < j) => page[m][i] > page[n][j]
=============================================================================
