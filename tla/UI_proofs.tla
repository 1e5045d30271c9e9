----------------------------- MODULE UI_proofs -----------------------------
(***************************************************************************)
(* Theorems about UI, for every set of vehicles and codes, everything that *)
(* may go wrong and every number of inputs.                                *)
(***************************************************************************)
EXTENDS UI, Integers, SequenceTheorems, TLAPS

(***************************************************************************)
(* What the queues and the stack of overlays hold after each operation on  *)
(* them, element by element.                                               *)
(***************************************************************************)
LEMMA Elements ==
    ASSUME NEW S, NEW s \in Seq(S)
    PROVE  /\ Len(s) \in Nat /\ DOMAIN s = 1..Len(s)
           /\ \A i \in DOMAIN s : i \in Nat /\ 1 <= i /\ i <= Len(s) /\ s[i] \in S
           /\ s # <<>> => Len(s) >= 1 /\ 1 \in DOMAIN s /\ Len(s) \in DOMAIN s
<1>1. Len(s) \in Nat /\ DOMAIN s = 1..Len(s) /\ \A i \in 1..Len(s) : s[i] \in S
  BY ElementOfSeq, LenProperties
<1>2. s # <<>> => Len(s) # 0
  BY EmptySeq
<1> QED
  BY <1>1, <1>2

LEMMA Appended ==
    ASSUME NEW S, NEW s \in Seq(S), NEW x \in S
    PROVE  /\ Append(s, x) \in Seq(S) /\ Append(s, x) # <<>> /\ Len(Append(s, x)) = Len(s) + 1
           /\ Len(s) + 1 \in DOMAIN Append(s, x) /\ Append(s, x)[Len(s) + 1] = x
           /\ \A i \in DOMAIN s : /\ i \in DOMAIN Append(s, x) /\ i < Len(s) + 1
                                  /\ Append(s, x)[i] = s[i]
           /\ \A i \in DOMAIN Append(s, x) :
                \/ i \in DOMAIN s /\ Append(s, x)[i] = s[i]
                \/ i = Len(s) + 1 /\ Append(s, x)[i] = x
<1>1. Append(s, x) \in Seq(S) /\ Append(s, x) # <<>> /\ Len(Append(s, x)) = Len(s) + 1
      /\ \A i \in 1..Len(s) : Append(s, x)[i] = s[i]
      /\ Append(s, x)[Len(s) + 1] = x
  BY AppendProperties
<1>2. Len(s) \in Nat /\ DOMAIN s = 1..Len(s)
  BY Elements
<1>3. DOMAIN Append(s, x) = 1..(Len(s) + 1)
  BY <1>1, LenProperties
<1> QED
  BY <1>1, <1>2, <1>3

LEMMA Tailed ==
    ASSUME NEW S, NEW s \in Seq(S), s # <<>>
    PROVE  /\ Tail(s) \in Seq(S) /\ Head(s) = s[1] /\ Head(s) \in S /\ 1 \in DOMAIN s
           /\ \A i \in DOMAIN Tail(s) : i + 1 \in DOMAIN s /\ i + 1 # 1 /\ Tail(s)[i] = s[i + 1]
           /\ \A i \in DOMAIN s : i # 1 => i - 1 \in DOMAIN Tail(s) /\ Tail(s)[i - 1] = s[i]
           /\ \A i, j \in DOMAIN s : i > j /\ j # 1 => i - 1 > j - 1
<1>1. Tail(s) \in Seq(S) /\ Head(s) \in S /\ Len(Tail(s)) = Len(s) - 1
      /\ \A i \in 1..(Len(s) - 1) : Tail(s)[i] = s[i + 1]
  BY HeadTailProperties, Elements
<1>2. Len(s) \in Nat /\ DOMAIN s = 1..Len(s) /\ Len(s) >= 1
  BY Elements
<1>3. DOMAIN Tail(s) = 1..(Len(s) - 1)
  BY <1>1, LenProperties
<1>4. Head(s) = s[1]
  BY DEF Head
<1> QED
  BY <1>1, <1>2, <1>3, <1>4

LEMMA Fronted ==
    ASSUME NEW S, NEW s \in Seq(S), s # <<>>
    PROVE  /\ Front(s) \in Seq(S) /\ Last(s) \in S /\ Last(s) = s[Len(s)] /\ Len(s) \in DOMAIN s
           /\ Len(Front(s)) = Len(s) - 1
           /\ \A i \in DOMAIN Front(s) : i \in DOMAIN s /\ i # Len(s) /\ Front(s)[i] = s[i]
           /\ \A i \in DOMAIN s : i # Len(s) => i \in DOMAIN Front(s) /\ Front(s)[i] = s[i]
<1>1. Len(s) \in Nat /\ DOMAIN s = 1..Len(s) /\ Len(s) >= 1 /\ \A i \in DOMAIN s : s[i] \in S
  BY Elements
<1>2. Front(s) \in Seq(S) /\ Len(Front(s)) = Len(s) - 1
      /\ \A i \in 1..(Len(s) - 1) : Front(s)[i] = s[i]
  BY <1>1, SubSeqProperties DEF Front
<1>3. DOMAIN Front(s) = 1..(Len(s) - 1)
  BY <1>2, LenProperties
<1> QED
  BY <1>1, <1>2, <1>3 DEF Last

LEMMA Removed ==
    ASSUME NEW S, NEW s \in Seq(S), NEW n \in DOMAIN s
    PROVE  /\ RemoveAt(s, n) \in Seq(S)
           /\ \A i \in DOMAIN RemoveAt(s, n) :
                \/ i \in DOMAIN s /\ i < n /\ RemoveAt(s, n)[i] = s[i]
                \/ i + 1 \in DOMAIN s /\ i + 1 > n /\ RemoveAt(s, n)[i] = s[i + 1]
<1> DEFINE a == SubSeq(s, 1, n - 1)  b == SubSeq(s, n + 1, Len(s))
<1>1. Len(s) \in Nat /\ DOMAIN s = 1..Len(s) /\ n \in Nat /\ 1 <= n /\ n <= Len(s)
  BY Elements
<1>2. a \in Seq(S) /\ Len(a) = n - 1 /\ \A i \in 1..(n - 1) : a[i] = s[i]
  <2>1. 1 \in 1..(Len(s) + 1) /\ n - 1 \in 0..Len(s)
    BY <1>1
  <2>2. \A i \in 1..(n - 1) : a[i] = s[1 + i - 1] /\ 1 + i - 1 = i
    BY <1>1, <2>1, SubSeqProperties
  <2> QED
    BY <1>1, <2>1, <2>2, SubSeqProperties
<1>3. b \in Seq(S) /\ Len(b) = Len(s) - n /\ \A i \in 1..(Len(s) - n) : b[i] = s[n + i]
  <2>1. n + 1 \in 1..(Len(s) + 1) /\ Len(s) \in 0..Len(s)
    BY <1>1
  <2>2. Len(b) = Len(s) - n
    BY <1>1, <2>1, SubSeqProperties
  <2>3. \A i \in 1..(Len(s) - n) : b[i] = s[n + 1 + i - 1]
    BY <1>1, <2>1, SubSeqProperties
  <2> QED
    BY <1>1, <2>1, <2>2, <2>3, SubSeqProperties
<1> DEFINE t == a \o b
<1>4. RemoveAt(s, n) = t
  BY DEF RemoveAt
<1>5. /\ t \in Seq(S) /\ Len(t) = Len(a) + Len(b)
      /\ \A i \in 1..(Len(a) + Len(b)) : t[i] = IF i <= Len(a) THEN a[i] ELSE b[i - Len(a)]
  BY <1>2, <1>3, ConcatProperties, Zenon
<1> HIDE DEF a, b, t
<1>6. DOMAIN t = 1..(Len(s) - 1)
  BY <1>1, <1>2, <1>3, <1>5, LenProperties
<1>7. ASSUME NEW i \in 1..(Len(s) - 1)
      PROVE  t[i] = IF i < n THEN s[i] ELSE s[i + 1]
  <2>1. CASE i < n
    BY <1>1, <1>2, <1>3, <1>5, <2>1
  <2>2. CASE ~(i < n)
    <3>1. i - (n - 1) \in 1..(Len(s) - n) /\ n + (i - (n - 1)) = i + 1
      BY <1>1, <2>2
    <3>2. t[i] = b[i - (n - 1)]
      BY <1>1, <1>2, <1>3, <1>5, <2>2
    <3>3. b[i - (n - 1)] = s[n + (i - (n - 1))]
      BY <1>3, <3>1
    <3> QED
      BY <2>2, <3>1, <3>2, <3>3
  <2> QED
    BY <2>1, <2>2
<1> QED
  BY <1>1, <1>4, <1>5, <1>6, <1>7

(***************************************************************************)
(* The invariant.                                                          *)
(***************************************************************************)

\* What the queues and the stack may hold: a task names the vehicle or the code
\* it is about, a modal for a vehicle its vehicle.
SentTask ==
    {x \in Task : /\ x.type \notin {"LoadFleet", "ReturnCode"} => x.veh \in Vehicles
                  /\ x.type = "ReturnCode" => x.code \in Codes
                  /\ x.type = "UpdateStatus" => x.stat \in {"Available", "Maintenance"}}
Result == [type : TaskTypes, ok : BOOLEAN, veh : Vehicles \cup {NoVehicle}, fleet : Fleets,
           logs : SUBSET Nat]
GivenResult == {r \in Result : r.type = "LoadLogs" => r.veh \in Vehicles}
UpOverlay == {o \in Overlay : o.kind \in VehicleModals => o.veh \in Vehicles}
UpPanel == {NoPanel} \cup [veh : Vehicles, stat : Ledger!VehicleStatus]

HeldInv ==
    /\ fleet \in Fleets /\ snapshot \in Fleets
    /\ rentals \in [Codes -> Vehicles \cup {NoVehicle}]
    /\ history \in [Vehicles -> Nat]
    /\ tasks \in Seq(SentTask) /\ results \in Seq(GivenResult) /\ overlays \in Seq(UpOverlay)
    /\ cards \subseteq Vehicles /\ statusFilter \in Filters
    /\ selected \in Vehicles \cup {NoVehicle}
    /\ panel \in UpPanel /\ shownLogs \in SUBSET Nat
    /\ loadingSet \in BOOLEAN /\ loadingLogs \in BOOLEAN /\ exited \in BOOLEAN
    /\ trouble \in Troubles /\ inputs \in 0..MaxInputs

\* At most one task is out that is more than a look at the logs, or its result,
\* and nothing is queued behind it.
Alters(x) == x.type # "LoadLogs"
OneOutInv ==
    /\ \A i \in DOMAIN tasks : Alters(tasks[i]) => i = Len(tasks) /\ loadingSet = TRUE
    /\ \A j \in DOMAIN results :
         Alters(results[j]) => j = Len(results) /\ tasks = <<>> /\ loadingSet = TRUE

\* One loading overlay is up exactly while loading_overlay_ is set, and a modal is
\* at the bottom with no loading overlay over it.
ScreenInv ==
    /\ loadingSet = TRUE <=> \E i \in DOMAIN overlays : overlays[i].kind = "loading"
    /\ \A i, j \in DOMAIN overlays :
         overlays[i].kind = "loading" /\ overlays[j].kind = "loading" => i = j
    /\ \A i \in DOMAIN overlays : overlays[i].kind \in Modals => i = 1 /\ loadingSet = FALSE

\* As long as no load fails: without a loading overlay the copies are those of the
\* manager's fleet, a fleet on its way is the manager's, and a change of status
\* on its way may be made.
Allowed(x) == x.type = "UpdateStatus" => fleet[x.veh] \in {"Available", "Maintenance"}
CopiesInv ==
    /\ loadingSet = FALSE =>
         snapshot = fleet /\ cards = Listed(statusFilter) /\ panel = PanelFor(snapshot, selected)
    /\ \A i \in DOMAIN results : results[i].type = "LoadFleet" =>
         results[i].ok = TRUE /\ results[i].fleet = fleet
    /\ \A i \in DOMAIN tasks : Allowed(tasks[i])
FreshInv == "load" \notin trouble => CopiesInv

\* Where the loading of the logs of the selected vehicle has not ended, a task or
\* a result will end it.
LogsOf(x, v) == x.type = "LoadLogs" /\ x.veh = v
LogsOut(v) ==
    (\E i \in DOMAIN tasks : LogsOf(tasks[i], v)) \/ \E i \in DOMAIN results : LogsOf(results[i], v)
WaitInv == selected # NoVehicle /\ loadingLogs = TRUE => LogsOut(selected)

\* While all goes well: a vehicle that left the fleet but is still selected, or has
\* its logs asked for, has the result that tells so on its way; logs on their way
\* that are not the ones a load would find now have the result of a task for the
\* same vehicle behind them; and logs shown that are not have that, or logs, on
\* their way.
Found(v) == IF fleet[v] = Absent THEN {} ELSE Newest(v)
Removes(r, v) == r.type = "DecommissionVehicle" /\ r.ok = TRUE /\ r.veh = v
Tells(r, v) ==
    /\ r.type \in {"RentVehicle", "ReturnVehicle", "ReturnCode", "UpdateStatus",
                   "DecommissionVehicle"}
    /\ r.ok = TRUE /\ r.veh = v
GoneInv ==
    \A v \in Vehicles : fleet[v] = Absent /\ (selected = v \/ LogsOut(v)) =>
        \E j \in DOMAIN results : Removes(results[j], v)
LogsAgain(v) == LogsOut(v) \/ \E i \in DOMAIN results : Tells(results[i], v)
LogsInv ==
    /\ \A v \in Vehicles : \A i \in DOMAIN results :
         LogsOf(results[i], v) /\ results[i].logs # Found(v) =>
           \E j \in DOMAIN results : j > i /\ Tells(results[j], v)
    /\ \A v \in Vehicles : selected = v /\ shownLogs # Found(v) => LogsAgain(v)
CompleteInv == trouble = {} => GoneInv /\ LogsInv

UIInv ==
    HeldInv /\ OneOutInv /\ ScreenInv /\ FreshInv /\ ModalsFresh /\ WaitInv /\ CompleteInv

(***************************************************************************)
(* The background thread.  Every task comes to one result, whatever the    *)
(* manager does.                                                           *)
(***************************************************************************)
Gives(r) ==
    /\ r \in GivenResult /\ r.type = tasks[1].type
    /\ results' = Append(results, r)
    /\ r.type \in {"LoadFleet", "LoadLogs"} => UNCHANGED manager
    /\ r.type = "LoadFleet" /\ "load" \notin trouble => r.ok = TRUE /\ r.fleet = fleet
    /\ r.type = "LoadLogs" => r.veh = tasks[1].veh
    /\ r.type = "LoadLogs" /\ trouble = {} => r.logs = Found(r.veh)
    /\ trouble = {} => \A v \in Vehicles :
         /\ Found(v)' # Found(v) => Tells(r, v) \/ (r.type = "AddVehicle" /\ fleet[v] = Absent)
         /\ fleet'[v] = Absent => fleet[v] = Absent \/ Removes(r, v)

WorkerDoes ==
    /\ tasks # <<>> /\ tasks' = Tail(tasks)
    /\ UNCHANGED <<overlays, loadingSet, view, exited, trouble, inputs>>
    /\ fleet' \in Fleets /\ rentals' \in [Codes -> Vehicles \cup {NoVehicle}]
    /\ history' \in [Vehicles -> Nat]
    /\ \E r \in GivenResult : Gives(r)

LEMMA HeadTask ==
    ASSUME HeldInv, tasks # <<>>
    PROVE  Head(tasks) \in SentTask /\ Head(tasks) = tasks[1]
BY Tailed DEF HeldInv

\* The result a task of each kind leaves.
LEMMA Finished ==
    ASSUME HeldInv, NEW ok \in BOOLEAN, NEW target \in Vehicles \cup {NoVehicle},
           NEW seen \in Fleets, NEW logs \in SUBSET Nat, tasks # <<>>, Finish(ok, target, seen, logs),
           Head1.type = "LoadLogs" => target \in Vehicles
    PROVE  /\ tasks' = Tail(tasks)
           /\ UNCHANGED <<overlays, loadingSet, view, exited, trouble, inputs>>
           /\ \E r \in GivenResult :
                /\ r = [type |-> tasks[1].type, ok |-> ok, veh |-> target, fleet |-> seen,
                        logs |-> logs]
                /\ results' = Append(results, r)
<1>1. Head1 = tasks[1] /\ Head1 \in Task
  BY HeadTask DEF Head1, SentTask
<1>2. Head1.type \in TaskTypes
  BY <1>1 DEF Task
<1>3. [type |-> Head1.type, ok |-> ok, veh |-> target, fleet |-> seen, logs |-> logs] \in GivenResult
  BY <1>2 DEF GivenResult, Result
<1> QED
  BY <1>1, <1>3 DEF Finish

LEMMA Answered ==
    ASSUME HeldInv, NEW ok \in BOOLEAN, NEW target \in Vehicles \cup {NoVehicle},
           tasks # <<>>, Answer(ok, target), Head1.type # "LoadLogs"
    PROVE  /\ tasks' = Tail(tasks)
           /\ UNCHANGED <<overlays, loadingSet, view, exited, trouble, inputs>>
           /\ \E r \in GivenResult :
                /\ r.type = tasks[1].type /\ r.ok = ok /\ r.veh = target
                /\ results' = Append(results, r)
<1>1. NoFleet \in Fleets
  BY DEF NoFleet, Fleets
<1>2. PICK r \in GivenResult :
        /\ tasks' = Tail(tasks)
        /\ UNCHANGED <<overlays, loadingSet, view, exited, trouble, inputs>>
        /\ r = [type |-> tasks[1].type, ok |-> ok, veh |-> target, fleet |-> NoFleet, logs |-> {}]
        /\ results' = Append(results, r)
  BY <1>1, Finished DEF Answer
<1> QED
  BY <1>2

\* A change of the ledger and of the history of one vehicle.
LEMMA ChangeTyped ==
    ASSUME HeldInv, NEW v \in Vehicles, NEW s \in Ledger!VehicleStatus \cup {Absent},
           fleet' = [fleet EXCEPT ![v] = s]
    PROVE  /\ fleet' \in Fleets /\ fleet'[v] = s
           /\ \A w \in Vehicles : fleet'[w] # fleet[w] => w = v
           /\ history' = [history EXCEPT ![v] = @ + 1] =>
                /\ history' \in [Vehicles -> Nat]
                /\ \A w \in Vehicles : history'[w] # history[w] => w = v
<1>1. fleet \in [Vehicles -> Ledger!VehicleStatus \cup {Absent}] /\ history \in [Vehicles -> Nat]
  BY DEF HeldInv, Fleets
<1>2. fleet' \in Fleets /\ fleet'[v] = s /\ \A w \in Vehicles : fleet'[w] # fleet[w] => w = v
  BY <1>1 DEF Fleets
<1>3. ASSUME history' = [history EXCEPT ![v] = @ + 1]
      PROVE  /\ history' \in [Vehicles -> Nat]
             /\ \A w \in Vehicles : history'[w] # history[w] => w = v
  BY <1>1, <1>3
<1> QED
  BY <1>2, <1>3

\* A load finds the same as before where neither the status nor the history moved.
LEMMA SameFound ==
    ASSUME NEW v, fleet'[v] = fleet[v], history'[v] = history[v]
    PROVE  Found(v)' = Found(v)
BY DEF Found, Newest, Absent

\* A change of the ledger and of the history of one vehicle that the result tells of.
LEMMA Told ==
    ASSUME HeldInv, NEW r \in GivenResult, NEW v \in Vehicles,
           r.type = tasks[1].type, results' = Append(results, r),
           r.type \notin {"LoadFleet", "LoadLogs", "AddVehicle"},
           \A w \in Vehicles : fleet'[w] # fleet[w] => w = v,
           \A w \in Vehicles : history'[w] # history[w] => w = v,
           trouble = {} => r.ok = TRUE /\ r.veh = v,
           fleet'[v] = Absent => fleet[v] = Absent \/ r.type = "DecommissionVehicle"
    PROVE  Gives(r)
<1>1. r.type \in {"RentVehicle", "ReturnVehicle", "ReturnCode", "UpdateStatus",
                  "DecommissionVehicle"}
  BY DEF GivenResult, Result, TaskTypes
<1>2. ASSUME trouble = {}, NEW w \in Vehicles, Found(w)' # Found(w) PROVE Tells(r, w)
  <2>1. w = v
    BY <1>2, SameFound
  <2> QED
    BY <1>1, <1>2, <2>1 DEF Tells
<1>3. ASSUME trouble = {}, NEW w \in Vehicles, fleet'[w] = Absent
      PROVE  fleet[w] = Absent \/ Removes(r, w)
  BY <1>3 DEF Removes
<1> QED
  BY <1>1, <1>2, <1>3 DEF Gives

\* A task that changes nothing.
LEMMA Unmoved ==
    ASSUME HeldInv, NEW r \in GivenResult, UNCHANGED manager,
           r.type = tasks[1].type, results' = Append(results, r),
           r.type \notin {"LoadFleet", "LoadLogs"}
    PROVE  Gives(r)
BY SameFound DEF Gives, manager

\* The printer fails only where it may.
LEMMA Printed ==
    ASSUME NEW ok \in PrintedOutcomes PROVE ok \in BOOLEAN /\ (trouble = {} => ok = TRUE)
BY DEF PrintedOutcomes

LEMMA WorkerAnswers == HeldInv /\ WorkerStep => WorkerDoes
<1> SUFFICES ASSUME HeldInv, WorkerStep PROVE WorkerDoes
  OBVIOUS
<1>1. /\ fleet \in Fleets /\ rentals \in [Codes -> Vehicles \cup {NoVehicle}]
      /\ history \in [Vehicles -> Nat]
  BY DEF HeldInv
<1>2. tasks # <<>> =>
        /\ Head1 \in SentTask /\ Head1 = tasks[1]
        /\ Head1.type \notin {"LoadFleet", "ReturnCode"} => Head1.veh \in Vehicles
        /\ Head1.type = "ReturnCode" => Head1.code \in Codes
        /\ Head1.type = "UpdateStatus" => Head1.stat \in {"Available", "Maintenance"}
        /\ Head1.veh \in Vehicles \cup {NoVehicle}
  BY HeadTask DEF Head1, SentTask, Task
<1>3. CASE RunLoadFleet
  <2>1. tasks # <<>> /\ Head1.type = "LoadFleet" /\ UNCHANGED manager
    BY <1>3 DEF RunLoadFleet, Running
  <2>2. CASE Finish(TRUE, NoVehicle, fleet, {})
    <3>1. PICK r \in GivenResult :
            /\ tasks' = Tail(tasks)
            /\ UNCHANGED <<overlays, loadingSet, view, exited, trouble, inputs>>
            /\ r = [type |-> tasks[1].type, ok |-> TRUE, veh |-> NoVehicle, fleet |-> fleet,
                    logs |-> {}]
            /\ results' = Append(results, r)
      <4>1. fleet \in Fleets /\ {} \in SUBSET Nat /\ (Head1.type = "LoadLogs" => NoVehicle \in Vehicles)
        BY <1>1, <2>1
      <4> QED
        BY <2>1, <2>2, <4>1, Finished
    <3>2. Gives(r)
      BY <1>2, <2>1, <3>1, SameFound DEF Gives, manager
    <3> QED
      BY <1>1, <2>1, <3>1, <3>2 DEF WorkerDoes, manager
  <2>3. CASE "load" \in trouble /\ Finish(FALSE, NoVehicle, NoFleet, {})
    <3>0. NoFleet \in Fleets /\ {} \in SUBSET Nat
      BY DEF NoFleet, Fleets
    <3>1. PICK r \in GivenResult :
            /\ tasks' = Tail(tasks)
            /\ UNCHANGED <<overlays, loadingSet, view, exited, trouble, inputs>>
            /\ r = [type |-> tasks[1].type, ok |-> FALSE, veh |-> NoVehicle, fleet |-> NoFleet,
                    logs |-> {}]
            /\ results' = Append(results, r)
      BY <2>1, <2>3, <3>0, Finished
    <3>2. Gives(r)
      BY <1>2, <2>1, <2>3, <3>1, SameFound DEF Gives, manager
    <3> QED
      BY <1>1, <2>1, <3>1, <3>2 DEF WorkerDoes, manager
  <2> QED
    BY <1>3, <2>2, <2>3 DEF RunLoadFleet
<1>4. CASE RunLoadLogs
  <2> DEFINE seen == IF fleet[Head1.veh] = Absent THEN {} ELSE Newest(Head1.veh)
  <2>1. /\ tasks # <<>> /\ Head1.type = "LoadLogs" /\ UNCHANGED manager /\ Head1.veh \in Vehicles
        /\ NoFleet \in Fleets /\ {} \in SUBSET Nat
    BY <1>2, <1>4 DEF RunLoadLogs, Running, NoFleet, Fleets
  <2>2. seen \in SUBSET Nat /\ seen = Found(Head1.veh)
    BY <1>1, <2>1 DEF Found, Newest
  <2>3. CASE Finish(TRUE, Head1.veh, NoFleet, seen)
    <3>1. PICK r \in GivenResult :
            /\ tasks' = Tail(tasks)
            /\ UNCHANGED <<overlays, loadingSet, view, exited, trouble, inputs>>
            /\ r = [type |-> tasks[1].type, ok |-> TRUE, veh |-> Head1.veh, fleet |-> NoFleet,
                    logs |-> seen]
            /\ results' = Append(results, r)
      BY <2>1, <2>2, <2>3, Finished
    <3> HIDE DEF seen
    <3>2. Gives(r)
      BY <1>2, <2>1, <2>2, <3>1, SameFound DEF Gives, manager
    <3> QED
      BY <1>1, <2>1, <3>1, <3>2 DEF WorkerDoes, manager
  <2>4. CASE "load" \in trouble /\ Finish(FALSE, Head1.veh, NoFleet, {})
    <3>1. PICK r \in GivenResult :
            /\ tasks' = Tail(tasks)
            /\ UNCHANGED <<overlays, loadingSet, view, exited, trouble, inputs>>
            /\ r = [type |-> tasks[1].type, ok |-> FALSE, veh |-> Head1.veh, fleet |-> NoFleet,
                    logs |-> {}]
            /\ results' = Append(results, r)
      BY <2>1, <2>4, Finished
    <3>2. Gives(r)
      BY <1>2, <2>1, <2>4, <3>1, SameFound DEF Gives, manager
    <3> QED
      BY <1>1, <2>1, <3>1, <3>2 DEF WorkerDoes, manager
  <2> QED
    BY <1>4, <2>3, <2>4 DEF RunLoadLogs
\* The tasks that change one vehicle and record it.
<1>5. ASSUME NEW v \in Vehicles, NEW s \in Ledger!VehicleStatus, NEW ok \in BOOLEAN,
             NEW target \in Vehicles \cup {NoVehicle},
             tasks # <<>>, Head1.type \notin {"LoadFleet", "LoadLogs", "AddVehicle"},
             fleet' = [fleet EXCEPT ![v] = s], Recorded(v), Answer(ok, target),
             rentals' \in [Codes -> Vehicles \cup {NoVehicle}],
             trouble = {} => ok = TRUE /\ target = v
      PROVE  WorkerDoes
  <2>1. /\ fleet' \in Fleets /\ history' \in [Vehicles -> Nat] /\ fleet'[v] = s
        /\ \A w \in Vehicles : fleet'[w] # fleet[w] => w = v
        /\ \A w \in Vehicles : history'[w] # history[w] => w = v
    BY <1>5, ChangeTyped DEF Recorded
  <2>0. fleet'[v] # Absent
    BY <2>1 DEF Ledger!VehicleStatus, Absent
  <2>2. PICK r \in GivenResult :
          /\ r.type = tasks[1].type /\ r.ok = ok /\ r.veh = target /\ results' = Append(results, r)
          /\ tasks' = Tail(tasks) /\ UNCHANGED <<overlays, loadingSet, view, exited, trouble, inputs>>
    BY <1>5, Answered
  <2>3. r.type = Head1.type
    BY <1>2, <1>5, <2>2
  <2>4. Gives(r)
    BY <1>5, <2>0, <2>1, <2>2, <2>3, Told
  <2> QED
    BY <1>5, <2>1, <2>2, <2>4 DEF WorkerDoes
\* A return that fails after its record.
<1>6. ASSUME NEW c \in Codes, NEW target \in Vehicles \cup {NoVehicle},
             tasks # <<>>, Head1.type \notin {"LoadFleet", "LoadLogs", "AddVehicle"},
             ReturnFailsRecorded(c, target)
      PROVE  WorkerDoes
  <2> DEFINE v == rentals[c]
  <2>1. v \in Vehicles /\ fleet[v] # Absent /\ trouble # {} /\ Recorded(v) /\ Answer(FALSE, target)
        /\ UNCHANGED <<fleet, rentals>>
    BY <1>1, <1>6 DEF ReturnFailsRecorded
  <2> HIDE DEF v
  <2>2. /\ history' \in [Vehicles -> Nat]
        /\ \A w \in Vehicles : history'[w] # history[w] => w = v
    BY <1>1, <2>1 DEF Recorded
  <2>3. PICK r \in GivenResult :
          /\ r.type = tasks[1].type /\ results' = Append(results, r)
          /\ tasks' = Tail(tasks) /\ UNCHANGED <<overlays, loadingSet, view, exited, trouble, inputs>>
    BY <1>6, <2>1, Answered
  <2>4. r.type = Head1.type
    BY <1>2, <1>6, <2>3
  <2>5. Gives(r)
    BY <1>6, <2>1, <2>2, <2>3, <2>4, Told
  <2> QED
    BY <1>1, <1>6, <2>1, <2>2, <2>3, <2>5 DEF WorkerDoes
<1>7. ASSUME NEW c \in Codes, NEW target \in Vehicles \cup {NoVehicle},
             tasks # <<>>, Head1.type \notin {"LoadFleet", "LoadLogs", "AddVehicle"},
             ReturnAs(c, target), trouble = {} => target = rentals[c]
      PROVE  WorkerDoes
  <2> DEFINE v == rentals[c]
  <2>1. v \in Vehicles /\ fleet' = [fleet EXCEPT ![v] = "Available"] /\ Recorded(v)
        /\ rentals' = [rentals EXCEPT ![c] = NoVehicle]
    BY <1>1, <1>7 DEF ReturnAs, Ledger!Return, Ledger!Put
  <2>2. PICK ok \in PrintedOutcomes : Answer(ok, target)
    BY <1>7 DEF ReturnAs
  <2>3. ok \in BOOLEAN /\ (trouble = {} => ok = TRUE)
    BY Printed
  <2>4. rentals' \in [Codes -> Vehicles \cup {NoVehicle}] /\ "Available" \in Ledger!VehicleStatus
    BY <1>1, <2>1 DEF Ledger!VehicleStatus
  <2> QED
    BY <1>5, <1>7, <2>1, <2>2, <2>3, <2>4
<1>8. CASE RunRent
  <2>1. tasks # <<>> /\ Head1.type = "RentVehicle" /\ Head1.veh \in Vehicles
    BY <1>2, <1>8 DEF RunRent, Running
  <2>2. PICK c \in Codes : Ledger!Rent(Head1.veh, c)
    BY <1>8 DEF RunRent
  <2>3. /\ fleet' = [fleet EXCEPT ![Head1.veh] = "Rented"]
        /\ rentals' = [rentals EXCEPT ![c] = Head1.veh]
    BY <2>2 DEF Ledger!Rent, Ledger!Put
  <2>4. PICK ok \in PrintedOutcomes : Answer(ok, Head1.veh)
    BY <1>8 DEF RunRent
  <2>5. ok \in BOOLEAN /\ (trouble = {} => ok = TRUE)
    BY Printed
  <2>6. rentals' \in [Codes -> Vehicles \cup {NoVehicle}] /\ "Rented" \in Ledger!VehicleStatus
        /\ Recorded(Head1.veh)
    BY <1>1, <1>8, <2>1, <2>3 DEF Ledger!VehicleStatus, RunRent
  <2> QED
    BY <1>5, <2>1, <2>3, <2>4, <2>5, <2>6
<1>9. CASE RunReturn
  <2>1. tasks # <<>> /\ Head1.type = "ReturnVehicle" /\ Head1.veh \in Vehicles
    BY <1>2, <1>9 DEF RunReturn, Running
  <2>2. PICK c \in Codes : /\ rentals[c] = Head1.veh
                           /\ ReturnAs(c, Head1.veh) \/ ReturnFailsRecorded(c, Head1.veh)
    BY <1>9 DEF RunReturn
  <2>3. CASE ReturnAs(c, Head1.veh)
    BY <1>7, <2>1, <2>2, <2>3
  <2>4. CASE ReturnFailsRecorded(c, Head1.veh)
    BY <1>6, <2>1, <2>2, <2>4
  <2> QED
    BY <2>2, <2>3, <2>4
<1>10. CASE RunReturnCode
  <2>1. tasks # <<>> /\ Head1.type = "ReturnCode" /\ Head1.code \in Codes
    BY <1>2, <1>10 DEF RunReturnCode, Running
  <2>2. CodeTarget(Head1.code) \in Vehicles \cup {NoVehicle}
        /\ (trouble = {} => CodeTarget(Head1.code) = rentals[Head1.code])
    BY <1>1, <2>1 DEF CodeTarget
  <2>3. CASE ReturnAs(Head1.code, CodeTarget(Head1.code))
    BY <1>7, <2>1, <2>2, <2>3
  <2>4. CASE ReturnFailsRecorded(Head1.code, CodeTarget(Head1.code))
    BY <1>6, <2>1, <2>2, <2>4
  <2> QED
    BY <1>10, <2>3, <2>4 DEF RunReturnCode
<1>11. CASE RunAdd
  <2>1. tasks # <<>> /\ Head1.type = "AddVehicle" /\ Head1.veh \in Vehicles
        /\ Answer(TRUE, NoVehicle) /\ history' = history
        /\ fleet' = [fleet EXCEPT ![Head1.veh] = "Available"] /\ rentals' = rentals
    BY <1>2, <1>11 DEF RunAdd, Running, Ledger!Add, Ledger!Put
  <2>2. "Available" \in Ledger!VehicleStatus /\ "Available" # Absent
    BY DEF Ledger!VehicleStatus, Absent
  <2>3. fleet' \in Fleets /\ fleet[Head1.veh] = Absent /\ fleet'[Head1.veh] # Absent
        /\ \A w \in Vehicles : fleet'[w] # fleet[w] => w = Head1.veh
    <3>1. fleet[Head1.veh] = Absent
      BY <1>11 DEF RunAdd, Ledger!Add, Absent
    <3> QED
      BY <2>1, <2>2, <3>1, ChangeTyped
  <2>4. PICK r \in GivenResult :
          /\ r.type = tasks[1].type /\ results' = Append(results, r)
          /\ tasks' = Tail(tasks) /\ UNCHANGED <<overlays, loadingSet, view, exited, trouble, inputs>>
    BY <2>1, Answered
  <2>5. Gives(r)
    <3>1. \A w \in Vehicles : Found(w)' # Found(w) => fleet[w] = Absent
      BY <2>1, <2>3, SameFound
    <3>2. \A w \in Vehicles : fleet'[w] = Absent => fleet[w] = Absent
      BY <2>3
    <3> QED
      BY <1>2, <2>1, <2>4, <3>1, <3>2 DEF Gives
  <2> QED
    BY <1>1, <2>1, <2>3, <2>4, <2>5 DEF WorkerDoes
<1>12. CASE RunUpdate
  <2>1. tasks # <<>> /\ Head1.type = "UpdateStatus" /\ Head1.veh \in Vehicles
        /\ Head1.stat \in Ledger!VehicleStatus /\ Recorded(Head1.veh) /\ Answer(TRUE, Head1.veh)
        /\ fleet' = [fleet EXCEPT ![Head1.veh] = Head1.stat] /\ rentals' = rentals
    BY <1>2, <1>12 DEF RunUpdate, Running, Ledger!Update, Ledger!Put, Ledger!VehicleStatus
  <2> QED
    BY <1>1, <1>5, <2>1
<1>13. CASE RunDecommission
  <2>1. tasks # <<>> /\ Head1.type = "DecommissionVehicle" /\ Head1.veh \in Vehicles
        /\ Answer(TRUE, Head1.veh) /\ rentals' = rentals
        /\ fleet' = [fleet EXCEPT ![Head1.veh] = Absent]
        /\ \/ history' = [history EXCEPT ![Head1.veh] = 0]
           \/ history' = history
    BY <1>2, <1>13 DEF RunDecommission, Running, Ledger!Remove, Ledger!Put, Absent
  <2>2. fleet' \in Fleets /\ \A w \in Vehicles : fleet'[w] # fleet[w] => w = Head1.veh
    BY <2>1, ChangeTyped
  <2>3. history' \in [Vehicles -> Nat] /\ \A w \in Vehicles : history'[w] # history[w] => w = Head1.veh
    BY <1>1, <2>1
  <2>4. PICK r \in GivenResult :
          /\ r.type = tasks[1].type /\ r.ok = TRUE /\ r.veh = Head1.veh /\ results' = Append(results, r)
          /\ tasks' = Tail(tasks) /\ UNCHANGED <<overlays, loadingSet, view, exited, trouble, inputs>>
    BY <2>1, Answered
  <2>5. r.type = "DecommissionVehicle"
    BY <1>2, <2>1, <2>4
  <2>6. Gives(r)
    BY <2>1, <2>2, <2>3, <2>4, <2>5, Told
  <2> QED
    BY <1>1, <2>1, <2>2, <2>3, <2>4, <2>6 DEF WorkerDoes
<1>14. CASE RunFails
  <2> DEFINE target == IF Head1.type = "ReturnCode" THEN CodeTarget(Head1.code) ELSE Head1.veh
  <2>1. tasks # <<>> /\ Head1.type \notin {"LoadFleet", "LoadLogs"} /\ Answer(FALSE, target)
        /\ UNCHANGED manager
    BY <1>14 DEF RunFails
  <2>2. target \in Vehicles \cup {NoVehicle}
    BY <1>1, <1>2, <2>1 DEF CodeTarget
  <2> HIDE DEF target
  <2>3. PICK r \in GivenResult :
          /\ r.type = tasks[1].type /\ results' = Append(results, r)
          /\ tasks' = Tail(tasks) /\ UNCHANGED <<overlays, loadingSet, view, exited, trouble, inputs>>
    BY <2>1, <2>2, Answered
  <2>4. r.type = Head1.type
    BY <1>2, <2>1, <2>3
  <2>5. Gives(r)
    BY <2>1, <2>3, <2>4, Unmoved
  <2> QED
    BY <1>1, <2>1, <2>3, <2>5 DEF WorkerDoes, manager
<1> QED
  BY <1>3, <1>4, <1>8, <1>9, <1>10, <1>11, <1>12, <1>13, <1>14 DEF WorkerStep

\* The invariant after a step of the background thread.
LEMMA WorkerKeeps == UIInv /\ WorkerStep => UIInv'
<1> SUFFICES ASSUME UIInv, WorkerStep PROVE UIInv'
  OBVIOUS
<1>1. HeldInv /\ OneOutInv /\ ScreenInv /\ FreshInv /\ ModalsFresh /\ WaitInv /\ CompleteInv
  BY DEF UIInv
<1>2. /\ tasks # <<>> /\ tasks' = Tail(tasks)
      /\ UNCHANGED <<overlays, loadingSet, view, exited, trouble, inputs>>
      /\ fleet' \in Fleets /\ rentals' \in [Codes -> Vehicles \cup {NoVehicle}]
      /\ history' \in [Vehicles -> Nat]
  BY <1>1, WorkerAnswers DEF WorkerDoes
<1>3. PICK r \in GivenResult : Gives(r)
  BY <1>1, WorkerAnswers DEF WorkerDoes
<1>4. tasks \in Seq(SentTask) /\ results \in Seq(GivenResult) /\ overlays \in Seq(UpOverlay)
  BY <1>1 DEF HeldInv
<1>5. r.type = tasks[1].type /\ results' = Append(results, r)
  BY <1>3 DEF Gives
<1> DEFINE n == Len(results) + 1
<1>6. /\ tasks' \in Seq(SentTask) /\ 1 \in DOMAIN tasks
      /\ \A i \in DOMAIN tasks' : i + 1 \in DOMAIN tasks /\ i + 1 # 1 /\ tasks'[i] = tasks[i + 1]
      /\ \A i \in DOMAIN tasks : i # 1 => i - 1 \in DOMAIN tasks' /\ tasks'[i - 1] = tasks[i]
      /\ Len(tasks) \in Nat /\ Len(tasks') = Len(tasks) - 1
  BY <1>2, <1>4, Tailed, Elements, HeadTailProperties
<1>7. /\ results' \in Seq(GivenResult) /\ n \in DOMAIN results' /\ results'[n] = r
      /\ \A i \in DOMAIN results : i \in DOMAIN results' /\ i < n /\ results'[i] = results[i]
      /\ \A i \in DOMAIN results' : \/ i \in DOMAIN results /\ results'[i] = results[i]
                                    \/ i = n /\ results'[i] = r
  BY <1>4, <1>5, Appended
<1>75. n \in Nat /\ Len(results') = n
  BY <1>4, <1>5, <1>7, AppendProperties, Elements
<1> HIDE DEF n
<1>8. HeldInv'
  BY <1>1, <1>2, <1>6, <1>7 DEF HeldInv, view
<1>9. OneOutInv'
  <2>1. \A i \in DOMAIN tasks' : Alters(tasks'[i]) => i = Len(tasks') /\ loadingSet = TRUE
    <3>1. ASSUME NEW i \in DOMAIN tasks', Alters(tasks'[i])
          PROVE  i = Len(tasks') /\ loadingSet = TRUE
      <4>1. i + 1 = Len(tasks) /\ loadingSet = TRUE
        BY <1>1, <1>6, <3>1 DEF OneOutInv
      <4>2. i \in Nat
        BY <1>6, <3>1, Elements
      <4> QED
        BY <1>6, <4>1, <4>2
    <3> QED
      BY <3>1
  <2>2. Alters(r) => tasks' = <<>> /\ loadingSet = TRUE
    <3>1. Alters(r) => Len(tasks) = 1 /\ loadingSet = TRUE
      BY <1>1, <1>5, <1>6 DEF OneOutInv, Alters
    <3>2. ASSUME Len(tasks) = 1 PROVE tasks' = <<>>
      <4>1. Len(tasks') = 0
        BY <1>6, <3>2
      <4> QED
        BY <1>6, <4>1, EmptySeq
    <3> QED
      BY <3>1, <3>2
  <2>3. \A j \in DOMAIN results : ~Alters(results[j])
    BY <1>1, <1>2 DEF OneOutInv
  <2>4. \A j \in DOMAIN results' :
          Alters(results'[j]) => j = Len(results') /\ tasks' = <<>> /\ loadingSet = TRUE
    BY <1>7, <1>75, <2>2, <2>3
  <2> QED
    BY <1>2, <2>1, <2>4 DEF OneOutInv, Alters
<1>10. ScreenInv'
  BY <1>1, <1>2 DEF ScreenInv
\* Nothing moves while the task at the head is a look at the logs.
<1>11. ~Alters(tasks[1]) => fleet' = fleet
  BY <1>3, <1>5 DEF Alters, Gives, manager
<1>12. /\ \A j \in DOMAIN results : ~Alters(results[j])
       /\ Alters(tasks[1]) => loadingSet = TRUE /\ \A i \in DOMAIN tasks' : ~Alters(tasks'[i])
  <2>1. Alters(tasks[1]) => Len(tasks) = 1 /\ loadingSet = TRUE
    BY <1>1, <1>6 DEF OneOutInv
  <2>2. \A i \in DOMAIN tasks' : i + 1 = 1 \/ ~Alters(tasks'[i]) \/ ~Alters(tasks[1])
    BY <1>1, <1>6, <2>1 DEF OneOutInv
  <2> QED
    BY <1>1, <1>2, <1>6, <2>1, <2>2 DEF OneOutInv
<1>13. FreshInv'
  <2> SUFFICES ASSUME "load" \notin trouble PROVE CopiesInv'
    BY <1>2 DEF FreshInv
  <2>1. CopiesInv
    BY <1>1 DEF FreshInv
  <2>2. r.type = "LoadFleet" => r.ok = TRUE /\ r.fleet = fleet /\ fleet' = fleet
    BY <1>3 DEF Gives, manager
  <2>3. CASE Alters(tasks[1])
    <3>1. loadingSet' = TRUE
      BY <1>2, <1>12, <2>3
    <3>2. \A i \in DOMAIN results' : results'[i].type = "LoadFleet" =>
            results'[i].ok = TRUE /\ results'[i].fleet = fleet'
      BY <1>7, <1>12, <2>2, <2>3 DEF Alters
    <3>3. \A i \in DOMAIN tasks' : tasks'[i].type # "UpdateStatus"
      BY <1>12, <2>3 DEF Alters
    <3> QED
      BY <3>1, <3>2, <3>3 DEF CopiesInv, Allowed
  <2>4. CASE ~Alters(tasks[1])
    <3>1. fleet' = fleet
      BY <1>11, <2>4
    <3>2. \A i \in DOMAIN results' : results'[i].type = "LoadFleet" =>
            results'[i].ok = TRUE /\ results'[i].fleet = fleet'
      BY <1>7, <2>1, <2>2, <3>1 DEF CopiesInv
    <3>3. \A i \in DOMAIN tasks' : Allowed(tasks'[i])
      BY <1>6, <2>1 DEF CopiesInv
    <3>4. UNCHANGED <<snapshot, cards, panel, selected, statusFilter, loadingSet>>
      BY <1>2 DEF view
    <3> QED
      BY <2>1, <3>1, <3>2, <3>3, <3>4 DEF CopiesInv, Allowed, Listed, PanelFor, NoPanel
  <2> QED
    BY <2>3, <2>4
<1>14. ModalsFresh'
  <2> SUFFICES ASSUME "load" \notin trouble, NEW i \in DOMAIN overlays,
                      overlays[i].kind \in VehicleModals
               PROVE  /\ fleet'[overlays[i].veh] # Absent
                      /\ overlays[i].kind \in Offered(fleet'[overlays[i].veh])
    BY <1>2 DEF ModalsFresh
  <2>1. loadingSet = FALSE
    BY <1>1 DEF ScreenInv, Modals
  <2>2. fleet' = fleet
    BY <1>11, <1>12, <2>1
  <2> QED
    BY <1>1, <2>2 DEF ModalsFresh
\* Logs that are out stay out: a task becomes the result.
<1>15. ASSUME NEW v, LogsOut(v)
       PROVE  \/ \E i \in DOMAIN tasks' : LogsOf(tasks'[i], v)
              \/ \E i \in DOMAIN results' : LogsOf(results'[i], v)
  <2>1. CASE \E i \in DOMAIN tasks : LogsOf(tasks[i], v)
    <3>1. PICK i \in DOMAIN tasks : LogsOf(tasks[i], v)
      BY <2>1
    <3>2. CASE i = 1
      BY <1>3, <1>7, <3>1, <3>2 DEF LogsOf, Gives
    <3>3. CASE i # 1
      BY <1>6, <3>1, <3>3
    <3> QED
      BY <3>2, <3>3
  <2>2. CASE \E i \in DOMAIN results : LogsOf(results[i], v)
    BY <1>7, <2>2
  <2> QED
    BY <1>15, <2>1, <2>2 DEF LogsOut
<1>16. WaitInv'
  BY <1>1, <1>2, <1>15 DEF WaitInv, LogsOut, LogsOf, view
\* No others are.
<1>17. ASSUME NEW v, \/ \E i \in DOMAIN tasks' : LogsOf(tasks'[i], v)
                     \/ \E i \in DOMAIN results' : LogsOf(results'[i], v)
       PROVE  LogsOut(v)
  <2>1. CASE \E i \in DOMAIN tasks' : LogsOf(tasks'[i], v)
    BY <1>6, <2>1 DEF LogsOut
  <2>2. CASE \E i \in DOMAIN results' : LogsOf(results'[i], v)
    <3>1. LogsOf(r, v) => LogsOf(tasks[1], v)
      BY <1>3 DEF LogsOf, Gives
    <3> QED
      BY <1>6, <1>7, <2>2, <3>1 DEF LogsOut
  <2> QED
    BY <1>17, <2>1, <2>2
<1>18. CompleteInv'
  <2> SUFFICES ASSUME trouble = {} PROVE GoneInv' /\ LogsInv'
    BY <1>2 DEF CompleteInv
  <2>1. /\ GoneInv /\ LogsInv
        /\ \A v \in Vehicles :
             /\ Found(v)' # Found(v) => Tells(r, v) \/ (r.type = "AddVehicle" /\ fleet[v] = Absent)
             /\ fleet'[v] = Absent => fleet[v] = Absent \/ Removes(r, v)
    BY <1>1, <1>3 DEF CompleteInv, Gives
  <2>2. r.type = "LoadLogs" => r.logs = Found(r.veh) /\ \A v \in Vehicles : Found(v)' = Found(v)
    BY <1>3, SameFound DEF Gives, manager
  <2>3. UNCHANGED <<selected, shownLogs>>
    BY <1>2 DEF view
  \* A vehicle nobody has heard has left is neither selected nor has its logs out.
  <2>4. ASSUME NEW v \in Vehicles, fleet[v] = Absent PROVE selected # v /\ ~LogsOut(v)
    <3>1. \A j \in DOMAIN results : ~Removes(results[j], v)
      BY <1>12 DEF Removes, Alters
    <3> QED
      BY <2>1, <2>4, <3>1 DEF GoneInv
  <2>5. GoneInv'
    <3>1. ASSUME NEW v \in Vehicles, fleet'[v] = Absent,
                 \/ selected = v
                 \/ \E i \in DOMAIN tasks' : LogsOf(tasks'[i], v)
                 \/ \E i \in DOMAIN results' : LogsOf(results'[i], v)
          PROVE  \E j \in DOMAIN results' : Removes(results'[j], v)
      <4>1. selected = v \/ LogsOut(v)
        BY <1>17, <3>1
      <4>2. Removes(r, v)
        BY <2>1, <2>4, <3>1, <4>1
      <4> QED
        BY <1>7, <4>2
    <3> QED
      BY <2>3, <3>1 DEF GoneInv, LogsOut, LogsOf, Removes, Absent
  <2>6. ASSUME NEW v \in Vehicles, NEW i \in DOMAIN results', LogsOf(results'[i], v),
               results'[i].logs # Found(v)'
        PROVE  \E j \in DOMAIN results' : j > i /\ Tells(results'[j], v)
    <3>1. i # n
      BY <1>7, <2>2, <2>6 DEF LogsOf
    <3>2. i \in DOMAIN results /\ results'[i] = results[i] /\ i < n /\ i \in Nat
      BY <1>4, <1>7, <3>1, Elements
    <3>3. CASE Found(v)' # Found(v)
      <4>1. LogsOut(v)
        BY <2>6, <3>2 DEF LogsOut
      <4>2. Tells(r, v)
        BY <2>1, <2>4, <3>3, <4>1
      <4> QED
        BY <1>7, <1>75, <3>2, <4>2
    <3>4. CASE Found(v)' = Found(v)
      <4>1. PICK j \in DOMAIN results : j > i /\ Tells(results[j], v)
        BY <2>1, <2>6, <3>2, <3>4 DEF LogsInv
      <4> QED
        BY <1>7, <4>1
    <3> QED
      BY <3>3, <3>4
  <2>7. ASSUME NEW v \in Vehicles, selected = v, shownLogs # Found(v)'
        PROVE  \/ \E i \in DOMAIN tasks' : LogsOf(tasks'[i], v)
               \/ \E i \in DOMAIN results' : LogsOf(results'[i], v) \/ Tells(results'[i], v)
    <3>1. CASE Found(v)' # Found(v)
      BY <1>7, <2>1, <2>4, <2>7, <3>1
    <3>2. CASE Found(v)' = Found(v)
      <4>1. LogsOut(v) \/ \E i \in DOMAIN results : Tells(results[i], v)
        BY <2>1, <2>7, <3>2 DEF LogsInv, LogsAgain
      <4> QED
        BY <1>7, <1>15, <4>1
    <3> QED
      BY <3>1, <3>2
  <2>8. LogsInv'
    BY <2>3, <2>6, <2>7 DEF LogsInv, LogsAgain, LogsOut, LogsOf, Tells
  <2> QED
    BY <2>5, <2>8
<1> QED
  BY <1>8, <1>9, <1>10, <1>13, <1>14, <1>16, <1>18 DEF UIInv

(***************************************************************************)
(* The idle callback.  It takes the oldest result, and a result that is    *)
(* more than logs takes the one loading overlay with it.                   *)
(***************************************************************************)
LEMMA ResultTaken ==
    ASSUME HeldInv, results # <<>>, results' = Tail(results)
    PROVE  /\ results' \in Seq(GivenResult) /\ Res = results[1] /\ Res \in GivenResult
           /\ 1 \in DOMAIN results
           /\ \A i \in DOMAIN results' : /\ i + 1 \in DOMAIN results /\ i + 1 # 1 /\ i \in Nat
                                         /\ results'[i] = results[i + 1]
           /\ \A i \in DOMAIN results : i # 1 =>
                i \in Nat /\ i - 1 \in DOMAIN results' /\ results'[i - 1] = results[i]
<1>1. results \in Seq(GivenResult)
  BY DEF HeldInv
<1>2. /\ Tail(results) \in Seq(GivenResult) /\ Head(results) = results[1]
      /\ Head(results) \in GivenResult /\ 1 \in DOMAIN results
      /\ \A i \in DOMAIN Tail(results) :
           i + 1 \in DOMAIN results /\ i + 1 # 1 /\ Tail(results)[i] = results[i + 1]
      /\ \A i \in DOMAIN results : i # 1 =>
           i - 1 \in DOMAIN Tail(results) /\ Tail(results)[i - 1] = results[i]
  BY <1>1, Tailed
<1>3. (\A i \in DOMAIN results : i \in Nat) /\ \A i \in DOMAIN Tail(results) : i \in Nat
  BY <1>1, <1>2, Elements
<1> QED
  BY <1>2, <1>3 DEF Res

LEMMA LoadingTaken ==
    ASSUME UIInv, results # <<>>, results' = Tail(results), Alters(Res)
    PROVE  /\ loadingSet = TRUE /\ LoadingLeft = FALSE
           /\ tasks = <<>> /\ results' = <<>> /\ DOMAIN results = {1}
           /\ OverlaysLeft \in Seq(UpOverlay)
           /\ \A i \in DOMAIN OverlaysLeft :
                OverlaysLeft[i].kind # "loading" /\ OverlaysLeft[i].kind \notin Modals
<1>1. HeldInv /\ OneOutInv /\ ScreenInv /\ overlays \in Seq(UpOverlay) /\ results \in Seq(GivenResult)
  BY DEF UIInv, HeldInv
<1>2. Res = results[1] /\ 1 \in DOMAIN results /\ results' \in Seq(GivenResult)
  BY <1>1, ResultTaken
<1>3. loadingSet = TRUE /\ tasks = <<>> /\ Len(results) = 1
  BY <1>1, <1>2 DEF OneOutInv
<1>4. DOMAIN results = {1}
  BY <1>1, <1>3, Elements
<1>5. results' = <<>>
  <2>1. Len(results') = 0
    BY <1>1, <1>3, HeadTailProperties
  <2> QED
    BY <1>2, <2>1, EmptySeq
<1>6. PICK n \in DOMAIN overlays : overlays[n].kind = "loading"
  BY <1>1, <1>3 DEF ScreenInv
<1>7. \A i \in DOMAIN overlays : overlays[i].kind = "loading" => i = n
  BY <1>1, <1>6 DEF ScreenInv
<1>8. LastLoading = n
  <2> DEFINE P(i) == /\ overlays[i].kind = "loading"
                     /\ \A j \in DOMAIN overlays : overlays[j].kind = "loading" => j <= i
  <2>1. n \in Nat
    BY <1>1, Elements
  <2>2. \A i \in DOMAIN overlays : P(i) <=> i = n
    BY <1>6, <1>7, <2>1
  <2>3. LastLoading = CHOOSE i \in DOMAIN overlays : P(i)
    BY DEF LastLoading
  <2> HIDE DEF P
  <2> QED
    BY <1>6, <2>2, <2>3
<1>9. OverlaysLeft = RemoveAt(overlays, n)
  BY <1>3, <1>8 DEF OverlaysLeft, ClearsLoading, Alters
<1>10. /\ RemoveAt(overlays, n) \in Seq(UpOverlay)
       /\ \A i \in DOMAIN RemoveAt(overlays, n) :
            \/ i \in DOMAIN overlays /\ i < n /\ RemoveAt(overlays, n)[i] = overlays[i]
            \/ i + 1 \in DOMAIN overlays /\ i + 1 > n /\ RemoveAt(overlays, n)[i] = overlays[i + 1]
  BY <1>1, Removed
<1>11. n \in Nat /\ \A i \in DOMAIN RemoveAt(overlays, n) : i \in Nat
  BY <1>1, <1>10, Elements
<1>12. \A i \in DOMAIN overlays : overlays[i].kind \notin Modals
  BY <1>1, <1>3 DEF ScreenInv
<1>13. \A i \in DOMAIN RemoveAt(overlays, n) : \E j \in DOMAIN overlays :
         j # n /\ RemoveAt(overlays, n)[i] = overlays[j]
  BY <1>10, <1>11
<1>14. LoadingLeft = FALSE
  BY <1>3 DEF LoadingLeft, ClearsLoading, Alters
<1> QED
  BY <1>3, <1>4, <1>5, <1>7, <1>9, <1>10, <1>12, <1>13, <1>14

\* When a result that is more than logs is taken nothing else is out, and the shown
\* logs, if the result tells that they are old, are asked for again.
LEMMA LogsStay ==
    ASSUME UIInv, results # <<>>, results' = Tail(results), Alters(Res),
           UNCHANGED <<fleet, history, loadingLogs, trouble>>,
           \/ UNCHANGED <<selected, shownLogs>> /\ (selected # NoVehicle => ~Removes(Res, selected))
           \/ selected' = NoVehicle,
           UNCHANGED selected /\ selected # NoVehicle /\ Tells(Res, selected) =>
             \E i \in DOMAIN tasks' : LogsOf(tasks'[i], selected),
           \A v : \A i \in DOMAIN tasks' : LogsOf(tasks'[i], v) => v = selected'
    PROVE  WaitInv' /\ CompleteInv'
<1>1. /\ tasks = <<>> /\ results' = <<>> /\ DOMAIN results = {1} /\ Res = results[1]
      /\ DOMAIN tasks = {} /\ DOMAIN results' = {}
  BY LoadingTaken DEF Res
<1>2. \A v : ~LogsOut(v)
  BY <1>1 DEF LogsOut, LogsOf, Alters
<1>3. WaitInv'
  <2>1. WaitInv
    BY DEF UIInv
  <2> QED
    BY <1>2, <2>1 DEF WaitInv
<1>4. CompleteInv'
  <2> SUFFICES ASSUME trouble = {} PROVE GoneInv' /\ LogsInv'
    BY DEF CompleteInv
  <2>1. GoneInv /\ LogsInv
    BY DEF UIInv, CompleteInv
  <2>2. \A v \in Vehicles : Found(v)' = Found(v)
    BY SameFound
  <2>3. GoneInv'
    <3>1. ASSUME NEW v \in Vehicles, fleet[v] = Absent,
                 selected' = v \/ \E i \in DOMAIN tasks' : LogsOf(tasks'[i], v)
          PROVE  FALSE
      <4>1. selected' = v /\ v # NoVehicle
        BY <3>1, UIAssumption
      <4>2. selected = v /\ ~Removes(Res, v)
        BY <4>1
      <4>3. Removes(Res, v)
        BY <1>1, <2>1, <3>1, <4>2 DEF GoneInv
      <4> QED
        BY <4>2, <4>3
    <3> QED
      BY <1>1, <3>1 DEF GoneInv, LogsOut, LogsOf, Absent
  <2>4. ASSUME NEW v \in Vehicles, selected' = v, shownLogs' # Found(v)
        PROVE  \E i \in DOMAIN tasks' : LogsOf(tasks'[i], v)
    <3>1. UNCHANGED <<selected, shownLogs>> /\ v # NoVehicle
      BY <2>4, UIAssumption
    <3>2. Tells(Res, v)
      BY <1>1, <1>2, <2>1, <2>4, <3>1 DEF LogsInv, LogsAgain
    <3> QED
      BY <2>4, <3>1, <3>2
  <2>5. LogsInv'
    BY <1>1, <2>2, <2>4 DEF LogsInv, LogsAgain, LogsOut, LogsOf
  <2> QED
    BY <2>3, <2>5
<1> QED
  BY <1>3, <1>4

\* Logs still on their way have behind them what they had.
LEMMA LogsBehind ==
    ASSUME HeldInv, LogsInv, results # <<>>, results' = Tail(results), UNCHANGED <<fleet, history>>
    PROVE  /\ \A v \in Vehicles : \A i \in DOMAIN results' :
                LogsOf(results'[i], v) /\ results'[i].logs # Found(v) =>
                  \E j \in DOMAIN results' : j > i /\ Tells(results'[j], v)
           /\ \A v \in Vehicles : LogsOf(Res, v) /\ Res.logs # Found(v) =>
                  \E j \in DOMAIN results' : Tells(results'[j], v)
<1>1. /\ Res = results[1] /\ 1 \in DOMAIN results
      /\ \A i \in DOMAIN results' : /\ i + 1 \in DOMAIN results /\ i + 1 # 1 /\ i \in Nat
                                    /\ results'[i] = results[i + 1]
      /\ \A i \in DOMAIN results : i # 1 =>
           i \in Nat /\ i - 1 \in DOMAIN results' /\ results'[i - 1] = results[i]
  BY ResultTaken
<1>2. ASSUME NEW v \in Vehicles, NEW i \in DOMAIN results', LogsOf(results'[i], v),
             results'[i].logs # Found(v)
      PROVE  \E j \in DOMAIN results' : j > i /\ Tells(results'[j], v)
  <2>1. PICK j \in DOMAIN results : j > i + 1 /\ Tells(results[j], v)
    BY <1>1, <1>2 DEF LogsInv
  <2>2. i \in Nat /\ j # 1
    BY <1>1, <2>1
  <2>3. j \in Nat /\ j - 1 \in DOMAIN results' /\ results'[j - 1] = results[j]
    BY <1>1, <2>2
  <2>4. j - 1 > i
    BY <2>1, <2>2, <2>3
  <2> QED
    BY <2>1, <2>3, <2>4
<1>3. ASSUME NEW v \in Vehicles, LogsOf(Res, v), Res.logs # Found(v)
      PROVE  \E j \in DOMAIN results' : Tells(results'[j], v)
  <2>1. PICK j \in DOMAIN results : j > 1 /\ Tells(results[j], v)
    BY <1>1, <1>3 DEF LogsInv
  <2>2. j \in Nat /\ j # 1 /\ Tells(results[j], v)
    BY <1>1, <2>1
  <2>3. j - 1 \in DOMAIN results' /\ results'[j - 1] = results[j]
    BY <1>1, <2>2
  <2>4. Tells(results'[j - 1], v)
    BY <2>2, <2>3
  <2> QED
    BY <2>3, <2>4, Zenon
<1> QED
  BY <1>2, <1>3

\* What is put on the stack and into the queue.
NoneOf(kinds, s) == \A i \in DOMAIN s : s[i].kind \notin kinds
OnlyLogs(s) == \A i \in DOMAIN s : ~Alters(s[i])

LEMMA Alerted ==
    ASSUME NEW s \in Seq(UpOverlay), NoneOf({"loading"} \cup Modals, s)
    PROVE  Append(s, Alert) \in Seq(UpOverlay) /\ NoneOf({"loading"} \cup Modals, Append(s, Alert))
<1>1. Alert \in UpOverlay /\ Alert.kind \notin {"loading"} \cup Modals
  BY DEF Alert, Of, UpOverlay, Overlay, Modals, VehicleModals
<1> QED
  BY <1>1, Appended DEF NoneOf

LEMMA LoadingOnTop ==
    ASSUME NEW s \in Seq(UpOverlay), NoneOf({"loading"} \cup Modals, s)
    PROVE  LET t == Append(s, Loading) IN
           /\ t \in Seq(UpOverlay) /\ NoneOf(Modals, t) /\ t # <<>>
           /\ \E i \in DOMAIN t : t[i].kind = "loading"
           /\ \A i, j \in DOMAIN t : t[i].kind = "loading" /\ t[j].kind = "loading" => i = j
<1>1. Loading \in UpOverlay /\ Loading.kind = "loading" /\ Loading.kind \notin Modals
  BY DEF Loading, Of, UpOverlay, Overlay, Modals, VehicleModals
<1> QED
  BY <1>1, Appended DEF NoneOf

LEMMA FleetQueued ==
    ASSUME NEW s \in Seq(SentTask), OnlyLogs(s)
    PROVE  LET t == Append(s, LoadFleet) IN
           /\ t \in Seq(SentTask)
           /\ \A i \in DOMAIN t : Alters(t[i]) => i = Len(t)
           /\ \A i \in DOMAIN t : t[i].type # "UpdateStatus"
           /\ \A v : (\E i \in DOMAIN s : LogsOf(s[i], v)) <=> \E i \in DOMAIN t : LogsOf(t[i], v)
<1>1. LoadFleet \in SentTask /\ LoadFleet.type = "LoadFleet"
  BY DEF LoadFleet, NewTask, SentTask, Task, TaskTypes, Ledger!VehicleStatus
<1> QED
  BY <1>1, Appended DEF OnlyLogs, Alters, LogsOf

LEMMA LogsQueued ==
    ASSUME NEW s \in Seq(SentTask), NEW v \in Vehicles
    PROVE  LET t == Append(s, LoadLogs(v)) IN
           /\ t \in Seq(SentTask)
           /\ OnlyLogs(s) => OnlyLogs(t)
           /\ \E i \in DOMAIN t : LogsOf(t[i], v)
           /\ \A i \in DOMAIN t : ~LogsOf(t[i], v) => i \in DOMAIN s /\ t[i] = s[i]
           /\ \A w : (\E i \in DOMAIN s : LogsOf(s[i], w)) => \E i \in DOMAIN t : LogsOf(t[i], w)
           /\ \A i \in DOMAIN t : Alters(t[i]) => i \in DOMAIN s /\ t[i] = s[i]
<1>1. LoadLogs(v) \in SentTask /\ LogsOf(LoadLogs(v), v) /\ ~Alters(LoadLogs(v))
  BY DEF LoadLogs, NewTask, SentTask, Task, TaskTypes, Ledger!VehicleStatus, LogsOf, Alters
<1> QED
  BY <1>1, Appended DEF OnlyLogs

LEMMA PanelTyped ==
    ASSUME NEW s \in Fleets, NEW v \in Vehicles \cup {NoVehicle}
    PROVE  /\ PanelFor(s, v) \in UpPanel
           /\ PanelFor(s, v) # NoPanel => PanelFor(s, v).veh = v /\ PanelFor(s, v).stat = s[v]
<1>1. CASE v # NoVehicle /\ s[v] # Absent
  BY <1>1 DEF PanelFor, Fleets, UpPanel
<1>2. CASE v = NoVehicle \/ s[v] = Absent
  BY <1>2 DEF PanelFor, UpPanel
<1> QED
  BY <1>1, <1>2

LEMMA PanelHeld ==
    ASSUME NEW p \in UpPanel, p # NoPanel
    PROVE  p.veh \in Vehicles /\ p.stat \in Ledger!VehicleStatus
BY DEF UpPanel

\* Logs are taken.
LEMMA TakeLogsKeeps == UIInv /\ TakeLogs => UIInv'
<1> SUFFICES ASSUME UIInv, TakeLogs PROVE UIInv'
  OBVIOUS
<1>1. HeldInv /\ OneOutInv /\ ScreenInv /\ FreshInv /\ ModalsFresh /\ WaitInv /\ CompleteInv
  BY DEF UIInv
<1>2. /\ results # <<>> /\ results' = Tail(results) /\ Res.type = "LoadLogs"
      /\ UNCHANGED <<manager, tasks, snapshot, cards, statusFilter, selected, exited, trouble,
                     inputs>>
  BY DEF TakeLogs, Arrived
<1>3. overlays' = overlays /\ loadingSet' = loadingSet
  BY <1>1, <1>2 DEF TakeLogs, OverlaysLeft, LoadingLeft, ClearsLoading, HeldInv
<1>4. /\ results' \in Seq(GivenResult) /\ Res = results[1] /\ Res \in GivenResult
      /\ \A i \in DOMAIN results' : /\ i + 1 \in DOMAIN results /\ i \in Nat
                                    /\ results'[i] = results[i + 1]
      /\ \A i \in DOMAIN results : i # 1 =>
           i \in Nat /\ i - 1 \in DOMAIN results' /\ results'[i - 1] = results[i]
      /\ Len(results) \in Nat /\ Len(results') = Len(results) - 1
  BY <1>1, <1>2, ResultTaken, Elements, HeadTailProperties DEF HeldInv
<1>5. Res.veh \in Vehicles /\ Res.logs \in SUBSET Nat
  BY <1>2, <1>4 DEF GivenResult, Result
<1>6. \/ /\ selected = Res.veh /\ loadingLogs' = FALSE /\ shownLogs' = Res.logs
         /\ panel' = PanelFor(snapshot, selected)
      \/ selected # Res.veh /\ UNCHANGED <<loadingLogs, shownLogs, panel>>
  BY DEF TakeLogs
<1>7. HeldInv'
  <2>1. snapshot \in Fleets /\ selected \in Vehicles \cup {NoVehicle}
    BY <1>1 DEF HeldInv
  <2>2. panel' \in UpPanel
    BY <1>1, <1>6, <2>1, PanelTyped DEF HeldInv
  <2>3. shownLogs' \in SUBSET Nat /\ loadingLogs' \in BOOLEAN
    BY <1>1, <1>5, <1>6 DEF HeldInv
  <2> QED
    BY <1>1, <1>2, <1>3, <1>4, <2>2, <2>3 DEF HeldInv, manager, NoPanel, UpPanel
<1>8. OneOutInv'
  <2>1. \A j \in DOMAIN results' : Alters(results'[j]) =>
          j = Len(results') /\ tasks = <<>> /\ loadingSet = TRUE
    BY <1>1, <1>4 DEF OneOutInv
  <2> QED
    BY <1>1, <1>2, <1>3, <2>1 DEF OneOutInv, Alters
<1>9. ScreenInv'
  BY <1>1, <1>3 DEF ScreenInv
<1>10. FreshInv'
  <2> SUFFICES ASSUME "load" \notin trouble PROVE CopiesInv'
    BY <1>2 DEF FreshInv
  <2>1. CopiesInv
    BY <1>1 DEF FreshInv
  <2>2. fleet' = fleet /\ Listed(statusFilter)' = Listed(statusFilter)
    BY <1>2 DEF manager, Listed
  <2>3. loadingSet = FALSE => panel' = PanelFor(snapshot, selected)
    BY <1>6, <2>1 DEF CopiesInv
  <2>4. \A i \in DOMAIN results' : results'[i].type = "LoadFleet" =>
          results'[i].ok = TRUE /\ results'[i].fleet = fleet
    BY <1>4, <2>1 DEF CopiesInv
  <2> QED
    BY <1>2, <1>3, <2>1, <2>2, <2>3, <2>4 DEF CopiesInv, Allowed, PanelFor, NoPanel
<1>11. ModalsFresh'
  BY <1>1, <1>2, <1>3 DEF ModalsFresh, manager, Offered
\* Of the logs that are out only the ones taken are not any more.
<1>12. ASSUME NEW v
       PROVE  /\ LogsOut(v) => \/ Res.veh = v \/ \E i \in DOMAIN tasks : LogsOf(tasks[i], v)
                               \/ \E i \in DOMAIN results' : LogsOf(results'[i], v)
              /\ (\E i \in DOMAIN results' : LogsOf(results'[i], v)) => LogsOut(v)
              /\ (\E i \in DOMAIN results : Tells(results[i], v)) =>
                   \E i \in DOMAIN results' : Tells(results'[i], v)
              /\ (\E i \in DOMAIN results : Removes(results[i], v)) =>
                   \E i \in DOMAIN results' : Removes(results'[i], v)
  <2>1. LogsOut(v) => \/ Res.veh = v \/ \E i \in DOMAIN tasks : LogsOf(tasks[i], v)
                      \/ \E i \in DOMAIN results' : LogsOf(results'[i], v)
    BY <1>4 DEF LogsOut, LogsOf
  <2>2. (\E i \in DOMAIN results' : LogsOf(results'[i], v)) => LogsOut(v)
    BY <1>4 DEF LogsOut
  <2>3. ~Tells(results[1], v) /\ ~Removes(results[1], v)
    BY <1>2, <1>4 DEF Tells, Removes
  <2> QED
    BY <1>4, <2>1, <2>2, <2>3
<1>13. WaitInv'
  BY <1>1, <1>2, <1>6, <1>12 DEF WaitInv, LogsOut, LogsOf
<1>14. CompleteInv'
  <2> SUFFICES ASSUME trouble = {} PROVE GoneInv' /\ LogsInv'
    BY <1>2 DEF CompleteInv
  <2>1. GoneInv /\ LogsInv /\ UNCHANGED <<fleet, history, tasks, selected>>
    BY <1>1, <1>2 DEF CompleteInv, manager
  <2>2. GoneInv'
    <3>1. \A v : LogsOut(v)' => LogsOut(v)
      BY <1>12, <2>1 DEF LogsOut, LogsOf
    <3> QED
      BY <1>12, <2>1, <3>1 DEF GoneInv, Removes, Absent
  <2>3. ASSUME NEW v \in Vehicles, selected = v, shownLogs' # Found(v)
        PROVE  \/ \E i \in DOMAIN tasks : LogsOf(tasks[i], v)
               \/ \E i \in DOMAIN results' : LogsOf(results'[i], v) \/ Tells(results'[i], v)
    <3>1. CASE v = Res.veh
      <4>1. LogsOf(Res, v) /\ Res.logs # Found(v)
        BY <1>2, <1>5, <1>6, <2>3, <3>1 DEF LogsOf
      <4>2. \E j \in DOMAIN results' : Tells(results'[j], v)
        BY <1>1, <1>2, <2>1, <4>1, LogsBehind
      <4> QED
        BY <4>2
    <3>2. CASE v # Res.veh
      <4>1. shownLogs # Found(v)
        BY <1>6, <2>3, <3>2
      <4>2. LogsOut(v) \/ \E i \in DOMAIN results : Tells(results[i], v)
        BY <2>1, <2>3, <4>1 DEF LogsInv, LogsAgain
      <4> QED
        BY <1>12, <3>2, <4>2
    <3> QED
      BY <3>1, <3>2
  <2>4. \A v \in Vehicles : \A i \in DOMAIN results' :
          LogsOf(results'[i], v) /\ results'[i].logs # Found(v) =>
            \E j \in DOMAIN results' : j > i /\ Tells(results'[j], v)
    BY <1>1, <1>2, <2>1, LogsBehind
  <2>5. LogsInv'
    <3>1. \A v \in Vehicles : Found(v)' = Found(v)
      BY <2>1, SameFound
    <3>2. \A v \in Vehicles : selected' = v /\ shownLogs' # Found(v)' => LogsAgain(v)'
      BY <2>1, <2>3, <3>1 DEF LogsAgain, LogsOut, LogsOf, Tells
    <3>3. \A v \in Vehicles : \A i \in DOMAIN results' :
            LogsOf(results'[i], v) /\ results'[i].logs # Found(v)' =>
              \E j \in DOMAIN results' : j > i /\ Tells(results'[j], v)
      BY <2>4, <3>1
    <3> QED
      BY <3>2, <3>3, Zenon DEF LogsInv, LogsOf, Tells
  <2> QED
    BY <2>2, <2>5
<1> QED
  BY <1>7, <1>8, <1>9, <1>10, <1>11, <1>13, <1>14 DEF UIInv

\* No modal is up that could offer the wrong thing.
LEMMA ModalsGone ==
    ASSUME overlays' \in Seq(UpOverlay), NoneOf(Modals, overlays') PROVE ModalsFresh'
BY DEF NoneOf, ModalsFresh, Modals

LEMMA TakeFleetKeeps == UIInv /\ TakeFleet => UIInv'
<1> SUFFICES ASSUME UIInv, TakeFleet PROVE UIInv'
  OBVIOUS
<1>1. HeldInv /\ OneOutInv /\ ScreenInv /\ FreshInv /\ ModalsFresh /\ WaitInv /\ CompleteInv
  BY DEF UIInv
<1>2. /\ results # <<>> /\ results' = Tail(results) /\ Alters(Res) /\ Res.type = "LoadFleet"
      /\ UNCHANGED <<fleet, rentals, history, tasks, statusFilter, selected, shownLogs,
                     loadingLogs, exited, trouble, inputs>>
      /\ overlays' = OverlaysLeft /\ snapshot' = Res.fleet
      /\ cards' = Listed(statusFilter) /\ panel' = PanelFor(Res.fleet, selected)
  BY DEF TakeFleet, Arrived, Alters, manager
<1>3. /\ loadingSet = TRUE /\ LoadingLeft = FALSE /\ tasks = <<>> /\ results' = <<>>
      /\ overlays' \in Seq(UpOverlay) /\ NoneOf({"loading"} \cup Modals, overlays')
  BY <1>2, LoadingTaken DEF OnlyLogs, NoneOf
<1>4. loadingSet' = FALSE
  BY <1>3 DEF TakeFleet
<1>5. results' \in Seq(GivenResult) /\ Res = results[1] /\ Res \in GivenResult /\ 1 \in DOMAIN results
  BY <1>1, <1>2, ResultTaken
<1>6. HeldInv'
  <2>1. Res.fleet \in Fleets /\ selected \in Vehicles \cup {NoVehicle}
    BY <1>1, <1>5 DEF HeldInv, GivenResult, Result
  <2>2. panel' \in UpPanel
    BY <1>2, <2>1, PanelTyped
  <2>3. cards' \subseteq Vehicles
    BY <1>2 DEF Listed
  <2> QED
    BY <1>1, <1>2, <1>3, <1>4, <1>5, <2>1, <2>2, <2>3 DEF HeldInv, NoPanel, UpPanel
<1>7. OneOutInv'
  BY <1>2, <1>3 DEF OneOutInv
<1>8. ScreenInv'
  BY <1>3, <1>4 DEF ScreenInv, NoneOf
<1>9. FreshInv'
  <2> SUFFICES ASSUME "load" \notin trouble PROVE CopiesInv'
    BY <1>2 DEF FreshInv
  <2>1. CopiesInv
    BY <1>1 DEF FreshInv
  <2>2. Res.fleet = fleet
    BY <1>2, <1>5, <2>1 DEF CopiesInv
  <2>3. DOMAIN results' = {}
    BY <1>3
  <2>4. Listed(statusFilter)' = Listed(statusFilter)
    BY <1>2 DEF Listed
  <2> QED
    BY <1>2, <2>1, <2>2, <2>3, <2>4 DEF CopiesInv, Allowed, PanelFor, NoPanel
<1>10. ModalsFresh'
  BY <1>3, ModalsGone DEF NoneOf
<1>11. WaitInv' /\ CompleteInv'
  <2>1. ~Removes(Res, selected) /\ ~Tells(Res, selected)
    BY <1>2 DEF Removes, Tells
  <2>2. DOMAIN tasks' = {}
    BY <1>2, <1>3
  <2> QED
    BY <1>2, <2>1, <2>2, LogsStay
<1> QED
  BY <1>6, <1>7, <1>8, <1>9, <1>10, <1>11 DEF UIInv

LEMMA TakeFleetFailedKeeps == UIInv /\ TakeFleetFailed => UIInv'
<1> SUFFICES ASSUME UIInv, TakeFleetFailed PROVE UIInv'
  OBVIOUS
<1>1. HeldInv /\ OneOutInv /\ ScreenInv /\ FreshInv /\ ModalsFresh /\ WaitInv /\ CompleteInv
  BY DEF UIInv
<1>2. /\ results # <<>> /\ results' = Tail(results) /\ Alters(Res) /\ Res.type = "LoadFleet"
      /\ UNCHANGED <<manager, tasks, view, exited, trouble, inputs>>
      /\ overlays' = Append(OverlaysLeft, Alert) /\ Res.ok # TRUE
  BY DEF TakeFleetFailed, Arrived, Alters
<1>3. /\ loadingSet = TRUE /\ LoadingLeft = FALSE /\ tasks = <<>> /\ results' = <<>>
      /\ OverlaysLeft \in Seq(UpOverlay) /\ NoneOf({"loading"} \cup Modals, OverlaysLeft)
  BY <1>2, LoadingTaken DEF OnlyLogs, NoneOf
<1>4. loadingSet' = FALSE
  BY <1>3 DEF TakeFleetFailed
<1>5. overlays' \in Seq(UpOverlay) /\ NoneOf({"loading"} \cup Modals, overlays')
  BY <1>2, <1>3, Alerted
<1>6. results' \in Seq(GivenResult) /\ Res = results[1] /\ Res \in GivenResult /\ 1 \in DOMAIN results
  BY <1>1, <1>2, ResultTaken
<1>7. HeldInv'
  BY <1>1, <1>2, <1>4, <1>5, <1>6 DEF HeldInv, manager, view, NoPanel, UpPanel
<1>8. OneOutInv'
  BY <1>2, <1>3 DEF OneOutInv
<1>9. ScreenInv'
  BY <1>4, <1>5 DEF ScreenInv, NoneOf
<1>10. FreshInv'
  BY <1>1, <1>2, <1>6 DEF FreshInv, CopiesInv
<1>11. ModalsFresh'
  BY <1>5, ModalsGone DEF NoneOf
<1>12. WaitInv' /\ CompleteInv'
  <2>1. ~Removes(Res, selected) /\ ~Tells(Res, selected)
    BY <1>2 DEF Removes, Tells
  <2>2. DOMAIN tasks' = {} /\ UNCHANGED <<fleet, history, loadingLogs, trouble, selected, shownLogs>>
    BY <1>2, <1>3 DEF manager, view
  <2> QED
    BY <1>2, <2>1, <2>2, LogsStay
<1> QED
  BY <1>7, <1>8, <1>9, <1>10, <1>11, <1>12 DEF UIInv

LEMMA TakeOutcomeKeeps == UIInv /\ (TakeOutcome \/ TakeDecommissioned) => UIInv'
<1> SUFFICES ASSUME UIInv, TakeOutcome \/ TakeDecommissioned PROVE UIInv'
  OBVIOUS
<1>1. HeldInv /\ OneOutInv /\ ScreenInv /\ FreshInv /\ ModalsFresh /\ WaitInv /\ CompleteInv
  BY DEF UIInv
<1>2. /\ results # <<>> /\ results' = Tail(results) /\ Alters(Res)
      /\ Res.type \in {"RentVehicle", "ReturnVehicle", "ReturnCode", "UpdateStatus",
                       "AddVehicle", "DecommissionVehicle"}
      /\ UNCHANGED <<manager, snapshot, cards, statusFilter, panel, loadingLogs, exited, trouble,
                     inputs>>
      /\ loadingSet' = TRUE
  BY DEF TakeOutcome, TakeDecommissioned, Arrived, Alters, view
<1>3. /\ tasks = <<>> /\ results' = <<>> /\ OnlyLogs(tasks)
      /\ OverlaysLeft \in Seq(UpOverlay) /\ NoneOf({"loading"} \cup Modals, OverlaysLeft)
  BY <1>2, LoadingTaken DEF OnlyLogs, NoneOf
<1>4. results' \in Seq(GivenResult) /\ Res = results[1] /\ Res \in GivenResult /\ 1 \in DOMAIN results
  BY <1>1, <1>2, ResultTaken
<1>5. tasks \in Seq(SentTask) /\ selected \in Vehicles \cup {NoVehicle}
  BY <1>1 DEF HeldInv
\* The alert, if any, goes under the loading overlay.
<1>6. PICK under \in Seq(UpOverlay) :
        NoneOf({"loading"} \cup Modals, under) /\ overlays' = Append(under, Loading)
  <2>1. /\ Append(OverlaysLeft, Alert) \in Seq(UpOverlay)
        /\ NoneOf({"loading"} \cup Modals, Append(OverlaysLeft, Alert))
    BY <1>3, Alerted
  <2>2. CASE TakeOutcome
    BY <1>3, <2>1, <2>2 DEF TakeOutcome
  <2>3. CASE TakeDecommissioned
    BY <2>1, <2>3 DEF TakeDecommissioned
  <2> QED
    BY <2>2, <2>3
<1>7. /\ overlays' \in Seq(UpOverlay) /\ NoneOf(Modals, overlays')
      /\ \E i \in DOMAIN overlays' : overlays'[i].kind = "loading"
      /\ \A i, j \in DOMAIN overlays' :
           overlays'[i].kind = "loading" /\ overlays'[j].kind = "loading" => i = j
  BY <1>6, LoadingOnTop
\* The logs, if any, are asked for before the fleet.
<1>8. PICK before \in Seq(SentTask) :
        /\ OnlyLogs(before) /\ tasks' = Append(before, LoadFleet)
        /\ \A v : \A i \in DOMAIN before : LogsOf(before[i], v) => TakeOutcome /\ v = selected
        /\ TakeOutcome /\ selected # NoVehicle /\ Tells(Res, selected) =>
             \E i \in DOMAIN before : LogsOf(before[i], selected)
  <2>0. DOMAIN tasks = {}
    BY <1>3
  <2>1. CASE TakeOutcome /\ Res.ok /\ Res.type # "AddVehicle" /\ IsTarget
    <3>1. Res.veh = selected /\ selected \in Vehicles
      BY <1>5, <2>1 DEF IsTarget
    <3> DEFINE before == Append(tasks, LoadLogs(Res.veh))
    <3>2. /\ before \in Seq(SentTask) /\ OnlyLogs(before)
          /\ \E i \in DOMAIN before : LogsOf(before[i], selected)
          /\ \A v : \A i \in DOMAIN before : LogsOf(before[i], v) => v = selected
      <4>1. /\ before \in Seq(SentTask) /\ OnlyLogs(before)
            /\ \E i \in DOMAIN before : LogsOf(before[i], selected)
            /\ \A i \in DOMAIN before : ~LogsOf(before[i], selected) => i \in DOMAIN tasks
        BY <1>3, <1>5, <3>1, LogsQueued
      <4>2. \A i \in DOMAIN before : LogsOf(before[i], selected)
        BY <2>0, <4>1
      <4> HIDE DEF before
      <4> QED
        BY <4>1, <4>2 DEF LogsOf
    <3>3. tasks' = Append(before, LoadFleet)
      BY <2>1 DEF TakeOutcome
    <3> HIDE DEF before
    <3> QED
      BY <2>1, <3>2, <3>3
  <2>2. CASE TakeOutcome /\ ~(Res.ok /\ Res.type # "AddVehicle" /\ IsTarget)
    <3>1. tasks' = Append(tasks, LoadFleet)
      BY <2>2 DEF TakeOutcome
    <3>2. ~(selected # NoVehicle /\ Tells(Res, selected))
      BY <2>2 DEF Tells, IsTarget
    <3> QED
      BY <1>3, <1>5, <2>0, <3>1, <3>2
  <2>3. CASE TakeDecommissioned
    <3>1. tasks' = Append(tasks, LoadFleet) /\ ~TakeOutcome
      BY <2>3 DEF TakeDecommissioned, TakeOutcome, Arrived
    <3> QED
      BY <1>3, <1>5, <2>0, <3>1
  <2> QED
    BY <2>1, <2>2, <2>3
<1>9. /\ tasks' \in Seq(SentTask)
      /\ \A i \in DOMAIN tasks' : Alters(tasks'[i]) => i = Len(tasks')
      /\ \A i \in DOMAIN tasks' : tasks'[i].type # "UpdateStatus"
      /\ \A v : (\E i \in DOMAIN before : LogsOf(before[i], v)) <=>
                  \E i \in DOMAIN tasks' : LogsOf(tasks'[i], v)
  BY <1>8, FleetQueued
\* The selection goes with the vehicle that was taken away.
<1>10. \/ UNCHANGED <<selected, shownLogs>>
       \/ selected' = NoVehicle /\ shownLogs' = {}
  BY DEF TakeOutcome, TakeDecommissioned, view
<1>11. /\ TakeDecommissioned /\ selected # NoVehicle /\ Tells(Res, selected) => selected' = NoVehicle
       /\ selected # NoVehicle /\ Removes(Res, selected) => selected' = NoVehicle
       /\ TakeOutcome => selected' = selected
  <2>1. TakeDecommissioned /\ selected # NoVehicle /\ Tells(Res, selected) => selected' = NoVehicle
    BY DEF TakeDecommissioned, Tells, IsTarget
  <2>2. Removes(Res, selected) => TakeDecommissioned /\ Tells(Res, selected)
    BY DEF Removes, Tells, TakeOutcome, TakeDecommissioned, Arrived
  <2>3. TakeOutcome => selected' = selected
    BY DEF TakeOutcome, view
  <2> QED
    BY <2>1, <2>2, <2>3
<1>12. HeldInv'
  BY <1>1, <1>2, <1>4, <1>7, <1>9, <1>10 DEF HeldInv, manager, NoPanel, UpPanel
<1>13. OneOutInv'
  BY <1>2, <1>3, <1>9 DEF OneOutInv, Alters
<1>14. ScreenInv'
  BY <1>2, <1>7 DEF ScreenInv, NoneOf
<1>15. FreshInv'
  <2>1. loadingSet' # FALSE
    BY <1>2
  <2>2. DOMAIN results' = {}
    BY <1>3
  <2> QED
    BY <1>9, <2>1, <2>2 DEF FreshInv, CopiesInv, Allowed
<1>16. ModalsFresh'
  BY <1>7, ModalsGone
<1>17. WaitInv' /\ CompleteInv'
  <2>1. UNCHANGED <<fleet, history, loadingLogs, trouble>>
    BY <1>2 DEF manager
  <2>2. \/ UNCHANGED <<selected, shownLogs>> /\ (selected # NoVehicle => ~Removes(Res, selected))
        \/ selected' = NoVehicle
    BY <1>10, <1>11
  <2>3. UNCHANGED selected /\ selected # NoVehicle /\ Tells(Res, selected) =>
          \E i \in DOMAIN tasks' : LogsOf(tasks'[i], selected)
    BY <1>8, <1>9, <1>11
  <2>4. \A v : \A i \in DOMAIN tasks' : LogsOf(tasks'[i], v) => v = selected'
    BY <1>8, <1>9, <1>11
  <2> QED
    BY <1>2, <2>1, <2>2, <2>3, <2>4, LogsStay
<1> QED
  BY <1>12, <1>13, <1>14, <1>15, <1>16, <1>17 DEF UIInv

LEMMA ProcessKeeps == UIInv /\ ProcessResult => UIInv'
BY TakeLogsKeeps, TakeFleetKeeps, TakeFleetFailedKeeps, TakeOutcomeKeeps DEF ProcessResult

(***************************************************************************)
(* The user.                                                               *)
(***************************************************************************)

\* With no overlay up, or with one on top that is no loading overlay and belongs
\* to a modal, nothing is out but looks at the logs.
LEMMA Quiet ==
    ASSUME UIInv, loadingSet = FALSE PROVE OnlyLogs(tasks) /\ OnlyLogs(results)
BY DEF UIInv, OneOutInv, OnlyLogs

LEMMA QuietScreen == UIInv /\ NoOverlay => loadingSet = FALSE
<1> SUFFICES ASSUME UIInv, NoOverlay PROVE loadingSet = FALSE
  OBVIOUS
<1>1. ScreenInv /\ loadingSet \in BOOLEAN /\ overlays = <<>>
  BY DEF UIInv, HeldInv, NoOverlay
<1>2. ~\E i \in DOMAIN overlays : overlays[i].kind = "loading"
  BY <1>1
<1> QED
  BY <1>1, <1>2 DEF ScreenInv

\* Steps that leave alone what the manager, the logs and the selection are.
LEMMA SameLogs ==
    ASSUME WaitInv, CompleteInv, UNCHANGED <<fleet, history, tasks, results, trouble>>,
           loadingLogs' = loadingLogs,
           \/ UNCHANGED <<selected, shownLogs>>
           \/ selected' = NoVehicle
    PROVE  WaitInv' /\ CompleteInv'
<1>1. /\ \A v : LogsOut(v)' <=> LogsOut(v)
      /\ \A v : (\E j \in DOMAIN results' : Removes(results'[j], v)) <=>
                  \E j \in DOMAIN results : Removes(results[j], v)
  BY DEF LogsOut, LogsOf
<1>2. WaitInv'
  BY DEF WaitInv, LogsOut, LogsOf
<1>3. CompleteInv'
  <2> SUFFICES ASSUME trouble = {} PROVE GoneInv' /\ LogsInv'
    BY DEF CompleteInv
  <2>1. GoneInv /\ LogsInv
    BY DEF CompleteInv
  <2>2. GoneInv'
    BY <1>1, <2>1, UIAssumption DEF GoneInv, Removes, Absent
  <2>3. \A v \in Vehicles : Found(v)' = Found(v)
    BY SameFound
  <2>4. LogsInv'
    BY <2>1, <2>3, UIAssumption DEF LogsInv, LogsAgain, LogsOut, LogsOf, Tells
  <2> QED
    BY <2>2, <2>4
<1> QED
  BY <1>2, <1>3

\* Steps that change the stack of overlays only.
LEMMA StackOnly ==
    ASSUME UIInv, UNCHANGED <<manager, queues, loadingSet, view, trouble, inputs>>,
           exited' \in BOOLEAN, overlays' \in Seq(UpOverlay), ScreenInv', ModalsFresh'
    PROVE  UIInv'
<1>1. HeldInv /\ OneOutInv /\ FreshInv /\ WaitInv /\ CompleteInv
  BY DEF UIInv
<1>2. HeldInv'
  BY <1>1 DEF HeldInv, manager, queues, view, NoPanel, UpPanel
<1>3. OneOutInv'
  BY <1>1 DEF OneOutInv, queues
<1>4. FreshInv'
  BY <1>1 DEF FreshInv, CopiesInv, Allowed, Listed, PanelFor, NoPanel, manager, queues, view
<1>5. WaitInv' /\ CompleteInv'
  BY <1>1, SameLogs DEF manager, queues, view
<1> QED
  BY <1>2, <1>3, <1>4, <1>5 DEF UIInv

\* An overlay is put on an empty screen.
LEMMA PushKeeps ==
    ASSUME UIInv, NEW o \in UpOverlay, overlays = <<>>, Push(o), loadingSet = FALSE,
           o.kind # "loading",
           o.kind \in VehicleModals /\ "load" \notin trouble =>
             fleet[o.veh] # Absent /\ o.kind \in Offered(fleet[o.veh])
    PROVE  UIInv'
<1>1. /\ overlays' = Append(overlays, o)
      /\ UNCHANGED <<manager, queues, loadingSet, view, exited, trouble, inputs>>
  BY DEF Push
<1>2. overlays \in Seq(UpOverlay) /\ exited \in BOOLEAN
  BY DEF UIInv, HeldInv
<1>3. /\ overlays' \in Seq(UpOverlay)
      /\ \A i \in DOMAIN overlays' : i = 1 /\ overlays'[i] = o
  <2>1. Len(overlays) = 0 /\ DOMAIN overlays = {}
    BY <1>2, Elements
  <2> QED
    BY <1>1, <1>2, <2>1, Appended
<1>4. ScreenInv'
  BY <1>1, <1>3 DEF ScreenInv
<1>5. ModalsFresh'
  BY <1>1, <1>3 DEF ModalsFresh, manager
<1> QED
  BY <1>1, <1>2, <1>3, <1>4, <1>5, StackOnly

\* The overlay on top goes.
LEMMA PopKeeps ==
    ASSUME UIInv, overlays # <<>>, Last(overlays).kind # "loading",
           overlays' = Front(overlays), exited' \in BOOLEAN,
           UNCHANGED <<manager, queues, loadingSet, view, trouble, inputs>>
    PROVE  UIInv'
<1>1. overlays \in Seq(UpOverlay) /\ ScreenInv /\ ModalsFresh
  BY DEF UIInv, HeldInv
<1>2. /\ overlays' \in Seq(UpOverlay) /\ Last(overlays) = overlays[Len(overlays)]
      /\ \A i \in DOMAIN overlays' :
           i \in DOMAIN overlays /\ i # Len(overlays) /\ overlays'[i] = overlays[i]
      /\ \A i \in DOMAIN overlays : i # Len(overlays) =>
           i \in DOMAIN overlays' /\ overlays'[i] = overlays[i]
  BY <1>1, Fronted
<1>3. (\E i \in DOMAIN overlays : overlays[i].kind = "loading") <=>
        \E i \in DOMAIN overlays' : overlays'[i].kind = "loading"
  BY <1>2
<1>4. ScreenInv'
  BY <1>1, <1>2, <1>3 DEF ScreenInv
<1>5. ModalsFresh'
  BY <1>1, <1>2 DEF ModalsFresh, manager
<1> QED
  BY <1>2, <1>4, <1>5, StackOnly

\* The question whether to quit goes on top of anything.
LEMMA AskQuitKeeps == UIInv /\ AskQuit => UIInv'
<1> SUFFICES ASSUME UIInv, AskQuit PROVE UIInv'
  OBVIOUS
<1> DEFINE o == Of("quit", NoVehicle)
<1>1. /\ overlays' = Append(overlays, o)
      /\ UNCHANGED <<manager, queues, loadingSet, view, exited, trouble, inputs>>
  BY DEF AskQuit, Push
<1>2. overlays \in Seq(UpOverlay) /\ ScreenInv /\ ModalsFresh /\ exited \in BOOLEAN
  BY DEF UIInv, HeldInv
<1>3. o \in UpOverlay /\ o.kind = "quit" /\ "quit" \notin Modals /\ "quit" \notin VehicleModals
  BY DEF Of, UpOverlay, Overlay, Modals, VehicleModals
<1> HIDE DEF o
<1>4. /\ overlays' \in Seq(UpOverlay)
      /\ \A i \in DOMAIN overlays : i \in DOMAIN overlays' /\ overlays'[i] = overlays[i]
      /\ \A i \in DOMAIN overlays' : \/ i \in DOMAIN overlays /\ overlays'[i] = overlays[i]
                                     \/ overlays'[i].kind = "quit"
  BY <1>1, <1>2, <1>3, Appended
<1>5. (\E i \in DOMAIN overlays : overlays[i].kind = "loading") <=>
        \E i \in DOMAIN overlays' : overlays'[i].kind = "loading"
  BY <1>4
<1>6. ScreenInv'
  BY <1>1, <1>2, <1>3, <1>4, <1>5 DEF ScreenInv
<1>7. ModalsFresh'
  BY <1>1, <1>2, <1>3, <1>4 DEF ModalsFresh, manager
<1> QED
  BY <1>1, <1>2, <1>4, <1>6, <1>7, StackOnly

\* A modal sends its task.  It is alone on the screen.
LEMMA TriggerKeeps ==
    ASSUME UIInv, NEW kind \in Modals, NEW task \in SentTask, Trigger(kind, task),
           Alters(task), "load" \notin trouble => Allowed(task)
    PROVE  UIInv'
<1>1. HeldInv /\ OneOutInv /\ ScreenInv /\ FreshInv /\ WaitInv /\ CompleteInv
  BY DEF UIInv
<1>2. /\ overlays # <<>> /\ Last(overlays).kind = kind /\ inputs' \in 0..MaxInputs
      /\ overlays' = Append(Front(overlays), Loading) /\ loadingSet' = TRUE
      /\ tasks' = Append(tasks, task)
      /\ UNCHANGED <<manager, results, view, exited, trouble>>
  BY <1>1, UIAssumption DEF Trigger, TopIs, CountInput, HeldInv
<1>3. /\ Front(overlays) \in Seq(UpOverlay) /\ Len(overlays) \in DOMAIN overlays
      /\ overlays[Len(overlays)].kind \in Modals /\ Len(Front(overlays)) = Len(overlays) - 1
  BY <1>1, <1>2, Fronted DEF HeldInv
<1>4. Len(overlays) = 1 /\ loadingSet = FALSE
  BY <1>1, <1>3 DEF ScreenInv
<1>5. NoneOf({"loading"} \cup Modals, Front(overlays))
  <2>1. Len(Front(overlays)) = 0 /\ DOMAIN Front(overlays) = {}
    BY <1>3, <1>4, Elements
  <2> QED
    BY <2>1 DEF NoneOf
<1>6. /\ overlays' \in Seq(UpOverlay) /\ NoneOf(Modals, overlays')
      /\ \E i \in DOMAIN overlays' : overlays'[i].kind = "loading"
      /\ \A i, j \in DOMAIN overlays' :
           overlays'[i].kind = "loading" /\ overlays'[j].kind = "loading" => i = j
  BY <1>2, <1>3, <1>5, LoadingOnTop
<1>7. OnlyLogs(tasks) /\ OnlyLogs(results)
  BY <1>4, Quiet
<1>8. /\ tasks' \in Seq(SentTask)
      /\ \A i \in DOMAIN tasks : i \in DOMAIN tasks' /\ tasks'[i] = tasks[i]
      /\ \A i \in DOMAIN tasks' : \/ i \in DOMAIN tasks /\ tasks'[i] = tasks[i]
                                  \/ i = Len(tasks) + 1 /\ tasks'[i] = task
      /\ Len(tasks') = Len(tasks) + 1
  BY <1>1, <1>2, Appended DEF HeldInv
<1>9. HeldInv'
  BY <1>1, <1>2, <1>6, <1>8 DEF HeldInv, manager, view, NoPanel, UpPanel
<1>10. OneOutInv'
  <2>1. \A i \in DOMAIN tasks' : Alters(tasks'[i]) => i = Len(tasks')
    BY <1>7, <1>8 DEF OnlyLogs
  <2> QED
    BY <1>2, <1>7, <2>1 DEF OneOutInv, OnlyLogs, Alters
<1>11. ScreenInv'
  BY <1>2, <1>6 DEF ScreenInv, NoneOf
<1>12. FreshInv'
  <2> SUFFICES ASSUME "load" \notin trouble PROVE CopiesInv'
    BY <1>2 DEF FreshInv
  <2>1. CopiesInv /\ Allowed(task)
    BY <1>1 DEF FreshInv
  <2>2. \A i \in DOMAIN tasks' : Allowed(tasks'[i])
    BY <1>8, <2>1 DEF CopiesInv
  <2>3. fleet' = fleet /\ results' = results /\ loadingSet' # FALSE
    BY <1>2 DEF manager
  <2> QED
    BY <2>1, <2>2, <2>3 DEF CopiesInv, Allowed
<1>13. ModalsFresh'
  BY <1>6, ModalsGone
<1>14. \A v : LogsOut(v)' <=> LogsOut(v)
  <2>1. \A v : ~LogsOf(task, v)
    BY DEF LogsOf, Alters
  <2> QED
    BY <1>2, <1>8, <2>1 DEF LogsOut, LogsOf
<1>15. UNCHANGED <<fleet, history, selected, shownLogs, loadingLogs, results, trouble>>
  BY <1>2 DEF manager, view
<1>16. WaitInv'
  BY <1>1, <1>14, <1>15 DEF WaitInv
<1>17. CompleteInv'
  <2> SUFFICES ASSUME trouble = {} PROVE GoneInv' /\ LogsInv'
    BY <1>2 DEF CompleteInv
  <2>1. GoneInv /\ LogsInv
    BY <1>1 DEF CompleteInv
  <2>2. GoneInv'
    BY <1>14, <1>15, <2>1 DEF GoneInv, Removes, Absent
  <2>3. \A v \in Vehicles : Found(v)' = Found(v) /\ (LogsAgain(v) => LogsAgain(v)')
    BY <1>14, <1>15, SameFound DEF LogsAgain, Tells
  <2>4. LogsInv'
    BY <1>15, <2>1, <2>3 DEF LogsInv, LogsOf, Tells
  <2> QED
    BY <2>2, <2>4
<1> QED
  BY <1>9, <1>10, <1>11, <1>12, <1>13, <1>16, <1>17 DEF UIInv

\* The tasks of the modals are the ones the buttons offered.
LEMMA TriggersKeep ==
    UIInv /\ (TriggerRent \/ TriggerReturn \/ TriggerReturnCode \/ TriggerService \/ TriggerFix
                \/ TriggerDecommission \/ TriggerAdd) => UIInv'
<1> SUFFICES ASSUME UIInv, TriggerRent \/ TriggerReturn \/ TriggerReturnCode \/ TriggerService
                           \/ TriggerFix \/ TriggerDecommission \/ TriggerAdd
             PROVE  UIInv'
  OBVIOUS
<1> USE DEF TaskTypes, Ledger!VehicleStatus
<1>1. overlays \in Seq(UpOverlay) /\ fleet \in Fleets /\ ModalsFresh
  BY DEF UIInv, HeldInv
<1>2. ASSUME NEW kind \in VehicleModals, TopIs(kind)
      PROVE  /\ TopVehicle \in Vehicles
             /\ "load" \notin trouble => /\ fleet[TopVehicle] # Absent
                                         /\ kind \in Offered(fleet[TopVehicle])
  <2>1. /\ overlays # <<>> /\ Last(overlays).kind = kind
    BY <1>2 DEF TopIs
  <2>2. /\ Last(overlays) \in UpOverlay /\ Last(overlays) = overlays[Len(overlays)]
        /\ Len(overlays) \in DOMAIN overlays
    BY <1>1, <2>1, Fronted
  <2> QED
    BY <1>1, <2>1, <2>2 DEF TopVehicle, UpOverlay, ModalsFresh
<1>3. ASSUME NEW v \in Vehicles, NEW type \in {"RentVehicle", "ReturnVehicle",
                                                "DecommissionVehicle", "AddVehicle"}
      PROVE  /\ NewTask(type, v, NoCode, "Available") \in SentTask
             /\ Alters(NewTask(type, v, NoCode, "Available"))
             /\ Allowed(NewTask(type, v, NoCode, "Available"))
  BY DEF NewTask, SentTask, Task, Alters, Allowed
<1>4. CASE TriggerRent
  BY <1>2, <1>3, <1>4, TriggerKeeps DEF TriggerRent, Trigger, VehicleModals, Modals
<1>5. CASE TriggerReturn
  BY <1>2, <1>3, <1>5, TriggerKeeps DEF TriggerReturn, Trigger, VehicleModals, Modals
<1>6. CASE TriggerDecommission
  BY <1>2, <1>3, <1>6, TriggerKeeps DEF TriggerDecommission, Trigger, VehicleModals, Modals
<1>7. CASE TriggerAdd
  BY <1>3, <1>7, TriggerKeeps DEF TriggerAdd, Modals
<1>8. CASE TriggerReturnCode
  <2>1. PICK c \in Codes :
          Trigger("quickReturn", NewTask("ReturnCode", NoVehicle, c, "Available"))
    BY <1>8 DEF TriggerReturnCode
  <2>2. /\ NewTask("ReturnCode", NoVehicle, c, "Available") \in SentTask
        /\ Alters(NewTask("ReturnCode", NoVehicle, c, "Available"))
        /\ Allowed(NewTask("ReturnCode", NoVehicle, c, "Available"))
    BY DEF NewTask, SentTask, Task, Alters, Allowed
  <2> QED
    BY <2>1, <2>2, TriggerKeeps DEF Modals
\* The two changes of status, by what their buttons were offered for.
<1>9. ASSUME NEW v \in Vehicles, NEW s \in {"Available", "Maintenance"}
      PROVE  /\ NewTask("UpdateStatus", v, NoCode, s) \in SentTask
             /\ Alters(NewTask("UpdateStatus", v, NoCode, s))
             /\ fleet[v] \in {"Available", "Maintenance"} =>
                  Allowed(NewTask("UpdateStatus", v, NoCode, s))
  BY DEF NewTask, SentTask, Task, Alters, Allowed
<1>10. ASSUME NEW v \in Vehicles, NEW kind \in {"service", "fix"}, fleet[v] # Absent,
              kind \in Offered(fleet[v])
       PROVE  fleet[v] \in {"Available", "Maintenance"}
  BY <1>1, <1>10 DEF Fleets, Offered, Absent
<1>11. CASE TriggerService
  <2>1. TopIs("service")
    BY <1>11 DEF TriggerService, Trigger
  <2>2. TopVehicle \in Vehicles
        /\ ("load" \notin trouble => fleet[TopVehicle] \in {"Available", "Maintenance"})
    BY <1>2, <1>10, <2>1 DEF VehicleModals
  <2> QED
    BY <1>9, <1>11, <2>2, TriggerKeeps DEF TriggerService, VehicleModals, Modals
<1>12. CASE TriggerFix
  <2>1. TopIs("fix")
    BY <1>12 DEF TriggerFix, Trigger
  <2>2. TopVehicle \in Vehicles
        /\ ("load" \notin trouble => fleet[TopVehicle] \in {"Available", "Maintenance"})
    BY <1>2, <1>10, <2>1 DEF VehicleModals
  <2> QED
    BY <1>9, <1>12, <2>2, TriggerKeeps DEF TriggerFix, VehicleModals, Modals
<1> QED
  BY <1>4, <1>5, <1>6, <1>7, <1>8, <1>11, <1>12

\* Steps on a screen without overlays that change the view.
LEMMA ViewOnly ==
    ASSUME UIInv, NoOverlay,
           UNCHANGED <<manager, tasks, results, overlays, loadingSet, snapshot, loadingLogs,
                       exited, trouble, inputs>>,
           cards' = Listed(statusFilter'), statusFilter' \in Filters,
           panel' = PanelFor(snapshot, selected'), shownLogs' \in SUBSET Nat,
           selected' = NoVehicle \/ UNCHANGED <<selected, shownLogs>>
    PROVE  UIInv'
<1>1. HeldInv /\ OneOutInv /\ ScreenInv /\ FreshInv /\ ModalsFresh /\ WaitInv /\ CompleteInv
  BY DEF UIInv
<1>2. loadingSet = FALSE /\ OnlyLogs(tasks) /\ OnlyLogs(results)
  BY QuietScreen, Quiet
<1>3. HeldInv'
  <2>1. selected' \in Vehicles \cup {NoVehicle}
    BY <1>1 DEF HeldInv
  <2>2. panel' \in UpPanel
    BY <1>1, <2>1, PanelTyped DEF HeldInv
  <2>3. cards' \subseteq Vehicles
    BY DEF Listed
  <2> QED
    BY <1>1, <2>1, <2>2, <2>3 DEF HeldInv, manager, NoPanel, UpPanel
<1>4. OneOutInv'
  BY <1>2 DEF OneOutInv, OnlyLogs, Alters
<1>5. ScreenInv' /\ ModalsFresh'
  BY <1>1 DEF ScreenInv, ModalsFresh, Offered, manager
<1>6. FreshInv'
  <2> SUFFICES ASSUME "load" \notin trouble PROVE CopiesInv'
    BY DEF FreshInv
  <2>1. CopiesInv
    BY <1>1 DEF FreshInv
  <2>2. snapshot = fleet /\ fleet' = fleet
    BY <1>2, <2>1 DEF CopiesInv, manager
  <2>3. cards' = Listed(statusFilter)'
    BY <2>2 DEF Listed
  <2>4. \A i \in DOMAIN results' : results'[i].type # "LoadFleet"
    BY <1>2 DEF OnlyLogs, Alters
  <2> QED
    BY <2>1, <2>2, <2>3, <2>4 DEF CopiesInv, Allowed, PanelFor, NoPanel
<1>7. WaitInv' /\ CompleteInv'
  BY <1>1, SameLogs DEF manager
<1> QED
  BY <1>3, <1>4, <1>5, <1>6, <1>7 DEF UIInv

\* When a load has failed the copies may be old, and the cards with them.
LEMMA SelectKeeps == ASSUME UIInv, NEW v \in Vehicles, Select(v) PROVE UIInv'
<1>1. HeldInv /\ OneOutInv /\ ScreenInv /\ FreshInv /\ ModalsFresh /\ WaitInv /\ CompleteInv
  BY DEF UIInv
<1>2. /\ NoOverlay /\ selected' = v /\ loadingLogs' = TRUE /\ inputs' \in 0..MaxInputs
      /\ tasks' = Append(tasks, LoadLogs(v)) /\ panel' = PanelFor(snapshot, v)
      /\ UNCHANGED <<manager, results, overlays, loadingSet, snapshot, cards, statusFilter,
                     shownLogs, exited, trouble>>
  BY <1>1, UIAssumption DEF Select, CountInput, HeldInv
<1>3. loadingSet = FALSE /\ OnlyLogs(tasks) /\ OnlyLogs(results)
  BY <1>2, QuietScreen, Quiet
<1>4. /\ tasks' \in Seq(SentTask) /\ OnlyLogs(tasks')
      /\ \E i \in DOMAIN tasks' : LogsOf(tasks'[i], v)
      /\ \A i \in DOMAIN tasks' : ~LogsOf(tasks'[i], v) => i \in DOMAIN tasks /\ tasks'[i] = tasks[i]
  BY <1>1, <1>2, <1>3, LogsQueued DEF HeldInv
<1>5. HeldInv'
  <2>1. panel' \in UpPanel
    BY <1>1, <1>2, PanelTyped DEF HeldInv
  <2> QED
    BY <1>1, <1>2, <1>4, <2>1 DEF HeldInv, manager, NoPanel, UpPanel
<1>6. OneOutInv'
  BY <1>2, <1>3, <1>4 DEF OneOutInv, OnlyLogs, Alters
<1>7. ScreenInv' /\ ModalsFresh'
  BY <1>1, <1>2 DEF ScreenInv, ModalsFresh, Offered, manager
<1>8. FreshInv'
  <2> SUFFICES ASSUME "load" \notin trouble PROVE CopiesInv'
    BY <1>2 DEF FreshInv
  <2>1. CopiesInv
    BY <1>1 DEF FreshInv
  <2>2. snapshot = fleet /\ fleet' = fleet /\ cards = Listed(statusFilter)
    BY <1>2, <1>3, <2>1 DEF CopiesInv, manager
  <2>3. \A i \in DOMAIN tasks' : tasks'[i].type # "UpdateStatus"
    BY <1>4 DEF OnlyLogs, Alters
  <2>4. cards' = Listed(statusFilter)'
    BY <1>2, <2>2 DEF Listed
  <2>5. \A i \in DOMAIN results' : results'[i].type # "LoadFleet"
    BY <1>2, <1>3 DEF OnlyLogs, Alters
  <2> QED
    BY <1>2, <2>2, <2>3, <2>4, <2>5 DEF CopiesInv, Allowed, PanelFor, NoPanel
<1>9. WaitInv'
  BY <1>2, <1>4 DEF WaitInv, LogsOut, LogsOf
<1>10. CompleteInv'
  <2> SUFFICES ASSUME trouble = {} PROVE GoneInv' /\ LogsInv'
    BY <1>2 DEF CompleteInv
  <2>1. GoneInv /\ LogsInv /\ UNCHANGED <<fleet, history, results>>
    BY <1>1, <1>2 DEF CompleteInv, manager
  <2>2. fleet[v] # Absent
    <3>1. v \in Listed(statusFilter)
      BY <1>1, <1>3 DEF FreshInv, CopiesInv, Select
    <3> QED
      BY <3>1 DEF Listed
  <2>3. ASSUME NEW w, w # v PROVE LogsOut(w)' => LogsOut(w)
    BY <1>4, <2>1, <2>3 DEF LogsOut, LogsOf
  <2>4. GoneInv'
    BY <1>2, <2>1, <2>2, <2>3 DEF GoneInv, Removes, Absent
  <2>5. LogsAgain(v)' /\ \A w \in Vehicles : Found(w)' = Found(w)
    BY <1>4, <2>1, SameFound DEF LogsAgain, LogsOut, LogsOf
  <2>6. LogsInv'
    BY <1>2, <2>1, <2>5 DEF LogsInv, LogsOf, Tells
  <2> QED
    BY <2>4, <2>6
<1> QED
  BY <1>5, <1>6, <1>7, <1>8, <1>9, <1>10 DEF UIInv

LEMMA FilterKeeps ==
    ASSUME UIInv, CloseDetails \/ \E filter \in Filters : SetFilter(filter) PROVE UIInv'
<1>1. HeldInv /\ tasks \in Seq(SentTask) /\ selected \in Vehicles \cup {NoVehicle}
      /\ statusFilter \in Filters /\ shownLogs \in SUBSET Nat /\ loadingLogs \in BOOLEAN
      /\ inputs \in 0..MaxInputs
  BY DEF UIInv, HeldInv
<1>2. CASE CloseDetails
  <2>1. PanelFor(snapshot, NoVehicle) = NoPanel
    BY DEF PanelFor
  <2> QED
    BY <1>1, <1>2, <2>1, ViewOnly DEF CloseDetails, queues
<1>3. CASE \E filter \in Filters : SetFilter(filter)
  BY <1>1, <1>3, ViewOnly DEF SetFilter, queues
<1> QED
  BY <1>2, <1>3

\* A modal or an explanation is opened from the details panel.
LEMMA OpenKeeps ==
    ASSUME UIInv, \/ \E kind \in VehicleModals : OpenVehicleModal(kind)
                  \/ DecommissionBlocked
                  \/ \E kind \in Modals : OpenModal(kind)
    PROVE  UIInv'
<1>1. overlays = <<>> /\ NoOverlay
  BY DEF OpenVehicleModal, DecommissionBlocked, OpenModal, NoOverlay
<1>2. HeldInv /\ FreshInv /\ loadingSet = FALSE
  BY <1>1, QuietScreen DEF UIInv
<1>3. ASSUME NEW kind \in VehicleModals, OpenVehicleModal(kind) PROVE UIInv'
  <2>1. panel # NoPanel /\ kind \in Offered(panel.stat) /\ Push(Of(kind, panel.veh))
    BY <1>3 DEF OpenVehicleModal
  <2>2. panel.veh \in Vehicles /\ panel.stat \in Ledger!VehicleStatus
    BY <1>2, <2>1, PanelHeld DEF HeldInv
  <2>3. Of(kind, panel.veh) \in UpOverlay /\ Of(kind, panel.veh).kind = kind /\ kind # "loading"
        /\ Of(kind, panel.veh).veh = panel.veh
    BY <2>2 DEF Of, UpOverlay, Overlay, Modals, VehicleModals
  <2>4. "load" \notin trouble => fleet[panel.veh] # Absent /\ panel.stat = fleet[panel.veh]
    <3>1. ASSUME "load" \notin trouble
          PROVE  snapshot = fleet /\ panel = PanelFor(snapshot, selected)
      BY <1>2, <3>1 DEF FreshInv, CopiesInv
    <3>2. snapshot \in Fleets /\ selected \in Vehicles \cup {NoVehicle}
      BY <1>2 DEF HeldInv
    <3>3. "load" \notin trouble => panel.veh = selected /\ panel.stat = snapshot[selected]
      BY <2>1, <3>1, <3>2, PanelTyped
    <3> QED
      BY <2>2, <3>1, <3>3 DEF Ledger!VehicleStatus, Absent
  <2> QED
    BY <1>1, <1>2, <2>1, <2>3, <2>4, PushKeeps
<1>4. CASE DecommissionBlocked
  <2>1. Alert \in UpOverlay /\ Alert.kind # "loading" /\ Alert.kind \notin VehicleModals
    BY DEF Alert, Of, UpOverlay, Overlay, Modals, VehicleModals
  <2> QED
    BY <1>1, <1>2, <1>4, <2>1, PushKeeps DEF DecommissionBlocked
<1>5. ASSUME NEW kind \in Modals, OpenModal(kind) PROVE UIInv'
  <2>1. /\ Of(kind, NoVehicle) \in UpOverlay /\ Of(kind, NoVehicle).kind # "loading"
        /\ Of(kind, NoVehicle).kind \notin VehicleModals /\ Push(Of(kind, NoVehicle))
    BY <1>5 DEF OpenModal, Of, UpOverlay, Overlay, Modals, VehicleModals
  <2> QED
    BY <1>1, <1>2, <2>1, PushKeeps
<1> QED
  BY <1>3, <1>4, <1>5

LEMMA CloseKeeps ==
    ASSUME UIInv, Cancel \/ DismissAlert \/ CancelQuit \/ Quit PROVE UIInv'
<1>1. /\ overlays # <<>> /\ Last(overlays).kind # "loading" /\ overlays' = Front(overlays)
      /\ UNCHANGED <<manager, queues, loadingSet, view, trouble, inputs>>
  BY DEF Cancel, DismissAlert, CancelQuit, Quit, Pop, TopIs, Modals, VehicleModals
<1>2. exited' \in BOOLEAN
  BY DEF Cancel, DismissAlert, CancelQuit, Quit, Pop, UIInv, HeldInv
<1> QED
  BY <1>1, <1>2, PopKeeps

LEMMA UIInvNext == UIInv /\ [Next]_vars => UIInv'
<1> SUFFICES ASSUME UIInv, [Next]_vars PROVE UIInv'
  OBVIOUS
<1>1. CASE UserStep
  BY <1>1, SelectKeeps, FilterKeeps, OpenKeeps, CloseKeeps, TriggersKeep, AskQuitKeeps DEF UserStep
<1>2. CASE UNCHANGED vars
  <2>1. HeldInv' /\ OneOutInv' /\ ScreenInv'
    BY <1>2 DEF UIInv, HeldInv, OneOutInv, ScreenInv, NoPanel, UpPanel, vars, manager, queues, view
  <2>2. FreshInv' /\ ModalsFresh'
    BY <1>2 DEF UIInv, FreshInv, CopiesInv, ModalsFresh, Allowed, Listed, PanelFor,
       NoPanel, Offered, vars, manager, queues, view
  <2>3. WaitInv' /\ CompleteInv'
    BY <1>2, SameLogs DEF UIInv, vars, manager, queues, view
  <2> QED
    BY <2>1, <2>2, <2>3 DEF UIInv
<1> QED
  BY <1>1, <1>2, WorkerKeeps, ProcessKeeps DEF Next, Ended

LEMMA UIInvInit == Init => UIInv
<1> SUFFICES ASSUME Init PROVE UIInv
  OBVIOUS
<1>1. /\ LoadFleet \in SentTask /\ LoadFleet.type = "LoadFleet"
      /\ Loading \in UpOverlay /\ Loading.kind = "loading"
  <2>1. LoadFleet \in SentTask /\ LoadFleet.type = "LoadFleet"
    BY DEF LoadFleet, NewTask, SentTask, Task, TaskTypes, Ledger!VehicleStatus
  <2>2. Loading \in UpOverlay /\ Loading.kind = "loading"
    BY DEF Loading, Of, UpOverlay, Overlay, Modals, VehicleModals
  <2> QED
    BY <2>1, <2>2
<1>2. /\ tasks = <<LoadFleet>> /\ results = <<>> /\ overlays = <<Loading>> /\ loadingSet = TRUE
      /\ fleet \in Fleets /\ rentals \in [Codes -> Vehicles \cup {NoVehicle}]
      /\ history \in [Vehicles -> Nat]
      /\ snapshot = NoFleet /\ cards = {} /\ statusFilter = "All" /\ selected = NoVehicle
      /\ panel = NoPanel /\ shownLogs = {} /\ loadingLogs = FALSE /\ exited = FALSE
      /\ trouble \in Troubles /\ inputs = 0
  BY UIAssumption DEF Init, Stored
<1>3. HeldInv
  <2>1. fleet \in Fleets /\ snapshot \in Fleets
    BY <1>2 DEF Fleets, NoFleet, Ledger!VehicleStatus, Absent
  <2>2. panel \in UpPanel
    BY <1>2 DEF UpPanel
  <2>3. /\ <<LoadFleet>> \in Seq(SentTask) /\ <<>> \in Seq(GivenResult)
        /\ <<Loading>> \in Seq(UpOverlay)
    BY <1>1
  <2>4. /\ rentals \in [Codes -> Vehicles \cup {NoVehicle}] /\ history \in [Vehicles -> Nat]
        /\ cards \subseteq Vehicles /\ statusFilter \in Filters
    BY <1>2 DEF Filters
  <2>5. inputs \in 0..MaxInputs
    BY <1>2, UIAssumption
  <2> QED
    BY <1>2, <2>1, <2>2, <2>3, <2>4, <2>5 DEF HeldInv
<1>4. OneOutInv
  BY <1>1, <1>2 DEF OneOutInv
<1>5. ScreenInv
  BY <1>1, <1>2 DEF ScreenInv, Modals, VehicleModals
<1>6. FreshInv
  BY <1>1, <1>2 DEF FreshInv, CopiesInv, Allowed
<1>7. ModalsFresh
  BY <1>1, <1>2 DEF ModalsFresh, VehicleModals
<1>8. WaitInv /\ CompleteInv
  <2>1. \A v : ~LogsOut(v)
    BY <1>1, <1>2 DEF LogsOut, LogsOf
  <2> QED
    BY <1>2, <2>1, UIAssumption DEF WaitInv, CompleteInv, GoneInv, LogsInv
<1> QED
  BY <1>3, <1>4, <1>5, <1>6, <1>7, <1>8 DEF UIInv

LEMMA UIInvAlways == Spec => []UIInv
BY UIInvInit, UIInvNext, PTL DEF Spec

(***************************************************************************)
(* What follows from the invariant.                                        *)
(***************************************************************************)

\* The fleet and its copies hold statuses, the queues tasks and results, and the
\* stack overlays, whatever the user and the background thread do.
THEOREM UITypes == Spec => []TypeOK
<1>1. UIInv => TypeOK
  <2> SUFFICES ASSUME UIInv PROVE TypeOK
    OBVIOUS
  <2>1. HeldInv
    BY DEF UIInv
  <2>2. tasks \in Seq(Task)
    <3>1. SentTask \subseteq Task
      BY DEF SentTask
    <3> QED
      BY <2>1, <3>1, SeqMonotonic DEF HeldInv
  <2>3. results \in Seq(Result)
    <3>1. GivenResult \subseteq Result
      BY DEF GivenResult
    <3> QED
      BY <2>1, <3>1, SeqMonotonic DEF HeldInv
  <2>4. overlays \in Seq(Overlay)
    <3>1. UpOverlay \subseteq Overlay
      BY DEF UpOverlay
    <3> QED
      BY <2>1, <3>1, SeqMonotonic DEF HeldInv
  <2> QED
    BY <2>1, <2>2, <2>3, <2>4 DEF TypeOK, HeldInv, Result, UpPanel
<1> QED
  BY <1>1, UIInvAlways, PTL

\* As long as no load fails, a user who can reach the buttons sees the manager's
\* fleet as it is, in the copy, the cards and the details panel, and whenever the
\* list is drawn no task is out that changes the fleet.
THEOREM ViewIsFresh == Spec => []ViewFresh
<1>1. UIInv => ViewFresh
  <2> SUFFICES ASSUME UIInv, "load" \notin trouble PROVE ViewFresh
    BY DEF ViewFresh
  <2>1. CopiesInv /\ HeldInv /\ OneOutInv
    BY DEF UIInv, FreshInv
  <2>2. ASSUME NoOverlay
        PROVE  snapshot = fleet /\ cards = Listed(statusFilter) /\ panel = PanelFor(fleet, selected)
    BY <2>1, <2>2, QuietScreen DEF CopiesInv
  <2>3. \A i \in DOMAIN tasks : tasks[i].type \in TaskTypes
    BY <2>1, Elements DEF HeldInv, SentTask, Task
  <2>4. ASSUME NoOverlay \/ Arrived({"LoadFleet"}), NEW i \in DOMAIN tasks
        PROVE  ~Alters(tasks[i])
    <3>1. CASE NoOverlay
      BY <2>1, <3>1, QuietScreen DEF OneOutInv
    <3>2. CASE Arrived({"LoadFleet"})
      <4>1. 1 \in DOMAIN results /\ results[1].type = "LoadFleet"
        BY <2>1, <3>2, Tailed DEF HeldInv, Arrived, Res
      <4> QED
        BY <2>1, <4>1 DEF OneOutInv, Alters
    <3> QED
      BY <2>4, <3>1, <3>2
  <2> QED
    BY <2>2, <2>4 DEF ViewFresh, Alters
<1> QED
  BY <1>1, UIInvAlways, PTL

\* As long as no load fails, a modal that is open for a vehicle still offers what
\* the vehicle's status allows.
THEOREM ModalsAreFresh == Spec => []ModalsFresh
<1>1. UIInv => ModalsFresh
  BY DEF UIInv
<1> QED
  BY <1>1, UIInvAlways, PTL

\* With no task out the loading of the history of the selected vehicle is over and,
\* while all goes well, the newest records of its file are shown.
THEOREM LogsAreFresh == Spec => []LogsFresh
<1>1. UIInv => LogsFresh
  <2> SUFFICES ASSUME UIInv, tasks = <<>>, results = <<>>, selected # NoVehicle
               PROVE  /\ ~loadingLogs
                      /\ trouble = {} =>
                           shownLogs = {n \in 1..history[selected] : history[selected] - n < LogLimit}
    BY DEF LogsFresh
  <2>1. DOMAIN tasks = {} /\ DOMAIN results = {} /\ ~LogsOut(selected)
    BY DEF LogsOut
  <2>2. loadingLogs \in BOOLEAN /\ selected \in Vehicles
    BY DEF UIInv, HeldInv
  <2>3. ~loadingLogs
    BY <2>1, <2>2 DEF UIInv, WaitInv
  <2>4. ASSUME trouble = {} PROVE shownLogs = Newest(selected)
    <3>1. fleet[selected] # Absent
      BY <2>1, <2>2, <2>4 DEF UIInv, CompleteInv, GoneInv
    <3>2. shownLogs = Found(selected)
      BY <2>1, <2>2, <2>4 DEF UIInv, CompleteInv, LogsInv, LogsAgain
    <3> QED
      BY <3>1, <3>2 DEF Found
  <2>5. Newest(selected) = {n \in 1..history[selected] : history[selected] - n < LogLimit}
    <3>1. history[selected] \in Nat /\ LogLimit \in Nat
      BY <2>2, UIAssumption DEF UIInv, HeldInv
    <3>2. \A n \in 1..history[selected] :
            n + LogLimit > history[selected] <=> history[selected] - n < LogLimit
      BY <3>1
    <3> QED
      BY <3>2 DEF Newest
  <2> QED
    BY <2>3, <2>4, <2>5
<1> QED
  BY <1>1, UIInvAlways, PTL

\* A task the background thread runs changes the ledger as RentalLedger allows its
\* callers: a change of status was captured before the vehicle was let.
LEMMA WorkerDisciplined ==
    ASSUME UIInv, WorkerStep, "load" \notin trouble
    PROVE  Ledger!DisciplinedNext \/ UNCHANGED <<fleet, rentals>>
<1>1. HeldInv /\ CopiesInv
  BY DEF UIInv, FreshInv
<1>2. ASSUME tasks # <<>> PROVE Head1 = tasks[1] /\ Head1 \in SentTask /\ 1 \in DOMAIN tasks
  BY <1>1, <1>2, Tailed DEF Head1, HeldInv
<1>3. CASE RunRent
  <2>1. Head1.veh \in Vehicles
    BY <1>2, <1>3 DEF RunRent, Running, SentTask
  <2> QED
    BY <1>3, <2>1 DEF RunRent, Ledger!DisciplinedNext
<1>4. CASE RunReturn
  BY <1>4 DEF RunReturn, ReturnAs, ReturnFailsRecorded, Ledger!DisciplinedNext
<1>5. CASE RunReturnCode
  <2>1. Head1.code \in Codes
    BY <1>2, <1>5 DEF RunReturnCode, Running, SentTask
  <2> QED
    BY <1>5, <2>1 DEF RunReturnCode, ReturnAs, ReturnFailsRecorded, Ledger!DisciplinedNext
<1>6. CASE RunAdd
  <2>1. Head1.veh \in Vehicles
    BY <1>2, <1>6 DEF RunAdd, Running, SentTask
  <2> QED
    BY <1>6, <2>1 DEF RunAdd, Ledger!DisciplinedNext
<1>7. CASE RunUpdate
  <2>1. Head1.veh \in Vehicles /\ Head1.stat \in {"Available", "Maintenance"}
    BY <1>2, <1>7 DEF RunUpdate, Running, SentTask
  <2>2. fleet[Head1.veh] # "Rented"
    BY <1>1, <1>2, <1>7 DEF RunUpdate, Running, CopiesInv, Allowed
  <2> QED
    BY <1>7, <2>1, <2>2 DEF RunUpdate, Ledger!DisciplinedNext
<1>8. CASE RunDecommission
  <2>1. Head1.veh \in Vehicles
    BY <1>2, <1>8 DEF RunDecommission, Running, SentTask
  <2> QED
    BY <1>8, <2>1 DEF RunDecommission, Ledger!DisciplinedNext
<1>9. CASE RunLoadFleet \/ RunLoadLogs \/ RunFails
  BY <1>9 DEF RunLoadFleet, RunLoadLogs, RunFails, manager
<1> QED
  BY <1>3, <1>4, <1>5, <1>6, <1>7, <1>8, <1>9 DEF WorkerStep

\* No input of the user and no result taken by the UI thread touches the ledger.
LEMMA LedgerAlone ==
    ASSUME UserStep \/ ProcessResult \/ Ended \/ UNCHANGED vars
    PROVE  UNCHANGED <<fleet, rentals>>
<1>1. ASSUME UserStep PROVE UNCHANGED manager
  BY <1>1 DEF UserStep, Select, CloseDetails, SetFilter, OpenVehicleModal, DecommissionBlocked,
     OpenModal, Push, Cancel, DismissAlert, Pop, TriggerRent, TriggerReturn, TriggerReturnCode,
     TriggerService, TriggerFix, TriggerDecommission, TriggerAdd, Trigger, AskQuit, CancelQuit, Quit,
     manager
<1>2. ASSUME ProcessResult PROVE UNCHANGED manager
  BY <1>2 DEF ProcessResult, TakeLogs, TakeFleet, TakeFleetFailed, TakeOutcome, TakeDecommissioned,
     manager
<1> QED
  BY <1>1, <1>2 DEF Ended, vars, manager

\* Through the UI no vehicle is let twice and none that is out is changed or
\* decommissioned, although updateVehicleStatus looks at no status: as long as no
\* load fails, the calls the UI sends are those RentalLedger allows its callers.
THEOREM UsersAreDisciplined == Spec => Disciplined
<1>1. UIInv /\ [Next]_vars =>
        [("load" \notin trouble) => Ledger!DisciplinedNext]_<<fleet, rentals>>
  BY WorkerDisciplined, LedgerAlone DEF Next
<1> QED
  BY <1>1, UIInvAlways, PTL DEF Spec, Disciplined

(***************************************************************************)
(* The ledger the manager keeps: RentalLedger over fleet and rentals.      *)
(***************************************************************************)
\* No step takes the agreement of a vehicle away.
AgreementStays == \A v \in Vehicles : Ledger!Agrees(v) => Ledger!Agrees(v)'

\* Whatever a call does to other vehicles, to a vehicle whose status and codes
\* agree it does the same to both.
LEMMA LedgerStep ==
    ASSUME Ledger!LedgerTypeOK, [Ledger!DisciplinedNext]_<<fleet, rentals>>
    PROVE  Ledger!LedgerTypeOK' /\ AgreementStays
<1> USE UIAssumption DEF Ledger!LedgerTypeOK, Ledger!VehicleStatus
<1>1. ASSUME NEW v \in Vehicles, NEW c \in Codes, Ledger!Rent(v, c)
      PROVE  Ledger!LedgerTypeOK' /\ AgreementStays
  <2>1. /\ \A w \in Vehicles : fleet'[w] = IF w = v THEN "Rented" ELSE fleet[w]
        /\ \A d \in Codes : rentals'[d] = IF d = c THEN v ELSE rentals[d]
        /\ fleet[v] = "Available" /\ rentals[c] = NoVehicle
    BY <1>1 DEF Ledger!Rent, Ledger!Put
  <2>2. ASSUME NEW w \in Vehicles, Ledger!Agrees(w) PROVE Ledger!Agrees(w)'
    <3>1. CASE w = v
      <4>1. \A d \in Codes : rentals[d] # v
        BY <2>1, <2>2, <3>1 DEF Ledger!Agrees
      <4>2. \A d \in Codes : rentals'[d] = v <=> d = c
        BY <2>1, <4>1
      <4> QED
        BY <2>1, <3>1, <4>2 DEF Ledger!Agrees
    <3>2. CASE w # v
      <4>1. fleet'[w] = fleet[w] /\ \A d \in Codes : rentals'[d] = w <=> rentals[d] = w
        BY <2>1, <3>2
      <4> QED
        BY <2>2, <4>1 DEF Ledger!Agrees
    <3> QED
      BY <3>1, <3>2
  <2>3. Ledger!LedgerTypeOK'
    BY <1>1 DEF Ledger!Rent, Ledger!Put
  <2> QED
    BY <2>2, <2>3 DEF AgreementStays
<1>2. ASSUME NEW c \in Codes, Ledger!Return(c) PROVE Ledger!LedgerTypeOK' /\ AgreementStays
  <2>1. /\ \A w \in Vehicles : fleet'[w] = IF w = rentals[c] THEN "Available" ELSE fleet[w]
        /\ \A d \in Codes : rentals'[d] = IF d = c THEN NoVehicle ELSE rentals[d]
        /\ rentals[c] \in Vehicles
    BY <1>2 DEF Ledger!Return, Ledger!Put
  <2>2. ASSUME NEW w \in Vehicles, Ledger!Agrees(w) PROVE Ledger!Agrees(w)'
    <3>1. CASE w = rentals[c]
      <4>1. \A d \in Codes : rentals[d] = w => d = c
        BY <2>2, <3>1 DEF Ledger!Agrees
      <4>2. \A d \in Codes : rentals'[d] # w
        BY <2>1, <4>1
      <4> QED
        BY <2>1, <3>1, <4>2 DEF Ledger!Agrees
    <3>2. CASE w # rentals[c]
      <4>1. fleet'[w] = fleet[w] /\ \A d \in Codes : rentals'[d] = w <=> rentals[d] = w
        BY <2>1, <3>2
      <4> QED
        BY <2>2, <4>1 DEF Ledger!Agrees
    <3> QED
      BY <3>1, <3>2
  <2>3. Ledger!LedgerTypeOK'
    BY <1>2 DEF Ledger!Return, Ledger!Put
  <2> QED
    BY <2>2, <2>3 DEF AgreementStays
<1>3. ASSUME NEW v \in Vehicles, NEW s \in {"Available", "Maintenance", "Absent"},
             fleet[v] # "Rented", Ledger!Put(v, s), UNCHANGED rentals
      PROVE  Ledger!LedgerTypeOK' /\ AgreementStays
  <2>1. \A w \in Vehicles : fleet'[w] = "Rented" <=> fleet[w] = "Rented"
    BY <1>3 DEF Ledger!Put
  <2>2. Ledger!LedgerTypeOK'
    BY <1>3 DEF Ledger!Put
  <2> QED
    BY <1>3, <2>1, <2>2 DEF Ledger!Agrees, AgreementStays
<1>4. ASSUME NEW v \in Vehicles, Ledger!Add(v) \/ Ledger!Remove(v)
      PROVE  Ledger!LedgerTypeOK' /\ AgreementStays
  BY <1>3, <1>4 DEF Ledger!Add, Ledger!Remove
<1>5. ASSUME NEW v \in Vehicles, NEW s \in {"Available", "Maintenance"},
             fleet[v] # "Rented", Ledger!Update(v, s)
      PROVE  Ledger!LedgerTypeOK' /\ AgreementStays
  BY <1>3, <1>5 DEF Ledger!Update
<1>6. CASE UNCHANGED <<fleet, rentals>>
  BY <1>6 DEF Ledger!Agrees, AgreementStays
<1> QED
  BY <1>1, <1>2, <1>4, <1>5, <1>6 DEF Ledger!DisciplinedNext

LEMMA AllAgree == Ledger!OneRental /\ AgreementStays => Ledger!OneRental'
BY DEF Ledger!OneRental, AgreementStays

\* Whatever fleet.txt and rentals.txt held when they were loaded, as long as callers
\* never update the status of a rented vehicle: a vehicle whose status and codes
\* agree never loses that, and if all did at the start they always do.
THEOREM LedgerSound ==
    Ledger!DisciplinedSpec =>
        /\ [][AgreementStays]_<<fleet, rentals>>
        /\ Ledger!OneRental => []Ledger!OneRental
<1>1. Ledger!LedgerInit => Ledger!LedgerTypeOK
  BY DEF Ledger!LedgerInit
<1>2. Ledger!LedgerTypeOK /\ [Ledger!DisciplinedNext]_<<fleet, rentals>> =>
        Ledger!LedgerTypeOK' /\ [AgreementStays]_<<fleet, rentals>>
  BY LedgerStep
<1>3. Ledger!OneRental /\ [AgreementStays]_<<fleet, rentals>> => Ledger!OneRental'
  BY AllAgree DEF Ledger!OneRental, Ledger!Agrees
<1> QED
  BY <1>1, <1>2, <1>3, PTL DEF Ledger!DisciplinedSpec, Ledger!ledger

LEMMA TroubleStays == ASSUME [Next]_vars PROVE trouble' = trouble
<1>1. ASSUME UserStep PROVE trouble' = trouble
  BY <1>1 DEF UserStep, Select, CloseDetails, SetFilter, OpenVehicleModal, DecommissionBlocked,
     OpenModal, Push, Cancel, DismissAlert, Pop, TriggerRent, TriggerReturn, TriggerReturnCode,
     TriggerService, TriggerFix, TriggerDecommission, TriggerAdd, Trigger, AskQuit, CancelQuit, Quit
<1>2. ASSUME WorkerStep PROVE trouble' = trouble
  BY <1>2 DEF WorkerStep, RunLoadFleet, RunLoadLogs, RunRent, RunReturn, RunReturnCode, RunAdd,
     RunUpdate, RunDecommission, RunFails, ReturnAs, ReturnFailsRecorded, Answer, Finish
<1>3. ASSUME ProcessResult PROVE trouble' = trouble
  BY <1>3 DEF ProcessResult, TakeLogs, TakeFleet, TakeFleetFailed, TakeOutcome, TakeDecommissioned
<1> QED
  BY <1>1, <1>2, <1>3 DEF Next, Ended, vars

\* Behind the UI, whatever the user does and whatever the files held at the start,
\* as long as no load fails: a vehicle whose status and codes agree never loses
\* that, and if all did at the start they always do.
THEOREM RentalsAgree ==
    Spec => /\ [][("load" \notin trouble) => AgreementStays]_<<fleet, rentals>>
            /\ ("load" \notin trouble) /\ Ledger!OneRental => []Ledger!OneRental
<1> DEFINE Smooth == "load" \notin trouble
<1>1. UIInv => Ledger!LedgerTypeOK
  BY DEF UIInv, HeldInv, Fleets, Ledger!LedgerTypeOK, Absent
<1>2. UIInv /\ [Next]_vars => /\ [Smooth => AgreementStays]_<<fleet, rentals>>
                              /\ Smooth /\ Ledger!OneRental => Smooth' /\ Ledger!OneRental'
  <2> SUFFICES ASSUME UIInv, [Next]_vars
               PROVE  /\ [Smooth => AgreementStays]_<<fleet, rentals>>
                      /\ Smooth /\ Ledger!OneRental => Smooth' /\ Ledger!OneRental'
    OBVIOUS
  <2>1. Smooth => Smooth'
    BY TroubleStays
  <2>2. Smooth => AgreementStays
    BY <1>1, WorkerDisciplined, LedgerAlone, LedgerStep DEF Next
  <2> QED
    BY <2>1, <2>2, AllAgree
<1> QED
  BY <1>2, UIInvAlways, PTL DEF Spec
=============================================================================
