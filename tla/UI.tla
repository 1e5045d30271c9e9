--------------------------------- MODULE UI ---------------------------------
(***************************************************************************)
(* The terminal user interface (src/src/UI.cpp) over the rental ledger.    *)
(* The UI thread reacts to keys and buttons, queues tasks for the one      *)
(* background thread, and takes one finished result per idle callback.     *)
(* What the user can do depends on two copies of the fleet that may be     *)
(* stale: current_fleet_, and the Vehicle each button and modal captured.  *)
(* A loading overlay, shown while a task that changes the fleet or reloads *)
(* it is out, is all that keeps the user away from stale buttons.          *)
(*                                                                         *)
(* notui (an external library) gives the input to the overlay added last.  *)
(* A task runs in one step: the UI thread sees nothing of it before its    *)
(* result is in the queue.                                                 *)
(***************************************************************************)
EXTENDS Naturals, Sequences, SequencesExt

CONSTANTS
    Vehicles, Codes, NoVehicle, NoCode,
    Loaded,             \* what the files may hold when the program starts
    LogLimit,           \* records a load of the history asks for (25)
    Troubles,           \* what may go wrong in a session, a set of sets of kinds
    MaxInputs           \* bound: inputs that queue a task

\* Codes typed in lower case; a return that fails after its record is written,
\* or records of a decommissioned vehicle that stay; a printer that throws
\* something else than PrinterException; a getFleet or a reading of records
\* that throws.
TroubleKinds == {"lowercase", "storage", "printer", "load"}

VARIABLES
    fleet, rentals, history,    \* the manager's ledger; records in each vehicle's file
    tasks, results,             \* worker_'s queue and result_queue_
    overlays,                   \* overlay children of root_, the last one has the input
    loadingSet,                 \* loading_overlay_ # nullptr
    snapshot,                   \* current_fleet_
    cards,                      \* vehicles listed on the left
    statusFilter,               \* status_filter_
    selected, panel,            \* selected_vehicle_id_; what the buttons captured
    shownLogs, loadingLogs,     \* selected_vehicle_logs_, is_loading_logs_
    exited,                     \* the compositor's loop has ended
    trouble,                    \* what may go wrong; it never changes
    inputs

manager == <<fleet, rentals, history>>
queues  == <<tasks, results>>
view    == <<snapshot, cards, statusFilter, selected, panel, shownLogs, loadingLogs>>
vars    == <<manager, queues, overlays, loadingSet, view, exited, trouble, inputs>>

Ledger == INSTANCE RentalLedger WITH status <- fleet, active <- rentals

Absent == "Absent"
Fleets == [Vehicles -> Ledger!VehicleStatus \cup {Absent}]
Stored == [fleet : Fleets, rentals : [Codes -> Vehicles \cup {NoVehicle}],
           history : [Vehicles -> Nat]]

ASSUME UIAssumption ==
    /\ NoVehicle \notin Vehicles /\ NoCode \notin Codes
    /\ Loaded \subseteq Stored /\ LogLimit \in Nat \ {0}
    /\ Troubles \subseteq SUBSET TroubleKinds
    /\ MaxInputs \in Nat

Filters == {"All", "Available", "Rented", "Maintenance"}
TaskTypes == {"LoadFleet", "LoadLogs", "RentVehicle", "ReturnVehicle", "ReturnCode",
              "AddVehicle", "UpdateStatus", "DecommissionVehicle"}
VehicleModals == {"rent", "service", "return", "fix", "decommission"}
Modals == VehicleModals \cup {"quickReturn", "register"}
Overlay == [kind : Modals \cup {"loading", "alert", "quit"}, veh : Vehicles \cup {NoVehicle}]
Task == [type : TaskTypes, veh : Vehicles \cup {NoVehicle}, code : Codes \cup {NoCode},
         stat : Ledger!VehicleStatus]
NoPanel == [veh |-> NoVehicle, stat |-> Absent]
NoFleet == [v \in Vehicles |-> Absent]

TypeOK ==
    /\ fleet \in Fleets /\ snapshot \in Fleets
    /\ rentals \in [Codes -> Vehicles \cup {NoVehicle}]
    /\ history \in [Vehicles -> Nat]
    /\ tasks \in Seq(Task)
    /\ results \in Seq([type : TaskTypes, ok : BOOLEAN, veh : Vehicles \cup {NoVehicle},
                        fleet : Fleets, logs : SUBSET Nat])
    /\ overlays \in Seq(Overlay)
    /\ cards \subseteq Vehicles /\ statusFilter \in Filters
    /\ selected \in Vehicles \cup {NoVehicle}
    /\ panel \in {NoPanel} \cup [veh : Vehicles, stat : Ledger!VehicleStatus]
    /\ shownLogs \subseteq Nat
    /\ loadingSet \in BOOLEAN /\ loadingLogs \in BOOLEAN /\ exited \in BOOLEAN
    /\ trouble \in Troubles /\ inputs \in 0..MaxInputs

----------------------------------------------------------------------------
(* Building blocks of the UI thread. *)

Of(kind, v) == [kind |-> kind, veh |-> v]
Loading == Of("loading", NoVehicle)
Alert   == Of("alert", NoVehicle)

NewTask(type, v, c, s) == [type |-> type, veh |-> v, code |-> c, stat |-> s]
LoadFleet    == NewTask("LoadFleet", NoVehicle, NoCode, "Available")
LoadLogs(v)  == NewTask("LoadLogs", v, NoCode, "Available")

NoOverlay == overlays = <<>> /\ ~exited
TopIs(kind) == overlays # <<>> /\ Last(overlays).kind = kind /\ ~exited
TopVehicle == Last(overlays).veh

\* refresh_fleet_list asks the manager, not current_fleet_.
Listed(filter) == {v \in Vehicles : fleet[v] # Absent /\ filter \in {"All", fleet[v]}}

\* Mutant: a vehicle that current_fleet_ does not hold is shown all the same.
PanelForAny(s, v) == IF v = NoVehicle THEN NoPanel ELSE [veh |-> v, stat |-> s[v]]

\* rebuild_details_panel captures the selected vehicle out of current_fleet_.
PanelFor(s, v) ==
    IF v = NoVehicle THEN NoPanel
    ELSE IF s[v] = Absent THEN NoPanel ELSE [veh |-> v, stat |-> s[v]]

Init ==
    /\ \E l \in Loaded : fleet = l.fleet /\ rentals = l.rentals /\ history = l.history
    /\ tasks = <<LoadFleet>> /\ results = <<>>
    /\ overlays = <<Loading>> /\ loadingSet = TRUE
    /\ snapshot = NoFleet /\ cards = {} /\ statusFilter = "All"
    /\ selected = NoVehicle /\ panel = NoPanel
    /\ shownLogs = {} /\ loadingLogs = FALSE
    /\ exited = FALSE /\ trouble \in Troubles /\ inputs = 0

----------------------------------------------------------------------------
(* Inputs while no overlay is up. *)

CountInput == inputs < MaxInputs /\ inputs' = inputs + 1

\* A card that is selected already does not load its logs again.
Select(v) ==
    /\ NoOverlay /\ v \in cards /\ selected # v /\ CountInput
    /\ selected' = v /\ loadingLogs' = TRUE
    /\ tasks' = Append(tasks, LoadLogs(v))
    /\ panel' = PanelFor(snapshot, v)
    /\ UNCHANGED <<manager, results, overlays, loadingSet, snapshot, cards, statusFilter,
                   shownLogs, exited, trouble>>

CloseDetails ==
    /\ NoOverlay /\ panel # NoPanel
    /\ selected' = NoVehicle /\ shownLogs' = {}
    /\ cards' = Listed(statusFilter) /\ panel' = NoPanel
    /\ UNCHANGED <<manager, queues, overlays, loadingSet, snapshot, statusFilter,
                   loadingLogs, exited, trouble, inputs>>

SetFilter(filter) ==
    /\ NoOverlay /\ statusFilter' = filter
    /\ cards' = Listed(filter) /\ panel' = PanelFor(snapshot, selected)
    /\ UNCHANGED <<manager, queues, overlays, loadingSet, snapshot, selected,
                   shownLogs, loadingLogs, exited, trouble, inputs>>

Push(overlay) ==
    /\ overlays' = Append(overlays, overlay)
    /\ UNCHANGED <<manager, queues, loadingSet, view, exited, trouble, inputs>>

\* Mutant: a vehicle that is out may be sent to service.
OfferedService(stat) ==
    CASE stat = "Available"   -> {"rent", "service", "decommission"}
      [] stat = "Rented"      -> {"return", "service"}
      [] stat = "Maintenance" -> {"fix", "decommission"}

\* The buttons of the details panel, by the status the panel captured.
Offered(stat) ==
    CASE stat = "Available"   -> {"rent", "service", "decommission"}
      [] stat = "Rented"      -> {"return"}
      [] stat = "Maintenance" -> {"fix", "decommission"}

OpenVehicleModal(kind) ==
    /\ NoOverlay /\ panel # NoPanel /\ kind \in Offered(panel.stat)
    /\ Push(Of(kind, panel.veh))

\* "Decommission" on a vehicle that is rented only explains why not.
DecommissionBlocked ==
    /\ NoOverlay /\ panel.stat = "Rented"
    /\ Push(Alert)

OpenModal(kind) ==
    /\ NoOverlay /\ kind \in {"quickReturn", "register"}
    /\ Push(Of(kind, NoVehicle))

----------------------------------------------------------------------------
(* Inputs of the overlay on top. *)

Pop ==
    /\ overlays' = Front(overlays)
    /\ UNCHANGED <<manager, queues, loadingSet, view, exited, trouble, inputs>>

Cancel == (\E kind \in Modals : TopIs(kind)) /\ Pop
DismissAlert == TopIs("alert") /\ Pop

\* The modal goes, a loading overlay comes, and the task is queued.
Trigger(kind, task) ==
    /\ TopIs(kind) /\ CountInput
    /\ overlays' = Append(Front(overlays), Loading) /\ loadingSet' = TRUE
    /\ tasks' = Append(tasks, task)
    /\ UNCHANGED <<manager, results, view, exited, trouble>>

TriggerRent == Trigger("rent", NewTask("RentVehicle", TopVehicle, NoCode, "Available"))
TriggerReturn == Trigger("return", NewTask("ReturnVehicle", TopVehicle, NoCode, "Available"))
TriggerReturnCode ==
    \E c \in Codes : Trigger("quickReturn", NewTask("ReturnCode", NoVehicle, c, "Available"))
TriggerService == Trigger("service", NewTask("UpdateStatus", TopVehicle, NoCode, "Maintenance"))
TriggerFix == Trigger("fix", NewTask("UpdateStatus", TopVehicle, NoCode, "Available"))
TriggerDecommission ==
    Trigger("decommission", NewTask("DecommissionVehicle", TopVehicle, NoCode, "Available"))

\* RegisterVehicleModal draws ids until idExists says one is free.
TriggerAdd ==
    \E v \in Vehicles :
        /\ fleet[v] = Absent
        /\ Trigger("register", NewTask("AddVehicle", v, NoCode, "Available"))

\* Ctrl+Q works whatever overlay is up, unless the question is open already.
ConfirmQuitOpen == \E i \in DOMAIN overlays : overlays[i].kind = "quit"
AskQuit == ~exited /\ ~ConfirmQuitOpen /\ Push(Of("quit", NoVehicle))
CancelQuit == TopIs("quit") /\ Pop
Quit ==
    /\ TopIs("quit")
    /\ overlays' = Front(overlays) /\ exited' = TRUE
    /\ UNCHANGED <<manager, queues, loadingSet, view, trouble, inputs>>

----------------------------------------------------------------------------
(* The background thread: one task, one call of the manager, one result. *)

Head1 == Head(tasks)
Running(type) == tasks # <<>> /\ Head1.type = type

Finish(ok, target, seen, logs) ==
    /\ tasks' = Tail(tasks)
    /\ results' = Append(results, [type |-> Head1.type, ok |-> ok, veh |-> target,
                                   fleet |-> seen, logs |-> logs])
    /\ UNCHANGED <<overlays, loadingSet, view, exited, trouble, inputs>>

Answer(ok, target) == Finish(ok, target, NoFleet, {})

Recorded(v) == history' = [history EXCEPT ![v] = @ + 1]

\* An exception that is no PrinterException makes a call that took effect fail.
PrintedOutcomes == {TRUE} \cup (IF "printer" \in trouble THEN {FALSE} ELSE {})

RunLoadFleet ==
    /\ Running("LoadFleet")
    /\ \/ Finish(TRUE, NoVehicle, fleet, {})
       \/ "load" \in trouble /\ Finish(FALSE, NoVehicle, NoFleet, {})
    /\ UNCHANGED manager

\* getRecordRange(id, 0, LogLimit): a vehicle's records are numbered as they were
\* written, and the page at 0 holds the last ones.
OldestRecords(v) == {n \in 1..history[v] : n <= LogLimit}   \* mutant: the first ones
Newest(v) == {n \in 1..history[v] : n + LogLimit > history[v]}

\* No logs for a vehicle that left the fleet.
RunLoadLogs ==
    /\ Running("LoadLogs")
    /\ \/ Finish(TRUE, Head1.veh, NoFleet,
                 IF fleet[Head1.veh] = Absent THEN {} ELSE Newest(Head1.veh))
       \/ "load" \in trouble /\ Finish(FALSE, Head1.veh, NoFleet, {})
    /\ UNCHANGED manager

RunRent ==
    /\ Running("RentVehicle")
    /\ \E c \in Codes : Ledger!Rent(Head1.veh, c)
    /\ Recorded(Head1.veh)
    /\ \E ok \in PrintedOutcomes : Answer(ok, Head1.veh)

ReturnAs(c, target) ==
    /\ Ledger!Return(c) /\ Recorded(rentals[c])
    /\ \E ok \in PrintedOutcomes : Answer(ok, target)

\* returnVehicle wrote the Returned record when saveActiveRentals failed.
ReturnFailsRecorded(c, target) ==
    /\ "storage" \in trouble /\ rentals[c] # NoVehicle /\ fleet[rentals[c]] # Absent
    /\ Recorded(rentals[c])
    /\ Answer(FALSE, target)
    /\ UNCHANGED <<fleet, rentals>>

RunReturn ==
    /\ Running("ReturnVehicle")
    /\ \E c \in Codes :
         /\ rentals[c] = Head1.veh
         /\ ReturnAs(c, Head1.veh) \/ ReturnFailsRecorded(c, Head1.veh)

\* The target is looked up under the code as typed, the return under the code
\* in upper case: a code in lower case returns its vehicle with no target.
CodeTarget(c) == IF "lowercase" \in trouble THEN NoVehicle ELSE rentals[c]

RunReturnCode ==
    /\ Running("ReturnCode")
    /\ \/ ReturnAs(Head1.code, CodeTarget(Head1.code))
       \/ ReturnFailsRecorded(Head1.code, CodeTarget(Head1.code))

RunAdd ==
    /\ Running("AddVehicle") /\ Ledger!Add(Head1.veh)
    /\ Answer(TRUE, NoVehicle)
    /\ UNCHANGED history

RunUpdate ==
    /\ Running("UpdateStatus") /\ Ledger!Update(Head1.veh, Head1.stat)
    /\ Recorded(Head1.veh)
    /\ Answer(TRUE, Head1.veh)

\* deleteRecords does not say that the file of records could not be removed.
RunDecommission ==
    /\ Running("DecommissionVehicle") /\ Ledger!Remove(Head1.veh)
    /\ \/ history' = [history EXCEPT ![Head1.veh] = 0]
       \/ "storage" \in trouble /\ UNCHANGED history
    /\ Answer(TRUE, Head1.veh)

\* A check, an argument or a storage call fails: the manager is as before.
RunFails ==
    /\ tasks # <<>> /\ Head1.type \notin {"LoadFleet", "LoadLogs"}
    /\ Answer(FALSE, IF Head1.type = "ReturnCode" THEN CodeTarget(Head1.code)
                     ELSE Head1.veh)
    /\ UNCHANGED manager

WorkerStep ==
    \/ RunLoadFleet \/ RunLoadLogs \/ RunRent \/ RunReturn \/ RunReturnCode
    \/ RunAdd \/ RunUpdate \/ RunDecommission \/ RunFails

----------------------------------------------------------------------------
(* process_result_queue, called once per turn of the compositor's loop. *)

Res == Head(results)
Arrived(types) == ~exited /\ results # <<>> /\ Res.type \in types

LastLoading == CHOOSE i \in DOMAIN overlays :
    /\ overlays[i].kind = "loading"
    /\ \A j \in DOMAIN overlays : overlays[j].kind = "loading" => j <= i

ClearsLoadingAlways(type) == loadingSet                    \* mutant: logs clear it too
ClearsLoadingNotFleet(type) ==                             \* mutant: the fleet does not
    type \notin {"LoadLogs", "LoadFleet"} /\ loadingSet
\* Only the overlay loading_overlay_ points at, the last one created, is removed.
ClearsLoading(type) == type # "LoadLogs" /\ loadingSet
OverlaysLeft == IF ClearsLoading(Res.type) THEN RemoveAt(overlays, LastLoading) ELSE overlays
LoadingLeft == loadingSet /\ ~ClearsLoading(Res.type)

TakeLogs ==
    /\ Arrived({"LoadLogs"})
    /\ results' = Tail(results)
    /\ overlays' = OverlaysLeft /\ loadingSet' = LoadingLeft
    /\ IF selected = Res.veh
       THEN /\ loadingLogs' = FALSE /\ shownLogs' = Res.logs
            /\ panel' = PanelFor(snapshot, selected)
       ELSE UNCHANGED <<loadingLogs, shownLogs, panel>>
    /\ UNCHANGED <<manager, tasks, snapshot, cards, statusFilter, selected, exited, trouble, inputs>>

\* Mutant: the details panel is not rebuilt.
TakeFleetKeepsPanel ==
    /\ Arrived({"LoadFleet"}) /\ Res.ok
    /\ results' = Tail(results)
    /\ overlays' = OverlaysLeft /\ loadingSet' = LoadingLeft
    /\ snapshot' = Res.fleet /\ cards' = Listed(statusFilter)
    /\ UNCHANGED <<manager, tasks, statusFilter, selected, panel, shownLogs, loadingLogs,
                   exited, trouble, inputs>>

TakeFleet ==
    /\ Arrived({"LoadFleet"}) /\ Res.ok
    /\ results' = Tail(results)
    /\ overlays' = OverlaysLeft /\ loadingSet' = LoadingLeft
    /\ snapshot' = Res.fleet
    /\ cards' = Listed(statusFilter) /\ panel' = PanelFor(Res.fleet, selected)
    /\ UNCHANGED <<manager, tasks, statusFilter, selected, shownLogs, loadingLogs,
                   exited, trouble, inputs>>

TakeFleetFailed ==
    /\ Arrived({"LoadFleet"}) /\ ~Res.ok
    /\ results' = Tail(results)
    /\ overlays' = Append(OverlaysLeft, Alert) /\ loadingSet' = LoadingLeft
    /\ UNCHANGED <<manager, tasks, view, exited, trouble, inputs>>

IsTarget == selected # NoVehicle /\ selected = Res.veh

\* An alert with the outcome (a status change that worked shows none), the
\* logs again if the selected vehicle was the target, and always the fleet.
TakeOutcome ==
    /\ Arrived({"RentVehicle", "ReturnVehicle", "ReturnCode", "UpdateStatus", "AddVehicle"})
    /\ results' = Tail(results)
    /\ LET alerted == IF Res.ok /\ Res.type = "UpdateStatus" THEN OverlaysLeft
                      ELSE Append(OverlaysLeft, Alert)
       IN overlays' = Append(alerted, Loading)
    /\ loadingSet' = TRUE
    /\ LET logged == IF Res.ok /\ Res.type # "AddVehicle" /\ IsTarget
                     THEN Append(tasks, LoadLogs(Res.veh)) ELSE tasks
       IN tasks' = Append(logged, LoadFleet)
    /\ UNCHANGED <<manager, view, exited, trouble, inputs>>

\* The selection goes with the vehicle; the panel waits for the fleet.
TakeDecommissioned ==
    /\ Arrived({"DecommissionVehicle"})
    /\ results' = Tail(results)
    /\ overlays' = Append(Append(OverlaysLeft, Alert), Loading) /\ loadingSet' = TRUE
    /\ tasks' = Append(tasks, LoadFleet)
    /\ IF Res.ok /\ IsTarget
       THEN selected' = NoVehicle /\ shownLogs' = {}
       ELSE UNCHANGED <<selected, shownLogs>>
    /\ UNCHANGED <<manager, snapshot, cards, statusFilter, panel, loadingLogs, exited, trouble, inputs>>

ProcessResult ==
    TakeLogs \/ TakeFleet \/ TakeFleetFailed \/ TakeOutcome \/ TakeDecommissioned

----------------------------------------------------------------------------
UserStep ==
    \/ \E v \in Vehicles : Select(v)
    \/ CloseDetails
    \/ \E filter \in Filters : SetFilter(filter)
    \/ \E kind \in VehicleModals : OpenVehicleModal(kind)
    \/ DecommissionBlocked
    \/ \E kind \in Modals : OpenModal(kind)
    \/ Cancel \/ DismissAlert
    \/ TriggerRent \/ TriggerReturn \/ TriggerReturnCode \/ TriggerService
    \/ TriggerFix \/ TriggerDecommission \/ TriggerAdd
    \/ AskQuit \/ CancelQuit \/ Quit

\* The program is over: the loop has ended and the queue is drained.
Ended == exited /\ tasks = <<>> /\ UNCHANGED vars

Next == UserStep \/ WorkerStep \/ ProcessResult \/ Ended

Spec == Init /\ [][Next]_vars

\* The background thread and the idle callback keep running; the user need not.
FairSpec == Spec /\ WF_vars(WorkerStep) /\ WF_vars(ProcessResult)

----------------------------------------------------------------------------
(* Properties. *)

\* Whenever the user can reach the buttons, and no load has failed, current_fleet_,
\* the cards and the details panel show the manager's fleet as it is now.  And
\* whenever the list is drawn, for the user or for a fleet that was loaded, no task
\* is out that changes the fleet, so that what a card takes of its vehicle under
\* three locks, the copy, the code and the hours, belongs together.
ViewFresh == "load" \notin trouble =>
    /\ NoOverlay =>
        /\ snapshot = fleet
        /\ cards = Listed(statusFilter)
        /\ panel = PanelFor(fleet, selected)
    /\ NoOverlay \/ Arrived({"LoadFleet"}) =>
        \A i \in DOMAIN tasks : tasks[i].type \in {"LoadFleet", "LoadLogs"}

\* A modal that is open for a vehicle still offers what the vehicle's status
\* allows, unless a load has failed: nothing changed it since the button
\* captured the vehicle.
ModalsFresh ==
    "load" \notin trouble => \A i \in DOMAIN overlays : overlays[i].kind \in VehicleModals =>
        LET v == overlays[i].veh IN
        fleet[v] # Absent /\ overlays[i].kind \in Offered(fleet[v])

\* With no task out the "loading" of the history of the selected vehicle is over
\* and, while all goes well, the records shown are those of its file that fewer
\* than LogLimit others follow: no outcome that adds a record, and no answer for
\* a vehicle selected before, leaves older ones there.
LogsFresh ==
    tasks = <<>> /\ results = <<>> /\ selected # NoVehicle =>
        /\ ~loadingLogs
        /\ trouble = {} =>
             shownLogs = {n \in 1..history[selected] : history[selected] - n < LogLimit}

\* Through the UI no vehicle is let twice and none that is out is changed or
\* decommissioned, although updateVehicleStatus does not check, and whatever the
\* files held at the start: as long as no load fails the tasks the UI sends are
\* the disciplined ones.
Disciplined ==
    [][("load" \notin trouble) => Ledger!DisciplinedNext]_<<fleet, rentals>>

\* The loading overlay never stays: the user gets the buttons back.
LoadingEnds == loadingSet ~> (exited \/ ~loadingSet)
=============================================================================
