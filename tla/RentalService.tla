--------------------------- MODULE RentalService ---------------------------
(***************************************************************************)
(* What FleetManager promises to concurrent callers: every call takes      *)
(* effect in one atomic step of the ledger between its invocation and its  *)
(* answer and then succeeds, or it fails and has no effect.  There is no   *)
(* storage, no lock and no receipt here.                                   *)
(***************************************************************************)
EXTENDS RentalLedger

CONSTANTS Threads, NoCode

VARIABLES
    phase,      \* "idle", "pending" or "done" for each thread
    request,    \* what each thread asked for
    result      \* each thread's last answer

svcVars == <<ledger, phase, request, result>>

NoRequest == [op |-> "Rent", veh |-> NoVehicle, code |-> NoCode, stat |-> "Available"]

Requests ==
    [op : {"Add", "Remove", "Rent", "ReturnById", "ReturnByCode", "Update"},
     veh : Vehicles \cup {NoVehicle}, code : Codes \cup {NoCode}, stat : VehicleStatus]

Init ==
    /\ LedgerInit
    /\ phase = [t \in Threads |-> "idle"]
    /\ request = [t \in Threads |-> NoRequest]
    /\ result = [t \in Threads |-> "none"]

Invoke(t) ==
    /\ phase[t] = "idle"
    /\ phase' = [phase EXCEPT ![t] = "pending"]
    /\ \E r \in Requests : request' = [request EXCEPT ![t] = r]
    /\ result' = [result EXCEPT ![t] = "none"]
    /\ UNCHANGED ledger

Effect(r) ==
    \/ r.op = "Rent" /\ \E c \in Codes : Rent(r.veh, c)
    \/ r.op = "ReturnById" /\ \E c \in Codes : active[c] = r.veh /\ Return(c)
    \/ r.op = "ReturnByCode" /\ Return(r.code)
    \/ r.op = "Add" /\ Add(r.veh)
    \/ r.op = "Remove" /\ Remove(r.veh)
    \/ r.op = "Update" /\ Update(r.veh, r.stat)

TakeEffect(t) ==
    /\ phase[t] = "pending" /\ Effect(request[t])
    /\ phase' = [phase EXCEPT ![t] = "done"]
    /\ UNCHANGED <<request, result>>

Answer(t, from, answer) ==
    /\ phase[t] = from
    /\ phase' = [phase EXCEPT ![t] = "idle"]
    /\ request' = [request EXCEPT ![t] = NoRequest]
    /\ result' = [result EXCEPT ![t] = answer]
    /\ UNCHANGED ledger

Next == \E t \in Threads :
    Invoke(t) \/ TakeEffect(t) \/ Answer(t, "done", "ok") \/ Answer(t, "pending", "error")

Spec == Init /\ [][Next]_svcVars
=============================================================================
