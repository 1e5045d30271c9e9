------------------------------ MODULE Receipts ------------------------------
(***************************************************************************)
(* The program from its start to its receipts: what main has resolved and  *)
(* constructed (Startup) prints, if it is the built-in printer, to the     *)
(* address its validator let through (EscPosPrinter).                      *)
(***************************************************************************)
EXTENDS Startup

CONSTANT MaxPrints      \* bound: receipts printed

ASSUME PrinterAssumption == MaxPrints \in Nat

VARIABLES
    call, sockets, blocking, flagsRead, connected, waited, delivered, answer, prints

printing == <<call, sockets, blocking, flagsRead, connected, waited, delivered, answer, prints>>

Printer == INSTANCE EscPosPrinter WITH place <- call, address <- resolved.device

\* One type invariant for both.
WellTyped == TypeOK /\ Printer!TypeOK

ReceiptsInit == Init /\ Printer!Init

Start == Next /\ UNCHANGED printing

\* FleetManager keeps the printer main has given it; a plugin prints elsewhere.
RunPrinter ==
    /\ place = "running" /\ printer = "builtin"
    /\ UNCHANGED vars
    /\ Printer!Next

ReceiptsNext == Start \/ RunPrinter

ReceiptsSpec == ReceiptsInit /\ [][ReceiptsNext]_<<vars, printing>>

----------------------------------------------------------------------------
(* Properties. *)

\* No receipt leaves a socket open, whichever way it ends.
NoSocketLeaks == Printer!NoSocketLeaks

\* A receipt that counts as printed went out over an established connection,
\* whatever the settings were, and one that does not was given up in time.
PrintedOverConnection == Printer!PrintedOverConnection
=============================================================================
