---------------------------- MODULE EscPosPrinter ----------------------------
(***************************************************************************)
(* How a receipt reaches the printer (src/src/EscPosPrinter.cpp):          *)
(* sendCommand takes the address apart, tryNetworkSend opens a socket,     *)
(* makes it non-blocking, connects with a limit of two seconds, makes it   *)
(* blocking again, sends and closes.  The network decides how every system *)
(* call ends.  The rows of the receipt are left out.  Receipts.tla runs    *)
(* this printer in the program whose start has configured it.              *)
(***************************************************************************)
EXTENDS Naturals

CONSTANT MaxPrints      \* bound: receipts printed

\* host:port with a dotted address, with a host name, with a port no int holds;
\* anything else is the name of a file.
HostPort == {"dotted", "hostname", "hugePort"}

VARIABLES
    address,        \* device_path_, as the start of the program has resolved it
    place,          \* where the call is
    sockets,        \* descriptors open
    blocking,       \* the socket's mode
    flagsRead,      \* flags >= 0
    connected,      \* the connection is established
    waited,         \* history: seconds the call has waited, 3 for "until the system gives up"
    delivered,      \* history: the payload was accepted by the system
    answer,         \* how the last call ended
    prints

vars == <<address, place, sockets, blocking, flagsRead, connected, waited,
          delivered, answer, prints>>

Places == {"idle", "address", "socket", "flags", "parse", "connect", "select", "error",
           "restore", "send", "killed", "closeOk", "closeFail"}

TypeOK ==
    /\ place \in Places /\ sockets \in 0..1
    /\ blocking \in BOOLEAN /\ flagsRead \in BOOLEAN
    /\ connected \in BOOLEAN /\ delivered \in BOOLEAN
    /\ waited \in {0, 2, 3}
    /\ answer \in {"none", "printed", "PrinterException", "otherException"}
    /\ prints \in 0..MaxPrints

Init ==
    /\ place = "idle" /\ sockets = 0
    /\ blocking = TRUE /\ flagsRead = FALSE /\ connected = FALSE /\ waited = 0
    /\ delivered = FALSE /\ answer = "none" /\ prints = 0

conversation == <<blocking, flagsRead, connected, waited, delivered>>

\* printCheckout or printReturn has put the payload together.
PrintReceipt ==
    /\ place = "idle" /\ prints < MaxPrints /\ prints' = prints + 1
    /\ place' = "address" /\ answer' = "none"
    /\ blocking' = TRUE /\ flagsRead' = FALSE /\ connected' = FALSE /\ waited' = 0
    /\ delivered' = FALSE
    /\ UNCHANGED <<address, sockets>>

Answer(result) ==
    /\ place' = "idle" /\ answer' = result
    /\ UNCHANGED <<address, conversation, prints>>

----------------------------------------------------------------------------
(* sendCommand. *)

\* std::stoi throws std::out_of_range for a port no int holds.
SendCommand ==
    /\ place = "address" /\ UNCHANGED sockets
    /\ IF address \notin HostPort
       THEN \E opens \in BOOLEAN : Answer(IF opens THEN "printed" ELSE "PrinterException")
       ELSE IF address = "hugePort" THEN Answer("otherException")
       ELSE place' = "socket" /\ UNCHANGED <<address, conversation, answer, prints>>

----------------------------------------------------------------------------
(* tryNetworkSend. *)

Socket ==
    /\ place = "socket"
    /\ \/ sockets' = sockets + 1 /\ place' = "flags"
          /\ UNCHANGED <<address, conversation, answer, prints>>
       \/ Answer("PrinterException") /\ UNCHANGED sockets

ReadFlags ==
    /\ place = "flags" /\ place' = "parse"
    /\ flagsRead' \in BOOLEAN /\ blocking' = ~flagsRead'
    /\ UNCHANGED <<address, sockets, connected, waited, delivered, answer, prints>>

Close(result) == sockets' = sockets - 1 /\ Answer(result)

\* inet_pton knows no names.
NoSuchHost ==
    /\ place = "parse" /\ address = "hostname"
    /\ Close("PrinterException")

ParseHost ==
    /\ place = "parse" /\ address # "hostname" /\ place' = "connect"
    /\ UNCHANGED <<address, sockets, conversation, answer, prints>>

Established == connected' = TRUE

\* A blocking connect returns when the system gives up, a non-blocking one at
\* once, most often with EINPROGRESS.
Connect ==
    /\ place = "connect"
    /\ \/ place' = "restore" /\ Established
       \/ place' = "closeFail" /\ UNCHANGED connected
       \/ ~blocking /\ place' = "select" /\ UNCHANGED connected
    /\ waited' \in IF blocking THEN {0, 3} ELSE {0}
    /\ UNCHANGED <<address, sockets, blocking, flagsRead, delivered, answer, prints>>

\* The socket becomes writable, or two seconds pass, or select fails.
Select ==
    /\ place = "select"
    /\ \/ place' = "error" /\ waited' \in {0, 2}
       \/ place' = "closeFail" /\ waited' \in {0, 2}
    /\ UNCHANGED <<address, sockets, blocking, flagsRead, connected, delivered,
                   answer, prints>>

\* getsockopt tells whether the connection came about.
SocketError ==
    /\ place = "error"
    /\ \/ place' = "restore" /\ Established
       \/ place' = "closeFail" /\ UNCHANGED connected
    /\ UNCHANGED <<address, sockets, blocking, flagsRead, waited, delivered, answer, prints>>

Restored == flagsRead \/ blocking

RestoreFlags ==
    /\ place = "restore" /\ place' = "send"
    /\ blocking' = Restored
    /\ UNCHANGED <<address, sockets, flagsRead, connected, waited, delivered,
                   answer, prints>>

\* Nobody looks at what send returns.  If the other side is gone already, a
\* SIGPIPE that nobody handles ends the process, and its sockets with it.
Send ==
    /\ place = "send"
    /\ \/ place' = "closeOk" /\ delivered' \in BOOLEAN
       \/ place' = "killed" /\ UNCHANGED delivered
    /\ UNCHANGED <<address, sockets, blocking, flagsRead, connected, waited,
                   answer, prints>>

CloseFailLeaks ==                       \* mutant: the socket stays open
    place = "closeFail" /\ Answer("PrinterException") /\ UNCHANGED sockets

CloseOk == place = "closeOk" /\ Close("printed")
CloseFail == place = "closeFail" /\ Close("PrinterException")

----------------------------------------------------------------------------
Step ==
    \/ SendCommand
    \/ Socket \/ ReadFlags \/ NoSuchHost \/ ParseHost \/ Connect \/ Select \/ SocketError
    \/ RestoreFlags \/ Send \/ CloseOk \/ CloseFail

Next == PrintReceipt \/ Step

----------------------------------------------------------------------------
(* Properties. *)

\* No call leaves a socket open, whichever way it ends.
NoSocketLeaks == place = "idle" => sockets = 0

\* A receipt that counts as printed went to an established connection, over a
\* socket that sends all of it or waits; one that does not has held the caller up
\* for two seconds at most, if the socket could be made non-blocking.
PrintedOverConnection ==
    /\ answer = "printed" => connected /\ blocking
    /\ answer = "PrinterException" /\ flagsRead => waited <= 2
=============================================================================
