----------------------------- MODULE TdsComPort -----------------------------
(***************************************************************************)
(* The two sockets of TdsComPort and the process' descriptor table.        *)
(*                                                                         *)
(* ModbusManager::ReadDataFromDevice opens the gateway's control and data  *)
(* connections (up to REQUEST_ATTEMPTS times), uses them for one cycle and *)
(* closes them. The members control_socket and data_socket are plain       *)
(* integers: an attempt that fails leaves its sockets open and the next    *)
(* one overwrites the numbers; close_com_port closes whatever the numbers  *)
(* name by then. The HTTP server and SQLite open and close descriptors of  *)
(* the same table on their own threads.                                    *)
(***************************************************************************)
EXTENDS Integers, FiniteSets

CONSTANTS
    Descriptors,        \* size of the process' descriptor table
    MaxOther,           \* descriptors the rest of the process holds at most
    REQUEST_ATTEMPTS,   \* attempts to open the port in one cycle
    Commands            \* setting_appl calls of open_com_port("COM2", true)

ASSUME PortAssumption ==
    /\ Descriptors \in Nat \ {0}
    /\ MaxOther \in Nat
    /\ REQUEST_ATTEMPTS \in Nat \ {0}
    /\ Commands \in Nat

VARIABLES
    pc,             \* what the modbus thread does next
    attempt,        \* attempts to open the port this cycle has used
    command,        \* setting_appl calls this attempt has made
    control_socket, \* the member variables; -1 when socket() failed
    data_socket,
    table,          \* who opened each descriptor
    others,         \* the numbers the rest of the process holds
    gateway,        \* whether the gateway answers
    before,         \* history: leaked sockets when the cycle began
    foreign         \* history: it closed a descriptor of the rest of the process

sockets == <<control_socket, data_socket>>
environment == <<others, gateway>>
vars == <<pc, attempt, command, sockets, table, others, gateway, before, foreign>>

Numbers == 0..Descriptors - 1
Owners == {"free", "stdin", "tds", "other"}

Free == {n \in Numbers : table[n] = "free"}

\* Sockets of TdsComPort that no member variable names any more.
Leaked == {n \in Numbers : table[n] = "tds"} \ {control_socket, data_socket}

\* socket(): the lowest free number, or -1 (EMFILE).
NewDescriptor == IF Free = {} THEN -1 ELSE CHOOSE n \in Free : \A m \in Free : n <= m

\* The descriptor is a socket TdsComPort opened.
Own(n) == n \in Numbers /\ table[n] = "tds"

-----------------------------------------------------------------------------
(* mm is a global object: its members start as zero, the number of stdin.  *)
Init ==
    /\ pc = "sleep"
    /\ attempt = 0
    /\ command = 0
    /\ control_socket = 0
    /\ data_socket = 0
    /\ table = [n \in Numbers |-> IF n = 0 THEN "stdin" ELSE "free"]
    /\ others = {}
    /\ gateway \in {"up", "down"}
    /\ before = 0
    /\ foreign = FALSE

BeginCycle ==
    /\ pc = "sleep"
    /\ pc' = "control"
    /\ attempt' = 0
    /\ command' = 0
    /\ before' = Cardinality(Leaked)
    /\ UNCHANGED <<sockets, table, environment, foreign>>

\* Mutant: one attempt too many.
OpenFails_OffByOne ==
    /\ command' = 0
    /\ attempt' = attempt + 1
    /\ pc' = IF attempt < REQUEST_ATTEMPTS THEN "control" ELSE "close_control"

\* open_com_port returns false, leaving its sockets open: the next attempt,
\* or close_com_port after the last one.
OpenFails ==
    /\ command' = 0
    /\ \/ /\ attempt + 1 < REQUEST_ATTEMPTS
          /\ attempt' = attempt + 1
          /\ pc' = "control"
       \/ /\ attempt + 1 = REQUEST_ATTEMPTS
          /\ attempt' = attempt
          /\ pc' = "close_control"

\* connect_tcp, up to socket(): `next' is the connect() that follows.
OpenSocket(next) ==
    /\ table' = IF Free = {} THEN table ELSE [table EXCEPT ![NewDescriptor] = "tds"]
    /\ \/ /\ Free = {}
          /\ OpenFails
       \/ /\ Free # {}
          /\ pc' = next
          /\ UNCHANGED <<attempt, command>>
    /\ UNCHANGED <<environment, before, foreign>>

ControlSocket ==
    /\ pc = "control"
    /\ control_socket' = NewDescriptor
    /\ UNCHANGED data_socket
    /\ OpenSocket("connect_control")

\* Mutant: the result of socket() is not looked at.
DataSocket_Unchecked ==
    /\ pc = "data"
    /\ data_socket' = NewDescriptor
    /\ table' = IF Free = {} THEN table ELSE [table EXCEPT ![NewDescriptor] = "tds"]
    /\ pc' = IF Free = {} THEN "apply" ELSE "connect_data"
    /\ UNCHANGED <<attempt, command, control_socket, environment, before, foreign>>

DataSocket ==
    /\ pc = "data"
    /\ data_socket' = NewDescriptor
    /\ UNCHANGED control_socket
    /\ OpenSocket("connect_data")

\* A call that waits for the gateway: it succeeds on an own socket while the
\* gateway answers, and fails otherwise (refused, timed out, EBADF, a reply
\* that is not the expected one).
GatewayCall(n, next) ==
    /\ \/ /\ Own(n)
          /\ gateway = "up"
          /\ pc' = next
          /\ UNCHANGED <<attempt, command>>
       \/ /\ ~Own(n) \/ gateway = "down"
          /\ OpenFails
    /\ UNCHANGED <<sockets, table, environment, before, foreign>>

ConnectControl == pc = "connect_control" /\ GatewayCall(control_socket, "data")
ConnectData == pc = "connect_data" /\ GatewayCall(data_socket, "apply")

\* setting_appl: write a command, read and compare its reply.
SettingAppl ==
    /\ pc = "apply"
    /\ command < Commands
    /\ \/ /\ Own(control_socket)
          /\ gateway = "up"
          /\ command' = command + 1
          /\ UNCHANGED <<pc, attempt>>
       \/ /\ ~Own(control_socket) \/ gateway = "down"
          /\ OpenFails
    /\ UNCHANGED <<sockets, table, environment, before, foreign>>

OpenSucceeds ==
    /\ pc = "apply"
    /\ command = Commands
    /\ pc' = "exchange"
    /\ UNCHANGED <<attempt, command, sockets, table, environment, before, foreign>>

\* The object loop is over (module ModbusPoll); it leaves the sockets alone.
EndExchange ==
    /\ pc = "exchange"
    /\ pc' = "close_control"
    /\ UNCHANGED <<attempt, command, sockets, table, environment, before, foreign>>

\* close(): no effect on a number that is not open.
Close(n) ==
    /\ table' = IF n \in Numbers THEN [table EXCEPT ![n] = "free"] ELSE table
    /\ foreign' = (foreign \/ (n \in Numbers /\ table[n] = "other"))

\* close_com_port, its two calls.
CloseControl ==
    /\ pc = "close_control"
    /\ Close(control_socket)
    /\ pc' = "close_data"
    /\ UNCHANGED <<attempt, command, sockets, environment, before>>

\* Mutant: only one of the two sockets is closed.
CloseData_Forgotten ==
    /\ pc = "close_data"
    /\ pc' = "sleep"
    /\ UNCHANGED <<attempt, command, sockets, table, environment, before, foreign>>

\* Mutant: the modbus thread ends after a cycle that could not open the port.
CloseData_GivesUp ==
    /\ pc = "close_data"
    /\ Close(data_socket)
    /\ pc' = IF attempt + 1 = REQUEST_ATTEMPTS /\ command = 0 THEN "close_data" ELSE "sleep"
    /\ UNCHANGED <<attempt, command, sockets, environment, before>>

CloseData ==
    /\ pc = "close_data"
    /\ Close(data_socket)
    /\ pc' = "sleep"
    /\ UNCHANGED <<attempt, command, sockets, environment, before>>

PollThread == \/ BeginCycle \/ ControlSocket \/ ConnectControl \/ DataSocket
              \/ ConnectData \/ SettingAppl \/ OpenSucceeds \/ EndExchange
              \/ CloseControl \/ CloseData

-----------------------------------------------------------------------------
(* The rest of the process, and the gateway *)

\* A client connects to the HTTP server, or SQLite opens a journal.
OtherOpens ==
    /\ Cardinality(others) < MaxOther
    /\ Free # {}
    /\ table' = [table EXCEPT ![NewDescriptor] = "other"]
    /\ others' = others \cup {NewDescriptor}
    /\ UNCHANGED <<pc, attempt, command, sockets, gateway, before, foreign>>

\* The owner closes the number it holds, whatever that names by now.
OtherCloses ==
    /\ \E n \in others :
          /\ table' = [table EXCEPT ![n] = "free"]
          /\ others' = others \ {n}
    /\ UNCHANGED <<pc, attempt, command, sockets, gateway, before, foreign>>

GatewayFlips ==
    /\ gateway' = IF gateway = "up" THEN "down" ELSE "up"
    /\ UNCHANGED <<pc, attempt, command, sockets, table, others, before, foreign>>

Next == PollThread \/ OtherOpens \/ OtherCloses \/ GatewayFlips

\* The modbus thread keeps running: each call returns (SO_RCVTIMEO, the
\* kernel's limit on connect()) and sleep() ends.
Spec == Init /\ [][Next]_vars /\ WF_vars(PollThread)

-----------------------------------------------------------------------------
(* Properties *)

TypeOK ==
    /\ pc \in {"sleep", "control", "connect_control", "data", "connect_data",
               "apply", "exchange", "close_control", "close_data"}
    /\ attempt \in 0..REQUEST_ATTEMPTS - 1
    /\ command \in 0..Commands
    /\ control_socket \in Numbers \cup {-1}
    /\ data_socket \in Numbers \cup {-1}
    /\ table \in [Numbers -> Owners]
    /\ others \in SUBSET Numbers
    /\ gateway \in {"up", "down"}
    /\ before \in 0..Descriptors
    /\ foreign \in BOOLEAN

\* Requests are only exchanged over two live, distinct sockets of this
\* TdsComPort, as long as it has closed nobody else's descriptor before.
ExchangeOnOwnSockets ==
    pc = "exchange" /\ ~foreign =>
        Own(control_socket) /\ Own(data_socket) /\ control_socket # data_socket

\* A failed attempt to open the port leaks at most its two sockets, and a cycle
\* whose first attempt succeeds leaks none.
LeakBounded == pc = "exchange" => Cardinality(Leaked) <= before + 2 * attempt

\* Once the gateway answers for good the UPS is polled again and again, unless
\* leaked sockets have used up the descriptor table. (Descriptors closed under
\* their owners are excluded: the owners' closes may then hit new sockets.)
Exhausted == Cardinality(Leaked) + MaxOther + 2 >= Descriptors
PollsAgain ==
    <>[](gateway = "up" /\ ~foreign) => []<>(pc = "exchange") \/ <>[]Exhausted

\* TdsComPort.h:22-23 calls the members the sockets of ports 10000 and 10002:
\* closing them never closes a descriptor the rest of the process opened.
ClosesOnlyOwn == ~foreign
=============================================================================
