-------------------------- MODULE TdsComPortProofs --------------------------
(***************************************************************************)
(* Proofs about TdsComPort, for every size of the descriptor table, number *)
(* of attempts and of commands, and whatever the gateway and the rest of   *)
(* the process do.                                                         *)
(***************************************************************************)
EXTENDS TdsComPort, FiniteSetTheorems, OrderLemmas

-----------------------------------------------------------------------------
(* The inductive invariant *)

\* The sockets TdsComPort has opened and not closed.
Opened == {n \in Numbers : table[n] = "tds"}

\* While nobody else's descriptor has been closed, the rest of the process has
\* what it opened, and the member variables name sockets as soon as they are
\* assigned.
SocketsOwned ==
    ~foreign =>
        /\ \A n \in others : table[n] = "other"
        /\ pc \in {"connect_control", "data", "connect_data", "apply", "exchange"}
             => Own(control_socket)
        /\ pc \in {"connect_data", "apply", "exchange"}
             => Own(data_socket) /\ control_socket # data_socket

\* Each failed attempt of this cycle has leaked its two sockets at most.
LeaksCounted ==
    /\ pc = "control" => Cardinality(Opened) <= before + 2 * attempt
    /\ pc \in {"connect_control", "data"} =>
          Cardinality(Opened \ {control_socket}) <= before + 2 * attempt
    /\ pc \in {"connect_data", "apply", "exchange"} =>
          Cardinality(Leaked) <= before + 2 * attempt

\* close_com_port closes what the member variables name: between two cycles
\* every socket that is still open is a leaked one.
ClosedInTurn ==
    /\ pc \in {"close_data", "sleep"} => control_socket \notin Opened
    /\ pc = "sleep" => data_socket \notin Opened

IInv == TypeOK /\ SocketsOwned /\ LeaksCounted /\ ClosedInTurn

-----------------------------------------------------------------------------
(* Facts about descriptors and how many there are *)

\* Sets of descriptors are finite and have at most Descriptors members; one
\* that is part of another has at most as many, and taking one number out
\* leaves at most one less.
LEMMA Counting ==
    ASSUME NEW S \in SUBSET Numbers
    PROVE  /\ IsFiniteSet(S) /\ Cardinality(S) \in 0..Descriptors
           /\ \A R \in SUBSET S : Cardinality(R) <= Cardinality(S)
           /\ \A n : Cardinality(S) <= Cardinality(S \ {n}) + 1
<1>1. IsFiniteSet(Numbers) /\ Cardinality(Numbers) = Descriptors
  <2>1. 0 \in Int /\ Descriptors - 1 \in Int /\ 0 <= Descriptors - 1
    BY PortAssumption
  <2>2. /\ IsFiniteSet(0..Descriptors - 1)
        /\ Cardinality(0..Descriptors - 1) =
             IF 0 > Descriptors - 1 THEN 0 ELSE (Descriptors - 1) - 0 + 1
    BY <2>1, FS_Interval
  <2> QED
    BY <2>1, <2>2, PortAssumption DEF Numbers
<1>2. IsFiniteSet(S) /\ Cardinality(S) <= Descriptors
  BY <1>1, FS_Subset
<1>3. Cardinality(S) \in Nat
  BY <1>2, FS_CardinalityType
<1>4. \A R \in SUBSET S : Cardinality(R) <= Cardinality(S)
  BY <1>2, FS_Subset
<1>5. ASSUME NEW n PROVE Cardinality(S) <= Cardinality(S \ {n}) + 1
  <2>1. Cardinality(S \ {n}) = IF n \in S THEN Cardinality(S) - 1 ELSE Cardinality(S)
    BY <1>2, FS_RemoveElement
  <2> QED
    BY <1>3, <2>1
<1>6. Cardinality(S) \in 0..Descriptors
  BY <1>2, <1>3, PortAssumption
<1> QED
  BY <1>2, <1>4, <1>5, <1>6

\* socket() returns a free number, when there is one.
LEMMA NewDescriptorFacts ==
    /\ Free = {} => NewDescriptor = -1
    /\ Free # {} => NewDescriptor \in Free
<1>1. CASE Free = {}
  BY <1>1 DEF NewDescriptor
<1>2. CASE Free # {}
  <2>1. Free \in SUBSET Nat
    BY PortAssumption DEF Free, Numbers
  <2>2. \E n \in Free : \A m \in Free : n <= m
    BY <1>2, <2>1, LeastExists
  <2> QED
    BY <1>2, <2>2 DEF NewDescriptor
<1> QED
  BY <1>1, <1>2

\* The counters of an attempt that fails.
LEMMA FailsFacts ==
    ASSUME TypeOK, OpenFails
    PROVE  /\ attempt' \in 0..REQUEST_ATTEMPTS - 1 /\ command' \in 0..Commands
           /\ pc' \in {"control", "close_control"}
           /\ pc' = "control" => attempt' = attempt + 1
BY PortAssumption DEF TypeOK, OpenFails

\* What is left to show of a failed attempt, when its sockets have been counted.
LEMMA FailsInv ==
    ASSUME IInv, OpenFails, TypeOK', UNCHANGED <<others, before, foreign>>,
           ~foreign => \A n \in others : table'[n] = "other",
           Cardinality(Opened') <= before + 2 * (attempt + 1)
    PROVE  IInv'
<1>1. /\ pc' \in {"control", "close_control"}
      /\ pc' = "control" => attempt' = attempt + 1
  BY FailsFacts DEF IInv
<1>2. SocketsOwned'
  BY <1>1 DEF SocketsOwned
<1>3. LeaksCounted'
  BY <1>1 DEF LeaksCounted
<1>4. ClosedInTurn'
  BY <1>1 DEF ClosedInTurn
<1> QED
  BY <1>2, <1>3, <1>4 DEF IInv

-----------------------------------------------------------------------------
(* The invariant holds initially and is preserved by every action *)

\* The member variables are zero, and number 0 is stdin.
LEMMA InitInv == Init => IInv
<1> SUFFICES ASSUME Init PROVE IInv
  OBVIOUS
<1>1. TypeOK
  <2>1. 0 \in Numbers /\ table \in [Numbers -> Owners]
    BY PortAssumption DEF Init, Numbers, Owners
  <2>2. attempt \in 0..REQUEST_ATTEMPTS - 1 /\ command \in 0..Commands /\ before \in 0..Descriptors
    BY PortAssumption DEF Init
  <2> QED
    BY <2>1, <2>2 DEF Init, TypeOK
<1>2. SocketsOwned /\ LeaksCounted
  BY DEF Init, SocketsOwned, LeaksCounted
<1>3. ClosedInTurn
  BY DEF Init, ClosedInTurn, Opened
<1> QED
  BY <1>1, <1>2, <1>3 DEF IInv

\* A cycle begins: what is open now was leaked before.
LEMMA BeginInv ==
    ASSUME IInv, BeginCycle
    PROVE  IInv'
<1> USE DEF IInv, BeginCycle, sockets, environment
<1>1. Leaked = Opened /\ Opened \in SUBSET Numbers /\ Opened' = Opened
  BY DEF ClosedInTurn, Leaked, Opened
<1>2. Cardinality(Opened) \in 0..Descriptors
  BY <1>1, Counting
<1>3. TypeOK'
  BY <1>1, <1>2, PortAssumption DEF TypeOK
<1>4. SocketsOwned' /\ ClosedInTurn'
  BY DEF SocketsOwned, ClosedInTurn
<1>5. LeaksCounted'
  BY <1>1, <1>2, PortAssumption DEF LeaksCounted
<1> QED
  BY <1>3, <1>4, <1>5

\* connect_tcp gets its control socket from socket(), or fails.
LEMMA ControlSocketInv ==
    ASSUME IInv, ControlSocket
    PROVE  IInv'
<1> USE DEF IInv, ControlSocket, OpenSocket, environment
<1>1. TypeOK'
  <2>1. NewDescriptor \in Numbers \cup {-1} /\ (Free # {} => NewDescriptor \in Numbers)
    BY NewDescriptorFacts DEF Free
  <2>2. table' \in [Numbers -> Owners]
    BY <2>1 DEF TypeOK, Owners
  <2>3. pc' \in {"control", "close_control", "connect_control"}
        /\ attempt' \in 0..REQUEST_ATTEMPTS - 1 /\ command' \in 0..Commands
    BY FailsFacts DEF TypeOK
  <2> QED
    BY <2>1, <2>2, <2>3 DEF TypeOK
<1>2. CASE Free = {}
  <2>1. Opened' = Opened /\ OpenFails /\ table' = table
    BY <1>2 DEF Opened
  <2>2. Cardinality(Opened) <= before + 2 * attempt
    BY DEF LeaksCounted
  <2>3. Opened \in SUBSET Numbers
    BY DEF Opened
  <2>4. Cardinality(Opened) \in 0..Descriptors /\ before \in Int /\ attempt \in Int
    BY <2>3, Counting, PortAssumption DEF TypeOK
  <2>5. Cardinality(Opened') <= before + 2 * (attempt + 1)
    BY <2>1, <2>2, <2>4, PortAssumption
  <2>6. ~foreign => \A n \in others : table'[n] = "other"
    BY <2>1 DEF SocketsOwned
  <2> QED
    BY <1>1, <2>1, <2>5, <2>6, FailsInv
<1>3. CASE Free # {}
  <2>1. control_socket' \in Numbers /\ table[control_socket'] = "free"
        /\ table' = [table EXCEPT ![control_socket'] = "tds"]
    BY <1>3, NewDescriptorFacts DEF Free
  <2>2. pc' = "connect_control" /\ attempt' = attempt
    BY <1>3
  <2>3. \A n \in Numbers : table'[n] = IF n = control_socket' THEN "tds" ELSE table[n]
    BY <2>1 DEF TypeOK
  <2>4. SocketsOwned'
    BY <2>1, <2>2, <2>3 DEF SocketsOwned, Own, TypeOK
  <2>5. Opened' \ {control_socket'} = Opened
    BY <2>1, <2>3 DEF Opened
  <2>6. LeaksCounted' /\ ClosedInTurn'
    BY <2>2, <2>5 DEF LeaksCounted, ClosedInTurn
  <2> QED
    BY <1>1, <2>4, <2>6
<1> QED
  BY <1>2, <1>3

\* ... and its data socket.
LEMMA DataSocketInv ==
    ASSUME IInv, DataSocket
    PROVE  IInv'
<1> USE DEF IInv, DataSocket, OpenSocket, environment
<1>1. TypeOK'
  <2>1. NewDescriptor \in Numbers \cup {-1} /\ (Free # {} => NewDescriptor \in Numbers)
    BY NewDescriptorFacts DEF Free
  <2>2. table' \in [Numbers -> Owners]
    BY <2>1 DEF TypeOK, Owners
  <2>3. pc' \in {"control", "close_control", "connect_data"}
        /\ attempt' \in 0..REQUEST_ATTEMPTS - 1 /\ command' \in 0..Commands
    BY FailsFacts DEF TypeOK
  <2> QED
    BY <2>1, <2>2, <2>3 DEF TypeOK
<1>2. Cardinality(Opened \ {control_socket}) <= before + 2 * attempt
  BY DEF LeaksCounted
<1>3. Opened \in SUBSET Numbers /\ Opened \ {control_socket} \in SUBSET Numbers
  BY DEF Opened
<1>4. CASE Free = {}
  <2>1. Opened' = Opened /\ OpenFails /\ table' = table
    BY <1>4 DEF Opened
  <2>2. /\ Cardinality(Opened) <= Cardinality(Opened \ {control_socket}) + 1
        /\ Cardinality(Opened) \in 0..Descriptors
        /\ Cardinality(Opened \ {control_socket}) \in 0..Descriptors
    BY <1>3, Counting
  <2>3. before \in Int /\ attempt \in Int
    BY PortAssumption DEF TypeOK
  <2>4. Cardinality(Opened') <= before + 2 * (attempt + 1)
    BY <1>2, <2>1, <2>2, <2>3, PortAssumption
  <2>5. ~foreign => \A n \in others : table'[n] = "other"
    BY <2>1 DEF SocketsOwned
  <2> QED
    BY <1>1, <2>1, <2>4, <2>5, FailsInv
<1>5. CASE Free # {}
  <2>1. data_socket' \in Numbers /\ table[data_socket'] = "free"
        /\ table' = [table EXCEPT ![data_socket'] = "tds"]
    BY <1>5, NewDescriptorFacts DEF Free
  <2>2. pc' = "connect_data" /\ attempt' = attempt /\ control_socket' = control_socket
    BY <1>5
  <2>3. \A n \in Numbers : table'[n] = IF n = data_socket' THEN "tds" ELSE table[n]
    BY <2>1 DEF TypeOK
  <2>4. SocketsOwned'
    BY <2>1, <2>2, <2>3 DEF SocketsOwned, Own, TypeOK
  <2>5. Leaked' = Opened \ {control_socket}
    BY <2>1, <2>2, <2>3 DEF Opened, Leaked
  <2>6. LeaksCounted' /\ ClosedInTurn'
    BY <1>2, <2>2, <2>5 DEF LeaksCounted, ClosedInTurn
  <2> QED
    BY <1>1, <2>4, <2>6
<1> QED
  BY <1>4, <1>5

\* The steps of open_com_port that wait for the gateway: they succeed and leave
\* everything as it is, or fail with the sockets opened so far.
LEMMA GatewayInv ==
    ASSUME IInv, ConnectControl \/ ConnectData \/ SettingAppl
    PROVE  IInv'
<1> USE DEF IInv
<1>1. UNCHANGED <<control_socket, data_socket, table, others, gateway, before, foreign>>
  BY DEF ConnectControl, ConnectData, SettingAppl, GatewayCall, sockets, environment
<1>2. Opened' = Opened /\ Leaked' = Leaked
  BY <1>1 DEF Opened, Leaked
<1>3. CASE OpenFails
  <2>1. TypeOK'
    BY <1>1, <1>3, FailsFacts DEF TypeOK
  <2>2. /\ Opened \in SUBSET Numbers
        /\ Opened \ {control_socket} \in SUBSET Numbers
        /\ Leaked = (Opened \ {control_socket}) \ {data_socket}
        /\ Leaked \in SUBSET Numbers
    BY DEF Opened, Leaked
  <2>3. /\ Cardinality(Opened) <= Cardinality(Opened \ {control_socket}) + 1
        /\ Cardinality(Opened) \in 0..Descriptors
    BY <2>2, Counting
  <2>4. /\ Cardinality(Opened \ {control_socket}) <= Cardinality(Leaked) + 1
        /\ Cardinality(Opened \ {control_socket}) \in 0..Descriptors
    BY <2>2, Counting
  <2>5. Cardinality(Leaked) \in 0..Descriptors
    BY <2>2, Counting
  <2>6. \/ Cardinality(Opened \ {control_socket}) <= before + 2 * attempt
        \/ Cardinality(Leaked) <= before + 2 * attempt
    BY DEF LeaksCounted, ConnectControl, ConnectData, SettingAppl
  <2>7. before \in Int /\ attempt \in Int
    BY PortAssumption DEF TypeOK
  <2>8. Cardinality(Opened') <= before + 2 * (attempt + 1)
    BY <1>2, <2>3, <2>4, <2>5, <2>6, <2>7, PortAssumption
  <2>9. ~foreign => \A n \in others : table'[n] = "other"
    BY <1>1 DEF SocketsOwned
  <2> QED
    BY <1>1, <1>3, <2>1, <2>8, <2>9, FailsInv
<1>4. CASE ~OpenFails
  <2>1. attempt' = attempt
    BY <1>4 DEF ConnectControl, ConnectData, SettingAppl, GatewayCall
  <2>2. \/ pc = "connect_control" /\ pc' = "data"
        \/ pc = "connect_data" /\ pc' = "apply"
        \/ pc = "apply" /\ pc' = "apply"
    BY <1>4 DEF ConnectControl, ConnectData, SettingAppl, GatewayCall
  <2>3. command' \in 0..Commands
    BY <1>4, PortAssumption DEF TypeOK, ConnectControl, ConnectData, SettingAppl, GatewayCall
  <2>4. TypeOK'
    BY <1>1, <2>1, <2>2, <2>3 DEF TypeOK
  <2>5. SocketsOwned' /\ ClosedInTurn'
    BY <1>1, <1>2, <2>2 DEF SocketsOwned, ClosedInTurn, Own
  <2>6. LeaksCounted'
    BY <1>1, <1>2, <2>1, <2>2 DEF LeaksCounted
  <2> QED
    BY <2>4, <2>5, <2>6
<1> QED
  BY <1>3, <1>4

\* The port is open, and is used.
LEMMA ExchangeInv ==
    ASSUME IInv, OpenSucceeds \/ EndExchange
    PROVE  IInv'
<1> USE DEF IInv
<1>1. UNCHANGED <<attempt, command, control_socket, data_socket, table, others, gateway,
                  before, foreign>>
  BY DEF OpenSucceeds, EndExchange, sockets, environment
<1>2. \/ pc = "apply" /\ pc' = "exchange"
      \/ pc' = "close_control"
  BY DEF OpenSucceeds, EndExchange
<1>3. Opened' = Opened /\ Leaked' = Leaked
  BY <1>1 DEF Opened, Leaked
<1>4. TypeOK'
  BY <1>1, <1>2 DEF TypeOK
<1>5. SocketsOwned' /\ LeaksCounted' /\ ClosedInTurn'
  BY <1>1, <1>2, <1>3 DEF SocketsOwned, LeaksCounted, ClosedInTurn, Own
<1> QED
  BY <1>4, <1>5

\* close() of a number: it names no socket of TdsComPort afterwards, and it
\* closes nothing of the rest of the process unless foreign is set.
LEMMA CloseFacts ==
    ASSUME TypeOK, NEW n \in Numbers \cup {-1}, Close(n), others' = others,
           SocketsOwned
    PROVE  /\ table' \in [Numbers -> Owners] /\ foreign' \in BOOLEAN
           /\ n \notin Opened' /\ Opened' \subseteq Opened
           /\ ~foreign' => \A m \in others' : table'[m] = "other"
<1>1. -1 \notin Numbers
  BY DEF Numbers
<1>2. \A m \in Numbers : table'[m] = IF m = n THEN "free" ELSE table[m]
  BY <1>1 DEF Close, TypeOK
<1>3. table' \in [Numbers -> Owners]
  BY DEF Close, TypeOK, Owners
<1>4. n \notin Opened' /\ Opened' \subseteq Opened
  BY <1>2 DEF Opened
<1>5. foreign' \in BOOLEAN
  BY DEF Close, TypeOK
<1>6. ~foreign' => ~foreign /\ (n \in Numbers => table[n] # "other")
  BY DEF Close
<1>7. ~foreign' => \A m \in others' : table'[m] = "other"
  BY <1>2, <1>6 DEF SocketsOwned, TypeOK
<1> QED
  BY <1>3, <1>4, <1>5, <1>7

\* close_com_port.
LEMMA CloseInv ==
    ASSUME IInv, CloseControl \/ CloseData
    PROVE  IInv'
<1> USE DEF IInv
<1>1. UNCHANGED <<attempt, command, control_socket, data_socket, others, gateway, before>>
  BY DEF CloseControl, CloseData, sockets, environment
<1>2. CASE CloseControl
  <2>1. /\ table' \in [Numbers -> Owners] /\ foreign' \in BOOLEAN
        /\ control_socket \notin Opened'
        /\ ~foreign' => \A m \in others' : table'[m] = "other"
    BY <1>1, <1>2, CloseFacts DEF CloseControl, TypeOK
  <2>2. pc' = "close_data"
    BY <1>2 DEF CloseControl
  <2>3. TypeOK'
    BY <1>1, <2>1, <2>2 DEF TypeOK
  <2>4. SocketsOwned' /\ LeaksCounted' /\ ClosedInTurn'
    BY <1>1, <2>1, <2>2 DEF SocketsOwned, LeaksCounted, ClosedInTurn
  <2> QED
    BY <2>3, <2>4
<1>3. CASE CloseData
  <2>1. /\ table' \in [Numbers -> Owners] /\ foreign' \in BOOLEAN
        /\ data_socket \notin Opened' /\ Opened' \subseteq Opened
        /\ ~foreign' => \A m \in others' : table'[m] = "other"
    BY <1>1, <1>3, CloseFacts DEF CloseData, TypeOK
  <2>2. pc = "close_data" /\ pc' = "sleep"
    BY <1>3 DEF CloseData
  <2>3. TypeOK'
    BY <1>1, <2>1, <2>2 DEF TypeOK
  <2>4. control_socket \notin Opened'
    BY <2>1, <2>2 DEF ClosedInTurn
  <2>5. SocketsOwned' /\ LeaksCounted' /\ ClosedInTurn'
    BY <1>1, <2>1, <2>2, <2>4 DEF SocketsOwned, LeaksCounted, ClosedInTurn
  <2> QED
    BY <2>3, <2>5
<1> QED
  BY <1>2, <1>3

\* The rest of the process opens a descriptor ...
LEMMA OtherOpensInv ==
    ASSUME IInv, OtherOpens
    PROVE  IInv'
<1> USE DEF IInv
<1> DEFINE n == NewDescriptor
<1>1. n \in Numbers /\ table[n] = "free"
  BY NewDescriptorFacts DEF OtherOpens, Free
<1>2. /\ table' = [table EXCEPT ![n] = "other"] /\ others' = others \cup {n}
      /\ UNCHANGED <<pc, attempt, command, control_socket, data_socket, gateway, before, foreign>>
  BY DEF OtherOpens, sockets
<1> HIDE DEF n
<1>3. \A m \in Numbers : table'[m] = IF m = n THEN "other" ELSE table[m]
  BY <1>2 DEF TypeOK
<1>4. TypeOK'
  BY <1>1, <1>2 DEF TypeOK, Owners
<1>5. Opened' = Opened /\ Leaked' = Leaked
  BY <1>1, <1>2, <1>3 DEF Opened, Leaked
<1>6. SocketsOwned'
  BY <1>1, <1>2, <1>3 DEF SocketsOwned, Own, TypeOK
<1>7. LeaksCounted' /\ ClosedInTurn'
  BY <1>2, <1>5 DEF LeaksCounted, ClosedInTurn
<1> QED
  BY <1>4, <1>6, <1>7

\* ... or closes one, which is a socket of TdsComPort only when foreign is set.
LEMMA OtherClosesInv ==
    ASSUME IInv, OtherCloses
    PROVE  IInv'
<1> USE DEF IInv
<1>1. PICK n \in others : table' = [table EXCEPT ![n] = "free"] /\ others' = others \ {n}
  BY DEF OtherCloses
<1>2. UNCHANGED <<pc, attempt, command, control_socket, data_socket, gateway, before, foreign>>
  BY DEF OtherCloses, sockets
<1>3. n \in Numbers /\ \A m \in Numbers : table'[m] = IF m = n THEN "free" ELSE table[m]
  BY <1>1 DEF TypeOK
<1>4. TypeOK'
  BY <1>1, <1>2 DEF TypeOK, Owners
<1>5. SocketsOwned'
  BY <1>1, <1>2, <1>3 DEF SocketsOwned, Own, TypeOK
<1>6. /\ Opened' \subseteq Opened /\ Leaked' \subseteq Leaked
      /\ Opened' \ {control_socket'} \subseteq Opened \ {control_socket}
      /\ Opened \in SUBSET Numbers
      /\ Opened \ {control_socket} \in SUBSET Numbers
      /\ Leaked \in SUBSET Numbers
  BY <1>2, <1>3 DEF Opened, Leaked
<1>7. /\ Cardinality(Opened') <= Cardinality(Opened)
      /\ Cardinality(Opened) \in 0..Descriptors /\ Cardinality(Opened') \in 0..Descriptors
  BY <1>6, Counting
<1>8. /\ Cardinality(Opened' \ {control_socket'}) <= Cardinality(Opened \ {control_socket})
      /\ Cardinality(Opened \ {control_socket}) \in 0..Descriptors
      /\ Cardinality(Opened' \ {control_socket'}) \in 0..Descriptors
  BY <1>6, Counting
<1>9. /\ Cardinality(Leaked') <= Cardinality(Leaked)
      /\ Cardinality(Leaked) \in 0..Descriptors /\ Cardinality(Leaked') \in 0..Descriptors
  BY <1>6, Counting
<1>10. before \in Int /\ attempt \in Int
  BY PortAssumption DEF TypeOK
<1>11. LeaksCounted'
  BY <1>2, <1>7, <1>8, <1>9, <1>10, PortAssumption DEF LeaksCounted
<1>12. ClosedInTurn'
  BY <1>2, <1>6 DEF ClosedInTurn
<1> QED
  BY <1>4, <1>5, <1>11, <1>12

\* The gateway goes up or down, or nothing changes.
LEMMA QuietInv ==
    ASSUME IInv, GatewayFlips \/ UNCHANGED vars
    PROVE  IInv'
<1> USE DEF IInv
<1>1. UNCHANGED <<pc, attempt, command, control_socket, data_socket, table, others, before,
                  foreign>>
  BY DEF GatewayFlips, vars, sockets
<1>2. gateway' \in {"up", "down"}
  BY DEF GatewayFlips, vars, TypeOK
<1>3. TypeOK'
  BY <1>1, <1>2 DEF TypeOK
<1>4. Opened' = Opened /\ Leaked' = Leaked
  BY <1>1 DEF Opened, Leaked
<1>5. SocketsOwned' /\ LeaksCounted' /\ ClosedInTurn'
  BY <1>1, <1>4 DEF SocketsOwned, LeaksCounted, ClosedInTurn, Own
<1> QED
  BY <1>3, <1>5

LEMMA NextInv == IInv /\ [Next]_vars => IInv'
BY BeginInv, ControlSocketInv, DataSocketInv, GatewayInv, ExchangeInv, CloseInv,
   OtherOpensInv, OtherClosesInv, QuietInv DEF Next, PollThread

-----------------------------------------------------------------------------
(* What follows *)

\* The invariant holds in every reachable state.
THEOREM Invariance == Spec => []IInv
<1>1. Init => IInv
  BY InitInv
<1>2. IInv /\ [Next]_vars => IInv'
  BY NextInv
<1> QED
  BY <1>1, <1>2, PTL DEF Spec

\* The variables keep their types: attempts and commands stay within their
\* limits, and the member variables hold a descriptor or -1.
THEOREM Types == Spec => []TypeOK
<1>1. IInv => TypeOK
  BY DEF IInv
<1> QED
  BY <1>1, Invariance, PTL

\* Frames are exchanged over the two sockets this TdsComPort opened, whatever
\* the rest of the process opens and closes meanwhile, as long as
\* close_com_port has closed no descriptor but its own.
THEOREM ExchangesOnOwnSockets == Spec => []ExchangeOnOwnSockets
<1>1. IInv => ExchangeOnOwnSockets
  BY DEF IInv, SocketsOwned, ExchangeOnOwnSockets
<1> QED
  BY <1>1, Invariance, PTL

\* An attempt of open_com_port that fails leaks its two sockets at most, also
\* when socket() itself fails and when sockets leaked earlier are closed again
\* under their old numbers.
THEOREM LeaksBounded == Spec => []LeakBounded
<1>1. IInv => LeakBounded
  BY DEF IInv, LeaksCounted, LeakBounded
<1> QED
  BY <1>1, Invariance, PTL
=============================================================================
