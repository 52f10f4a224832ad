----------------------------- MODULE ModbusPoll -----------------------------
(***************************************************************************)
(* One polling cycle of the modbus thread on an open gateway connection:   *)
(* the object loop of ModbusManager::ReadDataFromDevice, the retries of    *)
(* RequestAndAnswer, one write and the read loop of                        *)
(* TdsComPort::modbus_exchange, and ModbusObject::data_handling.           *)
(*                                                                         *)
(* The data socket is a byte stream, so bytes are counted, never stored:   *)
(* frame k of the stream occupies the positions Start(k)+1 .. its end, the *)
(* first `delivered' bytes are in the socket's receive buffer, read() has  *)
(* returned the first `taken', and mo.answer holds the bytes               *)
(* cleared+1 .. taken.                                                     *)
(***************************************************************************)
EXTENDS Integers, Sequences

CONSTANTS
    NumObjects,         \* modbus_objects.size()
    FuncNum,            \* func_num of each object
    RegCount,           \* reg_count of each object
    Idle,               \* the objects whose action is e_action::idle
    Handled,            \* the objects for which create_smart_handler makes one
    SlaveId,            \* device_params.slave_id
    REQUEST_ATTEMPTS,   \* attempts of one RequestAndAnswer
    ExceptionLen,       \* ExceptionalAnswerSerialFullLen
    BuffSize,           \* sizeof(buff) in modbus_exchange
    Cuts                \* the bytes of a frame after which a segment may end

Objects == 1..NumObjects

ASSUME PollAssumption ==
    /\ NumObjects \in Nat \ {0}
    /\ FuncNum \in [Objects -> Nat]
    /\ RegCount \in [Objects -> Nat \ {0}]
    /\ Idle \subseteq Objects
    /\ Handled \subseteq Objects
    /\ SlaveId \in Nat
    /\ REQUEST_ATTEMPTS \in Nat \ {0}
    /\ ExceptionLen \in Nat
    /\ BuffSize \in Nat \ {0}
    /\ Cuts \subseteq Nat

VARIABLES
    pc,         \* what the modbus thread does next
    mo,         \* the object the loop has reached
    attempt,    \* attempts RequestAndAnswer has used for it
    asked,      \* the requests written to this connection, in order
    served,     \* how many of them the device is done with
    frames,     \* the answers the device put on this connection's stream
    delivered,  \* bytes of the stream that reached the receive buffer
    taken,      \* bytes of the stream that read() has returned
    cleared,    \* bytes of the stream returned before mo.answer was last cleared
    peer,       \* what the gateway did to the connection
    given,      \* what a handler last gave to out_data_holder in this cycle
    failed      \* history: attempts on this connection that gave no value

thread == <<pc, mo, attempt>>
line == <<asked, served, frames, delivered>>
vars == <<pc, mo, attempt, asked, served, frames, delivered, taken, cleared,
          peer, given, failed>>

-----------------------------------------------------------------------------
(* Frames and bytes *)

\* The device's answers: the registers, a Modbus exception, or a frame the
\* RS-485 line corrupted (its CRC fails).
Kinds == {"normal", "exception", "garbled"}
Frame == [req : Nat, kind : Kinds, end : Nat]

ADU == [addr : Nat, fun : Nat, reg : Objects]

\* CreateModBusADU: address and function code are truncated to bytes.
\* `reg' stands for the register range the object asks for.
CreateModBusADU(o) ==
    [addr |-> (SlaveId + 128) % 256, fun |-> FuncNum[o] % 256, reg |-> o]

CalcNormalAnswFullLen(o) == 5 + 2 * RegCount[o]

\* A serial exception answer: address, function code + 0x80, code, CRC.
FrameLen(kind, o) == IF kind = "exception" THEN 5 ELSE CalcNormalAnswFullLen(o)

Start(k) == IF k = 1 THEN 0 ELSE frames[k - 1].end
StreamEnd == IF frames = <<>> THEN 0 ELSE frames[Len(frames)].end
AnswerSize == taken - cleared

\* The byte p of the stream compared with v: fixed for the header bytes of a
\* frame (codes of exceptions are below 0x0C), open for data and CRC bytes.
ByteIs(p, v) ==
    LET k == CHOOSE i \in DOMAIN frames : Start(i) < p /\ p <= frames[i].end
        offset == p - Start(k) - 1
        adu == asked[frames[k].req]
    IN  CASE offset = 0 /\ frames[k].kind # "garbled" -> {adu.addr = v}
          [] offset = 1 /\ frames[k].kind = "normal" -> {adu.fun = v}
          [] offset = 1 /\ frames[k].kind = "exception" -> {adu.fun + 128 = v}
          [] offset = 2 /\ frames[k].kind = "normal" -> {(2 * RegCount[adu.reg]) % 256 = v}
          [] offset = 2 /\ frames[k].kind = "exception" -> {FALSE}
          [] OTHER -> BOOLEAN

\* data_handling's checks of mo.answer: slave id, function, byte count, CRC.
\* Frame k passes them iff it is the whole of mo.answer (CRC-16 is taken to
\* reject every other run of bytes, and its `len' parameter is one byte).
Passes(k) ==
    /\ Start(k) = cleared
    /\ frames[k].end = taken
    /\ frames[k].kind = "normal"
    /\ LET adu == asked[frames[k].req]
       IN  /\ adu.addr = SlaveId + 128
           /\ adu.fun = FuncNum[mo]
           /\ (2 * RegCount[adu.reg]) % 256 = 2 * RegCount[mo]
           /\ CalcNormalAnswFullLen(adu.reg) - 2 < 256

-----------------------------------------------------------------------------
NoValue == [to |-> 0, of |-> 0, lag |-> 0, failed |-> 0]

Init ==
    /\ pc = "sleep"
    /\ mo = 1
    /\ attempt = 0
    /\ asked = <<>>
    /\ served = 0
    /\ frames = <<>>
    /\ delivered = 0
    /\ taken = 0
    /\ cleared = 0
    /\ peer = "open"
    /\ given = NoValue
    /\ failed = 0

\* Mutant: the connection of the last cycle is kept.
OpenPort_KeepsConnection ==
    /\ pc = "sleep"
    /\ pc' = "request"
    /\ mo' = 1
    /\ attempt' = 0
    /\ given' = NoValue
    /\ failed' = 0
    /\ UNCHANGED <<line, taken, cleared, peer>>

\* A cycle starts on fresh connections. (A cycle whose open_com_port fails
\* touches none of this state; TdsComPort has that case.)
OpenPort ==
    /\ pc = "sleep"
    /\ pc' = "request"
    /\ mo' = 1
    /\ attempt' = 0
    /\ asked' = <<>>
    /\ served' = 0
    /\ frames' = <<>>
    /\ delivered' = 0
    /\ taken' = 0
    /\ cleared' = 0
    /\ peer' = "open"
    /\ given' = NoValue
    /\ failed' = 0

SkipIdle ==
    /\ pc = "request"
    /\ mo \in Idle
    /\ mo' = mo + 1
    /\ UNCHANGED <<pc, attempt, line, taken, cleared, peer, given, failed>>

\* Mutant: one attempt too many.
FailAttempt_OffByOne ==
    /\ failed' = failed + 1
    /\ pc' = "request"
    /\ \/ /\ attempt < REQUEST_ATTEMPTS
          /\ attempt' = attempt + 1
          /\ mo' = mo
       \/ /\ attempt = REQUEST_ATTEMPTS
          /\ attempt' = 0
          /\ mo' = mo + 1

\* OneRequestAndAnswer returned false: RequestAndAnswer tries again, or gives
\* the object up and the loop continues with the next one.
FailAttempt ==
    /\ failed' = failed + 1
    /\ pc' = "request"
    /\ \/ /\ attempt + 1 < REQUEST_ATTEMPTS
          /\ attempt' = attempt + 1
          /\ mo' = mo
       \/ /\ attempt + 1 = REQUEST_ATTEMPTS
          /\ attempt' = 0
          /\ mo' = mo + 1

\* Mutant: the request is sent twice.
Write_Twice ==
    /\ pc = "request"
    /\ mo \in Objects \ Idle
    /\ peer \in {"open", "closed"}
    /\ asked' = asked \o <<CreateModBusADU(mo), CreateModBusADU(mo)>>
    /\ cleared' = taken
    /\ pc' = "read"
    /\ UNCHANGED <<mo, attempt, served, frames, delivered, taken, peer, given, failed>>

\* OneRequestAndAnswer clears mo.answer and modbus_exchange writes the request.
Write ==
    /\ pc = "request"
    /\ mo \in Objects \ Idle
    /\ peer \in {"open", "closed"}
    /\ asked' = Append(asked, CreateModBusADU(mo))
    /\ cleared' = taken
    /\ pc' = "read"
    /\ UNCHANGED <<mo, attempt, served, frames, delivered, taken, peer, given, failed>>

\* The first call on a reset connection returns ECONNRESET ...
WriteFails ==
    /\ pc = "request"
    /\ mo \in Objects \ Idle
    /\ peer = "reset"
    /\ peer' = "dead"
    /\ cleared' = taken
    /\ FailAttempt
    /\ UNCHANGED <<line, taken, given>>

\* ... and a later write() raises SIGPIPE, which the process neither ignores
\* nor handles.
WriteKills ==
    /\ pc = "request"
    /\ mo \in Objects \ Idle
    /\ peer = "dead"
    /\ pc' = "killed"
    /\ UNCHANGED <<mo, attempt, line, taken, cleared, peer, given, failed>>

\* Mutant: the loop asks for one byte more than the answer has.
ReadBytes_OffByOne ==
    /\ pc = "read"
    /\ taken < delivered
    /\ taken' = delivered
    /\ pc' = IF taken' - cleared <= CalcNormalAnswFullLen(mo) THEN "read" ELSE "handle"
    /\ UNCHANGED <<mo, attempt, line, cleared, peer, given, failed>>

\* read() returns what is in the receive buffer, at most BuffSize bytes.
ReadBytes ==
    /\ pc = "read"
    /\ taken < delivered
    /\ taken' = IF delivered - taken <= BuffSize THEN delivered ELSE taken + BuffSize
    /\ UNCHANGED <<line, peer, given>>
    /\ LET size == taken' - cleared
           marker == IF size = ExceptionLen
                       THEN ByteIs(cleared + 8, 128 + FuncNum[mo]) ELSE {FALSE}
       IN  \/ /\ TRUE \in marker
              /\ cleared' = taken'
              /\ FailAttempt
           \/ /\ FALSE \in marker
              /\ pc' = IF size < CalcNormalAnswFullLen(mo) THEN "read" ELSE "handle"
              /\ UNCHANGED <<mo, attempt, cleared, failed>>

\* Mutant: SO_RCVTIMEO is not set, read() blocks.
ReadError_NoTimeout ==
    /\ pc = "read"
    /\ taken = delivered
    /\ peer = "reset"
    /\ peer' = "dead"
    /\ FailAttempt
    /\ UNCHANGED <<line, taken, cleared, given>>

\* read() returns -1: SO_RCVTIMEO expired, or the connection was reset.
ReadError ==
    /\ pc = "read"
    /\ taken = delivered
    /\ \/ peer = "open" /\ peer' = peer
       \/ peer = "reset" /\ peer' = "dead"
    /\ FailAttempt
    /\ UNCHANGED <<line, taken, cleared, given>>

\* read() returns 0 for ever: the test for it compares the function, not rc.
ReadEof ==
    /\ pc = "read"
    /\ taken = delivered
    /\ peer \in {"closed", "dead"}
    /\ UNCHANGED vars

\* data_handling: a frame that passes is handed to the object's handler, any
\* other answer is dropped without another attempt.
HandleAnswer ==
    /\ pc = "handle"
    /\ cleared' = taken
    /\ pc' = "request"
    /\ mo' = mo + 1
    /\ attempt' = 0
    /\ UNCHANGED <<line, taken, peer>>
    /\ \/ \E k \in DOMAIN frames :
            /\ Passes(k)
            /\ given' = IF mo \in Handled
                          THEN [to |-> mo, of |-> asked[frames[k].req].reg,
                                lag |-> Len(asked) - frames[k].req, failed |-> failed]
                          ELSE given
            /\ UNCHANGED failed
       \/ /\ \A k \in DOMAIN frames : ~Passes(k)
          /\ failed' = failed + 1
          /\ UNCHANGED given

\* The loop is over: close_com_port, then sleep(request_period).
ClosePort ==
    /\ pc = "request"
    /\ mo \notin Objects
    /\ pc' = "sleep"
    /\ UNCHANGED <<mo, attempt, line, taken, cleared, peer, given, failed>>

\* systemd starts a new process (Restart=always): nothing of the old one is left.
Restart ==
    /\ pc = "killed"
    /\ pc' = "sleep"
    /\ mo' = 1
    /\ attempt' = 0
    /\ asked' = <<>>
    /\ served' = 0
    /\ frames' = <<>>
    /\ delivered' = 0
    /\ taken' = 0
    /\ cleared' = 0
    /\ peer' = "open"
    /\ given' = NoValue
    /\ failed' = 0

Exchange == \/ SkipIdle \/ Write \/ WriteFails \/ WriteKills \/ ReadBytes
            \/ ReadError \/ ReadEof \/ HandleAnswer \/ ClosePort

-----------------------------------------------------------------------------
(* The gateway, the RS-485 line and the device. The device answers the     *)
(* requests in the order they were written, each at most once.             *)

Connected == pc \in {"request", "read", "handle"} /\ peer = "open"

DeviceAnswers(kind) ==
    /\ Connected
    /\ served < Len(asked)
    /\ served' = served + 1
    /\ frames' = Append(frames, [req |-> served + 1, kind |-> kind,
                                 end |-> StreamEnd + FrameLen(kind, asked[served + 1].reg)])
    /\ UNCHANGED <<thread, asked, delivered, taken, cleared, peer, given, failed>>

\* The request or its whole answer is lost.
LineLoses ==
    /\ Connected
    /\ served < Len(asked)
    /\ served' = served + 1
    /\ UNCHANGED <<thread, asked, frames, delivered, taken, cleared, peer, given, failed>>

\* Some more bytes arrive, in segments of any size and after any delay.
Deliver ==
    /\ Connected
    /\ \E k \in DOMAIN frames :
          \E n \in delivered + 1 .. frames[k].end :
             /\ n = frames[k].end \/ n - Start(k) \in Cuts
             /\ delivered' = n
    /\ UNCHANGED <<thread, asked, served, frames, taken, cleared, peer, given, failed>>

PeerCloses ==
    /\ Connected
    /\ peer' = "closed"
    /\ UNCHANGED <<thread, line, taken, cleared, given, failed>>

\* The gateway resets an open connection, or one it closed in answer to a
\* write (then read() still returns 0).
PeerResets ==
    /\ \/ Connected /\ peer' = "reset"
       \/ pc = "read" /\ peer = "closed" /\ peer' = "dead"
    /\ UNCHANGED <<thread, line, taken, cleared, given, failed>>

Gateway == \/ \E kind \in Kinds : DeviceAnswers(kind)
           \/ LineLoses \/ Deliver \/ PeerCloses \/ PeerResets

Next == OpenPort \/ Exchange \/ Restart \/ Gateway

\* The thread keeps running and every read() returns (SO_RCVTIMEO); systemd
\* restarts the service. Nothing is assumed of the gateway or the device.
Fairness == WF_vars(Exchange) /\ WF_vars(Restart)

Spec == Init /\ [][Next]_vars /\ Fairness

-----------------------------------------------------------------------------
(* Properties *)

TypeOK ==
    /\ pc \in {"sleep", "request", "read", "handle", "killed"}
    /\ mo \in 1..NumObjects + 1
    /\ attempt \in 0..REQUEST_ATTEMPTS - 1
    /\ asked \in Seq(ADU)
    /\ served \in 0..Len(asked)
    /\ frames \in Seq(Frame)
    /\ delivered \in 0..StreamEnd
    /\ taken \in 0..delivered
    /\ cleared \in 0..taken
    /\ peer \in {"open", "closed", "reset", "dead"}
    /\ given \in [to : 0..NumObjects, of : 0..NumObjects, lag : Nat, failed : Nat]
    /\ failed \in Nat

\* A value accepted from the stream answers a request at most as many requests
\* old as there were failed attempts on the connection: retries without
\* transaction ids can shift answers, but by no more than that.
LagBoundedByFailures ==
    given.lag <= given.failed

\* While no attempt on the connection has failed, every object receives the
\* value of its own register (each answer is taken for the request before it).
OwnRegisterUnlessFailed ==
    given.failed = 0 => given.of = given.to

\* Frame k is the uncorrupted answer to the last request, and what mo.answer
\* holds is the beginning of it.
IsDueAnswer(k) ==
    /\ frames[k].req = Len(asked)
    /\ frames[k].kind = "normal"
    /\ Start(k) = cleared

\* An attempt whose answer arrives in step is only given up when read() waited
\* in vain for the rest of it: neither the exception test on a part of it, nor
\* a timeout on the whole, nor data_handling rejects it.
GoodAnswerNotRejected ==
    [][failed' = failed + 1 /\ pc \in {"read", "handle"}
          => \A k \in DOMAIN frames : IsDueAnswer(k) =>
                pc = "read" /\ taken' = taken /\ taken < frames[k].end]_vars

\* Whatever the device does, a cycle ends, unless the gateway closes the
\* connection: only end-of-file keeps modbus_exchange from returning.
CycleEndsUnlessClosed ==
    pc = "request" ~> pc = "sleep" \/ peer = "closed"

\* TdsComPort.cpp:332-336 returns false when the connection was closed: a
\* cycle that started ends whatever the gateway does.
CycleEnds == pc # "sleep" ~> pc = "sleep"

\* Config.json names the register of each object: the value published under an
\* object's name is the value of that register.
ValueOfOwnRegister ==
    given.of = given.to

\* The cycle seen from outside: no bytes, no connection, only whose turn it is
\* and what became of it.
Cycle == INSTANCE PollCycle WITH
    state <- IF pc \in {"sleep", "killed"} THEN pc ELSE "cycle",
    at <- mo,
    tries <- attempt,
    failures <- failed,
    latest <- [to |-> given.to, lag |-> given.lag]

\* The loop of ReadDataFromDevice keeps the promise of PollCycle: order, number
\* of attempts, at most one value per object, and values no older than the
\* cycle's failures explain.
ImplementsCycle == Cycle!Spec
=============================================================================
