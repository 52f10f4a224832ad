-------------------------- MODULE ModbusPollProofs --------------------------
(***************************************************************************)
(* Proofs about ModbusPoll, for every configuration, number of attempts    *)
(* and schedule of the gateway.                                            *)
(***************************************************************************)
EXTENDS ModbusPoll, TLAPS

-----------------------------------------------------------------------------
(* The inductive invariant *)

\* Frames follow each other on the stream, answer requests in order, and
\* answer only requests the device is done with.
FramesOrdered ==
    /\ \A k \in DOMAIN frames : Start(k) < frames[k].end /\ frames[k].req \in 1..served
    /\ \A j, k \in DOMAIN frames : j < k =>
          frames[j].end <= Start(k) /\ frames[j].req < frames[k].req

\* A frame has the length of its kind and of the register range it answers.
FramesSized ==
    \A k \in DOMAIN frames :
        frames[k].end - Start(k) = FrameLen(frames[k].kind, asked[frames[k].req].reg)

\* Every request is the one CreateModBusADU makes for its object.
AskedFormed == \A i \in DOMAIN asked : asked[i] = CreateModBusADU(asked[i].reg)

\* While an answer is awaited, the last request is the current object's.
LastAsked ==
    pc \in {"read", "handle"} =>
        /\ asked # <<>>
        /\ mo \in Objects
        /\ asked[Len(asked)].reg = mo

\* The read loop goes on as long as the answer is short, and no longer.
AnswerProgress ==
    /\ pc = "read" => AnswerSize < CalcNormalAnswFullLen(mo)
    /\ pc = "handle" => AnswerSize >= CalcNormalAnswFullLen(mo)

\* Requests that neither failed nor are in progress: a lower bound on the
\* answers accepted so far.
Accepted == Len(asked) - failed - (IF pc \in {"read", "handle"} THEN 1 ELSE 0)

\* The frames not yet read answer requests after the accepted ones.
Unread ==
    /\ Accepted <= served
    /\ \A k \in DOMAIN frames : cleared <= Start(k) => Accepted < frames[k].req

GivenOK == LagBoundedByFailures /\ OwnRegisterUnlessFailed

IInv == /\ TypeOK /\ FramesOrdered /\ FramesSized /\ AskedFormed
        /\ LastAsked /\ AnswerProgress /\ Unread /\ GivenOK
-----------------------------------------------------------------------------
(* Facts about constants and operators *)

\* A request is well formed.
LEMMA ADUType ==
    \A o \in Objects : CreateModBusADU(o) \in ADU
BY PollAssumption DEF CreateModBusADU, ADU

\* An answer has at least one byte.
LEMMA FrameLenPositive ==
    \A kind \in Kinds, o \in Objects : FrameLen(kind, o) \in Nat /\ FrameLen(kind, o) > 0
BY PollAssumption DEF FrameLen, CalcNormalAnswFullLen

\* Frames begin and end at positions up to the end of the stream.
LEMMA FrameFacts ==
    ASSUME TypeOK, FramesOrdered
    PROVE  /\ StreamEnd \in Nat
           /\ DOMAIN frames = 1..Len(frames)
           /\ Len(frames) \in Nat
           /\ \A k \in DOMAIN frames :
                 /\ frames[k] \in Frame
                 /\ frames[k].end \in 0..StreamEnd
                 /\ frames[k].req \in 1..served
                 /\ Start(k) \in Nat
<1>1. /\ DOMAIN frames = 1..Len(frames)
      /\ Len(frames) \in Nat
      /\ \A k \in DOMAIN frames : frames[k] \in Frame
  BY DEF TypeOK
<1>2. \A k \in DOMAIN frames : frames[k].end \in Nat /\ Start(k) \in Nat
  BY <1>1 DEF Start, Frame
<1>3. CASE frames = <<>>
  BY <1>1, <1>3 DEF StreamEnd
<1>4. CASE frames # <<>>
  <2>1. Len(frames) \in DOMAIN frames
    BY <1>1, <1>4 DEF TypeOK
  <2>2. StreamEnd = frames[Len(frames)].end
    BY <1>4 DEF StreamEnd
  <2>3. \A k \in DOMAIN frames : k # Len(frames) => frames[k].end <= Start(Len(frames))
    BY <1>1, <2>1 DEF FramesOrdered
  <2>4. Start(Len(frames)) < frames[Len(frames)].end
    BY <2>1 DEF FramesOrdered
  <2>5. \A k \in DOMAIN frames : frames[k].end <= StreamEnd
    BY <1>2, <2>1, <2>2, <2>3, <2>4
  <2> QED
    BY <1>1, <1>2, <2>1, <2>2, <2>5 DEF FramesOrdered
<1> QED
  BY <1>3, <1>4

\* The positions on the stream, and the counters.
LEMMA PositionFacts ==
    ASSUME TypeOK
    PROVE  /\ delivered \in Nat /\ delivered <= StreamEnd
           /\ taken \in Nat /\ taken <= delivered
           /\ cleared \in Nat /\ cleared <= taken
           /\ failed \in Nat
           /\ served \in 0..Len(asked) /\ Len(asked) \in Nat
<1>1. /\ delivered \in 0..StreamEnd /\ taken \in 0..delivered /\ cleared \in 0..taken
      /\ failed \in Nat /\ asked \in Seq(ADU) /\ served \in 0..Len(asked)
  BY DEF TypeOK
<1>2. Len(asked) \in Nat
  BY <1>1
<1> QED
  BY <1>1, <1>2

\* Every request written is for an object.
LEMMA AskedFacts ==
    ASSUME TypeOK
    PROVE  /\ DOMAIN asked = 1..Len(asked)
           /\ Len(asked) \in Nat
           /\ \A i \in 1..Len(asked) : asked[i].reg \in Objects
<1>1. /\ DOMAIN asked = 1..Len(asked) /\ Len(asked) \in Nat
      /\ \A i \in 1..Len(asked) : asked[i] \in ADU
  BY DEF TypeOK
<1> QED
  BY <1>1 DEF ADU

\* Accepted is an integer.
LEMMA AcceptedType == TypeOK => Accepted \in Int /\ served \in Int
BY DEF TypeOK, Accepted

\* (the same of the next state)
LEMMA AcceptedTypeNext == TypeOK' => Accepted' \in Int /\ served' \in Int
<1> SUFFICES ASSUME TypeOK' PROVE Accepted' \in Int /\ served' \in Int
  OBVIOUS
<1>1. Len(asked') \in Nat /\ served' \in 0..Len(asked') /\ failed' \in Nat
  BY DEF TypeOK
<1> QED
  BY <1>1 DEF Accepted

-----------------------------------------------------------------------------
(* The invariant holds initially and is preserved by every action *)

LEMMA InitInv == Init => IInv
BY PollAssumption
   DEF Init, IInv, TypeOK, FramesOrdered, FramesSized, AskedFormed, LastAsked,
       AnswerProgress, Unread, Accepted, GivenOK, LagBoundedByFailures,
       OwnRegisterUnlessFailed, NoValue, Objects, StreamEnd

LEMMA OpenPortInv == IInv /\ OpenPort => IInv'
BY PollAssumption
   DEF OpenPort, IInv, TypeOK, FramesOrdered, FramesSized, AskedFormed, LastAsked,
       AnswerProgress, Unread, Accepted, GivenOK, LagBoundedByFailures,
       OwnRegisterUnlessFailed, NoValue, Objects, StreamEnd

LEMMA RestartInv == IInv /\ Restart => IInv'
BY PollAssumption
   DEF Restart, IInv, TypeOK, FramesOrdered, FramesSized, AskedFormed, LastAsked,
       AnswerProgress, Unread, Accepted, GivenOK, LagBoundedByFailures,
       OwnRegisterUnlessFailed, NoValue, Objects, StreamEnd

\* Actions that leave the stream's frames and the requests alone keep what the
\* invariant says of them.
LEMMA SameFrames ==
    ASSUME IInv, UNCHANGED <<asked, served, frames>>
    PROVE  FramesOrdered' /\ FramesSized' /\ AskedFormed' /\ StreamEnd' = StreamEnd
BY DEF IInv, FramesOrdered, FramesSized, AskedFormed, Start, StreamEnd

LEMMA SkipIdleInv == IInv /\ SkipIdle => IInv'
<1> SUFFICES ASSUME IInv, SkipIdle PROVE IInv'
  OBVIOUS
<1>1. FramesOrdered' /\ FramesSized' /\ AskedFormed' /\ StreamEnd' = StreamEnd
  BY SameFrames DEF SkipIdle, line
<1>2. TypeOK'
  BY <1>1, PollAssumption DEF IInv, TypeOK, SkipIdle, line, Objects
<1>3. LastAsked' /\ AnswerProgress'
  BY DEF SkipIdle, LastAsked, AnswerProgress
<1>4. Unread' /\ GivenOK'
  BY DEF IInv, SkipIdle, line, Unread, Accepted, Start, GivenOK, LagBoundedByFailures,
         OwnRegisterUnlessFailed
<1> QED
  BY <1>1, <1>2, <1>3, <1>4 DEF IInv

LEMMA ClosePortInv == IInv /\ ClosePort => IInv'
<1> SUFFICES ASSUME IInv, ClosePort PROVE IInv'
  OBVIOUS
<1>1. FramesOrdered' /\ FramesSized' /\ AskedFormed' /\ StreamEnd' = StreamEnd
  BY SameFrames DEF ClosePort, line
<1>2. TypeOK'
  BY <1>1 DEF IInv, TypeOK, ClosePort, line
<1>3. LastAsked' /\ AnswerProgress'
  BY DEF ClosePort, LastAsked, AnswerProgress
<1>4. Unread' /\ GivenOK'
  BY DEF IInv, ClosePort, line, Unread, Accepted, Start, GivenOK, LagBoundedByFailures,
         OwnRegisterUnlessFailed
<1> QED
  BY <1>1, <1>2, <1>3, <1>4 DEF IInv

LEMMA WriteKillsInv == IInv /\ WriteKills => IInv'
<1> SUFFICES ASSUME IInv, WriteKills PROVE IInv'
  OBVIOUS
<1>1. FramesOrdered' /\ FramesSized' /\ AskedFormed' /\ StreamEnd' = StreamEnd
  BY SameFrames DEF WriteKills, line
<1>2. TypeOK'
  BY <1>1 DEF IInv, TypeOK, WriteKills, line
<1>3. LastAsked' /\ AnswerProgress'
  BY DEF WriteKills, LastAsked, AnswerProgress
<1>4. Unread' /\ GivenOK'
  BY DEF IInv, WriteKills, line, Unread, Accepted, Start, GivenOK, LagBoundedByFailures,
         OwnRegisterUnlessFailed
<1> QED
  BY <1>1, <1>2, <1>3, <1>4 DEF IInv

\* A failed attempt moves on to an object of the loop or past its end.
LEMMA FailAttemptType ==
    TypeOK /\ FailAttempt /\ mo \in Objects =>
        /\ pc' = "request"
        /\ mo' \in 1..NumObjects + 1
        /\ attempt' \in 0..REQUEST_ATTEMPTS - 1
        /\ failed' = failed + 1
        /\ failed' \in Nat
<1> SUFFICES ASSUME TypeOK, FailAttempt, mo \in Objects
             PROVE  mo' \in 1..NumObjects + 1 /\ attempt' \in 0..REQUEST_ATTEMPTS - 1
  BY DEF TypeOK, FailAttempt
<1>1. /\ NumObjects \in Nat /\ REQUEST_ATTEMPTS \in Nat \ {0}
      /\ mo \in 1..NumObjects /\ attempt \in 0..REQUEST_ATTEMPTS - 1
  BY PollAssumption DEF TypeOK, Objects
<1> QED
  BY <1>1 DEF FailAttempt

LEMMA WriteFailsInv == IInv /\ WriteFails => IInv'
<1> SUFFICES ASSUME IInv, WriteFails PROVE IInv'
  OBVIOUS
<1>1. FramesOrdered' /\ FramesSized' /\ AskedFormed' /\ StreamEnd' = StreamEnd
  BY SameFrames DEF WriteFails, line
<1>2. /\ pc' = "request" /\ mo' \in 1..NumObjects + 1
      /\ attempt' \in 0..REQUEST_ATTEMPTS - 1 /\ failed' = failed + 1 /\ failed' \in Nat
  <2>1. TypeOK /\ FailAttempt /\ mo \in Objects
    BY DEF IInv, WriteFails
  <2> QED
    BY <2>1, FailAttemptType
<1>3. TypeOK'
  BY <1>1, <1>2 DEF IInv, TypeOK, WriteFails, line
<1>4. LastAsked' /\ AnswerProgress'
  BY <1>2 DEF LastAsked, AnswerProgress
<1>5. Accepted' < Accepted
  BY <1>2 DEF IInv, TypeOK, WriteFails, line, Accepted
<1>6. Unread'
  <2>1. \A k \in DOMAIN frames : Start(k) \in Nat /\ frames[k].req \in Nat
    BY FrameFacts DEF IInv, Frame
  <2>2. Accepted \in Int /\ Accepted' \in Int /\ served \in Int
    BY <1>3, AcceptedType, AcceptedTypeNext DEF IInv
  <2>3. /\ cleared' \in Nat /\ cleared \in Nat /\ cleared <= cleared'
        /\ frames' = frames /\ served' = served
    BY <1>3, FrameFacts DEF IInv, TypeOK, WriteFails, line
  <2> QED
    BY <1>5, <2>1, <2>2, <2>3 DEF IInv, Unread, Start
<1>7. GivenOK'
  BY DEF IInv, WriteFails, GivenOK, LagBoundedByFailures, OwnRegisterUnlessFailed
<1> QED
  BY <1>1, <1>3, <1>4, <1>6, <1>7 DEF IInv

LEMMA WriteInv == IInv /\ Write => IInv'
<1> SUFFICES ASSUME IInv, Write PROVE IInv'
  OBVIOUS
<1>1. /\ frames' = frames /\ served' = served /\ StreamEnd' = StreamEnd
      /\ asked' = Append(asked, CreateModBusADU(mo))
      /\ mo' = mo /\ mo \in Objects /\ pc' = "read" /\ pc = "request"
      /\ cleared' = taken /\ taken' = taken /\ failed' = failed
  BY DEF Write, StreamEnd
<1>2. CreateModBusADU(mo) \in ADU
  BY <1>1, ADUType
<1>3. /\ asked' \in Seq(ADU)
      /\ Len(asked') = Len(asked) + 1 /\ Len(asked) \in Nat
      /\ asked'[Len(asked')] = CreateModBusADU(mo)
      /\ DOMAIN asked' = 1..Len(asked) + 1 /\ DOMAIN asked = 1..Len(asked)
      /\ \A i \in DOMAIN asked : asked'[i] = asked[i]
  <2>1. asked \in Seq(ADU)
    BY DEF IInv, TypeOK
  <2> QED
    BY <1>1, <1>2, <2>1
<1>4. TypeOK'
  <2>1. served' \in 0..Len(asked')
    <3>1. served \in 0..Len(asked) /\ Len(asked) \in Nat
      BY PositionFacts DEF IInv
    <3> QED
      BY <1>1, <1>3, <3>1
  <2>2. taken' \in 0..delivered' /\ cleared' \in 0..taken'
    <3>1. taken \in 0..delivered /\ taken \in Nat /\ delivered' = delivered
      BY PositionFacts DEF IInv, TypeOK, Write
    <3> QED
      BY <1>1, <3>1
  <2> QED
    BY <1>1, <1>3, <2>1, <2>2 DEF IInv, TypeOK, Write
<1>5. FramesOrdered'
  BY <1>1 DEF IInv, FramesOrdered, Start
<1>6. FramesSized'
  <2>1. \A k \in DOMAIN frames : frames[k].req \in DOMAIN asked
    <3>1. TypeOK /\ FramesOrdered
      BY DEF IInv
    <3>2. \A k \in DOMAIN frames : frames[k].req \in 1..served
      BY <3>1, FrameFacts
    <3>3. served \in 0..Len(asked) /\ Len(asked) \in Nat
      BY <3>1, PositionFacts
    <3> QED
      BY <1>3, <3>2, <3>3
  <2> QED
    BY <1>1, <1>3, <2>1 DEF IInv, FramesSized, Start
<1>7. AskedFormed'
  <2>1. CreateModBusADU(mo) = CreateModBusADU(CreateModBusADU(mo).reg)
    BY DEF CreateModBusADU
  <2> QED
    BY <1>3, <2>1 DEF IInv, AskedFormed
<1>8. LastAsked'
  <2>1. asked' # <<>>
    BY <1>1
  <2> QED
    BY <1>1, <1>3, <2>1 DEF LastAsked, CreateModBusADU
<1>9. AnswerProgress'
  <2>1. taken \in Nat
    BY PositionFacts DEF IInv
  <2>2. CalcNormalAnswFullLen(mo) \in Nat /\ CalcNormalAnswFullLen(mo) > 0
    BY <1>1, PollAssumption DEF CalcNormalAnswFullLen
  <2>3. CalcNormalAnswFullLen(mo') = CalcNormalAnswFullLen(mo)
    BY <1>1
  <2>4. AnswerSize' = 0
    BY <1>1, <2>1 DEF AnswerSize
  <2> QED
    BY <1>1, <2>2, <2>3, <2>4 DEF AnswerProgress
<1>10. Unread'
  <2>1. Accepted' = Accepted
    BY <1>1, <1>3 DEF IInv, TypeOK, Accepted
  <2>2. /\ cleared \in Nat /\ taken \in Nat /\ cleared <= taken
        /\ \A k \in DOMAIN frames : Start(k) \in Nat
    BY FrameFacts DEF IInv, TypeOK
  <2> QED
    BY <1>1, <2>1, <2>2 DEF IInv, Unread, Start
<1>11. GivenOK'
  BY DEF IInv, Write, GivenOK, LagBoundedByFailures, OwnRegisterUnlessFailed
<1> QED
  BY <1>4, <1>5, <1>6, <1>7, <1>8, <1>9, <1>10, <1>11 DEF IInv

LEMMA ReadErrorInv == IInv /\ ReadError => IInv'
<1> SUFFICES ASSUME IInv, ReadError PROVE IInv'
  OBVIOUS
<1>1. FramesOrdered' /\ FramesSized' /\ AskedFormed' /\ StreamEnd' = StreamEnd
  BY SameFrames DEF ReadError, line
<1>2. /\ pc' = "request" /\ mo' \in 1..NumObjects + 1
      /\ attempt' \in 0..REQUEST_ATTEMPTS - 1 /\ failed' = failed + 1 /\ failed' \in Nat
  <2>1. TypeOK /\ FailAttempt /\ mo \in Objects
    BY DEF IInv, ReadError, LastAsked
  <2> QED
    BY <2>1, FailAttemptType
<1>3. TypeOK'
  BY <1>1, <1>2 DEF IInv, TypeOK, ReadError, line
<1>4. LastAsked' /\ AnswerProgress'
  BY <1>2 DEF LastAsked, AnswerProgress
<1>5. Unread'
  <2>1. Accepted' = Accepted
    BY <1>2 DEF IInv, TypeOK, ReadError, line, Accepted
  <2> QED
    BY <2>1 DEF IInv, Unread, ReadError, line, Start
<1>6. GivenOK'
  BY DEF IInv, ReadError, GivenOK, LagBoundedByFailures, OwnRegisterUnlessFailed
<1> QED
  BY <1>1, <1>3, <1>4, <1>5, <1>6 DEF IInv

\* Reading on leaves mo.answer a prefix of what the loop waits for, completes
\* it, or drops it as an exception.
LEMMA ReadBytesInv == IInv /\ ReadBytes => IInv'
<1> SUFFICES ASSUME IInv, ReadBytes PROVE IInv'
  OBVIOUS
<1>1. FramesOrdered' /\ FramesSized' /\ AskedFormed' /\ StreamEnd' = StreamEnd
  BY SameFrames DEF ReadBytes, line
<1>2. /\ taken' \in 0..delivered /\ taken <= taken' /\ taken \in Nat /\ cleared \in 0..taken
      /\ delivered' = delivered /\ delivered \in Nat /\ pc = "read"
      /\ asked' = asked /\ served' = served /\ frames' = frames /\ given' = given
      /\ peer' = peer
  <2>1. /\ taken \in Nat /\ delivered \in Nat /\ taken < delivered /\ BuffSize \in Nat \ {0}
        /\ cleared \in 0..taken
    BY FrameFacts, PollAssumption DEF IInv, TypeOK, ReadBytes
  <2>2. taken' = IF delivered - taken <= BuffSize THEN delivered ELSE taken + BuffSize
    BY DEF ReadBytes
  <2>3. taken' \in 0..delivered /\ taken <= taken'
    BY <2>1, <2>2
  <2> QED
    BY <2>1, <2>3 DEF ReadBytes, line
<1>3. CASE cleared' = taken' /\ FailAttempt
  <2>1. /\ pc' = "request" /\ mo' \in 1..NumObjects + 1
        /\ attempt' \in 0..REQUEST_ATTEMPTS - 1 /\ failed' = failed + 1 /\ failed' \in Nat
    <3>1. TypeOK /\ FailAttempt /\ mo \in Objects
      BY <1>2, <1>3 DEF IInv, LastAsked
    <3> QED
      BY <3>1, FailAttemptType
  <2>2. TypeOK'
    BY <1>1, <1>2, <1>3, <2>1 DEF IInv, TypeOK
  <2>3. LastAsked' /\ AnswerProgress'
    BY <2>1 DEF LastAsked, AnswerProgress
  <2>4. Unread'
    <3>1. Accepted' = Accepted
      BY <1>2, <2>1 DEF IInv, TypeOK, Accepted
    <3>2. \A k \in DOMAIN frames : Start(k) \in Nat
      BY FrameFacts DEF IInv
    <3>3. cleared \in Nat /\ cleared' \in Nat /\ cleared <= cleared'
      BY <1>2, <1>3
    <3> QED
      BY <1>2, <3>1, <3>2, <3>3 DEF IInv, Unread, Start
  <2>5. GivenOK'
    BY <1>2 DEF IInv, GivenOK, LagBoundedByFailures, OwnRegisterUnlessFailed
  <2> QED
    BY <1>1, <2>2, <2>3, <2>4, <2>5 DEF IInv
<1>4. CASE /\ pc' = IF taken' - cleared < CalcNormalAnswFullLen(mo) THEN "read" ELSE "handle"
           /\ UNCHANGED <<mo, attempt, cleared, failed>>
  <2>1. TypeOK'
    BY <1>1, <1>2, <1>4 DEF IInv, TypeOK
  <2>2. LastAsked'
    BY <1>2, <1>4 DEF IInv, LastAsked
  <2>3. AnswerProgress'
    <3>1. /\ CalcNormalAnswFullLen(mo)' = CalcNormalAnswFullLen(mo)
          /\ AnswerSize' = taken' - cleared
      BY <1>4 DEF CalcNormalAnswFullLen, AnswerSize
    <3>2. CalcNormalAnswFullLen(mo) \in Int /\ taken' - cleared \in Int
      BY <1>2, PollAssumption DEF CalcNormalAnswFullLen, IInv, LastAsked
    <3> QED
      BY <1>4, <3>1, <3>2 DEF AnswerProgress
  <2>4. Unread'
    BY <1>2, <1>4 DEF IInv, Unread, Accepted, Start
  <2>5. GivenOK'
    BY <1>2, <1>4 DEF IInv, GivenOK, LagBoundedByFailures, OwnRegisterUnlessFailed
  <2> QED
    BY <1>1, <2>1, <2>2, <2>3, <2>4, <2>5 DEF IInv
<1> QED
  BY <1>3, <1>4 DEF ReadBytes

\* A frame that is accepted was sent for a request after the accepted ones.
LEMMA HandleAnswerInv == IInv /\ HandleAnswer => IInv'
<1> SUFFICES ASSUME IInv, HandleAnswer PROVE IInv'
  OBVIOUS
<1>1. FramesOrdered' /\ FramesSized' /\ AskedFormed' /\ StreamEnd' = StreamEnd
  BY SameFrames DEF HandleAnswer, line
<1>2. /\ pc = "handle" /\ pc' = "request" /\ mo' = mo + 1 /\ attempt' = 0
      /\ cleared' = taken /\ taken' = taken /\ delivered' = delivered /\ peer' = peer
      /\ asked' = asked /\ served' = served /\ frames' = frames
  BY DEF HandleAnswer, line
<1>3. /\ mo \in Objects /\ mo' \in 1..NumObjects + 1
      /\ asked # <<>> /\ asked[Len(asked)].reg = mo
  BY <1>2, PollAssumption DEF IInv, LastAsked, Objects
<1>4. LastAsked' /\ AnswerProgress'
  BY <1>2 DEF LastAsked, AnswerProgress
<1>5. /\ cleared \in Nat /\ taken \in Nat /\ cleared <= taken
      /\ served \in Nat /\ Len(asked) \in Nat /\ served <= Len(asked)
      /\ failed \in Nat /\ Accepted = Len(asked) - failed - 1
      /\ Accepted <= served
      /\ \A k \in DOMAIN frames : cleared <= Start(k) => Accepted < frames[k].req
      /\ REQUEST_ATTEMPTS \in Nat \ {0}
  <2>1. TypeOK /\ Unread
    BY DEF IInv
  <2>2. /\ cleared \in Nat /\ taken \in Nat /\ cleared <= taken /\ failed \in Nat
        /\ served \in Nat /\ Len(asked) \in Nat /\ served <= Len(asked)
    BY <2>1, PositionFacts
  <2>3. Accepted = Len(asked) - failed - 1
    BY <1>2, <2>2 DEF Accepted
  <2> QED
    BY <2>1, <2>2, <2>3, PollAssumption DEF Unread
<1>6. /\ DOMAIN frames = 1..Len(frames) /\ Len(frames) \in Nat
      /\ \A k \in DOMAIN frames : /\ frames[k].req \in 1..served /\ Start(k) \in Nat
                                  /\ frames[k].end \in Nat
  BY FrameFacts DEF IInv
<1>7. CASE \E k \in DOMAIN frames :
              /\ Passes(k)
              /\ given' = IF mo \in Handled
                            THEN [to |-> mo, of |-> asked[frames[k].req].reg,
                                  lag |-> Len(asked) - frames[k].req, failed |-> failed]
                            ELSE given
              /\ UNCHANGED failed
  <2>1. PICK k \in DOMAIN frames :
              /\ Passes(k)
              /\ given' = IF mo \in Handled
                            THEN [to |-> mo, of |-> asked[frames[k].req].reg,
                                  lag |-> Len(asked) - frames[k].req, failed |-> failed]
                            ELSE given
              /\ failed' = failed
    BY <1>7
  <2>2. Start(k) = cleared /\ frames[k].end = taken
    BY <2>1 DEF Passes
  <2>3. Accepted < frames[k].req
    <3>1. cleared <= Start(k)
      BY <1>5, <2>2
    <3> QED
      BY <1>5, <3>1
  <2>4. frames[k].req \in 1..Len(asked) /\ Len(asked) - frames[k].req <= failed
    <3>1. frames[k].req \in 1..served
      BY <1>6
    <3> QED
      BY <1>5, <2>3, <3>1
  <2>5. asked[frames[k].req].reg \in Objects
    BY <2>4, AskedFacts DEF IInv
  <2>6. TypeOK'
    <3>1. given' \in [to : 0..NumObjects, of : 0..NumObjects, lag : Nat, failed : Nat]
      <4>1. mo \in 0..NumObjects /\ asked[frames[k].req].reg \in 0..NumObjects
        BY <1>3, <2>5 DEF Objects
      <4>2. Len(asked) - frames[k].req \in Nat /\ failed \in Nat
        BY <1>5, <2>4
      <4>3. given \in [to : 0..NumObjects, of : 0..NumObjects, lag : Nat, failed : Nat]
        BY DEF IInv, TypeOK
      <4> QED
        BY <2>1, <4>1, <4>2, <4>3
    <3> QED
      BY <1>1, <1>2, <1>3, <1>5, <2>1, <3>1 DEF IInv, TypeOK
  <2>7. GivenOK'
    <3>1. failed = 0 => frames[k].req = Len(asked)
      BY <1>5, <2>4
    <3> QED
      BY <1>3, <2>1, <2>4, <3>1
         DEF IInv, GivenOK, LagBoundedByFailures, OwnRegisterUnlessFailed
  <2>8. Unread'
    <3>1. Accepted' = Accepted + 1 /\ Accepted \in Int
      BY <1>2, <1>5, <2>1 DEF Accepted
    <3>2. \A j \in DOMAIN frames : taken <= Start(j) => k < j
      <4> SUFFICES ASSUME NEW j \in DOMAIN frames, taken <= Start(j), j <= k PROVE FALSE
        BY <1>6
      <4>1. Start(j) < frames[j].end /\ frames[j].end <= frames[k].end
        BY <1>6 DEF IInv, FramesOrdered
      <4> QED
        BY <1>6, <2>2, <4>1
    <3>3. \A j \in DOMAIN frames : k < j => Accepted + 1 < frames[j].req
      <4> SUFFICES ASSUME NEW j \in DOMAIN frames, k < j
                   PROVE  Accepted + 1 < frames[j].req
        OBVIOUS
      <4>1. frames[k].req < frames[j].req
        BY DEF IInv, FramesOrdered
      <4>2. frames[k].req \in Nat /\ frames[j].req \in Nat
        BY <1>5, <1>6
      <4> QED
        BY <2>3, <3>1, <4>1, <4>2
    <3>4. Accepted + 1 <= served
      BY <1>5, <1>6, <2>3, <3>1
    <3> QED
      BY <1>2, <3>1, <3>2, <3>3, <3>4 DEF Unread, Start
  <2> QED
    BY <1>1, <1>4, <2>6, <2>7, <2>8 DEF IInv
<1>8. CASE failed' = failed + 1 /\ given' = given
  <2>1. TypeOK'
    BY <1>1, <1>2, <1>3, <1>5, <1>8 DEF IInv, TypeOK
  <2>2. GivenOK'
    BY <1>8 DEF IInv, GivenOK, LagBoundedByFailures, OwnRegisterUnlessFailed
  <2>3. Unread'
    <3>1. Accepted' = Accepted
      BY <1>2, <1>5, <1>8 DEF Accepted
    <3>2. \A j \in DOMAIN frames : taken <= Start(j) => Accepted < frames[j].req
      <4> SUFFICES ASSUME NEW j \in DOMAIN frames, taken <= Start(j) PROVE Accepted < frames[j].req
        OBVIOUS
      <4>1. Start(j) \in Nat
        BY <1>6
      <4>2. cleared <= Start(j)
        BY <1>5, <4>1
      <4> QED
        BY <1>5, <4>2
    <3> QED
      BY <1>2, <1>5, <3>1, <3>2 DEF Unread, Start
  <2> QED
    BY <1>1, <1>4, <2>1, <2>2, <2>3 DEF IInv
<1> QED
  BY <1>7, <1>8 DEF HandleAnswer

\* A new frame answers the oldest request that is still open.
LEMMA DeviceAnswersInv ==
    ASSUME IInv, NEW kind \in Kinds, DeviceAnswers(kind)
    PROVE  IInv'
<1> DEFINE new == [req |-> served + 1, kind |-> kind,
                   end |-> StreamEnd + FrameLen(kind, asked[served + 1].reg)]
<1>1. /\ frames' = Append(frames, new) /\ served' = served + 1 /\ served < Len(asked)
      /\ UNCHANGED <<pc, mo, attempt, asked, delivered, taken, cleared, peer, given, failed>>
  BY DEF DeviceAnswers, thread
<1>2. /\ served \in Nat /\ Len(asked) \in Nat /\ served + 1 \in DOMAIN asked
      /\ asked[served + 1].reg \in Objects
  <2>1. served \in Nat /\ served + 1 \in 1..Len(asked)
    BY <1>1, AskedFacts DEF IInv, TypeOK
  <2> QED
    BY <2>1, AskedFacts DEF IInv
<1>3. /\ FrameLen(kind, asked[served + 1].reg) \in Nat
      /\ FrameLen(kind, asked[served + 1].reg) > 0
  BY <1>2, FrameLenPositive
<1>4. /\ StreamEnd \in Nat /\ DOMAIN frames = 1..Len(frames) /\ Len(frames) \in Nat
      /\ \A k \in DOMAIN frames : /\ frames[k] \in Frame /\ frames[k].end \in 0..StreamEnd
                                  /\ frames[k].req \in 1..served /\ Start(k) \in Nat
  BY FrameFacts DEF IInv
<1>5. new \in Frame /\ new.end \in Nat /\ new.end > StreamEnd
  BY <1>2, <1>3, <1>4 DEF Frame
<1>6. /\ frames' \in Seq(Frame) /\ DOMAIN frames' = 1..Len(frames) + 1
      /\ Len(frames') = Len(frames) + 1
      /\ frames'[Len(frames) + 1] = new
      /\ \A k \in DOMAIN frames : frames'[k] = frames[k]
  BY <1>1, <1>4, <1>5 DEF IInv, TypeOK
<1>7. StreamEnd' = new.end
  BY <1>4, <1>6 DEF StreamEnd
<1>8. \A k \in DOMAIN frames' :
          Start(k)' = IF k = Len(frames) + 1 THEN StreamEnd ELSE Start(k)
  <2>1. \A k \in DOMAIN frames' : k # Len(frames) + 1 => Start(k)' = Start(k)
    BY <1>4, <1>6 DEF Start
  <2>2. \A k \in DOMAIN frames' : k = Len(frames) + 1 => Start(k)' = StreamEnd
    <3>1. frames = <<>> <=> Len(frames) = 0
      BY DEF IInv, TypeOK
    <3> QED
      BY <1>4, <1>6, <3>1 DEF Start, StreamEnd
  <2> QED
    BY <2>1, <2>2
<1>9. TypeOK'
  <2>1. served' \in 0..Len(asked')
    BY <1>1, <1>2
  <2>2. delivered' \in 0..StreamEnd'
    BY <1>1, <1>4, <1>5, <1>7 DEF IInv, TypeOK
  <2> QED
    BY <1>1, <1>6, <2>1, <2>2 DEF IInv, TypeOK
<1>10. FramesOrdered'
  <2>1. \A k \in DOMAIN frames' : Start(k)' < frames'[k].end /\ frames'[k].req \in 1..served'
    BY <1>1, <1>2, <1>4, <1>5, <1>6, <1>8 DEF IInv, FramesOrdered
  <2>2. \A j, k \in DOMAIN frames' : j < k =>
            frames'[j].end <= Start(k)' /\ frames'[j].req < frames'[k].req
    <3> SUFFICES ASSUME NEW j \in DOMAIN frames', NEW k \in DOMAIN frames', j < k
                 PROVE  frames'[j].end <= Start(k)' /\ frames'[j].req < frames'[k].req
      OBVIOUS
    <3>1. CASE k = Len(frames) + 1
      <4>1. j \in DOMAIN frames /\ frames'[j] = frames[j]
        BY <1>4, <1>6, <3>1
      <4>2. frames[j].end \in 0..StreamEnd /\ frames[j].req \in 1..served
        BY <1>4, <4>1
      <4>3. Start(k)' = StreamEnd
        BY <1>8, <3>1
      <4>4. frames'[k].req = served + 1
        BY <1>6, <3>1
      <4> QED
        BY <1>2, <1>4, <4>1, <4>2, <4>3, <4>4
    <3>2. CASE k # Len(frames) + 1
      BY <1>4, <1>6, <1>8, <3>2 DEF IInv, FramesOrdered
    <3> QED
      BY <3>1, <3>2
  <2> QED
    BY <2>1, <2>2 DEF FramesOrdered
<1>11. FramesSized'
  <2>1. new.end - StreamEnd = FrameLen(kind, asked[served + 1].reg)
    BY <1>3, <1>4
  <2>2. \A k \in DOMAIN frames :
            frames'[k].end - Start(k)' = FrameLen(frames'[k].kind, asked'[frames'[k].req].reg)
    BY <1>1, <1>6, <1>8 DEF IInv, FramesSized
  <2> QED
    BY <1>1, <1>4, <1>6, <1>8, <2>1, <2>2 DEF FramesSized
<1>12. AskedFormed' /\ LastAsked' /\ AnswerProgress' /\ GivenOK'
  BY <1>1 DEF IInv, AskedFormed, LastAsked, AnswerProgress, AnswerSize, GivenOK,
              LagBoundedByFailures, OwnRegisterUnlessFailed
<1>13. Unread'
  <2>1. Accepted' = Accepted /\ Accepted \in Int /\ Accepted <= served
    BY <1>1, AcceptedType DEF IInv, Accepted, Unread
  <2>2. \A k \in DOMAIN frames : cleared <= Start(k) => Accepted < frames[k].req
    BY DEF IInv, Unread
  <2>3. \A k \in DOMAIN frames' : cleared' <= Start(k)' => Accepted' < frames'[k].req
    BY <1>1, <1>2, <1>4, <1>6, <1>8, <2>1, <2>2
  <2> QED
    BY <1>1, <1>2, <2>1, <2>3 DEF Unread
<1> QED
  BY <1>9, <1>10, <1>11, <1>12, <1>13 DEF IInv

LEMMA LineLosesInv == IInv /\ LineLoses => IInv'
<1> SUFFICES ASSUME IInv, LineLoses PROVE IInv'
  OBVIOUS
<1>1. /\ served' = served + 1 /\ served < Len(asked) /\ served \in Nat /\ Len(asked) \in Nat
      /\ UNCHANGED <<pc, mo, attempt, asked, frames, delivered, taken, cleared, peer, given, failed>>
  BY DEF IInv, TypeOK, LineLoses, thread
<1>2. TypeOK'
  BY <1>1 DEF IInv, TypeOK, StreamEnd
<1>3. FramesOrdered'
  BY <1>1 DEF IInv, FramesOrdered, Start
<1>4. FramesSized' /\ AskedFormed' /\ LastAsked' /\ AnswerProgress' /\ GivenOK'
  BY <1>1 DEF IInv, FramesSized, Start, AskedFormed, LastAsked, AnswerProgress, AnswerSize,
              GivenOK, LagBoundedByFailures, OwnRegisterUnlessFailed
<1>5. Unread'
  <2>1. Accepted' = Accepted /\ Accepted \in Int
    BY <1>1, AcceptedType DEF IInv, Accepted
  <2> QED
    BY <1>1, <2>1 DEF IInv, Unread, Start
<1> QED
  BY <1>2, <1>3, <1>4, <1>5 DEF IInv

LEMMA DeliverInv == IInv /\ Deliver => IInv'
<1> SUFFICES ASSUME IInv, Deliver PROVE IInv'
  OBVIOUS
<1>1. UNCHANGED <<pc, mo, attempt, asked, served, frames, taken, cleared, peer, given, failed>>
  BY DEF Deliver, thread
<1>2. FramesOrdered' /\ FramesSized' /\ AskedFormed' /\ StreamEnd' = StreamEnd
  BY <1>1, SameFrames
<1>3. TypeOK'
  <2>1. delivered' \in 0..StreamEnd /\ delivered <= delivered' /\ delivered \in Nat
    <3>1. TypeOK /\ FramesOrdered
      BY DEF IInv
    <3>2. PICK k \in DOMAIN frames : delivered' \in delivered + 1..frames[k].end
      BY DEF Deliver
    <3>3. delivered \in Nat
      BY <3>1, PositionFacts
    <3>4. StreamEnd \in Nat /\ frames[k].end \in 0..StreamEnd
      BY <3>1, FrameFacts
    <3> QED
      BY <3>2, <3>3, <3>4
  <2> QED
    BY <1>1, <1>2, <2>1 DEF IInv, TypeOK
<1>4. LastAsked' /\ AnswerProgress' /\ Unread' /\ GivenOK'
  BY <1>1 DEF IInv, LastAsked, AnswerProgress, AnswerSize, Unread, Accepted, Start, GivenOK,
              LagBoundedByFailures, OwnRegisterUnlessFailed
<1> QED
  BY <1>2, <1>3, <1>4 DEF IInv

\* What the gateway does to the connection, and waiting at its end of file,
\* change nothing else.
LEMMA PeerInv ==
    ASSUME IInv, peer' \in {"open", "closed", "reset", "dead"},
           UNCHANGED <<pc, mo, attempt, asked, served, frames, delivered, taken, cleared, given, failed>>
    PROVE  IInv'
<1>1. FramesOrdered' /\ FramesSized' /\ AskedFormed' /\ StreamEnd' = StreamEnd
  BY SameFrames
<1>2. TypeOK'
  BY <1>1 DEF IInv, TypeOK
<1>3. LastAsked' /\ AnswerProgress' /\ Unread' /\ GivenOK'
  BY DEF IInv, LastAsked, AnswerProgress, AnswerSize, Unread, Accepted, Start, GivenOK,
         LagBoundedByFailures, OwnRegisterUnlessFailed
<1> QED
  BY <1>1, <1>2, <1>3 DEF IInv

LEMMA NextInv == IInv /\ [Next]_vars => IInv'
<1> SUFFICES ASSUME IInv, [Next]_vars PROVE IInv'
  OBVIOUS
<1>1. CASE OpenPort
  BY <1>1, OpenPortInv
<1>2. CASE SkipIdle
  BY <1>2, SkipIdleInv
<1>3. CASE Write
  BY <1>3, WriteInv
<1>4. CASE WriteFails
  BY <1>4, WriteFailsInv
<1>5. CASE WriteKills
  BY <1>5, WriteKillsInv
<1>6. CASE ReadBytes
  BY <1>6, ReadBytesInv
<1>7. CASE ReadError
  BY <1>7, ReadErrorInv
<1>8. CASE HandleAnswer
  BY <1>8, HandleAnswerInv
<1>9. CASE ClosePort
  BY <1>9, ClosePortInv
<1>10. CASE Restart
  BY <1>10, RestartInv
<1>11. ASSUME NEW kind \in Kinds, DeviceAnswers(kind) PROVE IInv'
  BY <1>11, DeviceAnswersInv
<1>12. CASE LineLoses
  BY <1>12, LineLosesInv
<1>13. CASE Deliver
  BY <1>13, DeliverInv
<1>14. CASE PeerCloses \/ PeerResets
  BY <1>14, PeerInv DEF PeerCloses, PeerResets, thread, line
<1>15. CASE ReadEof \/ UNCHANGED vars
  BY <1>15, PeerInv DEF IInv, TypeOK, ReadEof, vars
<1> QED
  BY <1>1, <1>2, <1>3, <1>4, <1>5, <1>6, <1>7, <1>8, <1>9, <1>10, <1>11, <1>12,
     <1>13, <1>14, <1>15 DEF Next, Exchange, Gateway

-----------------------------------------------------------------------------
(* Theorems *)

THEOREM Invariance == Spec => []IInv
<1>1. Init => IInv
  BY InitInv
<1>2. IInv /\ [Next]_vars => IInv'
  BY NextInv
<1> QED
  BY <1>1, <1>2, PTL DEF Spec

\* The variables keep their types: in particular mo.answer is always a run of
\* bytes that were read, and no byte is read before it arrived.
THEOREM TypeCorrect == Spec => []TypeOK
<1>1. IInv => TypeOK
  BY DEF IInv
<1> QED
  BY <1>1, Invariance, PTL

\* However the gateway delays, drops, corrupts or splits answers, a value that
\* is accepted is at most as many requests old as attempts have failed.
THEOREM LagBounded == Spec => []LagBoundedByFailures
<1>1. IInv => LagBoundedByFailures
  BY DEF IInv, GivenOK
<1> QED
  BY <1>1, Invariance, PTL

\* On a connection without a failed attempt every object gets its own register.
THEOREM OwnRegister == Spec => []OwnRegisterUnlessFailed
<1>1. IInv => OwnRegisterUnlessFailed
  BY DEF IInv, GivenOK
<1> QED
  BY <1>1, Invariance, PTL

-----------------------------------------------------------------------------
(* A good answer is never rejected, for the configurations whose fields    *)
(* fit the bytes of the protocol and whose answers are shorter than what   *)
(* modbus_exchange takes for an exception (one or two registers).          *)

FieldsFit ==
    /\ SlaveId <= 127
    /\ \A o \in Objects : /\ FuncNum[o] <= 255
                          /\ RegCount[o] <= 125
                          /\ CalcNormalAnswFullLen(o) < ExceptionLen

\* The due answer is as long as the current object's answers are, and nothing
\* follows it on the stream.
LEMMA DueAnswerLength ==
    ASSUME IInv, pc \in {"read", "handle"}, NEW k \in DOMAIN frames, IsDueAnswer(k)
    PROVE  /\ frames[k].end - cleared = CalcNormalAnswFullLen(mo)
           /\ delivered <= frames[k].end
<1>1. frames[k].req = Len(asked) /\ asked[Len(asked)].reg = mo
  BY DEF IInv, LastAsked, IsDueAnswer
<1>2. frames[k].end - Start(k) = FrameLen("normal", mo)
  BY <1>1 DEF IInv, FramesSized, IsDueAnswer
<1>3. k = Len(frames)
  <2>1. /\ k \in 1..Len(frames) /\ Len(frames) \in Nat /\ Len(frames) \in DOMAIN frames
        /\ frames[Len(frames)].req \in 1..served
        /\ served \in 0..Len(asked) /\ Len(asked) \in Nat
    <3>1. TypeOK /\ FramesOrdered
      BY DEF IInv
    <3>2. DOMAIN frames = 1..Len(frames) /\ Len(frames) \in Nat
      BY <3>1, FrameFacts
    <3>3. k \in 1..Len(frames) /\ Len(frames) \in DOMAIN frames
      BY <3>2
    <3>4. frames[Len(frames)].req \in 1..served
      BY <3>1, <3>3, FrameFacts
    <3>5. served \in 0..Len(asked) /\ Len(asked) \in Nat
      BY <3>1, PositionFacts
    <3> QED
      BY <3>2, <3>3, <3>4, <3>5
  <2>2. k < Len(frames) => frames[k].req < frames[Len(frames)].req
    BY <2>1 DEF IInv, FramesOrdered
  <2> QED
    BY <1>1, <2>1, <2>2
<1>4. delivered <= StreamEnd /\ StreamEnd = frames[k].end
  BY <1>3, FrameFacts DEF IInv, TypeOK, StreamEnd
<1> QED
  BY <1>2, <1>4 DEF IsDueAnswer, FrameLen

\* data_handling accepts the due answer.
LEMMA DueAnswerPasses ==
    ASSUME FieldsFit, IInv, pc = "handle", NEW k \in DOMAIN frames, IsDueAnswer(k)
    PROVE  Passes(k)
<1>1. /\ frames[k].req = Len(asked) /\ frames[k].kind = "normal"
      /\ Start(k) = cleared /\ frames[k].end = taken
  <2>1. /\ taken \in Nat /\ delivered \in Nat /\ cleared \in Nat
        /\ taken <= delivered /\ frames[k].end \in Nat
    BY FrameFacts DEF IInv, TypeOK
  <2>2. taken - cleared >= CalcNormalAnswFullLen(mo)
    BY DEF IInv, AnswerProgress, AnswerSize
  <2>3. CalcNormalAnswFullLen(mo) = frames[k].end - cleared /\ delivered <= frames[k].end
    BY DueAnswerLength
  <2>4. frames[k].end = taken
    BY <2>1, <2>2, <2>3
  <2> QED
    BY <2>4 DEF IsDueAnswer
<1>2. mo \in Objects /\ asked[Len(asked)].reg = mo /\ Len(asked) \in DOMAIN asked
  BY AskedFacts DEF IInv, LastAsked, TypeOK
<1>3. asked[Len(asked)] = CreateModBusADU(mo)
  BY <1>2 DEF IInv, AskedFormed
<1>4. /\ SlaveId \in Nat /\ SlaveId <= 127 /\ FuncNum[mo] \in Nat /\ FuncNum[mo] <= 255
      /\ RegCount[mo] \in Nat /\ RegCount[mo] <= 125
  BY <1>2, PollAssumption DEF FieldsFit
<1>5. /\ (SlaveId + 128) % 256 = SlaveId + 128 /\ FuncNum[mo] % 256 = FuncNum[mo]
      /\ (2 * RegCount[mo]) % 256 = 2 * RegCount[mo]
  BY <1>4
<1>6. /\ asked[frames[k].req].addr = SlaveId + 128
      /\ asked[frames[k].req].fun = FuncNum[mo]
      /\ asked[frames[k].req].reg = mo
  BY <1>1, <1>3, <1>5 DEF CreateModBusADU
<1>7. CalcNormalAnswFullLen(mo) - 2 < 256
  BY <1>4 DEF CalcNormalAnswFullLen
<1>8. asked[frames[k].req].reg = mo
  BY <1>6
<1>9. (2 * RegCount[asked[frames[k].req].reg]) % 256 = 2 * RegCount[mo]
  BY <1>5, <1>8
<1>10. CalcNormalAnswFullLen(asked[frames[k].req].reg) - 2 < 256
  BY <1>7, <1>8
<1> QED
  BY <1>1, <1>6, <1>9, <1>10, Zenon DEF Passes

\* Bytes read so far stay below a length that the whole frame stays below.
LEMMA Below ==
    ASSUME NEW upto \in Nat, NEW arrived \in Nat, NEW end \in Nat, NEW start \in Nat,
           NEW len \in Nat, upto <= arrived, arrived <= end, end - start < len
    PROVE  upto - start < len
OBVIOUS

\* Neither the exception test, nor a timeout after the last byte, nor
\* data_handling rejects an answer that arrives in step with its request.
THEOREM GoodAnswerKept ==
    ASSUME FieldsFit
    PROVE  Spec => GoodAnswerNotRejected
<1> DEFINE Waited(k) == pc = "read" /\ taken' = taken /\ taken < frames[k].end
<1> DEFINE Kept == failed' = failed + 1 /\ pc \in {"read", "handle"}
                      => \A k \in DOMAIN frames : IsDueAnswer(k) => Waited(k)
<1>1. IInv /\ [Next]_vars => Kept
  <2> SUFFICES ASSUME IInv, [Next]_vars, failed' = failed + 1, pc \in {"read", "handle"},
                      NEW k \in DOMAIN frames, IsDueAnswer(k)
               PROVE  Waited(k)
    OBVIOUS
  <2>1. /\ failed \in Nat /\ taken \in Nat /\ delivered \in Nat /\ cleared \in Nat
        /\ mo \in Objects /\ frames[k].end \in Nat
    <3>1. TypeOK /\ FramesOrdered /\ LastAsked
      BY DEF IInv
    <3>2. frames[k].end \in 0..StreamEnd
      BY <3>1, FrameFacts
    <3>3. mo \in Objects
      BY <3>1 DEF LastAsked
    <3>4. failed \in Nat /\ taken \in Nat /\ delivered \in Nat /\ cleared \in Nat
      BY <3>1, PositionFacts
    <3> QED
      BY <3>2, <3>3, <3>4
  <2>2. CalcNormalAnswFullLen(mo) = frames[k].end - cleared /\ delivered <= frames[k].end
    BY DueAnswerLength
  <2>3. CASE ReadBytes
    <3>1. taken' - cleared = ExceptionLen
      <4> SUFFICES ASSUME taken' - cleared # ExceptionLen PROVE FALSE
        OBVIOUS
      <4>1. failed' # failed
        BY <2>1
      <4>2. TRUE \notin {FALSE}
        OBVIOUS
      <4> QED
        BY <2>3, <4>1, <4>2, Zenon DEF ReadBytes
    <3>2. taken' \in Nat /\ taken' <= delivered
      BY <2>1, <2>3, PollAssumption DEF ReadBytes
    <3>3. CalcNormalAnswFullLen(mo) < ExceptionLen /\ ExceptionLen \in Nat
      BY <2>1, PollAssumption DEF FieldsFit
    <3>4. frames[k].end - cleared < ExceptionLen
      BY <2>2, <3>3
    <3>5. frames[k].end \in Nat /\ delivered \in Nat /\ cleared \in Nat
      BY <2>1
    <3>6. taken' - cleared < ExceptionLen
      BY <2>2, <3>2, <3>3, <3>4, <3>5, Below
    <3> QED
      BY <3>1, <3>3, <3>6
  <2>4. CASE ReadError
    <3>1. taken' = taken /\ pc = "read"
      BY <2>4 DEF ReadError
    <3>2. taken - cleared < CalcNormalAnswFullLen(mo)
      BY <3>1 DEF IInv, AnswerProgress, AnswerSize
    <3>3. taken < frames[k].end
      BY <2>1, <2>2, <3>2
    <3> QED
      BY <3>1, <3>3
  <2>5. CASE HandleAnswer
    <3>1. pc = "handle"
      BY <2>5 DEF HandleAnswer
    <3>2. Passes(k)
      BY <3>1, DueAnswerPasses
    <3>3. failed' = failed
      BY <2>5, <3>2 DEF HandleAnswer
    <3> QED
      BY <2>1, <3>3
  <2>6. CASE SkipIdle \/ Write \/ WriteFails \/ WriteKills \/ ClosePort \/ OpenPort \/ Restart
    BY <2>6 DEF SkipIdle, Write, WriteFails, WriteKills, ClosePort, OpenPort, Restart
  <2>7. CASE Gateway \/ ReadEof \/ UNCHANGED vars
    <3>1. failed' = failed
      BY <2>7 DEF Gateway, DeviceAnswers, LineLoses, Deliver, PeerCloses, PeerResets, ReadEof, vars
    <3> QED
      BY <2>1, <3>1
  <2> QED
    BY <2>3, <2>4, <2>5, <2>6, <2>7 DEF Next, Exchange
<1> QED
  BY <1>1, Invariance, PTL DEF Spec, GoodAnswerNotRejected

-----------------------------------------------------------------------------
(* The refinement: every step of the thread is a step of PollCycle or      *)
(* changes nothing PollCycle sees.                                         *)

\* What the mapping needs besides the invariant: only an object that is not
\* switched off is asked, and only the object being asked has had attempts.
TurnKept == pc \in {"read", "handle"} \/ attempt # 0 => mo \in Objects \ Idle

\* After a failed attempt it is the same object's turn, or no attempt is used.
LEMMA TurnNext == IInv /\ TurnKept /\ [Next]_vars => TurnKept'
<1> SUFFICES ASSUME IInv, TurnKept, [Next]_vars PROVE TurnKept'
  OBVIOUS
<1> USE DEF TurnKept
<1>1. CASE FailAttempt /\ mo \in Objects \ Idle
  BY <1>1 DEF FailAttempt
<1>2. CASE OpenPort \/ Restart \/ HandleAnswer
  BY <1>2 DEF OpenPort, Restart, HandleAnswer
<1>3. CASE SkipIdle \/ ClosePort
  BY <1>3 DEF SkipIdle, ClosePort
<1>4. CASE Write \/ WriteKills
  BY <1>4 DEF Write, WriteKills
<1>5. CASE WriteFails \/ ReadError
  BY <1>1, <1>5 DEF WriteFails, ReadError
<1>6. CASE ReadBytes
  <2>1. mo \in Objects \ Idle
    BY <1>6 DEF ReadBytes
  <2>2. FailAttempt \/ (mo' = mo)
    BY <1>6 DEF ReadBytes
  <2> QED
    BY <1>1, <2>1, <2>2
<1>7. CASE Gateway \/ ReadEof \/ UNCHANGED vars
  <2>1. UNCHANGED <<pc, mo, attempt>>
    BY <1>7 DEF Gateway, DeviceAnswers, LineLoses, Deliver, PeerCloses, PeerResets, thread,
               ReadEof, vars
  <2> QED
    BY <2>1
<1> QED
  BY <1>2, <1>3, <1>4, <1>5, <1>6, <1>7 DEF Next, Exchange

\* A failed attempt of the object whose turn it is: PollCycle's Retry or GiveUp.
LEMMA FailAttemptMaps ==
    ASSUME IInv, FailAttempt, mo \in Objects \ Idle,
           pc \in {"request", "read"}, given' = given
    PROVE  Cycle!Retry \/ Cycle!GiveUp
<1>1. Cycle!Asked
  BY DEF Cycle!Asked, Objects
<1>2. pc' = "request" /\ failed' = failed + 1
  BY DEF FailAttempt
<1>3. CASE attempt + 1 < REQUEST_ATTEMPTS /\ attempt' = attempt + 1 /\ mo' = mo
  BY <1>1, <1>2, <1>3 DEF Cycle!Retry
<1>4. CASE attempt' = 0 /\ mo' = mo + 1
  BY <1>1, <1>2, <1>4 DEF Cycle!GiveUp, Cycle!NextObject
<1> QED
  BY <1>3, <1>4 DEF FailAttempt

\* An answer is handled: PollCycle's Value, with a lag the cycle's failures
\* explain, or GiveUp.
LEMMA HandleAnswerMaps ==
    ASSUME IInv, TurnKept, IInv', HandleAnswer
    PROVE  Cycle!Value \/ Cycle!GiveUp
<1>1. pc = "handle" /\ pc' = "request" /\ mo' = mo + 1 /\ attempt' = 0
  BY DEF HandleAnswer
<1>2. Cycle!Asked /\ Cycle!NextObject
  BY <1>1 DEF TurnKept, Cycle!Asked, Cycle!NextObject, Objects
<1>3. CASE failed' = failed + 1 /\ given' = given
  BY <1>1, <1>2, <1>3 DEF Cycle!GiveUp
<1>4. CASE \E k \in DOMAIN frames :
              /\ given' = IF mo \in Handled
                            THEN [to |-> mo, of |-> asked[frames[k].req].reg,
                                  lag |-> Len(asked) - frames[k].req, failed |-> failed]
                            ELSE given
              /\ failed' = failed
  <2>1. CASE mo \notin Handled
    BY <1>1, <1>2, <1>4, <2>1 DEF Cycle!Value
  <2>2. CASE mo \in Handled
    <3>1. given'.to = mo /\ given'.failed = failed /\ failed' = failed
      BY <1>4, <2>2
    <3>2. given'.lag \in Nat /\ given'.lag <= failed /\ failed \in Nat
      BY <3>1 DEF IInv, TypeOK, GivenOK, LagBoundedByFailures
    <3>3. given'.lag \in 0..failed
      BY <3>2
    <3> QED
      BY <1>1, <1>2, <2>2, <3>1, <3>3 DEF Cycle!Value
  <2> QED
    BY <2>1, <2>2
<1> QED
  BY <1>3, <1>4 DEF HandleAnswer

\* Every step maps to a step of PollCycle or to none.
LEMMA StepMaps ==
    ASSUME IInv, TurnKept, IInv', [Next]_vars
    PROVE  [Cycle!Next]_(Cycle!vars)
<1>1. CASE OpenPort
  BY <1>1 DEF OpenPort, NoValue, Cycle!Next, Cycle!Begin
<1>2. CASE Restart
  BY <1>2 DEF Restart, NoValue, Cycle!Next, Cycle!Restart
<1>3. CASE SkipIdle
  <2>1. attempt = 0
    BY <1>3 DEF SkipIdle, TurnKept
  <2>2. Cycle!Skip
    BY <1>3, <2>1 DEF SkipIdle, Cycle!Skip, Cycle!NextObject
  <2> QED
    BY <2>2 DEF Cycle!Next
<1>4. CASE Write
  BY <1>4 DEF Write, Cycle!vars
<1>5. CASE WriteFails \/ ReadError
  <2>1. /\ FailAttempt /\ mo \in Objects \ Idle /\ pc \in {"request", "read"}
        /\ given' = given
    BY <1>5 DEF WriteFails, ReadError, TurnKept
  <2> QED
    BY <2>1, FailAttemptMaps DEF Cycle!Next
<1>6. CASE WriteKills
  <2>1. Cycle!Die
    BY <1>6 DEF WriteKills, Cycle!Die, Cycle!Asked, Objects
  <2> QED
    BY <2>1 DEF Cycle!Next
<1>7. CASE ReadBytes
  <2>1. pc = "read" /\ mo \in Objects \ Idle /\ given' = given
    BY <1>7 DEF ReadBytes, TurnKept
  <2>2. CASE FailAttempt
    BY <2>1, <2>2, FailAttemptMaps DEF Cycle!Next
  <2>3. CASE pc' \in {"read", "handle"} /\ UNCHANGED <<mo, attempt, failed>>
    BY <2>1, <2>3 DEF Cycle!vars
  <2> QED
    BY <1>7, <2>2, <2>3 DEF ReadBytes
<1>8. CASE HandleAnswer
  BY <1>8, HandleAnswerMaps DEF Cycle!Next
<1>9. CASE ClosePort
  <2>1. mo = NumObjects + 1 /\ pc = "request" /\ pc' = "sleep"
        /\ UNCHANGED <<mo, attempt, given, failed>>
    BY <1>9, PollAssumption DEF ClosePort, IInv, TypeOK, Objects
  <2>2. Cycle!End
    BY <2>1 DEF Cycle!End
  <2> QED
    BY <2>2 DEF Cycle!Next
<1>10. CASE Gateway \/ ReadEof \/ UNCHANGED vars
  <2>1. UNCHANGED <<pc, mo, attempt, given, failed>>
    BY <1>10 DEF Gateway, DeviceAnswers, LineLoses, Deliver, PeerCloses, PeerResets, thread,
                ReadEof, vars
  <2> QED
    BY <2>1 DEF Cycle!vars
<1> QED
  BY <1>1, <1>2, <1>3, <1>4, <1>5, <1>6, <1>7, <1>8, <1>9, <1>10 DEF Next, Exchange

\* The loop of ReadDataFromDevice implements PollCycle: the objects are asked
\* in order and those switched off never, with at most REQUEST_ATTEMPTS
\* attempts and one value each, and no value is older than the failures of its
\* cycle explain, for every configuration and whatever the gateway does.
THEOREM CycleImplemented == Spec => ImplementsCycle
<1>1. Init => Cycle!Init /\ TurnKept
  BY DEF Init, NoValue, TurnKept, Cycle!Init
<1>2. IInv /\ TurnKept /\ [Next]_vars => IInv' /\ TurnKept'
  BY NextInv, TurnNext
<1>3. IInv /\ TurnKept /\ IInv' /\ [Next]_vars => [Cycle!Next]_(Cycle!vars)
  BY StepMaps
<1> QED
  BY <1>1, <1>2, <1>3, Invariance, PTL DEF Spec, ImplementsCycle, Cycle!Spec
=============================================================================
