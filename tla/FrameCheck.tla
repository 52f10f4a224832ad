----------------------------- MODULE FrameCheck -----------------------------
(***************************************************************************)
(* What ModbusPoll takes for granted of the frame check, as a property of  *)
(* Crc: Passes(k) there says that data_handling's CRC accepts what the     *)
(* device sent and rejects what the RS-485 line garbled.                   *)
(***************************************************************************)
EXTENDS ModbusPoll, Crc

CONSTANTS
    Contents,       \* answers without their CRC, each a sequence of bytes
    PairSpan,       \* two wrong bits are less than this apart,
    BurstWidth      \* more than two are in so many bits in a row

\* A generator of degree 16 finds every burst of 16 bits; two bits may be 56 apart
\* and less, the length of the frames with one register. calc_crc16 counts at most
\* 255 bytes: more fail the check as they were sent, which Passes says for itself.
ASSUME FrameAssumption ==
    /\ Contents \subseteq Seq(SUBSET (0..7))
    /\ \A answer \in Contents : Len(answer) < 256
    /\ PairSpan \in 0..56
    /\ BurstWidth \in 0..16

SentAccepted == \A answer \in Contents : CrcMatches(Framed(answer))

ErrorsFound ==
    \A answer \in Contents :
        LET frame == Framed(answer)
        IN  \A wrong \in Errors(8 * Len(frame), PairSpan, BurstWidth) : ~CrcMatches(Garble(frame, wrong))

\* What Passes takes for granted of the two kinds of frames with registers:
\* data_handling's CRC accepts an answer as it was sent, and rejects one the
\* RS-485 line garbled.
GarbledRejected == \A k \in DOMAIN frames :
    /\ frames[k].kind = "normal" => SentAccepted
    /\ frames[k].kind = "garbled" => ErrorsFound
=============================================================================
