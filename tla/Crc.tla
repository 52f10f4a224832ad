--------------------------------- MODULE Crc ---------------------------------
(***************************************************************************)
(* The frame check of the serial Modbus: calc_crc16 (crc.cpp) and the test *)
(* of ModbusObject::data_handling that uses it. A byte and a CRC are the   *)
(* sets of the numbers of their bits that are 1, bit 0 being the lowest:   *)
(* `^' is SymDiff, and `>> 1' loses bit 0.                                 *)
(***************************************************************************)
EXTENDS Integers, SequencesExt

Byte(n) == {j \in 0..7 : (n \div 2^j) % 2 = 1}

AllOnes == 0..15            \* 0xFFFF
Polynomial == {0, 13, 15}   \* 0xA001

\* One round of the inner loop.
Round(crc, j) ==
    LET shifted == {b - 1 : b \in crc \ {0}}
    IN  IF 0 \in crc THEN SymDiff(shifted, Polynomial) ELSE shifted

\* crc ^= ptr[i], and eight rounds.
AddByte(crc, byte) == FoldLeft(Round, SymDiff(crc, byte), <<0, 1, 2, 3, 4, 5, 6, 7>>)

\* The outer loop, over all the bytes: the CRC of Modbus.
Crc16(bytes, crc) == FoldLeft(AddByte, crc, bytes)

\* Mutant: the last byte is left out.
calc_crc16_OffByOne(bytes, crc) == Crc16(SubSeq(bytes, 1, (Len(bytes) % 256) - 1), crc)

\* Its parameter `len' is a uint8_t: of 256 bytes and more only so many at the
\* beginning are counted.
calc_crc16(bytes, crc) == Crc16(SubSeq(bytes, 1, Len(bytes) % 256), crc)

\* CrcCalcB0 and CrcCalcB1: the low byte comes first.
CrcBytes(crc) == <<crc \cap 0..7, {b - 8 : b \in crc \cap 8..15}>>

\* data_handling's last check of an answer.
CrcMatches(answer) ==
    LET size == Len(answer)
    IN  CrcBytes(calc_crc16(SubSeq(answer, 1, size - 2), AllOnes)) = SubSeq(answer, size - 1, size)

-----------------------------------------------------------------------------
\* A frame as the device sends it, and as it arrives when the line inverts
\* `wrong', a set of bits counted in the order they are sent.
Framed(bytes) == bytes \o CrcBytes(Crc16(bytes, AllOnes))
Garble(frame, wrong) ==
    [i \in DOMAIN frame |->
        SymDiff(frame[i], {j \in 0..7 : 8 * (i - 1) + j \in wrong})]

\* The errors of the line in that many bits: one or two wrong bits less than `span'
\* apart, or any others within `width' bits in a row.
Errors(bits, span, width) ==
    LET pairs == UNION {{{i, i + d} : d \in {d \in 0..span - 1 : i + d < bits}} : i \in 0..bits - 1}
        bursts == UNION {{{i + k : k \in burst} : burst \in (SUBSET (0..width - 1)) \ {{}}} : i \in 0..bits - width}
    IN  pairs \cup bursts
=============================================================================
