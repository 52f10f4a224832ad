---------------------------- MODULE MCModbusPoll ----------------------------
(* Two polled objects that share a function code and a register count, as  *)
(* READ_VIN and READ_VOUT of the shipped configuration do, and one that is *)
(* switched off. The frame check is tried on answers with one register.    *)
EXTENDS FrameCheck

MCFuncNum == [o \in 1..3 |-> 4]
MCRegCount == [o \in 1..3 |-> 1]

MCContents == {<<Byte(3), Byte(4), Byte(2), Byte(high), Byte(low)>> : high \in {0, 255}, low \in {0, 90}}
=============================================================================
