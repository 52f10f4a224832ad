---------------------------- MODULE SmartHandler ----------------------------
(***************************************************************************)
(* What the handlers of SmartHandler.cpp publish for the two bytes of a    *)
(* register, in the order they arrive. The text of a flag is its truth     *)
(* value; a measured value is the number the coefficient is applied to.    *)
(***************************************************************************)
EXTENDS Integers

\* std::bitset<8>::operator[], the bits' weights written out.
Weight == <<1, 2, 4, 8, 16, 32, 64, 128>>
Carries(word, weight) == (word \div weight) % 2 = 1
Bit(byte, i) == Carries(byte, Weight[i + 1])
Flags(byte, table) == {name \in DOMAIN table : Bit(byte, table[name])}

\* bsLowByte = *(buf + 1), bsHighByte = *buf.
SmartHandlerFaultStatus(buf) ==
    Flags(buf[2], [OTP |-> 1, OVP |-> 2, OLP |-> 3, SHORT |-> 4, AC_FAIL |-> 5,
                   OP_OFF |-> 6, HI_TEMP |-> 7])

SmartHandlerSystemStatus(buf) ==
    Flags(buf[2], [DC_OK |-> 1, INITIAL_STATE |-> 5, EEPER |-> 6, CHG_UPS |-> 7])

\* FVM, NTCER and BUFFTOF are commented out.
SmartHandlerChargingStatus(buf) ==
    Flags(buf[2], [FULLM |-> 0, CCM |-> 1, CVM |-> 2, DCM |-> 7])
        \cup Flags(buf[1], [BTNC |-> 3])

\* memcpy into an int16_t of a little-endian machine.
Signed16(word) == IF word < 32768 THEN word ELSE word - 65536
Loaded(buf) == buf[1] + 256 * buf[2]

\* Mutant: the bytes are not swapped.
bswap16_Missing(word) == word

bswap16(word) == 256 * (word % 256) + word \div 256

\* update() loads the bytes and handle() swaps them, once for each answer.
SmartHandlerAnalog(buf) == Signed16(bswap16(Loaded(buf)))

-----------------------------------------------------------------------------
(* The device's side: the registers are sent with the high byte first.     *)

Register(word) == <<word \div 256, word % 256>>

\* The conditions of the status registers and the weights of their bits in a
\* register, as the comments of SmartHandler.cpp:19-45 and 151-165 list them.
FaultWeights == [OTP |-> 2, OVP |-> 4, OLP |-> 8, SHORT |-> 16, AC_FAIL |-> 32,
                 OP_OFF |-> 64, HI_TEMP |-> 128]
SystemWeights == [DC_OK |-> 2, INITIAL_STATE |-> 32, EEPER |-> 64, CHG_UPS |-> 128]

\* SmartHandler.cpp:239: without a battery the high byte is 00001000.
ChargingWeights == [FULLM |-> 1, CCM |-> 2, CVM |-> 4, DCM |-> 128, BTNC |-> 2048]

\* What holds of a device whose register is `word'.
Conditions(word, weights) == {name \in DOMAIN weights : Carries(word, weights[name])}
=============================================================================
