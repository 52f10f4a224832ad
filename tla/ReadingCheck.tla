---------------------------- MODULE ReadingCheck ----------------------------
(***************************************************************************)
(* What UpsDaemon takes for granted of the handlers, as a property of      *)
(* SmartHandler: UpsDaemon abstracts a published value to the time it was  *)
(* read, whatever the two bytes of the register were.                      *)
(***************************************************************************)
EXTENDS UpsDaemon, SmartHandler

Words == 0..65535
Values == (-32768)..32767

ValuesDecoded ==
    \A value \in Values : SmartHandlerAnalog(Register(value % 65536)) = value

FlagsDecoded == \A word \in Words :
    /\ SmartHandlerFaultStatus(Register(word)) = Conditions(word, FaultWeights)
    /\ SmartHandlerSystemStatus(Register(word)) = Conditions(word, SystemWeights)
    /\ SmartHandlerChargingStatus(Register(word)) = Conditions(word, ChargingWeights)

\* What HandledData holds is what the device sent: values are decoded as they
\* are, negative ones (a discharging battery, frost) and both bytes included, and
\* flags whatever the bits are set to that no handler reports.
ReadingsDecoded == Reported # {} => ValuesDecoded /\ FlagsDecoded
=============================================================================
