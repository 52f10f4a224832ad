------------------------------ MODULE PollCycle ------------------------------
(***************************************************************************)
(* What a polling cycle promises, whatever the gateway and the line do:    *)
(* the objects are asked in their configured order, those switched off     *)
(* never; an object gets at most REQUEST_ATTEMPTS attempts and at most one *)
(* value; one that gives no value does not keep the next from being asked; *)
(* and a value answers a request no older than the failures of the cycle   *)
(* explain.                                                                *)
(***************************************************************************)
EXTENDS Integers

CONSTANTS
    NumObjects,         \* modbus_objects.size()
    Idle,               \* the objects whose action is e_action::idle
    Handled,            \* the objects for which create_smart_handler makes one
    REQUEST_ATTEMPTS    \* attempts of one RequestAndAnswer

VARIABLES
    state,      \* "sleep", "cycle", or "killed" by a signal
    at,         \* the object whose turn it is
    tries,      \* attempts it has had
    failures,   \* attempts of this cycle that gave no value
    latest      \* the object that got the last value of this cycle, and how
                \* many requests older than the last one the answer is

vars == <<state, at, tries, failures, latest>>

Init ==
    /\ state = "sleep"
    /\ at = 1
    /\ tries = 0
    /\ failures = 0
    /\ latest = [to |-> 0, lag |-> 0]

\* Every cycle starts anew, with the first object and without old answers.
Begin ==
    /\ state = "sleep"
    /\ state' = "cycle"
    /\ at' = 1
    /\ tries' = 0
    /\ failures' = 0
    /\ latest' = [to |-> 0, lag |-> 0]

\* The object's turn is over.
NextObject ==
    /\ at' = at + 1
    /\ tries' = 0

Asked == state = "cycle" /\ at \in 1..NumObjects \ Idle

Skip ==
    /\ state = "cycle"
    /\ at \in Idle
    /\ NextObject
    /\ UNCHANGED <<state, failures, latest>>

\* An attempt fails and another one is left.
Retry ==
    /\ Asked
    /\ tries + 1 < REQUEST_ATTEMPTS
    /\ tries' = tries + 1
    /\ failures' = failures + 1
    /\ UNCHANGED <<state, at, latest>>

\* The last attempt fails, or an answer came that no attempt is made up for.
GiveUp ==
    /\ Asked
    /\ NextObject
    /\ failures' = failures + 1
    /\ UNCHANGED <<state, latest>>

Value ==
    /\ Asked
    /\ NextObject
    /\ IF at \in Handled
         THEN \E lag \in 0..failures : latest' = [to |-> at, lag |-> lag]
         ELSE latest' = latest
    /\ UNCHANGED <<state, failures>>

End ==
    /\ state = "cycle"
    /\ at = NumObjects + 1
    /\ state' = "sleep"
    /\ UNCHANGED <<at, tries, failures, latest>>

\* SIGPIPE ends the process between two attempts.
Die ==
    /\ Asked
    /\ state' = "killed"
    /\ UNCHANGED <<at, tries, failures, latest>>

Restart ==
    /\ state = "killed"
    /\ state' = "sleep"
    /\ at' = 1
    /\ tries' = 0
    /\ failures' = 0
    /\ latest' = [to |-> 0, lag |-> 0]

Next == Begin \/ Skip \/ Retry \/ GiveUp \/ Value \/ End \/ Die \/ Restart

Spec == Init /\ [][Next]_vars
=============================================================================
