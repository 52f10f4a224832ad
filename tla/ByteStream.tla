----------------------------- MODULE ByteStream -----------------------------
(***************************************************************************)
(* What a generated HTTP response promises its client: the bytes the       *)
(* response_generator produces, each once and in order, and the end of the *)
(* stream only after the last of them. Byte n is the n-th byte generated.  *)
(***************************************************************************)
EXTENDS Integers

VARIABLES
    produced,   \* bytes the generator has produced
    complete,   \* whether the generator has no more
    out,        \* the last byte handed to the client's connection
    ended       \* whether the client was told that the response is over

streamVars == <<produced, complete, out, ended>>

StreamInit == produced = 0 /\ complete = FALSE /\ out = 0 /\ ended = FALSE

Produce ==
    /\ ~complete
    /\ produced' \in {n \in Nat : n >= produced}
    /\ complete' \in BOOLEAN
    /\ UNCHANGED <<out, ended>>

\* The next bytes, at least one of them.
Send ==
    /\ ~ended
    /\ out < produced
    /\ out' \in out + 1 .. produced
    /\ UNCHANGED <<produced, complete, ended>>

Finish ==
    /\ complete
    /\ out = produced
    /\ ended' = TRUE
    /\ UNCHANGED <<produced, complete, out>>

StreamSpec == StreamInit /\ [][Produce \/ Send \/ Finish]_streamVars
=============================================================================
