------------------------------ MODULE RestText ------------------------------
(***************************************************************************)
(* What rest_server does to the bytes of a text: the check of arguments    *)
(* (valid_utf8) and the shortened copy that goes to the log                *)
(* (log_append_pair). A text is a sequence of numbers below 256.           *)
(***************************************************************************)
EXTENDS Integers, SequencesExt

Continuation == 128..191

\* The byte after the last one of c_str() is 0.
ByteAt(text, i) == IF i > Len(text) THEN 0 ELSE text[i]

\* How many bytes have to follow a first byte that may be one.
Following(first) ==
    IF first < 192 THEN 0 ELSE IF first < 224 THEN 1 ELSE IF first < 240 THEN 2 ELSE 3

\* Mutant: the last of the bytes that have to follow is not looked at.
valid_utf8_LastUnseen(text) ==
    LET valid[i \in 1..Len(text) + 5] ==
            \/ ByteAt(text, i) = 0
            \/ /\ ByteAt(text, i) \in 0..247 \ Continuation
               /\ \A k \in 1..Following(text[i]) - 1 : ByteAt(text, i + k) \in Continuation
               /\ valid[i + Following(text[i]) + 1]
    IN  valid[1]

\* Everything up to the first zero byte is made of whole characters.
valid_utf8(text) ==
    LET valid[i \in 1..Len(text) + 1] ==
            \/ ByteAt(text, i) = 0
            \/ /\ ByteAt(text, i) \in 0..247 \ Continuation
               /\ \A k \in 1..Following(text[i]) : ByteAt(text, i + k) \in Continuation
               /\ valid[i + Following(text[i]) + 1]
    IN  valid[1]

\* The first bytes of characters of two bytes (192..223) are passed over, too.
valid_start(byte) == byte < 128 \/ byte >= 224

\* The longest beginning and end, of at most half of max_log_size bytes, that
\* stop before a first byte.
LeftBorder(value, half) ==
    Max({0} \cup {b \in 1..half : valid_start(value[b + 1])})
RightBorder(value, half) ==
    Min({Len(value)} \cup {b \in Len(value) - half..Len(value) - 1 : valid_start(value[b + 1])})

\* Tabs and ends of line structure the log.
Mapped(byte) == IF byte \in {9, 13} THEN 32 ELSE IF byte = 10 THEN 13 ELSE byte

\* What log_append_pair appends of a value: 0 is no limit.
Logged(value, max_log_size) ==
    LET half == max_log_size \div 2
        shown == IF max_log_size = 0 \/ Len(value) < max_log_size
                   THEN value
                   ELSE SubSeq(value, 1, LeftBorder(value, half))
                        \o <<32, 46, 46, 46, 32>>
                        \o SubSeq(value, RightBorder(value, half) + 1, Len(value))
    IN  [i \in DOMAIN shown |-> Mapped(shown[i])]
=============================================================================
