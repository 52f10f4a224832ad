----------------------------- MODULE TextCheck ------------------------------
(***************************************************************************)
(* What RestRequest takes for granted of valid_utf8, and what the log      *)
(* shows of a text, as a property of RestText: RestRequest abstracts a     *)
(* text that is not UTF-8 to a kind of byte.                               *)
(***************************************************************************)
EXTENDS RestRequest, RestText

CONSTANT Texts      \* values of arguments, and keys

ASSUME TextAssumption == Texts \subseteq Seq(0..255)

\* c_str() ends at the first zero byte.
UpToZero(text) ==
    LET zeros == {i \in DOMAIN text : text[i] = 0}
    IN  IF zeros = {} THEN text ELSE SubSeq(text, 1, Min(zeros) - 1)

\* UTF-8 of up to four bytes, without regard to code points that are too large,
\* surrogates, or shorter forms.
Character(bytes) ==
    /\ \/ Len(bytes) = 1 /\ bytes[1] \in 1..127
       \/ Len(bytes) = 2 /\ bytes[1] \in 192..223
       \/ Len(bytes) = 3 /\ bytes[1] \in 224..239
       \/ Len(bytes) = 4 /\ bytes[1] \in 240..247
    /\ \A k \in 2..Len(bytes) : bytes[k] \in Continuation

\* Cut before each byte that does not continue a character, a text falls into
\* characters.
Cuts(text) == {i \in DOMAIN text : text[i] \notin Continuation} \cup {Len(text) + 1}
NextCut(text, i) == Min({j \in Cuts(text) : i < j})
Whole(text) ==
    /\ 1 \in Cuts(text)
    /\ \A i \in Cuts(text) \ {Len(text) + 1} : Character(SubSeq(text, i, NextCut(text, i) - 1))

ValidIffWhole == \A text \in Texts : valid_utf8(text) <=> Whole(UpToZero(text))

LogReadable ==
    \A text \in Texts : Whole(text) =>
        \A max_log_size \in 0..Len(text) + 1 :
            LET shown == Logged(text, max_log_size)
            IN  /\ Whole(shown)
                /\ max_log_size # 0 => Len(shown) <= max_log_size + 5
                /\ \A i \in DOMAIN shown : shown[i] \notin {9, 10}

\* An argument the service gets is made of whole characters (up to a zero byte),
\* and none that is was refused; the log shows of it whole characters, at most
\* max_log_size bytes and the dots, and nothing that would break its lines.
CharactersWhole ==
    /\ handed.called \/ answer = "invalid utf8" => ValidIffWhole
    /\ handed.called => LogReadable
=============================================================================
