---------------------------- MODULE MCRestRequest ----------------------------
(* One request, and the texts in it: all that can be made of the bytes     *)
(* that UTF-8 tells apart, and characters of every length.                 *)
EXTENDS TextCheck

MCBytes == {0, 65, 128, 191, 195, 226, 240, 248}
MCShort == UNION {[1..n -> MCBytes] : n \in 0..4}

\* All texts of at most n characters from C.
Written(C, n) == {FlattenSeq(s) : s \in UNION {[1..k -> C] : k \in 0..n}}
MCCharacters == {<<65>>} \cup
    {<<195, i>> : i \in {128, 191}} \cup
    {<<226, i, j>> : i, j \in {128, 191}} \cup
    {<<240, i, j, k>> : i, j, k \in {128, 191}}

MCTexts == MCShort \cup
    Written({<<10>>, <<65>>, <<195, 128>>, <<226, 128, 191>>, <<240, 191, 128, 191>>}, 4)

\* A text is whole when it is a row of characters.
ASSUME WholeIsWritten ==
    LET written == Written(MCCharacters, 4) IN \A text \in MCShort : Whole(text) <=> text \in written
=============================================================================
