---------------------------- MODULE JsonBuilder -----------------------------
(***************************************************************************)
(* json_builder: every call as a function from the builder to the builder  *)
(* after it. A builder is a record of the class's members; `text' is its   *)
(* member json. Characters are strings of one character; a number, a       *)
(* constant and an XML entity are one element of the text each; "\n" stands *)
(* for the control characters with a short form, "US" for the others.      *)
(***************************************************************************)
EXTENDS Integers, SequencesExt

New == [text |-> <<>>, stack |-> <<>>, mode |-> "NORMAL", need_indent |-> FALSE]

Add(b, chars) == [b EXCEPT !.text = @ \o chars]

\* Mutant: the builder begins anew.
discard_current_prefix_Resets(b, length) ==
    [b EXCEPT !.text = SubSeq(@, length + 1, Len(@)), !.mode = "NORMAL"]

discard_current_prefix(b, length) ==
    [b EXCEPT !.text = SubSeq(@, length + 1, Len(@))]

Encoded(chr) ==
    CASE chr \in {"\"", "\\"} -> <<"\\", chr>>
      [] chr = "\n" -> <<"\\", "n">>
      [] chr = "US" -> <<"u", "0", "0", "1", "F">>
      [] OTHER -> <<chr>>

Entities == [c \in {"&", "<", ">", "\""} |->
    CASE c = "&" -> "&amp;" [] c = "<" -> "&lt;" [] c = ">" -> "&gt;" [] c = "\"" -> "&quot;"]

encode(str) == FlattenSeq([i \in DOMAIN str |-> Encoded(str[i])])
encode_xml_escape(str) == FlattenSeq([i \in DOMAIN str |->
    IF str[i] \in DOMAIN Entities THEN <<Entities[str[i]]>> ELSE Encoded(str[i])])

-----------------------------------------------------------------------------
\* What the last calls left to be written: the end of a string, the comma
\* before the next value, a line's indentation.
normalize_mode(b, start_value) ==
    LET ended == IF b.mode = "IN_VALUE"
                   THEN [Add(b, <<"\"">>) EXCEPT !.mode = "AFTER_VALUE"] ELSE b
        parted == IF start_value /\ ended.mode = "AFTER_VALUE"
                    THEN [Add(ended, <<",">>) EXCEPT !.mode = "NORMAL"] ELSE ended
        afterKey == parted.text # <<>> /\ Last(parted.text) = ":"
    IN  IF ~b.need_indent THEN parted
        ELSE [Add(parted, IF afterKey THEN <<" ">>
                          ELSE <<"\n">> \o [i \in DOMAIN b.stack |-> " "])
              EXCEPT !.need_indent = FALSE]

Open(b, left, right) ==
    [Add(normalize_mode(b, TRUE), <<left>>) EXCEPT !.stack = Append(@, right)]
object(b) == Open(b, "{", "}")
array(b) == Open(b, "[", "]")

key(b, str) == Add(normalize_mode(b, TRUE), <<"\"">> \o encode(str) \o <<"\"", ":">>)

\* value and value_xml_escape: with `append' an open string is continued.
value(b, encoded, append) ==
    LET opened == IF append /\ b.mode = "IN_VALUE" THEN b
                  ELSE Add(normalize_mode(b, TRUE), <<"\"">>)
    IN  [Add(opened, encoded) EXCEPT !.mode = "IN_VALUE"]

\* value(int), value_bool, value(nullptr).
constant(b, token) == [Add(normalize_mode(b, TRUE), <<token>>) EXCEPT !.mode = "AFTER_VALUE"]

indent(b) ==
    IF b.need_indent THEN b ELSE [normalize_mode(b, FALSE) EXCEPT !.need_indent = TRUE]

\* Mutant: the closing bracket does not end a value.
close_NotAValue(b) ==
    IF b.stack = <<>> THEN b
    ELSE Add(normalize_mode([b EXCEPT !.stack = Front(@)], FALSE), <<Last(b.stack)>>)

close(b) ==
    IF b.stack = <<>> THEN b
    ELSE [Add(normalize_mode([b EXCEPT !.stack = Front(@)], FALSE), <<Last(b.stack)>>)
          EXCEPT !.mode = "AFTER_VALUE"]

finish(b, indented) ==
    LET closed == FoldLeft(LAMBDA c, i : close(IF indented THEN indent(c) ELSE c), b, b.stack)
    IN  IF closed.text # <<>> /\ Last(closed.text) # "\n" THEN Add(closed, <<"\n">>) ELSE closed
=============================================================================
