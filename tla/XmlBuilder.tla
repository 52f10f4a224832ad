----------------------------- MODULE XmlBuilder -----------------------------
(***************************************************************************)
(* xml_builder, in the same way as JsonBuilder: `text' is its member xml,  *)
(* `stack' the first stack_length elements of its stack, and a name is one *)
(* element of the text.                                                    *)
(***************************************************************************)
EXTENDS Integers, SequencesExt

New == [text |-> <<>>, stack |-> <<>>, mode |-> "NORMAL"]

Add(b, chars) == [b EXCEPT !.text = @ \o chars]

discard_current_prefix(b, length) ==
    [b EXCEPT !.text = SubSeq(@, length + 1, Len(@))]

\* An ampersand becomes an apostrophe.
Encoded(chr) ==
    CASE chr = "&" -> "&apos;" [] chr = "<" -> "&lt;" [] chr = ">" -> "&gt;"
      [] chr = "\"" -> "&quot;" [] OTHER -> chr
encode(str) == [i \in DOMAIN str |-> Encoded(str[i])]

-----------------------------------------------------------------------------
\* The end of a start tag, or a line's indentation.
normalize_mode(b) ==
    CASE b.mode = "NEED_INDENT" ->
            [Add(b, <<"\n">> \o [i \in DOMAIN b.stack |-> " "]) EXCEPT !.mode = "NORMAL"]
      [] b.mode = "IN_ELEMENT" -> [Add(b, <<">">>) EXCEPT !.mode = "NORMAL"]
      [] OTHER -> b

declaration(b) == Add(b, <<"<?xml version=\"1.0\"?>">>)

element(b, name) ==
    [Add(normalize_mode(b), <<"<", name>>) EXCEPT !.mode = "IN_ELEMENT", !.stack = Append(@, name)]

attribute(b, name, str) ==
    IF b.mode # "IN_ELEMENT" THEN b
    ELSE Add(b, <<" ", name, "=", "\"">> \o encode(str) \o <<"\"">>)

text(b, str) == Add(normalize_mode(b), encode(str))

indent(b) ==
    [IF b.mode = "IN_ELEMENT" THEN normalize_mode(b) ELSE b EXCEPT !.mode = "NEED_INDENT"]

\* Mutant: after an element without contents the mode is kept.
close_StaysInElement(b) ==
    IF b.stack = <<>> THEN b
    ELSE LET popped == [b EXCEPT !.stack = Front(@)]
             ready == IF b.mode = "NEED_INDENT" THEN normalize_mode(popped) ELSE popped
         IN  IF ready.mode = "IN_ELEMENT" THEN Add(ready, <<"/", ">">>)
             ELSE Add(ready, <<"<", "/", Last(b.stack), ">">>)

close(b) ==
    IF b.stack = <<>> THEN b
    ELSE LET popped == [b EXCEPT !.stack = Front(@)]
             ready == IF b.mode = "NEED_INDENT" THEN normalize_mode(popped) ELSE popped
         IN  IF ready.mode = "IN_ELEMENT"
               THEN [Add(ready, <<"/", ">">>) EXCEPT !.mode = "NORMAL"]
               ELSE Add(ready, <<"<", "/", Last(b.stack), ">">>)

finish(b, indented) ==
    LET closed == FoldLeft(LAMBDA c, i : close(IF indented THEN indent(c) ELSE c), b, b.stack)
    IN  IF closed.text # <<>> /\ Last(closed.text) # "\n" THEN Add(closed, <<"\n">>) ELSE closed
=============================================================================
