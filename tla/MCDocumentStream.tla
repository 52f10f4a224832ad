-------------------------- MODULE MCDocumentStream ---------------------------
(* Small documents of every shape, each with and without indentation. The  *)
(* text a document stands for is defined on the document, not on the calls *)
(* that write it. Left out are control characters without a short form in  *)
(* JSON and ampersands in XML, which the builders do not write as such.    *)
EXTENDS DocumentStream

Cat(seqs) == FlattenSeq(seqs)
Plainly(op) == [op |-> op, indent |-> FALSE]
On(indented, calls) == [calls EXCEPT ![1].indent = indented]

\* The last calls close what is open: finish() does that, too.
Finished(calls, indented) ==
    LET size == Len(calls)
        trailing == {n \in 1..size : \A i \in n..size : calls[i].op = "close"}
        kept == Cardinality(1..size \ trailing)
    IN  Cat(<<SubSeq(calls, 1, kept), <<[op |-> "finish", indent |-> FALSE, indented |-> indented]>>>>)

-----------------------------------------------------------------------------
(* JSON: strings in the pieces they are written in, null, arrays, objects  *)

Str(pieces) == [kind |-> "string", pieces |-> pieces, escape |-> FALSE]
XmlStr(pieces) == [kind |-> "string", pieces |-> pieces, escape |-> TRUE]
Null == [kind |-> "null"]
Array(items) == [kind |-> "array", items |-> items]
Object(names, items) == [kind |-> "object", names |-> names, items |-> items]

\* The calls for a value, given those for the values within it.
JsonCallsBy(Inner(_, _), v, indented) ==
    CASE v.kind = "null" -> <<[op |-> "constant", indent |-> FALSE, token |-> "null"]>>
      [] v.kind = "string" -> [i \in DOMAIN v.pieces |->
            [op |-> IF v.escape THEN "value_xml_escape" ELSE "value",
             indent |-> FALSE, str |-> v.pieces[i], append |-> i > 1]]
      [] v.kind = "array" -> Cat(<<
            <<Plainly("array")>>,
            Cat([i \in DOMAIN v.items |-> On(indented, Inner(v.items[i], indented))]),
            On(indented, <<Plainly("close")>>)>>)
      [] v.kind = "object" -> Cat(<<
            <<Plainly("object")>>,
            Cat([i \in DOMAIN v.items |->
                    Cat(<<<<[op |-> "key", indent |-> indented, str |-> v.names[i]]>>,
                          On(indented, Inner(v.items[i], indented))>>)]),
            On(indented, <<Plainly("close")>>)>>)
JsonCalls1(v, indented) == JsonCallsBy(LAMBDA w, x : <<>>, v, indented)
JsonCalls2(v, indented) == JsonCallsBy(JsonCalls1, v, indented)
JsonCalls(v, indented) == JsonCallsBy(JsonCalls2, v, indented)

JsonString(chars) == Cat(<<<<"\"">>,
    Cat([i \in DOMAIN chars |->
            IF chars[i] = "\n" THEN <<"\\", "n">>
            ELSE IF chars[i] \in {"\"", "\\"} THEN <<"\\", chars[i]>> ELSE <<chars[i]>>]),
    <<"\"">>>>)
XmlChar == [c \in {"&", "<", ">", "\"", "\\", "a"} |->
    CASE c = "&" -> "&amp;" [] c = "<" -> "&lt;" [] c = ">" -> "&gt;" [] c = "\"" -> "&quot;"
      [] OTHER -> c]

JsonTextBy(Inner(_), v) ==
    LET comma(i) == IF i > 1 THEN <<",">> ELSE <<>>
    IN  CASE v.kind = "null" -> <<"null">>
          [] v.kind = "string" -> JsonString(LET chars == Cat(v.pieces)
                IN  IF v.escape THEN [i \in DOMAIN chars |-> XmlChar[chars[i]]] ELSE chars)
          [] v.kind = "array" -> Cat(<<<<"[">>,
                Cat([i \in DOMAIN v.items |-> Cat(<<comma(i), Inner(v.items[i])>>)]), <<"]">>>>)
          [] v.kind = "object" -> Cat(<<<<"{">>,
                Cat([i \in DOMAIN v.items |-> Cat(<<comma(i), JsonString(v.names[i]), <<":">>,
                                                   Inner(v.items[i])>>)]), <<"}">>>>)
JsonText1(v) == JsonTextBy(LAMBDA w : <<>>, v)
JsonText2(v) == JsonTextBy(JsonText1, v)
JsonText(v) == JsonTextBy(JsonText2, v)

Plain == Str(<<<<"a">>>>)
Escaped == Str(<<<<"\"">>, <<"\\", "\n">>>>)
EndsEmpty == Str(<<<<"a">>, <<>>>>)
XmlEscaped == XmlStr(<<<<"&", "\"">>, <<"<">>>>)
Keys == <<<<"k">>, <<"\"">>>>
\* Not a string alone: nothing ends it.
JsonValues == <<
    Null, Array(<<>>), Object(<<>>, <<>>),
    Array(<<Plain>>), Array(<<Escaped, XmlEscaped>>), Array(<<Null, Plain>>), Array(<<Plain, Null>>),
    Array(<<EndsEmpty, Null>>),
    Object(Keys, <<Null>>), Object(Keys, <<Escaped, Plain>>),
    Array(<<Array(<<>>), Null>>), Array(<<Object(<<>>, <<>>), Array(<<Plain>>)>>),
    Object(Keys, <<Array(<<>>), Object(Keys, <<Plain>>)>>),
    Object(Keys, <<Object(<<>>, <<>>), XmlEscaped>>)>>

-----------------------------------------------------------------------------
(* XML: elements with an attribute or none, texts *)

Elem(name, values, items) == [kind |-> "element", name |-> name, values |-> values, items |-> items]
Text(str) == [kind |-> "text", str |-> str]

XmlCallsBy(Inner(_, _), e, indented) ==
    IF e.kind = "text" THEN <<[op |-> "text", indent |-> FALSE, str |-> e.str]>>
    ELSE Cat(<<
        <<[op |-> "element", indent |-> FALSE, name |-> e.name]>>,
        [i \in DOMAIN e.values |->
            [op |-> "attribute", indent |-> FALSE, name |-> "n", str |-> e.values[i]]],
        Cat([i \in DOMAIN e.items |-> On(indented, Inner(e.items[i], indented))]),
        On(indented, <<Plainly("close")>>)>>)

XmlCalls1(e, indented) == XmlCallsBy(LAMBDA f, x : <<>>, e, indented)
XmlCalls2(e, indented) == XmlCallsBy(XmlCalls1, e, indented)
XmlCalls(e, indented) == XmlCallsBy(XmlCalls2, e, indented)

XmlChars(str) == [i \in DOMAIN str |-> XmlChar[str[i]]]

XmlTextBy(Inner(_, _), e, indented) ==
    IF e.kind = "text" THEN XmlChars(e.str)
    ELSE LET attributes == Cat([i \in DOMAIN e.values |->
                 Cat(<<<<" ", "n", "=", "\"">>, XmlChars(e.values[i]), <<"\"">>>>)])
             start == Cat(<<<<"<", e.name>>, attributes>>)
         IN  IF e.items = <<>> /\ ~indented THEN Cat(<<start, <<"/", ">">>>>)
             ELSE Cat(<<start, <<">">>,
                        Cat([i \in DOMAIN e.items |-> Inner(e.items[i], indented)]),
                        <<"<", "/", e.name, ">">>>>)
XmlText1(e, indented) == XmlTextBy(LAMBDA f, x : <<>>, e, indented)
XmlText2(e, indented) == XmlTextBy(XmlText1, e, indented)
XmlText(e, indented) == XmlTextBy(XmlText2, e, indented)

Less == Text(<<"a", "<">>)
NoText == Text(<<>>)
Empty == Elem("b", <<>>, <<>>)
Quoting == Elem("b", <<<<"\"", ">">>>>, <<>>)
XmlElements == <<
    Elem("d", <<>>, <<>>), Elem("d", <<<<"a">>, <<"\"">>>>, <<Less>>),
    Elem("d", <<>>, <<Empty, Less>>), Elem("d", <<>>, <<Less, Empty>>),
    Elem("d", <<>>, <<NoText, NoText, Less>>),
    Elem("d", <<<<"a">>>>, <<Quoting, Empty>>),
    Elem("d", <<>>, <<Elem("c", <<>>, <<Empty>>), Less>>),
    Elem("d", <<>>, <<Empty, Elem("c", <<<<"a">>>>, <<Less>>)>>)>>

-----------------------------------------------------------------------------
Declaration == <<Plainly("declaration")>>

JsonDocument(v, indented) ==
    [kind |-> "json", calls |-> Finished(JsonCalls(v, indented), indented), means |-> JsonText(v)]
XmlDocument(e, indented) ==
    [kind |-> "xml",
     calls |-> Cat(<<Declaration, Finished(XmlCalls(e, indented), indented)>>),
     means |-> Cat(<<<<"<?xml version=\"1.0\"?>">>, XmlText(e, indented)>>)]

MCDocuments ==
    {JsonDocument(JsonValues[n], indented) : n \in DOMAIN JsonValues, indented \in BOOLEAN}
    \cup {XmlDocument(XmlElements[n], indented) : n \in DOMAIN XmlElements, indented \in BOOLEAN}
=============================================================================
