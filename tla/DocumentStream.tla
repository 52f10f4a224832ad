--------------------------- MODULE DocumentStream ---------------------------
(***************************************************************************)
(* GeneratorStream with the generators of the library:                     *)
(* json_response_generator and xml_response_generator, whose data is a     *)
(* builder's text, produced by a service that makes one of the builder's   *)
(* calls in each generate(), after an indent() or not. What was sent is    *)
(* taken away from the builder while it is at work. A generator that is    *)
(* neither is any generator, as in GeneratorStream.                        *)
(***************************************************************************)
EXTENDS GeneratorStream, SequencesExt

CONSTANTS
    Documents,      \* [kind, calls, means]: a builder's calls, and the text they stand for
    AnyBytes        \* bound on what a generator of no known kind adds

J == INSTANCE JsonBuilder
X == INSTANCE XmlBuilder

VARIABLES
    document,       \* what the service writes
    made,           \* calls made
    builder,        \* the generator's member json or xml
    received        \* history: the text given to libmicrohttpd

content == <<document, made, builder, received>>
documentVars == <<vars, content>>

Anything == [kind |-> "any", calls |-> <<>>, means |-> <<>>]

DoJson(b, call) ==
    CASE call.op = "object" -> J!object(b)
      [] call.op = "array" -> J!array(b)
      [] call.op = "key" -> J!key(b, call.str)
      [] call.op = "value" -> J!value(b, J!encode(call.str), call.append)
      [] call.op = "value_xml_escape" -> J!value(b, J!encode_xml_escape(call.str), call.append)
      [] call.op = "constant" -> J!constant(b, call.token)
      [] call.op = "close" -> J!close(b)
      [] call.op = "finish" -> J!finish(b, call.indented)

DoXml(b, call) ==
    CASE call.op = "declaration" -> X!declaration(b)
      [] call.op = "element" -> X!element(b, call.name)
      [] call.op = "attribute" -> X!attribute(b, call.name, call.str)
      [] call.op = "text" -> X!text(b, call.str)
      [] call.op = "close" -> X!close(b)
      [] call.op = "finish" -> X!finish(b, call.indented)

Indented(kind, b, call) ==
    IF ~call.indent THEN b ELSE IF kind = "json" THEN J!indent(b) ELSE X!indent(b)
Do(kind, b, call) ==
    LET ready == Indented(kind, b, call)
    IN  IF kind = "json" THEN DoJson(ready, call) ELSE DoXml(ready, call)

New(kind) == IF kind = "json" THEN J!New ELSE X!New

\* consume(length) of both generators.
Consumed(kind, b, length) ==
    IF length = 0 THEN b
    ELSE IF kind = "json" THEN J!discard_current_prefix(b, length)
    ELSE X!discard_current_prefix(b, length)

-----------------------------------------------------------------------------
(* Documents: calls, with the text they are for *)

JsonCall ==
    [op : {"object", "array", "close"}, indent : BOOLEAN]
    \cup [op : {"key"}, indent : BOOLEAN, str : Seq(STRING)]
    \cup [op : {"value", "value_xml_escape"}, indent : BOOLEAN, str : Seq(STRING), append : BOOLEAN]
    \cup [op : {"constant"}, indent : BOOLEAN, token : STRING]
    \cup [op : {"finish"}, indent : BOOLEAN, indented : BOOLEAN]

XmlCall ==
    [op : {"declaration", "close"}, indent : BOOLEAN]
    \cup [op : {"element"}, indent : BOOLEAN, name : STRING]
    \cup [op : {"attribute"}, indent : BOOLEAN, name : STRING, str : Seq(STRING)]
    \cup [op : {"text"}, indent : BOOLEAN, str : Seq(STRING)]
    \cup [op : {"finish"}, indent : BOOLEAN, indented : BOOLEAN]

\* Indentation: line ends, and the spaces after them and after a colon.
Layout(chars, i) ==
    \/ chars[i] = "\n"
    \/ chars[i] = " " /\ (i = 1 \/ chars[i - 1] \in {"\n", " ", ":"})
Bare(chars) == FlattenSeq([i \in DOMAIN chars |-> IF Layout(chars, i) THEN <<>> ELSE <<chars[i]>>])

\* The builder after each of the calls, when nothing is taken away from it.
InMemory(d) ==
    LET after[k \in 0..Len(d.calls)] ==
            IF k = 0 THEN New(d.kind) ELSE Do(d.kind, after[k - 1], d.calls[k])
    IN  after

\* Nothing is written after finish().
ASSUME DocumentAssumption == \A d \in Documents :
    /\ \/ d.kind = "json" /\ d.calls \in Seq(JsonCall)
       \/ d.kind = "xml" /\ d.calls \in Seq(XmlCall)
    /\ \A k \in 1..Len(d.calls) - 1 : d.calls[k].op # "finish"

-----------------------------------------------------------------------------
DocumentInit ==
    /\ Init
    /\ document \in Documents \cup {Anything}
    /\ made = 0
    /\ builder = New(document.kind)
    /\ received = <<>>

GenerateAnything ==
    /\ document = Anything
    /\ Generate
    /\ generated' <= AnyBytes
    /\ UNCHANGED content

\* generate() has added nothing and is not at its end: the loop asks again.
GenerateNothing ==
    /\ pc = "fill"
    /\ Unsent < minimum
    /\ ~generator_end
    /\ UNCHANGED vars

\* The next call of the builder, which need not add to its text: nothing is
\* written for an empty text, or an empty piece of a string.
GenerateDocument ==
    /\ document # Anything
    /\ made < Len(document.calls)
    /\ builder' = Do(document.kind, builder, document.calls[made + 1])
    /\ made' = made + 1
    /\ generated' = consumed + Len(builder'.text)
    /\ generator_end' = (made' = Len(document.calls))
    /\ Generate \/ GenerateNothing
    /\ UNCHANGED <<document, received>>

CopyDocument ==
    /\ Copy
    /\ IF document = Anything THEN UNCHANGED content
       ELSE /\ received' = received \o
                 SubSeq(builder.text, generator_offset + 1, generator_offset + sent' - sent)
            /\ builder' = Consumed(document.kind, builder, consumed' - consumed)
            /\ UNCHANGED <<document, made>>

DocumentCallback ==
    \/ GenerateAnything \/ GenerateDocument \/ CopyDocument
    \/ EndOfStream /\ UNCHANGED content

DocumentNext ==
    \/ DocumentCallback
    \/ (Call \/ RequestCompleted) /\ UNCHANGED content

\* The fairness of GeneratorStream.
DocumentSpec == DocumentInit /\ [][DocumentNext]_documentVars /\ WF_documentVars(DocumentCallback)

-----------------------------------------------------------------------------
(* Properties *)

\* A client that stays gets the text the same calls make of a builder that is
\* never sent from, but for indentation: taking away what was sent changes
\* nothing that is written later.
StreamedAsBuilt ==
    pc = "done" /\ document # Anything =>
        Bare(received) = Bare(InMemory(document)[Len(document.calls)].text)

\* The text the calls make is what the document means.
BuiltAsMeant(kind) == \A d \in Documents :
    d.kind = kind => Bare(InMemory(d)[Len(d.calls)].text) = d.means

Arrived(kind) == pc = "done" /\ document.kind = kind => Bare(received) = document.means

\* A client that stays gets the JSON text of the document the calls describe,
\* commas, quotes and brackets, though a string may go on in the next generate()
\* and the text before it may be gone.
JsonArrives == Arrived("json")

\* The same of an XML document.
XmlArrives == Arrived("xml")
=============================================================================
