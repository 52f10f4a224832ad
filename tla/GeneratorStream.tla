--------------------------- MODULE GeneratorStream ---------------------------
(***************************************************************************)
(* A response made by a response_generator: rest_server's                  *)
(* generator_callback, which libmicrohttpd calls whenever the connection   *)
(* can take bytes, against any generator and any sizes of libmicrohttpd's  *)
(* buffer. The generator holds the bytes consumed+1 .. generated.          *)
(***************************************************************************)
EXTENDS Integers

CONSTANTS
    min_generated,  \* rest_server::min_generated
    Offers,         \* `max' of generator_callback: room in the send buffer
    Batches,        \* bytes one call of generate() may add
    MaxBytes        \* bound on what a generator adds

\* With min_generated = 0 the loop would never ask the generator for anything,
\* and a generator that returns true without adding a byte keeps it going.
ASSUME GeneratorAssumption ==
    /\ min_generated \in Nat \ {0}
    /\ Offers \subseteq Nat \ {0}
    /\ Batches \subseteq Nat \ {0}
    /\ MaxBytes \in Nat

VARIABLES
    pc,                 \* "wait": for libmicrohttpd; "fill": in the callback
    max,                \* the callback's argument
    generated,          \* bytes the generator has produced
    consumed,           \* bytes it was told to discard
    generator_end,
    generator_offset,
    sent,               \* history: bytes given to libmicrohttpd
    last                \* history: the last of them, as a number of the generator's bytes

generator == <<generated, consumed>>
vars == <<pc, max, generator, generator_end, generator_offset, sent, last>>

\* generator->current().len, data.len in the callback
DataLen == generated - consumed
\* data.len - request->generator_offset
Unsent == DataLen - generator_offset
Smaller(m, n) == IF m < n THEN m ELSE n
minimum == Smaller(min_generated, max)

-----------------------------------------------------------------------------
Init ==
    /\ pc = "wait"
    /\ max = 0
    /\ generated = 0
    /\ consumed = 0
    /\ generator_end = FALSE
    /\ generator_offset = 0
    /\ sent = 0
    /\ last = 0

Call ==
    /\ pc = "wait"
    /\ max' \in Offers
    /\ pc' = "fill"
    /\ UNCHANGED <<generator, generator_end, generator_offset, sent, last>>

\* Mutant: the callback goes on asking when it has just enough.
Generate_OneMore ==
    /\ pc = "fill"
    /\ Unsent <= minimum
    /\ ~generator_end
    /\ \E n \in Batches : generated' = generated + n /\ generated' <= MaxBytes
    /\ generator_end' \in BOOLEAN
    /\ UNCHANGED <<pc, max, consumed, generator_offset, sent, last>>

\* Mutant: the result of generate() is not kept.
Generate_EndForgotten ==
    /\ pc = "fill"
    /\ Unsent < minimum
    /\ ~generator_end
    /\ \/ \E n \in Batches : generated' = generated + n /\ generated' <= MaxBytes
       \/ generated' = generated
    /\ UNCHANGED <<pc, max, consumed, generator_end, generator_offset, sent, last>>

\* generate() appends to the generator's data, and says whether there is more.
Generate ==
    /\ pc = "fill"
    /\ Unsent < minimum
    /\ ~generator_end
    /\ \/ /\ \E n \in Batches : generated' = generated + n /\ generated' <= MaxBytes
          /\ generator_end' \in BOOLEAN
       \/ /\ generated' = generated
          /\ generator_end' = TRUE
    /\ UNCHANGED <<pc, max, consumed, generator_offset, sent, last>>

\* Mutant: the response ends when nothing is at hand.
EndOfStream_Early ==
    /\ pc = "fill"
    /\ Unsent <= 0
    /\ pc' = "done"
    /\ UNCHANGED <<max, generator, generator_end, generator_offset, sent, last>>

\* The loop has ended with nothing left to send.
EndOfStream ==
    /\ pc = "fill"
    /\ Unsent >= minimum \/ generator_end
    /\ Unsent <= 0
    /\ pc' = "done"
    /\ UNCHANGED <<max, generator, generator_end, generator_offset, sent, last>>

\* Mutant: the offset is kept when the generator discards.
Copy_KeepsOffset ==
    /\ pc = "fill"
    /\ Unsent >= minimum \/ generator_end
    /\ Unsent > 0
    /\ pc' = "wait"
    /\ LET n == Smaller(Unsent, max)
           offset == generator_offset + n
       IN  /\ sent' = sent + n
           /\ last' = consumed + offset
           /\ consumed' = IF DataLen - offset < minimum THEN consumed + offset ELSE consumed
           /\ generator_offset' = offset
    /\ UNCHANGED <<max, generated, generator_end>>

\* Copy what fits, and discard it once little is left behind it.
Copy ==
    /\ pc = "fill"
    /\ Unsent >= minimum \/ generator_end
    /\ Unsent > 0
    /\ pc' = "wait"
    /\ LET n == Smaller(Unsent, max)
           offset == generator_offset + n
       IN  /\ sent' = sent + n
           /\ last' = consumed + offset
           /\ \/ /\ DataLen - offset < minimum
                 /\ consumed' = consumed + offset
                 /\ generator_offset' = 0
              \/ /\ DataLen - offset >= minimum
                 /\ consumed' = consumed
                 /\ generator_offset' = offset
    /\ UNCHANGED <<max, generated, generator_end>>

\* The client goes away: request_completed deletes the request.
RequestCompleted ==
    /\ pc = "wait"
    /\ pc' = "gone"
    /\ UNCHANGED <<max, generator, generator_end, generator_offset, sent, last>>

GeneratorCallback == Generate \/ EndOfStream \/ Copy
Next == Call \/ GeneratorCallback \/ RequestCompleted

\* The HTTP thread runs, and libmicrohttpd calls again while the client reads.
Spec == Init /\ [][Next]_vars /\ WF_vars(GeneratorCallback)

-----------------------------------------------------------------------------
(* Properties *)

\* The offset never passes the end of the data: data.len - generator_offset
\* does not wrap.
TypeOK ==
    /\ pc \in {"wait", "fill", "done", "gone"}
    /\ max \in Offers \cup {0}
    /\ generated \in 0..MaxBytes
    /\ consumed \in 0..generated
    /\ generator_end \in BOOLEAN
    /\ generator_offset \in 0..DataLen
    /\ sent \in Nat
    /\ last \in Nat

\* The n-th byte sent is the n-th byte generated, whatever was discarded at
\* which offset: nothing is lost or sent twice at the borders of the calls.
BytesInOrder == last = sent

\* The generator is only asked while less than min_generated bytes wait: it
\* never runs ahead of a slow client by more than one batch.
UnsentBounded == Unsent < min_generated \/ \E b \in Batches : Unsent < min_generated + b

\* A call of the callback returns.
CallReturns == pc = "fill" ~> pc # "fill"

\* The response is the stream of the generator's bytes, and ends after the last.
Stream == INSTANCE ByteStream WITH
    produced <- generated, complete <- generator_end, out <- last, ended <- pc = "done"
ImplementsStream == Stream!StreamSpec
=============================================================================
