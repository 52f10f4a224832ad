------------------------ MODULE GeneratorStreamProofs ------------------------
(***************************************************************************)
(* Proofs about GeneratorStream, for every generator and every size of     *)
(* libmicrohttpd's buffer; and about DocumentStream, for every document.   *)
(***************************************************************************)
EXTENDS DocumentStream, OrderLemmas, TLAPS

-----------------------------------------------------------------------------
(* The inductive invariant *)

\* What was sent is what was discarded and what the offset skips.
SentCounted == sent = consumed + generator_offset

\* The callback runs with room for at least one byte.
MaxPositive == pc = "fill" => max \in Offers

\* The response is over when the generator is and every byte was sent.
DoneComplete == pc = "done" => generator_end /\ Unsent = 0

IInv == TypeOK /\ BytesInOrder /\ SentCounted /\ MaxPositive /\ DoneComplete

-----------------------------------------------------------------------------
(* Facts about the callback's arithmetic *)

\* The smaller of two numbers is one of them and at most the other.
LEMMA SmallerFacts ==
    ASSUME NEW m \in Int, NEW n \in Int
    PROVE  /\ Smaller(m, n) \in {m, n}
           /\ Smaller(m, n) <= m /\ Smaller(m, n) <= n
BY DEF Smaller

\* The callback asks the generator for at least one byte.
LEMMA MinimumPositive ==
    ASSUME IInv, pc = "fill"
    PROVE  minimum \in Nat /\ minimum > 0 /\ max \in Nat /\ max > 0
<1>1. max \in Nat \ {0} /\ min_generated \in Nat \ {0}
  BY GeneratorAssumption DEF IInv, MaxPositive
<1> QED
  BY <1>1 DEF minimum, Smaller

\* The counters are numbers, and the offset lies within the generator's data.
LEMMA Counters ==
    ASSUME IInv
    PROVE  /\ generated \in Nat /\ generated <= MaxBytes /\ MaxBytes \in Nat
           /\ consumed \in Nat /\ consumed <= generated
           /\ generator_offset \in Nat /\ generator_offset <= DataLen
           /\ DataLen = generated - consumed /\ DataLen \in Nat
           /\ Unsent = DataLen - generator_offset /\ Unsent \in Nat
           /\ sent \in Nat /\ last = sent
           /\ sent = consumed + generator_offset
BY GeneratorAssumption DEF IInv, TypeOK, BytesInOrder, SentCounted, DataLen, Unsent

-----------------------------------------------------------------------------
(* The steps *)

\* The initial state has the invariant.
LEMMA InitInv == Init => IInv
<1> SUFFICES ASSUME Init PROVE IInv
  OBVIOUS
<1>1. TypeOK
  <2>1. 0 \in 0..MaxBytes /\ 0 \in 0..0 /\ DataLen = 0
    BY GeneratorAssumption DEF Init, DataLen
  <2> QED
    BY <2>1 DEF Init, TypeOK
<1> QED
  BY <1>1 DEF Init, IInv, BytesInOrder, SentCounted, MaxPositive, DoneComplete

\* libmicrohttpd calls, or the client goes away: no counter changes.
LEMMA OutsideInv == IInv /\ (Call \/ RequestCompleted) => IInv'
BY DEF IInv, TypeOK, Call, RequestCompleted, generator, BytesInOrder, SentCounted,
       MaxPositive, DoneComplete, DataLen, Unsent

\* What one call of generate() does to the counters.
LEMMA GenerateFacts ==
    ASSUME IInv, Generate
    PROVE  /\ generated' \in Nat /\ generated <= generated' /\ generated' <= MaxBytes
           /\ generator_end' \in BOOLEAN
<1>1. CASE /\ \E n \in Batches : generated' = generated + n /\ generated' <= MaxBytes
           /\ generator_end' \in BOOLEAN
  <2>1. PICK n \in Nat : generated' = generated + n /\ generated' <= MaxBytes
    BY <1>1, GeneratorAssumption
  <2>2. generated \in Nat
    BY Counters
  <2> QED
    BY <1>1, <2>1, <2>2
<1>2. CASE generated' = generated /\ generator_end' = TRUE
  BY <1>2, Counters
<1> QED
  BY <1>1, <1>2 DEF Generate

\* The generator adds to what waits.
LEMMA GenerateInv == IInv /\ Generate => IInv'
<1> SUFFICES ASSUME IInv, Generate PROVE IInv'
  OBVIOUS
<1>1. /\ generated' \in Nat /\ generated <= generated' /\ generated' <= MaxBytes
      /\ generator_end' \in BOOLEAN
  BY GenerateFacts
<1>2. /\ pc = "fill" /\ pc' = pc /\ max' = max /\ consumed' = consumed
      /\ generator_offset' = generator_offset /\ sent' = sent /\ last' = last
  BY DEF Generate
<1>3. TypeOK'
  <2>1. consumed \in 0..generated' /\ generator_offset \in 0..generated' - consumed
    BY <1>1, Counters
  <2>2. generated' \in 0..MaxBytes /\ DataLen' = generated' - consumed
    BY <1>1, <1>2, Counters DEF DataLen
  <2> QED
    BY <1>1, <1>2, <2>1, <2>2 DEF IInv, TypeOK
<1> QED
  BY <1>2, <1>3 DEF IInv, BytesInOrder, SentCounted, MaxPositive, DoneComplete

\* The end of the stream comes when the generator has ended and nothing waits.
LEMMA EndOfStreamInv == IInv /\ EndOfStream => IInv'
<1> SUFFICES ASSUME IInv, EndOfStream PROVE IInv'
  OBVIOUS
<1>1. generator_end /\ Unsent = 0
  <2>1. pc = "fill" /\ Unsent <= 0 /\ (Unsent >= minimum \/ generator_end)
    BY DEF EndOfStream
  <2>2. Unsent \in Nat /\ minimum \in Nat /\ minimum > 0
    BY <2>1, Counters, MinimumPositive
  <2> QED
    BY <2>1, <2>2
<1> QED
  BY <1>1 DEF EndOfStream, generator, IInv, TypeOK, BytesInOrder, SentCounted, MaxPositive,
              DoneComplete, DataLen, Unsent

\* What a Copy does to the counters.
LEMMA CopyFacts ==
    ASSUME IInv, Copy
    PROVE  \E n \in Nat :
              /\ n > 0 /\ n <= Unsent
              /\ sent' = sent + n /\ last' = last + n
              /\ generated' = generated /\ generator_end' = generator_end
              /\ pc' = "wait" /\ max' = max
              /\ \/ consumed' = consumed + generator_offset + n /\ generator_offset' = 0
                 \/ consumed' = consumed /\ generator_offset' = generator_offset + n
<1> DEFINE n == Smaller(Unsent, max)
<1>1. pc = "fill" /\ Unsent > 0
  BY DEF Copy
<1>2. n \in Nat /\ n > 0 /\ n <= Unsent
  BY <1>1, Counters, MinimumPositive, SmallerFacts
<1>3. consumed \in Nat /\ generator_offset \in Nat /\ last = consumed + generator_offset
  BY Counters
<1>4. /\ sent' = sent + n /\ last' = consumed + (generator_offset + n)
      /\ generated' = generated /\ generator_end' = generator_end
      /\ pc' = "wait" /\ max' = max
      /\ \/ consumed' = consumed + (generator_offset + n) /\ generator_offset' = 0
         \/ consumed' = consumed /\ generator_offset' = generator_offset + n
  BY DEF Copy
<1> HIDE DEF n
<1>5. /\ consumed + (generator_offset + n) = consumed + generator_offset + n
      /\ consumed + (generator_offset + n) = last + n
  BY <1>2, <1>3
<1> QED
  BY <1>2, <1>4, <1>5

\* The bytes sent follow those sent before.
LEMMA CopyInv == IInv /\ Copy => IInv'
<1> SUFFICES ASSUME IInv, Copy PROVE IInv'
  OBVIOUS
<1>1. PICK n \in Nat :
        /\ n > 0 /\ n <= Unsent
        /\ sent' = sent + n /\ last' = last + n
        /\ generated' = generated /\ generator_end' = generator_end
        /\ pc' = "wait" /\ max' = max
        /\ \/ consumed' = consumed + generator_offset + n /\ generator_offset' = 0
           \/ consumed' = consumed /\ generator_offset' = generator_offset + n
  BY CopyFacts
<1>2. /\ consumed' \in Nat /\ generator_offset' \in Nat
      /\ consumed' + generator_offset' = sent + n /\ sent + n <= generated
  BY <1>1, Counters
<1>3. TypeOK'
  <2>1. consumed' \in 0..generated /\ generator_offset' \in 0..generated - consumed'
    BY <1>2, Counters
  <2>2. DataLen' = generated - consumed' /\ sent' \in Nat /\ last' \in Nat
    BY <1>1, Counters DEF DataLen
  <2> QED
    BY <1>1, <2>1, <2>2 DEF IInv, TypeOK
<1> QED
  BY <1>1, <1>2, <1>3, Counters DEF IInv, BytesInOrder, SentCounted, MaxPositive, DoneComplete

\* Every step keeps the invariant.
LEMMA NextInv == IInv /\ [Next]_vars => IInv'
<1>1. IInv /\ UNCHANGED vars => IInv'
  BY DEF vars, generator, IInv, TypeOK, BytesInOrder, SentCounted, MaxPositive, DoneComplete,
         DataLen, Unsent
<1> QED
  BY <1>1, OutsideInv, GenerateInv, EndOfStreamInv, CopyInv DEF Next, GeneratorCallback

-----------------------------------------------------------------------------
(* Theorems *)

\* The invariant holds in every state of every response.
THEOREM Invariance == Spec => []IInv
BY InitInv, NextInv, PTL DEF Spec

\* The counters stay in range: the unsigned subtraction data.len -
\* generator_offset never wraps.
THEOREM TypeCorrect == Spec => []TypeOK
<1>1. IInv => TypeOK
  BY DEF IInv
<1> QED
  BY <1>1, Invariance, PTL

\* No byte of a generated response is lost, repeated or moved.
THEOREM InOrder == Spec => []BytesInOrder
<1>1. IInv => BytesInOrder
  BY DEF IInv
<1> QED
  BY <1>1, Invariance, PTL

\* A slow client never makes the generator run ahead: only a call of generate()
\* adds to what waits, and it is made while less than the minimum waits.
THEOREM Bounded == Spec => []UnsentBounded
<1>1. Init => UnsentBounded
  BY GeneratorAssumption DEF Init, UnsentBounded, Unsent, DataLen
<1>2. IInv /\ UnsentBounded /\ [Next]_vars => UnsentBounded'
  <2> SUFFICES ASSUME IInv, UnsentBounded, [Next]_vars PROVE UnsentBounded'
    OBVIOUS
  <2>1. min_generated \in Nat /\ Unsent \in Nat /\ Batches \subseteq Nat
    BY GeneratorAssumption, Counters
  <2>2. CASE Generate
    <3>1. Unsent < min_generated
      <4>1. pc = "fill" /\ Unsent < minimum
        BY <2>2 DEF Generate
      <4>2. minimum \in Nat /\ minimum <= min_generated
        BY <2>1, <4>1, MinimumPositive, SmallerFacts DEF minimum
      <4> QED
        BY <2>1, <4>1, <4>2
    <3>2. \/ \E b \in Batches : generated' = generated + b
          \/ generated' = generated
      BY <2>2 DEF Generate
    <3>3. Unsent' = generated' - consumed - generator_offset
      BY <2>2 DEF Generate, Unsent, DataLen
    <3> QED
      BY <2>1, <3>1, <3>2, <3>3, Counters DEF UnsentBounded
  <2>3. CASE Copy
    <3>1. Unsent' \in Int /\ Unsent' <= Unsent
      <4>1. PICK n \in Nat :
              /\ generated' = generated
              /\ \/ consumed' = consumed + generator_offset + n /\ generator_offset' = 0
                 \/ consumed' = consumed /\ generator_offset' = generator_offset + n
        BY <2>3, CopyFacts
      <4>2. Unsent' = generated' - consumed' - generator_offset'
        BY DEF Unsent, DataLen
      <4> QED
        BY <4>1, <4>2, Counters
    <3> QED
      BY <2>1, <3>1 DEF UnsentBounded
  <2>4. CASE Call \/ RequestCompleted \/ EndOfStream \/ UNCHANGED vars
    <3>1. Unsent' = Unsent
      BY <2>4 DEF Call, RequestCompleted, EndOfStream, vars, generator, Unsent, DataLen
    <3> QED
      BY <3>1 DEF UnsentBounded
  <2> QED
    BY <2>2, <2>3, <2>4 DEF Next, GeneratorCallback
<1> QED
  BY <1>1, <1>2, Invariance, PTL DEF Spec

\* The callback implements the stream: each of its steps hands over the next
\* bytes, ends the response after the last byte, or changes nothing visible.
THEOREM Refinement == Spec => ImplementsStream
<1>1. Init => Stream!StreamInit
  BY DEF Init, Stream!StreamInit
<1>2. IInv /\ [Next]_vars => [Stream!Produce \/ Stream!Send \/ Stream!Finish]_(Stream!streamVars)
  <2> SUFFICES ASSUME IInv, [Next]_vars
               PROVE  [Stream!Produce \/ Stream!Send \/ Stream!Finish]_(Stream!streamVars)
    OBVIOUS
  <2>1. CASE Generate
    <3>1. generated' \in Nat /\ generated' >= generated /\ generator_end' \in BOOLEAN
      BY <2>1, Counters, GenerateFacts
    <3> QED
      BY <2>1, <3>1 DEF Generate, Stream!Produce
  <2>2. CASE Copy
    <3>1. PICK n \in Nat :
            /\ n > 0 /\ n <= Unsent /\ last' = last + n
            /\ generated' = generated /\ generator_end' = generator_end /\ pc' = "wait"
      BY <2>2, CopyFacts
    <3>2. last < generated /\ last' \in last + 1 .. generated
      BY <3>1, Counters
    <3>3. pc = "fill"
      BY <2>2 DEF Copy
    <3> QED
      BY <3>1, <3>2, <3>3 DEF Stream!Send
  <2>3. CASE EndOfStream
    <3>1. DoneComplete' /\ pc' = "done" /\ UNCHANGED <<generated, generator_end, last>> /\ Unsent' = Unsent
      BY <2>3, EndOfStreamInv DEF IInv, EndOfStream, generator, Unsent, DataLen
    <3>2. generator_end /\ last = generated
      BY <3>1, Counters DEF DoneComplete
    <3> QED
      BY <3>1, <3>2 DEF Stream!Finish
  <2>4. CASE Call \/ RequestCompleted \/ UNCHANGED vars
    <3>1. UNCHANGED <<generated, generator_end, last>> /\ ((pc' = "done") = (pc = "done"))
      BY <2>4 DEF Call, RequestCompleted, vars, generator
    <3> QED
      BY <3>1 DEF Stream!streamVars
  <2> QED
    BY <2>1, <2>2, <2>3, <2>4 DEF Next, GeneratorCallback
<1> QED
  BY <1>1, <1>2, Invariance, PTL DEF Spec, ImplementsStream, Stream!StreamSpec

-----------------------------------------------------------------------------
(* Sequences *)

\* The function FlattenSeq evaluates at its last index.
FlattenRow(f, seqs, n) ==
    f = [i \in 1..n |-> IF i = 1 THEN seqs[i] ELSE f[i - 1] \o seqs[i]]

\* Such a function exists for every length.
LEMMA FlattenRowExists ==
    ASSUME NEW seqs, NEW N \in Nat
    PROVE  \E f : FlattenRow(f, seqs, N)
<1> DEFINE P == {n \in Nat : \E f : FlattenRow(f, seqs, n)}
<1>1. 0 \in P
  <2> DEFINE f == [i \in 1..0 |-> 0]
  <2>1. f = [i \in 1..0 |-> IF i = 1 THEN seqs[i] ELSE f[i - 1] \o seqs[i]]
    OBVIOUS
  <2> QED
    BY <2>1 DEF FlattenRow
<1>2. ASSUME NEW n \in Nat, n \in P PROVE n + 1 \in P
  <2>1. PICK f : FlattenRow(f, seqs, n)
    BY <1>2
  <2> DEFINE x == IF n = 0 THEN seqs[1] ELSE f[n] \o seqs[n + 1]
             g == [i \in 1..n + 1 |-> IF i = n + 1 THEN x ELSE f[i]]
  <2>2. ASSUME NEW i \in 1..n + 1 PROVE g[i] = IF i = 1 THEN seqs[i] ELSE g[i - 1] \o seqs[i]
    <3>1. CASE i = n + 1
      <4>1. g[i] = x
        BY <3>1
      <4>2. n # 0 => g[n] = f[n]
        BY <3>1
      <4> HIDE DEF g
      <4>3. CASE n = 0
        BY <3>1, <4>1, <4>3
      <4>4. CASE n # 0
        <5>1. i # 1 /\ i - 1 = n
          BY <3>1, <4>4
        <5>2. x = f[n] \o seqs[n + 1]
          BY <4>4
        <5> HIDE DEF x
        <5> QED
          BY <3>1, <4>1, <4>2, <4>4, <5>1, <5>2
      <4> QED
        BY <4>3, <4>4
    <3>2. CASE i # n + 1
      <4>1. i \in 1..n
        BY <3>2
      <4>2. f[i] = IF i = 1 THEN seqs[i] ELSE f[i - 1] \o seqs[i]
        BY <2>1, <4>1 DEF FlattenRow
      <4>3. g[i] = f[i]
        BY <3>2
      <4>4. i # 1 => g[i - 1] = f[i - 1]
        <5>1. i # 1 => i - 1 \in 1..n + 1 /\ i - 1 # n + 1
          BY <3>2
        <5> QED
          BY <5>1
      <4> HIDE DEF g
      <4> QED
        BY <4>2, <4>3, <4>4
    <3> QED
      BY <3>1, <3>2
  <2>3. FlattenRow(g, seqs, n + 1)
    <3>1. g = [i \in 1..n + 1 |-> g[i]]
      OBVIOUS
    <3> HIDE DEF g
    <3>2. g = [i \in 1..n + 1 |-> IF i = 1 THEN seqs[i] ELSE g[i - 1] \o seqs[i]]
      BY <3>1, <2>2
    <3> QED
      BY <3>2 DEF FlattenRow
  <2> QED
    BY <2>3
<1> HIDE DEF P
<1>3. Nat \subseteq P
  BY <1>1, <1>2, SetInduction
<1> QED
  BY <1>3 DEF P

\* FlattenSeq is what it has at the last index.
LEMMA FlattenIs ==
    ASSUME NEW C, NEW seqs \in Seq(C), seqs # <<>>
    PROVE  \E f : FlattenRow(f, seqs, Len(seqs)) /\ FlattenSeq(seqs) = f[Len(seqs)]
<1> DEFINE f == CHOOSE g : FlattenRow(g, seqs, Len(seqs))
<1>1. Len(seqs) \in Nat /\ Len(seqs) # 0
  OBVIOUS
<1>2. FlattenRow(f, seqs, Len(seqs))
  BY <1>1, FlattenRowExists
<1>3. FlattenSeq(seqs) = f[Len(seqs)]
  BY <1>1 DEF FlattenSeq, FlattenRow
<1> QED
  BY <1>2, <1>3

Agree(s, t, n) == \A i \in 1..n : s[i] = t[i]

\* It agrees on what two rows of sequences begin with.
LEMMA FlattenRowsAgree ==
    ASSUME NEW seqs, NEW more, NEW n \in Nat, NEW m \in Nat, n <= m, Agree(seqs, more, n),
           NEW f, NEW g, FlattenRow(f, seqs, n), FlattenRow(g, more, m)
    PROVE  Agree(f, g, n)
<1> DEFINE P == {i \in Nat : i \in 1..n => f[i] = g[i]}
<1>1. 0 \in P
  OBVIOUS
<1>2. ASSUME NEW i \in Nat, i \in P PROVE i + 1 \in P
  <2> SUFFICES ASSUME i + 1 \in 1..n PROVE f[i + 1] = g[i + 1]
    OBVIOUS
  <2> DEFINE j == i + 1
  <2>1. j \in 1..n /\ j \in 1..m /\ j - 1 = i /\ seqs[j] = more[j]
    BY DEF Agree
  <2>2. j # 1 => i \in 1..n /\ f[i] = g[i]
    BY <1>2
  <2> HIDE DEF j
  <2>3. f[j] = IF j = 1 THEN seqs[j] ELSE f[i] \o seqs[j]
    BY <2>1 DEF FlattenRow
  <2>4. g[j] = IF j = 1 THEN more[j] ELSE g[i] \o more[j]
    BY <2>1 DEF FlattenRow
  <2>5. f[j] = g[j]
    BY <2>1, <2>2, <2>3, <2>4
  <2> QED
    BY <2>5 DEF j
<1> HIDE DEF P
<1>3. Nat \subseteq P
  BY <1>1, <1>2, SetInduction
<1> QED
  BY <1>3 DEF P, Agree

\* Sequences put after one another are one sequence.
LEMMA FlattenType ==
    ASSUME NEW C, NEW seqs \in Seq(Seq(C))
    PROVE  FlattenSeq(seqs) \in Seq(C)
<1>1. CASE seqs = <<>>
  <2>1. FlattenSeq(seqs) = <<>>
    BY <1>1 DEF FlattenSeq
  <2> QED
    BY <2>1
<1>2. CASE seqs # <<>>
  <2>1. PICK f : FlattenRow(f, seqs, Len(seqs)) /\ FlattenSeq(seqs) = f[Len(seqs)]
    BY <1>2, FlattenIs
  <2> DEFINE n == Len(seqs)
             P == {i \in Nat : i \in 1..n => f[i] \in Seq(C)}
  <2>2. 0 \in P
    OBVIOUS
  <2>3. ASSUME NEW i \in Nat, i \in P PROVE i + 1 \in P
    <3> SUFFICES ASSUME i + 1 \in 1..n PROVE f[i + 1] \in Seq(C)
      OBVIOUS
    <3> DEFINE j == i + 1
    <3>1. j \in 1..n /\ j - 1 = i /\ seqs[j] \in Seq(C)
      OBVIOUS
    <3>2. j # 1 => f[i] \in Seq(C)
      BY <2>3
    <3> HIDE DEF j
    <3>3. f[j] = IF j = 1 THEN seqs[j] ELSE f[i] \o seqs[j]
      BY <2>1, <3>1 DEF FlattenRow
    <3>4. f[j] \in Seq(C)
      BY <3>1, <3>2, <3>3
    <3> QED
      BY <3>4 DEF j
  <2>4. n \in Nat /\ n \in 1..n
    BY <1>2
  <2> HIDE DEF P
  <2>5. Nat \subseteq P
    BY <2>2, <2>3, SetInduction
  <2> QED
    BY <2>1, <2>4, <2>5 DEF P
<1> QED
  BY <1>1, <1>2

\* One more sequence in the row.
LEMMA FlattenAppend ==
    ASSUME NEW C, NEW seqs \in Seq(Seq(C)), NEW s \in Seq(C)
    PROVE  FlattenSeq(Append(seqs, s)) = FlattenSeq(seqs) \o s
<1> DEFINE more == Append(seqs, s)
           n == Len(seqs)
<1>1. /\ more \in Seq(Seq(C)) /\ more # <<>> /\ Len(more) = n + 1 /\ n \in Nat
      /\ more[n + 1] = s /\ \A i \in 1..n : seqs[i] = more[i]
  <2>1. more \in Seq(Seq(C)) /\ Len(more) = n + 1 /\ n \in Nat /\ more[n + 1] = s
    OBVIOUS
  <2>2. \A i \in 1..n : seqs[i] = more[i]
    OBVIOUS
  <2> HIDE DEF more
  <2>3. more # <<>>
    BY <2>1
  <2> QED
    BY <2>1, <2>2, <2>3
<1> HIDE DEF more
<1>2. PICK g : FlattenRow(g, more, n + 1) /\ FlattenSeq(more) = g[n + 1]
  BY <1>1, FlattenIs
<1>3. g[n + 1] = IF n + 1 = 1 THEN s ELSE g[n] \o s
  <2> DEFINE j == n + 1
  <2>1. j \in 1..j /\ j - 1 = n /\ more[j] = s /\ FlattenRow(g, more, j)
    BY <1>1, <1>2
  <2> HIDE DEF j
  <2>2. g[j] = IF j = 1 THEN s ELSE g[n] \o s
    BY <2>1 DEF FlattenRow
  <2> QED
    BY <2>2 DEF j
<1>4. CASE seqs = <<>>
  <2>1. n = 0 /\ FlattenSeq(seqs) = <<>>
    BY <1>4 DEF FlattenSeq
  <2>2. <<>> \o s = s
    OBVIOUS
  <2> QED
    BY <1>2, <1>3, <2>1, <2>2 DEF more
<1>5. CASE seqs # <<>>
  <2>1. n # 0
    BY <1>5
  <2>2. PICK f : FlattenRow(f, seqs, n) /\ FlattenSeq(seqs) = f[n]
    BY <1>5, FlattenIs
  <2>3. \A i \in 1..n : f[i] = g[i]
    <3> DEFINE m == n + 1
    <3>1. n <= m /\ m \in Nat /\ n \in Nat /\ FlattenRow(g, more, m)
      BY <1>1, <1>2
    <3> HIDE DEF m, n
    <3>2. FlattenRow(f, seqs, n) /\ Agree(seqs, more, n)
      BY <1>1, <2>2 DEF Agree
    <3>3. Agree(f, g, n)
      BY <3>1, <3>2, FlattenRowsAgree
    <3> QED
      BY <3>3 DEF Agree
  <2>4. f[n] = g[n] /\ n + 1 # 1
    <3>1. n \in Nat
      BY <1>1
    <3> HIDE DEF n
    <3>2. n \in 1..n
      BY <2>1, <3>1
    <3> QED
      BY <2>1, <2>3, <3>1, <3>2
  <2> QED
    BY <1>2, <1>3, <2>2, <2>4 DEF more
<1> QED
  BY <1>4, <1>5

-----------------------------------------------------------------------------
(* Texts *)

\* What the builders write themselves. These are strings, too; the provers do not
\* know it of any string.
Marks == {"\n", " ", "\"", "\\", ",", ":", "{", "}", "[", "]", "n", "u", "0", "1", "F",
          "<", ">", "/", "=", "&amp;", "&apos;", "&lt;", "&gt;", "&quot;", "<?xml version=\"1.0\"?>"}

Char == STRING \cup Marks
Texts == Seq(Char)

\* What Append returns.
LEMMA AppendFacts ==
    ASSUME NEW B, NEW s \in Seq(B), NEW x \in B
    PROVE  /\ Append(s, x) \in Seq(B)
           /\ Len(Append(s, x)) = Len(s) + 1
           /\ Append(s, x)[Len(s) + 1] = x
           /\ \A i \in 1..Len(s) : Append(s, x)[i] = s[i]
OBVIOUS

\* What concatenation returns.
LEMMA ConcatFacts ==
    ASSUME NEW B, NEW s \in Seq(B), NEW t \in Seq(B)
    PROVE  /\ s \o t \in Seq(B)
           /\ Len(s \o t) = Len(s) + Len(t)
           /\ \A i \in 1..Len(s) : (s \o t)[i] = s[i]
           /\ \A i \in 1..Len(t) : (s \o t)[Len(s) + i] = t[i]
OBVIOUS

\* Sequences with the same members are equal.
LEMMA SameText ==
    ASSUME NEW B, NEW s \in Seq(B), NEW t \in Seq(B), Len(s) = Len(t), \A i \in 1..Len(s) : s[i] = t[i]
    PROVE  s = t
OBVIOUS

\* Nothing is added by the empty sequence; the whole is a part of itself.
LEMMA ConcatNothing ==
    ASSUME NEW B, NEW s \in Seq(B)
    PROVE  s \o <<>> = s /\ <<>> \o s = s /\ SubSeq(s, 1, 0) = <<>> /\ SubSeq(s, 1, Len(s)) = s
OBVIOUS

\* To append is to concatenate one.
LEMMA ConcatOne ==
    ASSUME NEW B, NEW s \in Seq(B), NEW x \in B
    PROVE  s \o <<x>> = Append(s, x)
<1>1. s \o <<x>> \in Seq(B) /\ Append(s, x) \in Seq(B)
  OBVIOUS
<1>2. Len(s \o <<x>>) = Len(Append(s, x))
  OBVIOUS
<1>3. \A i \in 1..Len(Append(s, x)) : (s \o <<x>>)[i] = Append(s, x)[i]
  OBVIOUS
<1> QED
  BY <1>1, <1>2, <1>3, SameText

\* Concatenation is associative.
LEMMA ConcatAssoc ==
    ASSUME NEW B, NEW s \in Seq(B), NEW t \in Seq(B), NEW u \in Seq(B)
    PROVE  (s \o t) \o u = s \o (t \o u)
<1>1. (s \o t) \o u \in Seq(B) /\ s \o (t \o u) \in Seq(B)
  OBVIOUS
<1>2. Len((s \o t) \o u) = Len(s \o (t \o u))
  OBVIOUS
<1>3. \A i \in 1..Len((s \o t) \o u) : ((s \o t) \o u)[i] = (s \o (t \o u))[i]
  OBVIOUS
<1> QED
  BY <1>1, <1>2, <1>3, SameText

\* Concatenation of what has one more.
LEMMA ConcatAppend ==
    ASSUME NEW B, NEW s \in Seq(B), NEW t \in Seq(B), NEW x \in B
    PROVE  s \o Append(t, x) = Append(s \o t, x)
<1>1. s \o Append(t, x) \in Seq(B) /\ Append(s \o t, x) \in Seq(B)
  OBVIOUS
<1>2. Len(s \o Append(t, x)) = Len(Append(s \o t, x))
  OBVIOUS
<1>3. \A i \in 1..Len(s \o Append(t, x)) : (s \o Append(t, x))[i] = Append(s \o t, x)[i]
  OBVIOUS
<1> QED
  BY <1>1, <1>2, <1>3, SameText

\* The beginning of a sequence, with one more.
LEMMA FrontAppend ==
    ASSUME NEW B, NEW s \in Seq(B), NEW n \in Nat, n + 1 <= Len(s)
    PROVE  /\ SubSeq(s, 1, n) \in Seq(B) /\ s[n + 1] \in B
           /\ SubSeq(s, 1, n + 1) = Append(SubSeq(s, 1, n), s[n + 1])
<1>1. SubSeq(s, 1, n) \in Seq(B) /\ s[n + 1] \in B /\ Len(SubSeq(s, 1, n)) = n
  OBVIOUS
<1>2. SubSeq(s, 1, n + 1) \in Seq(B) /\ Append(SubSeq(s, 1, n), s[n + 1]) \in Seq(B)
  OBVIOUS
<1>3. Len(SubSeq(s, 1, n + 1)) = n + 1 /\ Len(Append(SubSeq(s, 1, n), s[n + 1])) = n + 1
  OBVIOUS
<1>4. \A i \in 1..n + 1 : SubSeq(s, 1, n + 1)[i] = Append(SubSeq(s, 1, n), s[n + 1])[i]
  OBVIOUS
<1> QED
  BY <1>1, <1>2, <1>3, <1>4, SameText

-----------------------------------------------------------------------------
(* Text without its indentation *)

\* After this a space is indentation.
Ends(s) == s = <<>> \/ s[Len(s)] \in {"\n", " ", ":"}
Spare(s, chr) == chr = "\n" \/ (chr = " " /\ Ends(s))

Pieces(s) == [i \in DOMAIN s |-> IF Layout(s, i) THEN <<>> ELSE <<s[i]>>]

\* A piece for each character.
LEMMA PiecesType == ASSUME NEW s \in Texts PROVE Pieces(s) \in Seq(Texts) /\ Len(Pieces(s)) = Len(s)
<1>1. DOMAIN s = 1..Len(s) /\ Len(s) \in Nat /\ \A i \in 1..Len(s) : s[i] \in Char
  BY DEF Texts
<1>2. \A i \in 1..Len(s) : <<>> \in Texts /\ <<s[i]>> \in Texts
  BY <1>1 DEF Texts
<1>3. Pieces(s) \in [1..Len(s) -> Texts]
  BY <1>1, <1>2 DEF Pieces
<1> HIDE DEF Texts
<1> QED
  BY <1>1, <1>3

\* A text without its indentation is a text.
LEMMA BareType == ASSUME NEW s \in Texts PROVE Bare(s) \in Texts
BY PiecesType, FlattenType DEF Bare, Pieces, Texts

\* One more character.
LEMMA BareAppend ==
    ASSUME NEW s \in Texts, NEW chr \in Char
    PROVE  Bare(Append(s, chr)) = IF Spare(s, chr) THEN Bare(s) ELSE Append(Bare(s), chr)
<1> DEFINE t == Append(s, chr)
           n == Len(s)
           piece == IF Spare(s, chr) THEN <<>> ELSE <<chr>>
<1>0. /\ t \in Texts /\ Len(t) = n + 1 /\ t[n + 1] = chr
      /\ \A i \in 1..n : t[i] = s[i]
  BY AppendFacts DEF Texts
<1> HIDE DEF t
<1>1. /\ n \in Nat /\ DOMAIN s = 1..n /\ DOMAIN t = 1..n + 1 /\ t[n + 1] = chr
      /\ \A i \in 1..n : t[i] = s[i]
  BY <1>0 DEF Texts
<1>2. t \in Texts /\ Len(t) = n + 1
  BY <1>0
<1> HIDE DEF n
<1>3. \A i \in 1..n : Layout(t, i) <=> Layout(s, i)
  <2> SUFFICES ASSUME NEW i \in 1..n PROVE Layout(t, i) <=> Layout(s, i)
    OBVIOUS
  <2>1. t[i] = s[i]
    BY <1>1
  <2>2. i # 1 => t[i - 1] = s[i - 1]
    <3>1. i # 1 => i - 1 \in 1..n
      BY <1>1
    <3> QED
      BY <3>1, <1>1
  <2> QED
    BY <2>1, <2>2 DEF Layout
<1>4. Layout(t, n + 1) <=> Spare(s, chr)
  <2>1. n = 0 <=> s = <<>>
    BY DEF Texts, n
  <2>2. n # 0 => t[n] = s[n]
    BY <1>1
  <2>4. Layout(t, n + 1) <=> t[n + 1] = "\n" \/ (t[n + 1] = " " /\ (n = 0 \/ t[n] \in {"\n", " ", ":"}))
    <3> DEFINE e == n + 1
    <3>1. ((e = 1) <=> (n = 0)) /\ e - 1 = n
      <4>1. n \in Nat
        BY <1>1
      <4> QED
        BY <4>1
    <3> HIDE DEF e
    <3>2. Layout(t, e) <=> t[e] = "\n" \/ (t[e] = " " /\ (n = 0 \/ t[n] \in {"\n", " ", ":"}))
      BY <3>1 DEF Layout
    <3> QED
      BY <3>2 DEF e
  <2>5. Ends(s) <=> n = 0 \/ s[n] \in {"\n", " ", ":"}
    BY <2>1 DEF Ends, n
  <2> QED
    BY <1>1, <2>2, <2>4, <2>5 DEF Spare
<1>5. piece \in Texts
  <2>1. <<>> \in Seq(Char) /\ <<chr>> \in Seq(Char)
    OBVIOUS
  <2> QED
    BY <2>1 DEF Texts
<1>6. Pieces(t) = Append(Pieces(s), piece)
  <2>1. Pieces(s) \in Seq(Texts) /\ Len(Pieces(s)) = n
    BY PiecesType DEF n
  <2>2. Pieces(t) \in Seq(Texts) /\ Len(Pieces(t)) = n + 1
    BY <1>2, PiecesType
  <2>3. \A i \in 1..n : Pieces(t)[i] = Pieces(s)[i]
    <3> SUFFICES ASSUME NEW i \in 1..n PROVE Pieces(t)[i] = Pieces(s)[i]
      OBVIOUS
    <3>1. i \in DOMAIN s /\ i \in DOMAIN t /\ t[i] = s[i] /\ (Layout(t, i) <=> Layout(s, i))
      BY <1>1, <1>3
    <3> QED
      BY <3>1 DEF Pieces
  <2>4. Pieces(t)[n + 1] = piece
    <3>1. n + 1 \in DOMAIN t
      BY <1>1
    <3> QED
      BY <1>1, <1>4, <3>1 DEF Pieces
  <2> HIDE DEF piece
  <2> DEFINE p == Pieces(t)
             q == Pieces(s)
  <2>5. p \in Seq(Texts) /\ q \in Seq(Texts) /\ Len(p) = n + 1 /\ Len(q) = n /\ n \in Nat /\ p[n + 1] = piece
    BY <1>1, <2>1, <2>2, <2>4
  <2>6. \A i \in 1..n : p[i] = q[i]
    BY <2>3
  <2> HIDE DEF p, q, Texts
  <2> DEFINE a == Append(q, piece)
  <2>7. a \in Seq(Texts) /\ Len(a) = n + 1 /\ a[n + 1] = piece /\ \A i \in 1..n : a[i] = q[i]
    BY <2>5, <1>5, AppendFacts
  <2> HIDE DEF a
  <2>8. \A i \in 1..n + 1 : p[i] = a[i]
    BY <2>5, <2>6, <2>7
  <2>9. p = a
    BY <2>5, <2>7, <2>8, SameText
  <2> QED
    BY <2>9 DEF p, q, a
<1>7. Bare(t) = Bare(s) \o piece
  <2>1. Pieces(s) \in Seq(Seq(Char)) /\ piece \in Seq(Char)
    BY <1>5, PiecesType DEF Texts
  <2>2. Bare(t) = FlattenSeq(Pieces(t)) /\ Bare(s) = FlattenSeq(Pieces(s))
    BY DEF Bare, Pieces
  <2> HIDE DEF piece
  <2> QED
    BY <1>6, <2>1, <2>2, FlattenAppend
<1>8. Bare(s) \in Seq(Char)
  BY BareType DEF Texts
<1> DEFINE x == Bare(s)
<1>9. x \in Seq(Char) /\ x \o <<>> = x /\ x \o <<chr>> = Append(x, chr)
  BY <1>8, ConcatNothing, ConcatOne
<1> HIDE DEF x
<1> QED
  BY <1>7, <1>9 DEF t, x
-----------------------------------------------------------------------------
\* Texts that are the same but for indentation, and go on so.
Alike(s, t) ==
    /\ s \in Texts /\ t \in Texts
    /\ Bare(s) = Bare(t)
    /\ Ends(s) <=> Ends(t)

\* They stay alike with one more character,
LEMMA AlikeAppend ==
    ASSUME NEW s, NEW t, Alike(s, t), NEW chr \in Char
    PROVE  Alike(Append(s, chr), Append(t, chr))
<1>1. ASSUME NEW r \in Texts
      PROVE  Append(r, chr) \in Texts /\ (Ends(Append(r, chr)) <=> chr \in {"\n", " ", ":"})
  <2>1. Append(r, chr) \in Texts /\ Append(r, chr)[Len(Append(r, chr))] = chr /\ Append(r, chr) # <<>>
    <3> DEFINE a == Append(r, chr)
    <3>1. a \in Seq(Char) /\ Len(a) = Len(r) + 1 /\ Len(r) \in Nat /\ a[Len(r) + 1] = chr
      <4>1. r \in Seq(Char)
        BY DEF Texts
      <4> QED
        BY <4>1, AppendFacts
    <3> HIDE DEF a
    <3>2. Len(a) # 0
      BY <3>1
    <3>3. a # <<>>
      BY <3>2
    <3> QED
      BY <3>1, <3>3 DEF Texts, a
  <2> QED
    BY <2>1 DEF Ends
<1>2. s \in Texts /\ t \in Texts /\ Bare(s) = Bare(t) /\ (Ends(s) <=> Ends(t))
  BY DEF Alike
<1>3. Bare(Append(s, chr)) = Bare(Append(t, chr))
  BY <1>2, BareAppend DEF Spare
<1> QED
  BY <1>1, <1>2, <1>3 DEF Alike

\* and with any text.
LEMMA AlikeConcat ==
    ASSUME NEW s, NEW t, Alike(s, t), NEW c \in Texts
    PROVE  Alike(s \o c, t \o c)
<1> DEFINE P == {n \in Nat : n <= Len(c) => Alike(s \o SubSeq(c, 1, n), t \o SubSeq(c, 1, n))}
<1>1. s \in Seq(Char) /\ t \in Seq(Char) /\ c \in Seq(Char)
  BY DEF Alike, Texts
<1>2. 0 \in P
  <2>1. SubSeq(c, 1, 0) = <<>> /\ s \o <<>> = s /\ t \o <<>> = t
    BY <1>1, ConcatNothing
  <2> QED
    BY <2>1
<1>3. ASSUME NEW n \in Nat, n \in P PROVE n + 1 \in P
  <2> SUFFICES ASSUME n + 1 <= Len(c)
               PROVE  Alike(s \o SubSeq(c, 1, n + 1), t \o SubSeq(c, 1, n + 1))
    OBVIOUS
  <2> DEFINE front == SubSeq(c, 1, n)
             chr == c[n + 1]
  <2>1. front \in Seq(Char) /\ chr \in Char /\ SubSeq(c, 1, n + 1) = Append(front, chr)
    BY <1>1, FrontAppend
  <2>2. Alike(s \o front, t \o front)
    BY <1>1, <1>3
  <2> HIDE DEF front, chr
  <2>3. s \o Append(front, chr) = Append(s \o front, chr) /\ t \o Append(front, chr) = Append(t \o front, chr)
    <3>1. s \o Append(front, chr) = Append(s \o front, chr)
      BY <1>1, <2>1, ConcatAppend
    <3>2. t \o Append(front, chr) = Append(t \o front, chr)
      BY <1>1, <2>1, ConcatAppend
    <3> QED
      BY <3>1, <3>2
  <2> QED
    BY <2>1, <2>2, <2>3, AlikeAppend
<1> HIDE DEF P
<1>4. Nat \subseteq P
  BY <1>2, <1>3, SetInduction
<1>5. Len(c) \in P /\ Len(c) \in Nat /\ SubSeq(c, 1, Len(c)) = c
  BY <1>1, <1>4, ConcatNothing
<1>6. Len(c) <= Len(c)
  BY <1>5
<1> QED
  BY <1>5, <1>6 DEF P

\* What the builders write themselves is text.
LEMMA MarkType == \A x \in Marks : x \in Char /\ <<x>> \in Texts
<1> SUFFICES ASSUME NEW x \in Marks PROVE x \in Char /\ <<x>> \in Texts
  OBVIOUS
<1>1. x \in Char
  BY DEF Char
<1> QED
  BY <1>1 DEF Texts

Space == " "
LineEnd == "\n"

\* Line ends and spaces are text, and what they do to what follows.
LEMMA BlankFacts ==
    /\ Space \in Char /\ <<Space>> \in Texts
    /\ LineEnd \in Char /\ <<LineEnd>> \in Texts
    /\ \A s : Spare(s, LineEnd) /\ (Ends(s) => Spare(s, Space))
    /\ \A s, chr : chr \in {Space, LineEnd} /\ s[Len(s)] = chr => Ends(s)
<1>1. Space \in Marks /\ LineEnd \in Marks
  BY Zenon DEF Marks, Space, LineEnd
<1>2. \A s : Spare(s, LineEnd) /\ (Ends(s) => Spare(s, Space))
  BY Zenon DEF Spare, Space, LineEnd
<1>3. \A s, chr : chr \in {Space, LineEnd} /\ s[Len(s)] = chr => Ends(s)
  BY Zenon DEF Ends, Space, LineEnd
<1> QED
  BY <1>1, <1>2, <1>3, MarkType

\* What json_builder is between two calls.
JsonBuilders == [text : Texts, stack : Texts, mode : {"NORMAL", "IN_VALUE", "AFTER_VALUE"}, need_indent : BOOLEAN]

-----------------------------------------------------------------------------
(* Builders whose text was sent from, and builders in memory *)

\* What was sent of a text: what was taken away from the builder, and what is
\* still the beginning of its text.
Past == [gone : Texts, kept : Texts]
Begins(s, front) == \E t \in Texts : s = front \o t

\* The beginning stays when the text grows.
LEMMA BeginsConcat ==
    ASSUME NEW s \in Texts, NEW front \in Texts, Begins(s, front), NEW c \in Texts
    PROVE  Begins(s \o c, front)
<1>1. PICK t \in Texts : s = front \o t
  BY DEF Begins
<1>2. (front \o t) \o c = front \o (t \o c)
  <2>1. front \in Seq(Char) /\ t \in Seq(Char) /\ c \in Seq(Char)
    BY DEF Texts
  <2> QED
    BY <2>1, ConcatAssoc
<1>3. t \o c \in Texts
  BY ConcatFacts DEF Texts
<1> QED
  BY <1>1, <1>2, <1>3 DEF Begins

\* b is a builder whose text was sent from, m one in memory.
JsonTwins(past, b, m) ==
    /\ past \in Past /\ b \in JsonBuilders /\ m \in JsonBuilders
    /\ b.stack = m.stack /\ b.mode = m.mode /\ b.need_indent = m.need_indent
    /\ Begins(b.text, past.kept)
    /\ Alike(past.gone \o b.text, m.text)

\* Indentation leaves no trace.
Unseen(s, c) ==
    /\ c \in Texts
    /\ Bare(s \o c) = Bare(s)
    /\ Ends(s \o c)

\* A line end, or a space where it is indentation, leaves no trace.
LEMMA AppendUnseen ==
    ASSUME NEW s \in Texts, NEW chr \in {Space, LineEnd}, Spare(s, chr)
    PROVE  Append(s, chr) \in Texts /\ Bare(Append(s, chr)) = Bare(s) /\ Ends(Append(s, chr))
<1>1. chr \in Char
  BY BlankFacts
<1> DEFINE a == Append(s, chr)
<1>2. a \in Texts /\ Len(a) = Len(s) + 1 /\ Len(s) \in Nat /\ a[Len(s) + 1] = chr
  <2>1. s \in Seq(Char)
    BY DEF Texts
  <2>2. Len(s) \in Nat
    BY <2>1
  <2> QED
    BY <1>1, <2>1, <2>2, AppendFacts DEF Texts
<1>3. Bare(a) = Bare(s)
  BY <1>1, BareAppend
<1> HIDE DEF a
<1>4. a[Len(a)] = chr
  BY <1>2
<1>5. Ends(a)
  BY <1>4, BlankFacts
<1> QED
  BY <1>2, <1>3, <1>5 DEF a

Spaces(n) == [i \in 1..n |-> Space]

\* A line's indentation is text.
LEMMA SpacesType ==
    ASSUME NEW k \in Nat
    PROVE  Spaces(k) \in Texts /\ Len(Spaces(k)) = k /\ \A i \in 1..k : Spaces(k)[i] = Space
<1>1. Space \in Char
  BY BlankFacts
<1>2. Spaces(k) \in [1..k -> Char] /\ \A i \in 1..k : Spaces(k)[i] = Space
  BY <1>1 DEF Spaces
<1> QED
  BY <1>2 DEF Texts

\* A line end and the spaces after it leave no trace,
LEMMA LineUnseen ==
    ASSUME NEW s \in Texts, NEW n \in Nat
    PROVE  Unseen(s, <<LineEnd>> \o Spaces(n))
<1> DEFINE P == {k \in Nat : Unseen(s, <<LineEnd>> \o Spaces(k))}
<1>1. s \in Seq(Char) /\ Space \in Char /\ LineEnd \in Char /\ <<LineEnd>> \in Seq(Char)
  BY BlankFacts DEF Texts
<1>2. \A k \in Nat : Spaces(k) \in Seq(Char) /\ Len(Spaces(k)) = k /\ \A i \in 1..k : Spaces(k)[i] = Space
  BY SpacesType DEF Texts
<1>3. 0 \in P
  <2>1. Spaces(0) = <<>>
    BY DEF Spaces
  <2>2. <<LineEnd>> \o Spaces(0) = <<LineEnd>>
    BY <1>1, <2>1, ConcatNothing
  <2>3. s \o <<LineEnd>> = Append(s, LineEnd)
    BY <1>1, ConcatOne
  <2>4. Spare(s, LineEnd)
    BY BlankFacts
  <2> QED
    BY <1>1, <2>2, <2>3, <2>4, AppendUnseen DEF Unseen, Texts
<1>4. ASSUME NEW k \in Nat, k \in P PROVE k + 1 \in P
  <2> DEFINE c == <<LineEnd>> \o Spaces(k)
             t == s \o c
  <2>1. Spaces(k + 1) = Append(Spaces(k), Space)
    <3> DEFINE a == Append(Spaces(k), Space)
               e == k + 1
    <3>1. a \in Seq(Char) /\ Len(a) = e /\ a[e] = Space /\ \A i \in 1..k : a[i] = Spaces(k)[i]
      <4>1. Spaces(k) \in Seq(Char) /\ Len(Spaces(k)) = k
        BY <1>2
      <4> DEFINE r == Spaces(k)
      <4>2. r \in Seq(Char) /\ Len(r) = k
        BY <4>1
      <4> HIDE DEF r
      <4>3. /\ Append(r, Space) \in Seq(Char) /\ Len(Append(r, Space)) = k + 1
            /\ Append(r, Space)[k + 1] = Space /\ \A i \in 1..k : Append(r, Space)[i] = r[i]
        BY <1>1, <4>2, AppendFacts
      <4> QED
        BY <4>3 DEF r
    <3>2. Spaces(e) \in Seq(Char) /\ Len(Spaces(e)) = e /\ \A i \in 1..e : Spaces(e)[i] = Space
      BY <1>2
    <3> HIDE DEF a
    <3>3. \A i \in 1..e : Spaces(e)[i] = a[i]
      <4>1. ASSUME NEW i \in 1..e PROVE Spaces(e)[i] = a[i]
        <5>1. i \in 1..k \/ i = e
          OBVIOUS
        <5>2. Spaces(e)[i] = Space
          BY <3>2
        <5>3. CASE i = e
          BY <3>1, <5>2, <5>3
        <5>4. CASE i \in 1..k
          <6>1. a[i] = Spaces(k)[i] /\ Spaces(k)[i] = Space
            BY <1>2, <3>1, <5>4
          <6> QED
            BY <5>2, <6>1
        <5> QED
          BY <5>1, <5>3, <5>4
      <4> QED
        BY <4>1
    <3>4. Spaces(e) = a
      <4> HIDE DEF e
      <4> QED
        BY <3>1, <3>2, <3>3, SameText
    <3> QED
      BY <3>4 DEF a
  <2>2. c \in Seq(Char) /\ c \in Texts /\ Unseen(s, c)
    BY <1>4 DEF Unseen, Texts
  <2>3. <<LineEnd>> \o Spaces(k + 1) = Append(c, Space)
    BY <1>1, <1>2, <2>1, ConcatAppend
  <2> HIDE DEF c
  <2>4. s \o Append(c, Space) = Append(t, Space) /\ t \in Texts
    BY <1>1, <2>2, ConcatAppend, ConcatFacts DEF Texts
  <2>5. Append(c, Space) \in Texts
    BY <1>1, <2>2, AppendFacts DEF Texts
  <2>6. Bare(t) = Bare(s) /\ Spare(t, Space)
    BY <2>2, BlankFacts DEF Unseen
  <2> HIDE DEF t
  <2>7. Bare(Append(t, Space)) = Bare(s) /\ Ends(Append(t, Space))
    BY <2>4, <2>6, AppendUnseen
  <2>8. Unseen(s, Append(c, Space))
    BY <2>4, <2>5, <2>7 DEF Unseen
  <2>9. Unseen(s, <<LineEnd>> \o Spaces(k + 1))
    BY <2>3, <2>8
  <2> QED
    BY <2>9
<1> HIDE DEF P
<1>5. Nat \subseteq P
  BY <1>3, <1>4, SetInduction
<1> QED
  BY <1>5 DEF P

\* nor does a space after a colon.
LEMMA SpaceUnseen ==
    ASSUME NEW s \in Texts, Ends(s)
    PROVE  Unseen(s, <<Space>>)
<1>1. s \in Seq(Char) /\ Space \in Char /\ <<Space>> \in Seq(Char)
  BY BlankFacts DEF Texts
<1>2. s \o <<Space>> = Append(s, Space)
  BY <1>1, ConcatOne
<1>3. Spare(s, Space)
  BY BlankFacts
<1> QED
  BY <1>1, <1>2, <1>3, AppendUnseen DEF Unseen, Texts

\* Texts that are alike stay so with different indentation.
LEMMA AlikeUnseen ==
    ASSUME NEW s, NEW t, Alike(s, t), NEW c, NEW d, Unseen(s, c), Unseen(t, d)
    PROVE  Alike(s \o c, t \o d)
<1>1. s \o c \in Texts /\ t \o d \in Texts
  BY ConcatFacts DEF Alike, Unseen, Texts
<1> QED
  BY <1>1 DEF Alike, Unseen

\* The last character of a text is that of its end.
LEMMA EndsWith ==
    ASSUME NEW pre \in Texts, NEW s \in Texts, s # <<>>
    PROVE  pre \o s # <<>> /\ (pre \o s)[Len(pre \o s)] = s[Len(s)]
<1> DEFINE t == pre \o s
<1>1. /\ t \in Seq(Char) /\ Len(t) = Len(pre) + Len(s) /\ \A i \in 1..Len(s) : t[Len(pre) + i] = s[i]
      /\ Len(pre) \in Nat /\ Len(s) \in Nat
  <2>1. pre \in Seq(Char) /\ s \in Seq(Char)
    BY DEF Texts
  <2>2. Len(pre) \in Nat /\ Len(s) \in Nat
    BY <2>1
  <2> QED
    BY <2>1, <2>2, ConcatFacts
<1>2. Len(s) # 0
  BY DEF Texts
<1> HIDE DEF t
<1>3. Len(s) \in 1..Len(s) /\ Len(t) # 0
  BY <1>1, <1>2
<1>4. t # <<>>
  BY <1>3
<1> QED
  BY <1>1, <1>3, <1>4 DEF t

-----------------------------------------------------------------------------
(* JSON *)

\* Concatenation of texts, for rewriting.
LEMMA TextAssoc == \A s, t, u \in Texts : s \o (t \o u) = (s \o t) \o u
<1> SUFFICES ASSUME NEW s \in Texts, NEW t \in Texts, NEW u \in Texts PROVE s \o (t \o u) = (s \o t) \o u
  OBVIOUS
<1>1. s \in Seq(Char) /\ t \in Seq(Char) /\ u \in Seq(Char)
  BY DEF Texts
<1> QED
  BY <1>1, ConcatAssoc

\* What is added to both leaves them twins;
LEMMA JsonAddTwins ==
    ASSUME NEW past, NEW b, NEW m, JsonTwins(past, b, m), NEW c \in Texts
    PROVE  JsonTwins(past, J!Add(b, c), J!Add(m, c))
<1> DEFINE gone == past.gone
<1>1. /\ b \in JsonBuilders /\ m \in JsonBuilders /\ Alike(gone \o b.text, m.text)
      /\ gone \in Texts /\ past.kept \in Texts /\ b.text \in Texts /\ m.text \in Texts
      /\ Begins(b.text, past.kept)
  BY DEF JsonTwins, JsonBuilders, Past
<1> HIDE DEF gone
<1>2. b.text \o c \in Texts /\ m.text \o c \in Texts
  BY <1>1, ConcatFacts DEF Texts
<1>3. gone \o (b.text \o c) = (gone \o b.text) \o c
  <2>1. gone \in Texts /\ b.text \in Texts
    BY <1>1
  <2> QED
    BY <2>1, TextAssoc, Zenon
<1>4. Alike(gone \o (b.text \o c), m.text \o c)
  BY <1>1, <1>3, AlikeConcat
<1> DEFINE s == b.text \o c
           t == m.text \o c
<1>5. s \in Texts /\ t \in Texts /\ Alike(gone \o s, t) /\ Begins(s, past.kept)
  BY <1>1, <1>2, <1>4, BeginsConcat
<1>6. J!Add(b, c) = [b EXCEPT !.text = s] /\ J!Add(m, c) = [m EXCEPT !.text = t]
  BY DEF J!Add
<1> HIDE DEF s, t
<1> QED
  BY <1>5, <1>6 DEF JsonTwins, JsonBuilders, gone

\* and so does a new mode,
LEMMA JsonModeTwins ==
    ASSUME NEW past, NEW b, NEW m, JsonTwins(past, b, m), NEW x \in {"NORMAL", "IN_VALUE", "AFTER_VALUE"}
    PROVE  JsonTwins(past, [b EXCEPT !.mode = x], [m EXCEPT !.mode = x])
BY DEF JsonTwins, JsonBuilders

\* a new need_indent,
LEMMA JsonNeedTwins ==
    ASSUME NEW past, NEW b, NEW m, JsonTwins(past, b, m), NEW x \in BOOLEAN
    PROVE  JsonTwins(past, [b EXCEPT !.need_indent = x], [m EXCEPT !.need_indent = x])
BY DEF JsonTwins, JsonBuilders

\* or a new stack.
LEMMA JsonStackTwins ==
    ASSUME NEW past, NEW b, NEW m, JsonTwins(past, b, m), NEW x \in Texts
    PROVE  JsonTwins(past, [b EXCEPT !.stack = x], [m EXCEPT !.stack = x])
BY DEF JsonTwins, JsonBuilders

\* The indentation a builder would write.
AfterKey(b) == b.text # <<>> /\ J!Last(b.text) = ":"
Indent(b, stack) == IF AfterKey(b) THEN <<Space>> ELSE <<LineEnd>> \o Spaces(Len(stack))

\* Each with the indentation it would write, they stay twins.
LEMMA JsonIndentTwins ==
    ASSUME NEW past, NEW b, NEW m, JsonTwins(past, b, m), NEW stack \in Texts
    PROVE  JsonTwins(past, J!Add(b, Indent(b, stack)), J!Add(m, Indent(m, stack)))
<1> DEFINE gone == past.gone
<1>1. /\ gone \in Texts /\ past.kept \in Texts /\ Begins(b.text, past.kept) /\ b \in JsonBuilders /\ m \in JsonBuilders /\ Alike(gone \o b.text, m.text)
      /\ b.text \in Texts /\ m.text \in Texts
  BY DEF JsonTwins, JsonBuilders, Past
<1> HIDE DEF gone
<1>2. gone \o b.text \in Texts /\ Len(stack) \in Nat
  BY <1>1 DEF Alike, Texts
<1>3. AfterKey(b) => Ends(gone \o b.text)
  <2> SUFFICES ASSUME AfterKey(b) PROVE Ends(gone \o b.text)
    OBVIOUS
  <2>1. b.text # <<>> /\ b.text[Len(b.text)] = ":"
    BY Zenon DEF AfterKey, J!Last
  <2>2. (gone \o b.text)[Len(gone \o b.text)] = b.text[Len(b.text)]
    BY <1>1, <2>1, EndsWith
  <2> QED
    BY <2>1, <2>2, Zenon DEF Ends
<1>4. AfterKey(m) => Ends(m.text)
  BY Zenon DEF AfterKey, J!Last, Ends
<1>5. Unseen(gone \o b.text, Indent(b, stack))
  BY <1>2, <1>3, SpaceUnseen, LineUnseen DEF Indent
<1>6. Unseen(m.text, Indent(m, stack))
  BY <1>1, <1>2, <1>4, SpaceUnseen, LineUnseen DEF Indent
<1> DEFINE c == Indent(b, stack)
           d == Indent(m, stack)
<1>7. Unseen(gone \o b.text, c) /\ Unseen(m.text, d)
  BY <1>5, <1>6
<1> HIDE DEF c, d
<1>8. c \in Seq(Char) /\ d \in Seq(Char) /\ gone \in Seq(Char) /\ b.text \in Seq(Char) /\ m.text \in Seq(Char)
  BY <1>1, <1>7 DEF Unseen, Texts
<1>9. Alike(gone \o (b.text \o c), m.text \o d)
  <2>1. Alike((gone \o b.text) \o c, m.text \o d)
    BY <1>1, <1>7, AlikeUnseen
  <2> QED
    <3>1. c \in Texts
      BY <1>8 DEF Texts
    <3>2. gone \in Texts /\ b.text \in Texts
      BY <1>1
    <3>3. gone \o (b.text \o c) = (gone \o b.text) \o c
      BY <3>1, <3>2, TextAssoc, Zenon
    <3> QED
      BY <2>1, <3>3
<1> DEFINE s == b.text \o c
           t == m.text \o d
<1>10. s \in Texts /\ t \in Texts /\ Alike(gone \o s, t) /\ Begins(s, past.kept)
  <2>1. s \in Texts /\ t \in Texts /\ c \in Texts
    BY <1>8, ConcatFacts DEF Texts
  <2> QED
    BY <1>1, <1>9, <2>1, BeginsConcat
<1>11. J!Add(b, c) = [b EXCEPT !.text = s] /\ J!Add(m, d) = [m EXCEPT !.text = t]
  BY DEF J!Add
<1> HIDE DEF s, t
<1>12. JsonTwins(past, J!Add(b, c), J!Add(m, d))
  BY <1>10, <1>11 DEF JsonTwins, JsonBuilders, gone
<1> QED
  BY <1>12 DEF c, d

Quote == <<"\"">>
Comma == <<",">>
Ended(b) == IF b.mode = "IN_VALUE" THEN [J!Add(b, Quote) EXCEPT !.mode = "AFTER_VALUE"] ELSE b
Parted(b, start_value) ==
    IF start_value /\ Ended(b).mode = "AFTER_VALUE"
      THEN [J!Add(Ended(b), Comma) EXCEPT !.mode = "NORMAL"] ELSE Ended(b)

\* normalize_mode in three steps.
LEMMA NormalizeIs ==
    ASSUME NEW b, NEW start_value, DOMAIN b.stack = 1..Len(b.stack)
    PROVE  J!normalize_mode(b, start_value) =
             IF ~b.need_indent THEN Parted(b, start_value)
             ELSE [J!Add(Parted(b, start_value), Indent(Parted(b, start_value), b.stack)) EXCEPT !.need_indent = FALSE]
BY Zenon DEF J!normalize_mode, Parted, Ended, Quote, Comma, Indent, AfterKey, Spaces, Space, LineEnd

\* A quote and a comma are text.
LEMMA ChunkType == Quote \in Texts /\ Comma \in Texts
<1>1. "\"" \in Marks /\ "," \in Marks
  BY Zenon DEF Marks
<1> QED
  BY <1>1, MarkType, Zenon DEF Quote, Comma

\* normalize_mode keeps twins.
LEMMA NormalizeTwins ==
    ASSUME NEW past, NEW b, NEW m, JsonTwins(past, b, m), NEW start_value \in BOOLEAN
    PROVE  JsonTwins(past, J!normalize_mode(b, start_value), J!normalize_mode(m, start_value))
<1>1. b.mode = m.mode /\ b.need_indent = m.need_indent /\ b.stack = m.stack /\ b.stack \in Texts
      /\ DOMAIN b.stack = 1..Len(b.stack)
  BY DEF JsonTwins, JsonBuilders, Texts
<1>2. JsonTwins(past, Ended(b), Ended(m))
  BY <1>1, ChunkType, JsonAddTwins, JsonModeTwins DEF Ended
<1>3. Ended(b).mode = Ended(m).mode
  BY <1>2 DEF JsonTwins
<1>4. JsonTwins(past, Parted(b, start_value), Parted(m, start_value))
  BY <1>2, <1>3, ChunkType, JsonAddTwins, JsonModeTwins DEF Parted
<1> DEFINE p == Parted(b, start_value)
           q == Parted(m, start_value)
<1>5. JsonTwins(past, p, q)
  BY <1>4
<1>6. /\ J!normalize_mode(b, start_value) =
             IF ~b.need_indent THEN p ELSE [J!Add(p, Indent(p, b.stack)) EXCEPT !.need_indent = FALSE]
      /\ J!normalize_mode(m, start_value) =
             IF ~m.need_indent THEN q ELSE [J!Add(q, Indent(q, m.stack)) EXCEPT !.need_indent = FALSE]
  BY <1>1, NormalizeIs
<1> HIDE DEF p, q
<1>7. JsonTwins(past, J!Add(p, Indent(p, b.stack)), J!Add(q, Indent(q, m.stack)))
  BY <1>1, <1>5, JsonIndentTwins
<1>8. JsonTwins(past, [J!Add(p, Indent(p, b.stack)) EXCEPT !.need_indent = FALSE],
                     [J!Add(q, Indent(q, m.stack)) EXCEPT !.need_indent = FALSE])
  BY <1>7, JsonNeedTwins
<1> QED
  BY <1>1, <1>5, <1>6, <1>8

Backslash == "\\"

\* One character or two are text.
LEMMA TupleType ==
    ASSUME NEW x \in Char, NEW y \in Char
    PROVE  <<x>> \in Texts /\ <<x, y>> \in Texts
BY DEF Texts

\* An encoded character is text,
LEMMA JsonEncodedType ==
    ASSUME NEW chr \in Char
    PROVE  J!Encoded(chr) \in Texts
<1> DEFINE n == "n"
           u == <<"u", "0", "0", "1", "F">>
<1>1. Backslash \in Char /\ n \in Char /\ u \in Texts
  <2>1. Backslash \in Marks /\ n \in Marks /\ "u" \in Marks /\ "0" \in Marks /\ "1" \in Marks /\ "F" \in Marks
    BY Zenon DEF Marks, Backslash
  <2>2. "u" \in Char /\ "0" \in Char /\ "1" \in Char /\ "F" \in Char
    BY <2>1, MarkType
  <2>3. u \in Texts
    BY <2>2 DEF Texts
  <2> QED
    BY <2>1, <2>3, MarkType
<1>2. J!Encoded(chr) \in {<<Backslash, chr>>, <<Backslash, n>>, u, <<chr>>}
  BY Zenon DEF J!Encoded, Backslash
<1> HIDE DEF n, u
<1> QED
  BY <1>1, <1>2, TupleType

\* an entity a character,
LEMMA EntityType ==
    ASSUME NEW chr \in DOMAIN J!Entities
    PROVE  J!Entities[chr] \in Char
<1>1. "&amp;" \in Char /\ "&lt;" \in Char /\ "&gt;" \in Char /\ "&quot;" \in Char
  <2>1. "&amp;" \in Marks /\ "&lt;" \in Marks /\ "&gt;" \in Marks /\ "&quot;" \in Marks
    BY Zenon DEF Marks
  <2> QED
    BY <2>1, MarkType, Zenon
<1> DEFINE D == {"&", "<", ">", "\""}
<1>2. DOMAIN J!Entities = D /\ chr \in D
  BY Zenon DEF J!Entities
<1>3. J!Entities[chr] = CASE chr = "&" -> "&amp;" [] chr = "<" -> "&lt;" [] chr = ">" -> "&gt;" [] chr = "\"" -> "&quot;"
  BY <1>2, Zenon DEF J!Entities
<1>4. J!Entities[chr] \in {"&amp;", "&lt;", "&gt;", "&quot;"}
  BY <1>2, <1>3, Zenon
<1> QED
  BY <1>1, <1>4, Zenon

\* and encoded text is text.
LEMMA JsonEncodeType ==
    ASSUME NEW str \in Texts
    PROVE  J!encode(str) \in Texts /\ J!encode_xml_escape(str) \in Texts
<1>1. str \in [1..Len(str) -> Char] /\ DOMAIN str = 1..Len(str) /\ Len(str) \in Nat
  BY DEF Texts
<1>2. ASSUME NEW s \in [1..Len(str) -> Texts] PROVE J!FlattenSeq(s) \in Texts
  <2>1. s \in Seq(Seq(Char))
    BY <1>1, <1>2 DEF Texts
  <2>2. J!FlattenSeq(s) = FlattenSeq(s)
    BY Zenon DEF J!FlattenSeq, FlattenSeq
  <2> QED
    BY <2>1, <2>2, FlattenType DEF Texts
<1>3. [i \in DOMAIN str |-> J!Encoded(str[i])] \in [1..Len(str) -> Texts]
  BY <1>1, JsonEncodedType
<1> DEFINE Entity(i) == IF str[i] \in DOMAIN J!Entities THEN <<J!Entities[str[i]]>> ELSE J!Encoded(str[i])
<1>4. ASSUME NEW i \in DOMAIN str PROVE Entity(i) \in Texts
  <2>1. str[i] \in Char
    BY <1>1
  <2>2. CASE str[i] \in DOMAIN J!Entities
    <3>1. J!Entities[str[i]] \in Char
      BY <2>2, EntityType
    <3> QED
      BY <2>2, <3>1, TupleType
  <2>3. CASE str[i] \notin DOMAIN J!Entities
    BY <2>1, <2>3, JsonEncodedType
  <2> QED
    BY <2>2, <2>3
<1>5. [i \in DOMAIN str |-> Entity(i)] \in [1..Len(str) -> Texts]
  <2> HIDE DEF Entity
  <2> QED
    BY <1>1, <1>4
<1>6. J!encode(str) \in Texts
  BY <1>2, <1>3 DEF J!encode
<1>7. J!encode_xml_escape(str) \in Texts
  BY <1>2, <1>5 DEF J!encode_xml_escape
<1> QED
  BY <1>6, <1>7
-----------------------------------------------------------------------------

\* object() and array() keep twins;
LEMMA JsonOpenTwins ==
    ASSUME NEW past, NEW b, NEW m, JsonTwins(past, b, m), NEW left \in Char, NEW right \in Char
    PROVE  JsonTwins(past, J!Open(b, left, right), J!Open(m, left, right))
<1> DEFINE c == J!Add(J!normalize_mode(b, TRUE), <<left>>)
           d == J!Add(J!normalize_mode(m, TRUE), <<left>>)
<1>1. JsonTwins(past, c, d)
  BY NormalizeTwins, JsonAddTwins, TupleType
<1>2. J!Open(b, left, right) = [c EXCEPT !.stack = Append(c.stack, right)]
      /\ J!Open(m, left, right) = [d EXCEPT !.stack = Append(d.stack, right)]
  BY DEF J!Open
<1> HIDE DEF c, d
<1>3. c.stack = d.stack /\ c.stack \in Texts
  BY <1>1 DEF JsonTwins, JsonBuilders
<1> DEFINE st == Append(c.stack, right)
<1>4. st \in Texts
  BY <1>3 DEF Texts
<1>5. J!Open(b, left, right) = [c EXCEPT !.stack = st] /\ J!Open(m, left, right) = [d EXCEPT !.stack = st]
  BY <1>2, <1>3
<1> HIDE DEF st
<1> QED
  BY <1>1, <1>4, <1>5, JsonStackTwins

\* so do close(),
LEMMA JsonCloseTwins ==
    ASSUME NEW past, NEW b, NEW m, JsonTwins(past, b, m)
    PROVE  JsonTwins(past, J!close(b), J!close(m))
<1>1. b.stack = m.stack /\ b.stack \in Texts
  BY DEF JsonTwins, JsonBuilders
<1>2. CASE b.stack = <<>>
  <2>1. J!close(b) = b /\ J!close(m) = m
    BY <1>1, <1>2 DEF J!close
  <2> QED
    BY <2>1
<1>3. CASE b.stack # <<>>
  <2> DEFINE st == J!Front(b.stack)
             end == J!Last(b.stack)
             c == J!normalize_mode([b EXCEPT !.stack = st], FALSE)
             d == J!normalize_mode([m EXCEPT !.stack = st], FALSE)
  <2>1. st \in Texts /\ end \in Char
    BY <1>1, <1>3 DEF J!Front, J!Last, Texts
  <2>2. J!close(b) = [J!Add(c, <<end>>) EXCEPT !.mode = "AFTER_VALUE"]
    BY <1>3 DEF J!close
  <2>3. J!close(m) = [J!Add(d, <<end>>) EXCEPT !.mode = "AFTER_VALUE"]
    BY <1>1, <1>3 DEF J!close
  <2>4. JsonTwins(past, c, d)
    <3> HIDE DEF st
    <3> QED
      BY <2>1, JsonStackTwins, NormalizeTwins
  <2> HIDE DEF st, end, c, d
  <2>5. JsonTwins(past, J!Add(c, <<end>>), J!Add(d, <<end>>))
    BY <2>1, <2>4, TupleType, JsonAddTwins
  <2> DEFINE x == J!Add(c, <<end>>)
             y == J!Add(d, <<end>>)
  <2>6. JsonTwins(past, x, y) /\ J!close(b) = [x EXCEPT !.mode = "AFTER_VALUE"]
        /\ J!close(m) = [y EXCEPT !.mode = "AFTER_VALUE"]
    BY <2>2, <2>3, <2>5
  <2> HIDE DEF x, y
  <2>7. JsonTwins(past, [x EXCEPT !.mode = "AFTER_VALUE"], [y EXCEPT !.mode = "AFTER_VALUE"])
    BY <2>6, JsonModeTwins
  <2> QED
    BY <2>6, <2>7, Zenon
<1> QED
  BY <1>2, <1>3

\* indent(),
LEMMA JsonIndentedTwins ==
    ASSUME NEW past, NEW b, NEW m, JsonTwins(past, b, m)
    PROVE  JsonTwins(past, J!indent(b), J!indent(m))
<1>1. b.need_indent = m.need_indent
  BY DEF JsonTwins
<1>2. JsonTwins(past, [J!normalize_mode(b, FALSE) EXCEPT !.need_indent = TRUE],
                     [J!normalize_mode(m, FALSE) EXCEPT !.need_indent = TRUE])
  BY NormalizeTwins, JsonNeedTwins
<1> QED
  BY <1>1, <1>2 DEF J!indent

KeyText(str) == <<"\"">> \o J!encode(str) \o <<"\"", ":">>

\* key(),
LEMMA JsonKeyTwins ==
    ASSUME NEW past, NEW b, NEW m, JsonTwins(past, b, m), NEW str \in Texts
    PROVE  JsonTwins(past, J!key(b, str), J!key(m, str))
<1>1. KeyText(str) \in Texts
  <2> DEFINE colon == <<"\"", ":">>
  <2>1. "\"" \in Char /\ ":" \in Char
    <3>1. "\"" \in Marks /\ ":" \in Marks
      BY Zenon DEF Marks
    <3> QED
      BY <3>1, MarkType, Zenon
  <2>2. colon \in Texts
    BY <2>1, TupleType, Zenon
  <2>3. KeyText(str) = (Quote \o J!encode(str)) \o colon
    BY Zenon DEF KeyText, Quote
  <2> HIDE DEF colon
  <2>4. Quote \in Seq(Char) /\ J!encode(str) \in Seq(Char) /\ colon \in Seq(Char)
    BY <2>2, ChunkType, JsonEncodeType DEF Texts
  <2>5. (Quote \o J!encode(str)) \o colon \in Seq(Char)
    BY <2>4, ConcatFacts
  <2> QED
    BY <2>3, <2>5 DEF Texts
<1>2. J!key(b, str) = J!Add(J!normalize_mode(b, TRUE), KeyText(str))
      /\ J!key(m, str) = J!Add(J!normalize_mode(m, TRUE), KeyText(str))
  BY Zenon DEF J!key, KeyText
<1> QED
  BY <1>1, <1>2, NormalizeTwins, JsonAddTwins

\* value() and value_xml_escape() of a string, begun or continued,
LEMMA JsonValueTwins ==
    ASSUME NEW past, NEW b, NEW m, JsonTwins(past, b, m), NEW encoded \in Texts, NEW append \in BOOLEAN
    PROVE  JsonTwins(past, J!value(b, encoded, append), J!value(m, encoded, append))
<1> DEFINE Opened(x) == IF append /\ x.mode = "IN_VALUE" THEN x ELSE J!Add(J!normalize_mode(x, TRUE), Quote)
<1>1. J!value(b, encoded, append) = [J!Add(Opened(b), encoded) EXCEPT !.mode = "IN_VALUE"]
      /\ J!value(m, encoded, append) = [J!Add(Opened(m), encoded) EXCEPT !.mode = "IN_VALUE"]
  BY Zenon DEF J!value, Quote
<1>2. JsonTwins(past, Opened(b), Opened(m))
  <2>1. b.mode = m.mode
    BY DEF JsonTwins
  <2>2. JsonTwins(past, J!Add(J!normalize_mode(b, TRUE), Quote), J!Add(J!normalize_mode(m, TRUE), Quote))
    BY NormalizeTwins, JsonAddTwins, ChunkType
  <2> QED
    BY <2>1, <2>2
<1> DEFINE x == J!Add(Opened(b), encoded)
           y == J!Add(Opened(m), encoded)
<1>3. JsonTwins(past, x, y)
  <2> HIDE DEF Opened
  <2> QED
    BY <1>2, JsonAddTwins
<1>4. J!value(b, encoded, append) = [x EXCEPT !.mode = "IN_VALUE"]
      /\ J!value(m, encoded, append) = [y EXCEPT !.mode = "IN_VALUE"]
  BY <1>1, Zenon
<1> HIDE DEF x, y
<1>5. JsonTwins(past, [x EXCEPT !.mode = "IN_VALUE"], [y EXCEPT !.mode = "IN_VALUE"])
  BY <1>3, JsonModeTwins
<1> QED
  BY <1>4, <1>5, Zenon

\* value() of what is no string;
LEMMA JsonConstantTwins ==
    ASSUME NEW past, NEW b, NEW m, JsonTwins(past, b, m), NEW token \in Char
    PROVE  JsonTwins(past, J!constant(b, token), J!constant(m, token))
<1>1. JsonTwins(past, J!Add(J!normalize_mode(b, TRUE), <<token>>), J!Add(J!normalize_mode(m, TRUE), <<token>>))
  BY NormalizeTwins, JsonAddTwins, TupleType
<1> QED
  BY <1>1, JsonModeTwins DEF J!constant

\* so every call but finish() does.
LEMMA JsonDoTwins ==
    ASSUME NEW past, NEW b, NEW m, JsonTwins(past, b, m), NEW call \in JsonCall, call.op # "finish"
    PROVE  JsonTwins(past, Do("json", b, call), Do("json", m, call))
<1> DEFINE c == Indented("json", b, call)
           d == Indented("json", m, call)
<1>1. JsonTwins(past, c, d)
  BY JsonIndentedTwins DEF Indented
<1>2. Do("json", b, call) = DoJson(c, call) /\ Do("json", m, call) = DoJson(d, call)
  BY DEF Do
<1> HIDE DEF c, d
<1>3. CASE call.op = "object"
  <2>1. "{" \in Char /\ "}" \in Char
    BY MarkType, Zenon DEF Marks
  <2>2. DoJson(c, call) = J!Open(c, "{", "}") /\ DoJson(d, call) = J!Open(d, "{", "}")
    BY <1>3, Zenon DEF DoJson, J!object
  <2> QED
    BY <1>1, <1>2, <2>1, <2>2, JsonOpenTwins, Zenon
<1>4. CASE call.op = "array"
  <2>1. "[" \in Char /\ "]" \in Char
    BY MarkType, Zenon DEF Marks
  <2>2. DoJson(c, call) = J!Open(c, "[", "]") /\ DoJson(d, call) = J!Open(d, "[", "]")
    BY <1>4, Zenon DEF DoJson, J!array
  <2> QED
    BY <1>1, <1>2, <2>1, <2>2, JsonOpenTwins, Zenon
<1>0. ASSUME NEW str \in Seq(STRING) PROVE str \in Texts
  BY DEF Texts, Char
<1>5. CASE call.op = "key"
  <2>1. call.str \in Texts
    BY <1>0, <1>5 DEF JsonCall
  <2>2. DoJson(c, call) = J!key(c, call.str) /\ DoJson(d, call) = J!key(d, call.str)
    BY <1>5 DEF DoJson
  <2> QED
    BY <1>1, <1>2, <2>1, <2>2, JsonKeyTwins
<1>6. CASE call.op = "value"
  <2>1. call.str \in Texts /\ call.append \in BOOLEAN
    BY <1>0, <1>6 DEF JsonCall
  <2>2. DoJson(c, call) = J!value(c, J!encode(call.str), call.append)
        /\ DoJson(d, call) = J!value(d, J!encode(call.str), call.append)
    BY <1>6 DEF DoJson
  <2> QED
    BY <1>1, <1>2, <2>1, <2>2, JsonEncodeType, JsonValueTwins
<1>7. CASE call.op = "value_xml_escape"
  <2>1. call.str \in Texts /\ call.append \in BOOLEAN
    BY <1>0, <1>7 DEF JsonCall
  <2>2. DoJson(c, call) = J!value(c, J!encode_xml_escape(call.str), call.append)
        /\ DoJson(d, call) = J!value(d, J!encode_xml_escape(call.str), call.append)
    BY <1>7 DEF DoJson
  <2> QED
    BY <1>1, <1>2, <2>1, <2>2, JsonEncodeType, JsonValueTwins
<1>8. CASE call.op = "constant"
  <2>1. call.token \in Char
    BY <1>8 DEF JsonCall, Char
  <2>2. DoJson(c, call) = J!constant(c, call.token) /\ DoJson(d, call) = J!constant(d, call.token)
    BY <1>8 DEF DoJson
  <2> QED
    BY <1>1, <1>2, <2>1, <2>2, JsonConstantTwins
<1>9. CASE call.op = "close"
  <2>1. DoJson(c, call) = J!close(c) /\ DoJson(d, call) = J!close(d)
    BY <1>9 DEF DoJson
  <2> QED
    BY <1>1, <1>2, <2>1, JsonCloseTwins
<1>10. call.op \in {"object", "array", "key", "value", "value_xml_escape", "constant", "close", "finish"}
  BY DEF JsonCall
<1> QED
  BY <1>3, <1>4, <1>5, <1>6, <1>7, <1>8, <1>9, <1>10

-----------------------------------------------------------------------------
(* XML *)

XmlBuilders == [text : Texts, stack : Texts, mode : {"NORMAL", "NEED_INDENT", "IN_ELEMENT"}]

XmlTwins(past, b, m) ==
    /\ past \in Past /\ b \in XmlBuilders /\ m \in XmlBuilders
    /\ b.stack = m.stack /\ b.mode = m.mode
    /\ Begins(b.text, past.kept)
    /\ Alike(past.gone \o b.text, m.text)

\* What is added to both leaves them twins,
LEMMA XmlAddTwins ==
    ASSUME NEW past, NEW b, NEW m, XmlTwins(past, b, m), NEW c \in Texts
    PROVE  XmlTwins(past, X!Add(b, c), X!Add(m, c))
<1> DEFINE gone == past.gone
<1>1. /\ b \in XmlBuilders /\ m \in XmlBuilders /\ Alike(gone \o b.text, m.text)
      /\ gone \in Texts /\ past.kept \in Texts /\ b.text \in Texts /\ m.text \in Texts
      /\ Begins(b.text, past.kept)
  BY DEF XmlTwins, XmlBuilders, Past
<1> HIDE DEF gone
<1>2. b.text \o c \in Texts /\ m.text \o c \in Texts
  BY <1>1, ConcatFacts DEF Texts
<1>3. gone \o (b.text \o c) = (gone \o b.text) \o c
  <2>1. gone \in Texts /\ b.text \in Texts
    BY <1>1
  <2> QED
    BY <2>1, TextAssoc, Zenon
<1>4. Alike(gone \o (b.text \o c), m.text \o c)
  BY <1>1, <1>3, AlikeConcat
<1> DEFINE s == b.text \o c
           t == m.text \o c
<1>5. s \in Texts /\ t \in Texts /\ Alike(gone \o s, t) /\ Begins(s, past.kept)
  BY <1>1, <1>2, <1>4, BeginsConcat
<1>6. X!Add(b, c) = [b EXCEPT !.text = s] /\ X!Add(m, c) = [m EXCEPT !.text = t]
  BY DEF X!Add
<1> HIDE DEF s, t
<1> QED
  BY <1>5, <1>6 DEF XmlTwins, XmlBuilders, gone

\* and so does a new mode
LEMMA XmlModeTwins ==
    ASSUME NEW past, NEW b, NEW m, XmlTwins(past, b, m), NEW x \in {"NORMAL", "NEED_INDENT", "IN_ELEMENT"}
    PROVE  XmlTwins(past, [b EXCEPT !.mode = x], [m EXCEPT !.mode = x])
BY DEF XmlTwins, XmlBuilders

\* or a new stack.
LEMMA XmlStackTwins ==
    ASSUME NEW past, NEW b, NEW m, XmlTwins(past, b, m), NEW x \in Texts
    PROVE  XmlTwins(past, [b EXCEPT !.stack = x], [m EXCEPT !.stack = x])
BY DEF XmlTwins, XmlBuilders

Greater == <<">">>
Slash == <<"/", ">">>
EndTag(name) == <<"<", "/", name, ">">>
StartTag(name) == <<"<", name>>
Declaration == <<"<?xml version=\"1.0\"?>">>
AttributeText(name, str) == <<" ", name, "=", "\"">> \o X!encode(str) \o <<"\"">>

\* Tags are text,
LEMMA TagType ==
    ASSUME NEW name \in Char
    PROVE  /\ Greater \in Texts /\ Slash \in Texts /\ Declaration \in Texts
           /\ StartTag(name) \in Texts /\ EndTag(name) \in Texts
<1> DEFINE lt == "<"
           gt == ">"
           sl == "/"
           de == "<?xml version=\"1.0\"?>"
<1>1. lt \in Char /\ gt \in Char /\ sl \in Char /\ de \in Char
  <2>1. lt \in Marks /\ gt \in Marks /\ sl \in Marks /\ de \in Marks
    BY Zenon DEF Marks
  <2> QED
    BY <2>1, MarkType, Zenon
<1>2. /\ Greater = <<gt>> /\ Slash = <<sl, gt>> /\ Declaration = <<de>>
      /\ StartTag(name) = <<lt, name>> /\ EndTag(name) = <<lt, sl, name, gt>>
  BY Zenon DEF Greater, Slash, Declaration, StartTag, EndTag
<1> HIDE DEF lt, gt, sl, de
<1>3. <<gt>> \in Texts /\ <<sl, gt>> \in Texts /\ <<de>> \in Texts /\ <<lt, name>> \in Texts
  BY <1>1, TupleType
<1>4. <<lt, sl, name, gt>> \in Texts
  BY <1>1 DEF Texts
<1> QED
  BY <1>2, <1>3, <1>4, Zenon

\* encoded text is text,
LEMMA XmlEncodeType ==
    ASSUME NEW str \in Texts
    PROVE  X!encode(str) \in Texts
<1>1. str \in [1..Len(str) -> Char] /\ DOMAIN str = 1..Len(str) /\ Len(str) \in Nat
  BY DEF Texts
<1>2. ASSUME NEW chr \in Char PROVE X!Encoded(chr) \in Char
  <2>1. "&apos;" \in Char /\ "&lt;" \in Char /\ "&gt;" \in Char /\ "&quot;" \in Char
    <3>1. "&apos;" \in Marks /\ "&lt;" \in Marks /\ "&gt;" \in Marks /\ "&quot;" \in Marks
      BY Zenon DEF Marks
    <3> QED
      BY <3>1, MarkType, Zenon
  <2>2. X!Encoded(chr) \in {"&apos;", "&lt;", "&gt;", "&quot;", chr}
    BY Zenon DEF X!Encoded
  <2> QED
    BY <2>1, <2>2, Zenon
<1>3. [i \in DOMAIN str |-> X!Encoded(str[i])] \in [1..Len(str) -> Char]
  BY <1>1, <1>2
<1> QED
  BY <1>1, <1>3 DEF X!encode, Texts

\* and so is an attribute.
LEMMA AttributeType ==
    ASSUME NEW name \in Char, NEW str \in Texts
    PROVE  AttributeText(name, str) \in Texts
<1> DEFINE sp == " "
           eq == "="
           qu == "\""
           front == <<sp, name, eq, qu>>
           end == <<qu>>
<1>1. sp \in Char /\ eq \in Char /\ qu \in Char
  <2>1. sp \in Marks /\ eq \in Marks /\ qu \in Marks
    BY Zenon DEF Marks
  <2> QED
    BY <2>1, MarkType, Zenon
<1>2. AttributeText(name, str) = (front \o X!encode(str)) \o end
  BY Zenon DEF AttributeText
<1> HIDE DEF sp, eq, qu
<1>3. front \in Seq(Char) /\ end \in Seq(Char)
  BY <1>1
<1> HIDE DEF front, end
<1>4. X!encode(str) \in Seq(Char)
  BY XmlEncodeType DEF Texts
<1>5. (front \o X!encode(str)) \o end \in Seq(Char)
  BY <1>3, <1>4, ConcatFacts
<1> QED
  BY <1>2, <1>5 DEF Texts

\* normalize_mode keeps twins;
LEMMA XmlNormalizeTwins ==
    ASSUME NEW past, NEW b, NEW m, XmlTwins(past, b, m)
    PROVE  /\ XmlTwins(past, X!normalize_mode(b), X!normalize_mode(m))
<1>1. /\ b.mode = m.mode /\ b.stack = m.stack /\ b.stack \in Texts
      /\ b.text \in Texts /\ m.text \in Texts /\ b \in XmlBuilders /\ m \in XmlBuilders
  BY DEF XmlTwins, XmlBuilders
<1>2. DOMAIN b.stack = 1..Len(b.stack) /\ Len(b.stack) \in Nat
  BY <1>1 DEF Texts
<1> DEFINE line == <<LineEnd>> \o Spaces(Len(b.stack))
<1>3. CASE b.mode = "NEED_INDENT"
  <2>1. X!normalize_mode(b) = [X!Add(b, line) EXCEPT !.mode = "NORMAL"]
        /\ X!normalize_mode(m) = [X!Add(m, line) EXCEPT !.mode = "NORMAL"]
    BY <1>1, <1>2, <1>3, Zenon DEF X!normalize_mode, LineEnd, Space, Spaces
  <2>2. line \in Texts
    BY <1>1, <1>2, LineUnseen DEF Unseen
  <2> HIDE DEF line
  <2>3. XmlTwins(past, X!Add(b, line), X!Add(m, line))
    BY <2>2, XmlAddTwins
  <2>4. XmlTwins(past, [X!Add(b, line) EXCEPT !.mode = "NORMAL"], [X!Add(m, line) EXCEPT !.mode = "NORMAL"])
    BY <2>3, XmlModeTwins
  <2> QED
    BY <2>1, <2>4, Zenon
<1>4. CASE b.mode = "IN_ELEMENT"
  <2>1. X!normalize_mode(b) = [X!Add(b, Greater) EXCEPT !.mode = "NORMAL"]
        /\ X!normalize_mode(m) = [X!Add(m, Greater) EXCEPT !.mode = "NORMAL"]
    <3>1. b.mode # "NEED_INDENT" /\ m.mode # "NEED_INDENT"
      BY <1>1, <1>4
    <3> QED
      BY <1>1, <1>4, <3>1, Zenon DEF X!normalize_mode, Greater
  <2>2. Greater \in Texts
    <3>1. LineEnd \in Char
      BY BlankFacts
    <3> QED
      BY <3>1, TagType
  <2>3. XmlTwins(past, X!Add(b, Greater), X!Add(m, Greater))
    BY <2>2, XmlAddTwins
  <2>4. XmlTwins(past, [X!Add(b, Greater) EXCEPT !.mode = "NORMAL"], [X!Add(m, Greater) EXCEPT !.mode = "NORMAL"])
    BY <2>3, XmlModeTwins
  <2> QED
    BY <2>1, <2>4, Zenon
<1>5. CASE b.mode \notin {"NEED_INDENT", "IN_ELEMENT"}
  <2>1. X!normalize_mode(b) = b /\ X!normalize_mode(m) = m
    BY <1>1, <1>5, Zenon DEF X!normalize_mode
  <2> QED
    BY <2>1
<1> QED
  BY <1>3, <1>4, <1>5

\* so do element(),
LEMMA XmlElementTwins ==
    ASSUME NEW past, NEW b, NEW m, XmlTwins(past, b, m), NEW name \in Char
    PROVE  XmlTwins(past, X!element(b, name), X!element(m, name))
<1> DEFINE c == X!Add(X!normalize_mode(b), StartTag(name))
           d == X!Add(X!normalize_mode(m), StartTag(name))
<1>1. XmlTwins(past, c, d)
  BY XmlNormalizeTwins, XmlAddTwins, TagType
<1>2. /\ X!element(b, name) = [c EXCEPT !.mode = "IN_ELEMENT", !.stack = Append(@, name)]
      /\ X!element(m, name) = [d EXCEPT !.mode = "IN_ELEMENT", !.stack = Append(@, name)]
  BY Zenon DEF X!element, StartTag
<1> HIDE DEF c, d
<1>3. c.stack = d.stack /\ c.stack \in Texts /\ c \in XmlBuilders /\ d \in XmlBuilders
  BY <1>1 DEF XmlTwins, XmlBuilders
<1> DEFINE st == Append(c.stack, name)
<1>4. st \in Texts
  BY <1>3, AppendFacts DEF Texts
<1>5. /\ X!element(b, name) = [[c EXCEPT !.stack = st] EXCEPT !.mode = "IN_ELEMENT"]
      /\ X!element(m, name) = [[d EXCEPT !.stack = st] EXCEPT !.mode = "IN_ELEMENT"]
  BY <1>2, <1>3 DEF XmlBuilders
<1> HIDE DEF st
<1>6. XmlTwins(past, [c EXCEPT !.stack = st], [d EXCEPT !.stack = st])
  BY <1>1, <1>4, XmlStackTwins
<1> DEFINE x == [c EXCEPT !.stack = st]
           y == [d EXCEPT !.stack = st]
<1>7. XmlTwins(past, [x EXCEPT !.mode = "IN_ELEMENT"], [y EXCEPT !.mode = "IN_ELEMENT"])
  <2>1. XmlTwins(past, x, y)
    BY <1>6
  <2> HIDE DEF x, y
  <2> QED
    BY <2>1, XmlModeTwins
<1> QED
  BY <1>5, <1>7, Zenon

\* attribute(),
LEMMA XmlAttributeTwins ==
    ASSUME NEW past, NEW b, NEW m, XmlTwins(past, b, m), NEW name \in Char, NEW str \in Texts
    PROVE  XmlTwins(past, X!attribute(b, name, str), X!attribute(m, name, str))
<1>1. b.mode = m.mode
  BY DEF XmlTwins
<1>2. XmlTwins(past, X!Add(b, AttributeText(name, str)), X!Add(m, AttributeText(name, str)))
  BY AttributeType, XmlAddTwins
<1>3. /\ X!attribute(b, name, str) = IF b.mode # "IN_ELEMENT" THEN b ELSE X!Add(b, AttributeText(name, str))
      /\ X!attribute(m, name, str) = IF m.mode # "IN_ELEMENT" THEN m ELSE X!Add(m, AttributeText(name, str))
  BY Zenon DEF X!attribute, AttributeText
<1> QED
  BY <1>1, <1>2, <1>3

\* text(),
LEMMA XmlTextTwins ==
    ASSUME NEW past, NEW b, NEW m, XmlTwins(past, b, m), NEW str \in Texts
    PROVE  XmlTwins(past, X!text(b, str), X!text(m, str))
BY XmlNormalizeTwins, XmlEncodeType, XmlAddTwins DEF X!text

\* indent(),
LEMMA XmlIndentedTwins ==
    ASSUME NEW past, NEW b, NEW m, XmlTwins(past, b, m)
    PROVE  XmlTwins(past, X!indent(b), X!indent(m))
<1> DEFINE x == IF b.mode = "IN_ELEMENT" THEN X!normalize_mode(b) ELSE b
           y == IF m.mode = "IN_ELEMENT" THEN X!normalize_mode(m) ELSE m
<1>1. b.mode = m.mode
  BY DEF XmlTwins
<1>2. XmlTwins(past, x, y)
  BY <1>1, XmlNormalizeTwins
<1>3. X!indent(b) = [x EXCEPT !.mode = "NEED_INDENT"] /\ X!indent(m) = [y EXCEPT !.mode = "NEED_INDENT"]
  BY Zenon DEF X!indent
<1> HIDE DEF x, y
<1>4. XmlTwins(past, [x EXCEPT !.mode = "NEED_INDENT"], [y EXCEPT !.mode = "NEED_INDENT"])
  BY <1>2, XmlModeTwins
<1> QED
  BY <1>3, <1>4, Zenon

\* close(),
LEMMA XmlCloseTwins ==
    ASSUME NEW past, NEW b, NEW m, XmlTwins(past, b, m)
    PROVE  XmlTwins(past, X!close(b), X!close(m))
<1>1. b.stack = m.stack /\ b.stack \in Texts /\ b.mode = m.mode
  BY DEF XmlTwins, XmlBuilders
<1>2. CASE b.stack = <<>>
  <2>1. X!close(b) = b /\ X!close(m) = m
    BY <1>1, <1>2 DEF X!close
  <2> QED
    BY <2>1
<1>3. CASE b.stack # <<>>
  <2> DEFINE st == X!Front(b.stack)
             name == X!Last(b.stack)
             Popped(r) == [r EXCEPT !.stack = st]
             Ready(r) == IF b.mode = "NEED_INDENT" THEN X!normalize_mode(Popped(r)) ELSE Popped(r)
             Tagged(r) == IF Ready(b).mode = "IN_ELEMENT"
                            THEN [X!Add(Ready(r), Slash) EXCEPT !.mode = "NORMAL"]
                            ELSE X!Add(Ready(r), EndTag(name))
  <2>1. st \in Texts /\ name \in Char
    BY <1>1, <1>3 DEF X!Front, X!Last, Texts
  <2>2. XmlTwins(past, Popped(b), Popped(m))
    <3> HIDE DEF st
    <3> QED
      BY <2>1, XmlStackTwins
  <2>3. XmlTwins(past, Ready(b), Ready(m))
    <3> HIDE DEF Popped
    <3> QED
      BY <2>2, XmlNormalizeTwins
  <2>4. Ready(b).mode = Ready(m).mode
    <3> HIDE DEF Ready
    <3> QED
      BY <2>3 DEF XmlTwins
  <2>5. X!close(b) = Tagged(b)
    BY <1>3, Zenon DEF X!close, Slash, EndTag
  <2>6. X!close(m) = Tagged(m)
    BY <1>1, <1>3, <2>4, Zenon DEF X!close, Slash, EndTag
  <2>7. XmlTwins(past, Tagged(b), Tagged(m))
    <3> DEFINE x == Ready(b)
               y == Ready(m)
    <3>1. XmlTwins(past, x, y)
      BY <2>3
    <3> HIDE DEF x, y
    <3>2. XmlTwins(past, X!Add(x, Slash), X!Add(y, Slash)) /\ XmlTwins(past, X!Add(x, EndTag(name)), X!Add(y, EndTag(name)))
      <4> HIDE DEF name
      <4> QED
        BY <2>1, <3>1, TagType, XmlAddTwins
    <3>3. XmlTwins(past, [X!Add(x, Slash) EXCEPT !.mode = "NORMAL"], [X!Add(y, Slash) EXCEPT !.mode = "NORMAL"])
      BY <3>2, XmlModeTwins
    <3> QED
      BY <3>2, <3>3, Zenon DEF x, y
  <2> QED
    BY <2>5, <2>6, <2>7, Zenon
<1> QED
  BY <1>2, <1>3

\* and so every call but finish().
LEMMA XmlDoTwins ==
    ASSUME NEW past, NEW b, NEW m, XmlTwins(past, b, m), NEW call \in XmlCall, call.op # "finish"
    PROVE  XmlTwins(past, Do("xml", b, call), Do("xml", m, call))
<1> DEFINE c == Indented("xml", b, call)
           d == Indented("xml", m, call)
<1>1. XmlTwins(past, c, d)
  BY XmlIndentedTwins DEF Indented
<1>2. Do("xml", b, call) = DoXml(c, call) /\ Do("xml", m, call) = DoXml(d, call)
  BY DEF Do
<1> HIDE DEF c, d
<1>0. ASSUME NEW str \in Seq(STRING) PROVE str \in Texts
  BY DEF Texts, Char
<1>3. CASE call.op = "declaration"
  <2>1. DoXml(c, call) = X!Add(c, Declaration) /\ DoXml(d, call) = X!Add(d, Declaration)
    BY <1>3, Zenon DEF DoXml, X!declaration, Declaration
  <2>2. Declaration \in Texts
    <3>1. LineEnd \in Char
      BY BlankFacts
    <3> QED
      BY <3>1, TagType
  <2> QED
    BY <1>1, <1>2, <2>1, <2>2, XmlAddTwins
<1>4. CASE call.op = "element"
  <2>1. call.name \in Char
    BY <1>4 DEF XmlCall, Char
  <2>2. DoXml(c, call) = X!element(c, call.name) /\ DoXml(d, call) = X!element(d, call.name)
    BY <1>4 DEF DoXml
  <2> QED
    BY <1>1, <1>2, <2>1, <2>2, XmlElementTwins
<1>5. CASE call.op = "attribute"
  <2>1. call.name \in Char /\ call.str \in Texts
    BY <1>0, <1>5 DEF XmlCall, Char
  <2>2. DoXml(c, call) = X!attribute(c, call.name, call.str)
        /\ DoXml(d, call) = X!attribute(d, call.name, call.str)
    BY <1>5 DEF DoXml
  <2> QED
    BY <1>1, <1>2, <2>1, <2>2, XmlAttributeTwins
<1>6. CASE call.op = "text"
  <2>1. call.str \in Texts
    BY <1>0, <1>6 DEF XmlCall
  <2>2. DoXml(c, call) = X!text(c, call.str) /\ DoXml(d, call) = X!text(d, call.str)
    BY <1>6 DEF DoXml
  <2> QED
    BY <1>1, <1>2, <2>1, <2>2, XmlTextTwins
<1>7. CASE call.op = "close"
  <2>1. DoXml(c, call) = X!close(c) /\ DoXml(d, call) = X!close(d)
    BY <1>7 DEF DoXml
  <2> QED
    BY <1>1, <1>2, <2>1, XmlCloseTwins
<1>8. call.op \in {"declaration", "element", "attribute", "text", "close", "finish"}
  BY DEF XmlCall
<1> QED
  BY <1>3, <1>4, <1>5, <1>6, <1>7, <1>8

-----------------------------------------------------------------------------
(* Both builders *)

Kinds == {"json", "xml"}
Builders(kind) == IF kind = "json" THEN JsonBuilders ELSE XmlBuilders
Twins(kind, past, b, m) == IF kind = "json" THEN JsonTwins(past, b, m) ELSE XmlTwins(past, b, m)

\* All that matters once the last call was made.
SameBare(kind, past, b, m) ==
    /\ past \in Past /\ b \in Builders(kind)
    /\ Begins(b.text, past.kept)
    /\ Bare(past.gone \o b.text) = Bare(m.text)

\* What twins are.
LEMMA TwinsFacts ==
    ASSUME NEW kind \in Kinds, NEW past, NEW b, NEW m, Twins(kind, past, b, m)
    PROVE  /\ b \in Builders(kind) /\ m \in Builders(kind) /\ past \in Past
           /\ b.text \in Texts /\ m.text \in Texts /\ b.stack \in Texts /\ b.stack = m.stack
           /\ Alike(past.gone \o b.text, m.text) /\ SameBare(kind, past, b, m)
<1>1. /\ b \in Builders(kind) /\ m \in Builders(kind) /\ past \in Past /\ Begins(b.text, past.kept)
      /\ b.stack = m.stack /\ Alike(past.gone \o b.text, m.text)
  BY DEF Twins, JsonTwins, XmlTwins, Builders
<1>2. /\ b.text \in Texts /\ m.text \in Texts /\ b.stack \in Texts
  BY <1>1 DEF Builders, JsonBuilders, XmlBuilders
<1> QED
  BY <1>1, <1>2 DEF SameBare, Alike

Nothing == [gone |-> <<>>, kept |-> <<>>]

\* Nothing is past before anything is sent.
LEMMA NothingFacts == Nothing \in Past /\ Nothing.gone = <<>> /\ Nothing.kept = <<>> /\ <<>> \in Texts
<1>1. <<>> \in Texts
  BY DEF Texts
<1> QED
  BY <1>1 DEF Nothing, Past

\* A builder is its own twin when nothing was sent.
LEMMA OwnTwin ==
    ASSUME NEW kind \in Kinds, NEW b \in Builders(kind)
    PROVE  Twins(kind, Nothing, b, b)
<1>1. b.text \in Texts
  BY DEF Builders, JsonBuilders, XmlBuilders
<1>2. <<>> \o b.text = b.text
  BY <1>1, ConcatNothing DEF Texts
<1>3. Alike(<<>> \o b.text, b.text) /\ Begins(b.text, <<>>)
  BY <1>1, <1>2 DEF Alike, Begins
<1> QED
  BY <1>1, <1>3, NothingFacts DEF Twins, JsonTwins, XmlTwins, Builders

\* New builders are twins.
LEMMA NewTwins == ASSUME NEW kind \in Kinds PROVE Twins(kind, Nothing, New(kind), New(kind))
<1>1. J!New \in JsonBuilders /\ X!New \in XmlBuilders
  BY NothingFacts DEF J!New, X!New, JsonBuilders, XmlBuilders
<1>2. New(kind) \in Builders(kind)
  BY <1>1 DEF New, Builders
<1> QED
  BY <1>2, OwnTwin

\* One close() of finish().
CloseStep(kind, indented, c) ==
    IF kind = "json" THEN J!close(IF indented THEN J!indent(c) ELSE c)
    ELSE X!close(IF indented THEN X!indent(c) ELSE c)

\* It keeps twins,
LEMMA CloseStepTwins ==
    ASSUME NEW kind \in Kinds, NEW indented, NEW past, NEW b, NEW m, Twins(kind, past, b, m)
    PROVE  Twins(kind, past, CloseStep(kind, indented, b), CloseStep(kind, indented, m))
<1>1. CASE kind = "json"
  <2>1. JsonTwins(past, IF indented THEN J!indent(b) ELSE b, IF indented THEN J!indent(m) ELSE m)
    BY <1>1, JsonIndentedTwins DEF Twins
  <2> QED
    BY <1>1, <2>1, JsonCloseTwins DEF Twins, CloseStep
<1>2. CASE kind = "xml"
  <2>1. XmlTwins(past, IF indented THEN X!indent(b) ELSE b, IF indented THEN X!indent(m) ELSE m)
    BY <1>2, XmlIndentedTwins DEF Twins
  <2> QED
    BY <1>2, <2>1, XmlCloseTwins DEF Twins, CloseStep
<1> QED
  BY <1>1, <1>2 DEF Kinds

\* and returns a builder.
LEMMA CloseStepType ==
    ASSUME NEW kind \in Kinds, NEW indented, NEW c \in Builders(kind)
    PROVE  CloseStep(kind, indented, c) \in Builders(kind)
BY OwnTwin, CloseStepTwins, TwinsFacts

\* What the fold of finish() evaluates.
IsClosing(g, kind, indented, b, D) ==
    g = [x \in SUBSET D |-> IF x = {} THEN b ELSE CloseStep(kind, indented, g[x \ {Max(x)}])]
Closed(kind, indented, b, D) == (CHOOSE g : IsClosing(g, kind, indented, b, D))[D]

CloseRow(h, kind, indented, b, N) ==
    /\ h \in [0..N -> Builders(kind)]
    /\ h[0] = b
    /\ \A k \in 1..N : h[k] = CloseStep(kind, indented, h[k - 1])

\* The fold is a row of builders, each closed once more than the one before.
LEMMA CloseRowExists ==
    ASSUME NEW kind \in Kinds, NEW indented, NEW b \in Builders(kind), NEW N \in Nat
    PROVE  \E h : CloseRow(h, kind, indented, b, N) /\ Closed(kind, indented, b, 1..N) = h[N]
<1> DEFINE S == Builders(kind)
           Step(c) == CloseStep(kind, indented, c)
           f == [c \in S |-> [e \in {0} |-> Step(c)]]
           s == [i \in 1..N |-> 0]
           Is(g) == IsClosing(g, kind, indented, b, 1..N)
           g == CHOOSE g : Is(g)
<1>1. \A c \in S : Step(c) \in S
  BY CloseStepType
<1> HIDE DEF S, Step
<1>2. f \in [S -> [{0} -> S]] /\ s \in [1..N -> {0}]
  BY <1>1
<1>3. \A c \in S, e \in {0} : f[c][e] = Step(c)
  OBVIOUS
<1>4. \A i \in 1..N : s[i] \in {0}
  OBVIOUS
<1> HIDE DEF f, s
<1>5. PICK k : FoldFunctionIs(k, S, f, b, N, s)
  <2>1. b \in S
    BY DEF S
  <2> QED
    BY <1>2, <2>1, FoldExists
<1>6. ASSUME NEW x \in SUBSET (1..N), x # {}
      PROVE  k[x] = Step(k[x \ {Max(x)}]) /\ k[x] \in S
  <2>1. x \in SUBSET Nat /\ \A y \in x : y <= N
    OBVIOUS
  <2>2. Max(x) \in 1..N
    BY <1>6, <2>1, MaxFacts
  <2>3. k[x \ {Max(x)}] \in S /\ k[x] \in S
    BY <1>5 DEF FoldFunctionIs
  <2>4. k[x] = f[k[x \ {Max(x)}]][s[Max(x)]]
    BY <1>5, <1>6 DEF FoldFunctionIs
  <2> QED
    BY <1>3, <1>4, <2>2, <2>3, <2>4
<1>7. Is(k)
  <2>1. k = [x \in SUBSET (1..N) |-> k[x]] /\ k[{}] = b
    BY <1>5 DEF FoldFunctionIs
  <2>2. k = [x \in SUBSET (1..N) |-> IF x = {} THEN b ELSE Step(k[x \ {Max(x)}])]
    BY <1>6, <2>1
  <2> QED
    BY <2>2 DEF IsClosing, Step
<1>8. Is(g)
  <2> HIDE DEF Is
  <2> QED
    BY <1>7
<1>9. Closed(kind, indented, b, 1..N) = g[1..N]
  BY DEF Closed
<1> HIDE DEF g
<1>10. g = [x \in SUBSET (1..N) |-> IF x = {} THEN b ELSE Step(g[x \ {Max(x)}])]
  BY <1>8 DEF IsClosing, Step
<1> DEFINE h == [i \in 0..N |-> g[1..i]]
<1>11. h[0] = b
  <2>1. 1..0 = {} /\ {} \in SUBSET (1..N) /\ 0 \in 0..N
    OBVIOUS
  <2> QED
    BY <1>10, <2>1
<1>12. ASSUME NEW i \in 1..N PROVE h[i] = Step(h[i - 1])
  <2>1. 1..i \in SUBSET (1..N) /\ 1..i # {} /\ 1..i \in SUBSET Nat /\ i \in 1..i /\ \A y \in 1..i : y <= i
    OBVIOUS
  <2>2. Max(1..i) = i
    BY <2>1, MaxIs
  <2>3. (1..i) \ {i} = 1..i - 1 /\ i \in 0..N /\ i - 1 \in 0..N
    OBVIOUS
  <2>4. g[1..i] = Step(g[(1..i) \ {Max(1..i)}])
    BY <1>10, <2>1
  <2> QED
    BY <2>2, <2>3, <2>4
<1>13. h = [i \in 0..N |-> h[i]] /\ h[N] = g[1..N]
  OBVIOUS
<1> HIDE DEF h
<1> DEFINE P == {i \in Nat : i <= N => h[i] \in S}
<1>14. 0 \in P
  BY <1>11 DEF S
<1>15. ASSUME NEW i \in Nat, i \in P PROVE i + 1 \in P
  <2> SUFFICES ASSUME i + 1 <= N PROVE h[i + 1] \in S
    OBVIOUS
  <2> DEFINE j == i + 1
  <2>1. j \in 1..N /\ j - 1 = i /\ h[i] \in S
    BY <1>15
  <2> HIDE DEF j
  <2>2. h[j] \in S
    BY <1>1, <1>12, <2>1
  <2> QED
    BY <2>2 DEF j
<1> HIDE DEF P
<1>16. Nat \subseteq P
  BY <1>14, <1>15, SetInduction
<1>17. h \in [0..N -> S]
  <2>1. \A i \in 0..N : h[i] \in S
    BY <1>16 DEF P
  <2> QED
    BY <1>13, <2>1
<1>18. CloseRow(h, kind, indented, b, N)
  BY <1>11, <1>12, <1>17 DEF CloseRow, S, Step
<1> QED
  BY <1>9, <1>13, <1>18

\* What finish() closes in twins are twins.
LEMMA ClosedTwins ==
    ASSUME NEW kind \in Kinds, NEW indented, NEW past, NEW b, NEW m, Twins(kind, past, b, m), NEW N \in Nat
    PROVE  Twins(kind, past, Closed(kind, indented, b, 1..N), Closed(kind, indented, m, 1..N))
<1>1. PICK h : CloseRow(h, kind, indented, b, N) /\ Closed(kind, indented, b, 1..N) = h[N]
  BY TwinsFacts, CloseRowExists
<1>2. PICK g : CloseRow(g, kind, indented, m, N) /\ Closed(kind, indented, m, 1..N) = g[N]
  BY TwinsFacts, CloseRowExists
<1> DEFINE P == {i \in Nat : i <= N => Twins(kind, past, h[i], g[i])}
<1>3. 0 \in P
  BY <1>1, <1>2 DEF CloseRow
<1>4. ASSUME NEW i \in Nat, i \in P PROVE i + 1 \in P
  <2> SUFFICES ASSUME i + 1 <= N PROVE Twins(kind, past, h[i + 1], g[i + 1])
    OBVIOUS
  <2> DEFINE j == i + 1
  <2>1. j \in 1..N /\ j - 1 = i /\ Twins(kind, past, h[i], g[i])
    BY <1>4
  <2> HIDE DEF j
  <2>2. h[j] = CloseStep(kind, indented, h[i]) /\ g[j] = CloseStep(kind, indented, g[i])
    BY <1>1, <1>2, <2>1 DEF CloseRow
  <2>3. Twins(kind, past, h[j], g[j])
    BY <2>1, <2>2, CloseStepTwins
  <2> QED
    BY <2>3 DEF j
<1>5. N \in P
  <2> HIDE DEF P
  <2> QED
    BY <1>3, <1>4, SetInduction
<1> QED
  BY <1>1, <1>2, <1>5

\* The line end after the last call.
EndedLine(c) == IF c.text # <<>> /\ c.text[Len(c.text)] # LineEnd THEN [c EXCEPT !.text = c.text \o <<LineEnd>>] ELSE c

\* finish() closes everything and ends the line.
LEMMA FinishIs ==
    ASSUME NEW b, NEW indented
    PROVE  /\ J!finish(b, indented) = EndedLine(Closed("json", indented, b, DOMAIN b.stack))
           /\ X!finish(b, indented) = EndedLine(Closed("xml", indented, b, DOMAIN b.stack))
<1>1. J!FoldLeft(LAMBDA c, i : J!close(IF indented THEN J!indent(c) ELSE c), b, b.stack)
        = Closed("json", indented, b, DOMAIN b.stack)
  BY DEF J!FoldLeft, J!MapThenFoldSet, J!Max, Max, Closed, IsClosing, CloseStep
<1>2. X!FoldLeft(LAMBDA c, i : X!close(IF indented THEN X!indent(c) ELSE c), b, b.stack)
        = Closed("xml", indented, b, DOMAIN b.stack)
  BY DEF X!FoldLeft, X!MapThenFoldSet, X!Max, Max, Closed, IsClosing, CloseStep
<1>3. J!finish(b, indented) = EndedLine(Closed("json", indented, b, DOMAIN b.stack))
  BY <1>1, Zenon DEF J!finish, EndedLine, J!Last, J!Add, LineEnd
<1>4. X!finish(b, indented) = EndedLine(Closed("xml", indented, b, DOMAIN b.stack))
  BY <1>2, Zenon DEF X!finish, EndedLine, X!Last, X!Add, LineEnd
<1> QED
  BY <1>3, <1>4

\* The line end leaves no trace.
LEMMA EndedLineUnseen ==
    ASSUME NEW kind \in Kinds, NEW past \in Past, NEW c \in Builders(kind), Begins(c.text, past.kept)
    PROVE  /\ EndedLine(c) \in Builders(kind) /\ Begins(EndedLine(c).text, past.kept)
           /\ Bare(past.gone \o EndedLine(c).text) = Bare(past.gone \o c.text)
<1> DEFINE gone == past.gone
           t == c.text \o <<LineEnd>>
<1>1. c.text \in Texts /\ gone \in Texts /\ past.kept \in Texts
  BY DEF Builders, JsonBuilders, XmlBuilders, Past
<1>2. <<LineEnd>> \in Texts /\ LineEnd \in Char
  BY BlankFacts
<1>3. t \in Texts /\ Begins(t, past.kept)
  <2>1. t \in Texts
    BY <1>1, <1>2, ConcatFacts DEF Texts
  <2> QED
    BY <1>1, <1>2, <2>1, BeginsConcat
<1> HIDE DEF gone
<1>4. Bare(gone \o t) = Bare(gone \o c.text)
  <2> DEFINE p == gone \o c.text
  <2>1. p \in Texts
    BY <1>1, ConcatFacts DEF Texts
  <2>2. gone \o t = p \o <<LineEnd>>
    BY <1>1, <1>2, TextAssoc, Zenon
  <2> HIDE DEF p
  <2>3. p \o <<LineEnd>> = Append(p, LineEnd)
    BY <1>2, <2>1, ConcatOne DEF Texts
  <2>4. Bare(Append(p, LineEnd)) = Bare(p)
    BY <2>1, BlankFacts, AppendUnseen
  <2> QED
    BY <2>2, <2>3, <2>4 DEF p
<1> HIDE DEF t
<1>5. EndedLine(c) \in {c, [c EXCEPT !.text = t]}
  BY DEF EndedLine, t
<1>6. [c EXCEPT !.text = t] \in Builders(kind) /\ [c EXCEPT !.text = t].text = t
  BY <1>3 DEF Builders, JsonBuilders, XmlBuilders
<1> QED
  BY <1>3, <1>4, <1>5, <1>6 DEF gone

\* After finish(), twins have the same text but for indentation.
LEMMA FinishTwins ==
    ASSUME NEW kind \in Kinds, NEW indented, NEW past, NEW b, NEW m, Twins(kind, past, b, m)
    PROVE  LET F(c) == IF kind = "json" THEN J!finish(c, indented) ELSE X!finish(c, indented)
           IN  SameBare(kind, past, F(b), F(m))
<1> DEFINE F(c) == IF kind = "json" THEN J!finish(c, indented) ELSE X!finish(c, indented)
           D == DOMAIN b.stack
           c == Closed(kind, indented, b, D)
           d == Closed(kind, indented, m, D)
<1>1. b.stack = m.stack /\ b.stack \in Texts
  BY TwinsFacts
<1>2. D = 1..Len(b.stack) /\ Len(b.stack) \in Nat /\ D = DOMAIN m.stack
  BY <1>1 DEF Texts
<1>3. Twins(kind, past, c, d)
  BY <1>2, ClosedTwins
<1>4. F(b) = EndedLine(c) /\ F(m) = EndedLine(d)
  BY <1>2, FinishIs DEF Kinds
<1> HIDE DEF c, d, F
<1>5. /\ c \in Builders(kind) /\ d \in Builders(kind) /\ past \in Past /\ Begins(c.text, past.kept)
      /\ Bare(past.gone \o c.text) = Bare(d.text) /\ d.text \in Texts
  BY <1>3, TwinsFacts DEF SameBare
<1>6. /\ EndedLine(c) \in Builders(kind) /\ Begins(EndedLine(c).text, past.kept)
      /\ Bare(past.gone \o EndedLine(c).text) = Bare(past.gone \o c.text)
  BY <1>5, EndedLineUnseen
<1>7. Bare(EndedLine(d).text) = Bare(d.text)
  <2>1. <<>> \o d.text = d.text /\ Begins(d.text, <<>>)
    BY <1>5, ConcatNothing DEF Texts, Begins
  <2>2. EndedLine(d) \in Builders(kind) /\ Bare(<<>> \o EndedLine(d).text) = Bare(<<>> \o d.text)
    BY <1>5, <2>1, NothingFacts, EndedLineUnseen
  <2>3. EndedLine(d).text \in Texts
    BY <2>2 DEF Builders, JsonBuilders, XmlBuilders
  <2>4. <<>> \o EndedLine(d).text = EndedLine(d).text
    BY <2>3, ConcatNothing DEF Texts
  <2> QED
    BY <2>1, <2>2, <2>4
<1> QED
  BY <1>4, <1>5, <1>6, <1>7 DEF SameBare, F

\* A call in twins.
LEMMA DoTwins ==
    ASSUME NEW kind \in Kinds, NEW past, NEW b, NEW m, Twins(kind, past, b, m),
           NEW call \in IF kind = "json" THEN JsonCall ELSE XmlCall
    PROVE  /\ SameBare(kind, past, Do(kind, b, call), Do(kind, m, call))
           /\ call.op # "finish" => Twins(kind, past, Do(kind, b, call), Do(kind, m, call))
<1>1. CASE call.op # "finish"
  <2>1. Twins(kind, past, Do(kind, b, call), Do(kind, m, call))
    BY <1>1, JsonDoTwins, XmlDoTwins DEF Twins, Kinds
  <2> QED
    BY <2>1, TwinsFacts
<1>2. CASE call.op = "finish"
  <2> DEFINE c == Indented(kind, b, call)
             d == Indented(kind, m, call)
  <2>1. Twins(kind, past, c, d)
    BY JsonIndentedTwins, XmlIndentedTwins DEF Twins, Indented, Kinds
  <2>2. /\ Do(kind, b, call) = IF kind = "json" THEN DoJson(c, call) ELSE DoXml(c, call)
        /\ Do(kind, m, call) = IF kind = "json" THEN DoJson(d, call) ELSE DoXml(d, call)
    BY DEF Do
  <2> HIDE DEF c, d
  <2>3. /\ DoJson(c, call) = J!finish(c, call.indented) /\ DoJson(d, call) = J!finish(d, call.indented)
        /\ DoXml(c, call) = X!finish(c, call.indented) /\ DoXml(d, call) = X!finish(d, call.indented)
    BY <1>2 DEF DoJson, DoXml
  <2>4. SameBare(kind, past, IF kind = "json" THEN J!finish(c, call.indented) ELSE X!finish(c, call.indented),
                            IF kind = "json" THEN J!finish(d, call.indented) ELSE X!finish(d, call.indented))
    BY <2>1, FinishTwins
  <2> QED
    BY <1>2, <2>2, <2>3, <2>4
<1> QED
  BY <1>1, <1>2

-----------------------------------------------------------------------------
(* What is taken away *)

\* The text goes on where a part of it ends.
LEMMA NextPart ==
    ASSUME NEW B, NEW s \in Seq(B), NEW i \in Nat, NEW n \in Nat, i + n <= Len(s)
    PROVE  /\ SubSeq(s, 1, i) \in Seq(B) /\ SubSeq(s, i + 1, i + n) \in Seq(B)
           /\ Len(SubSeq(s, i + 1, i + n)) = n
           /\ SubSeq(s, 1, i) \o SubSeq(s, i + 1, i + n) = SubSeq(s, 1, i + n)
<1>1. Len(s) \in Nat
  OBVIOUS
<1>2. /\ SubSeq(s, 1, i) \in Seq(B) /\ SubSeq(s, i + 1, i + n) \in Seq(B) /\ SubSeq(s, 1, i + n) \in Seq(B)
      /\ Len(SubSeq(s, 1, i)) = i /\ Len(SubSeq(s, i + 1, i + n)) = n /\ Len(SubSeq(s, 1, i + n)) = i + n
  BY <1>1
<1> DEFINE t == SubSeq(s, 1, i) \o SubSeq(s, i + 1, i + n)
<1>3. t \in Seq(B) /\ Len(t) = i + n
  BY <1>1, <1>2
<1>4. \A j \in 1..Len(t) : t[j] = SubSeq(s, 1, i + n)[j]
  BY <1>1, <1>2, <1>3
<1>5. t = SubSeq(s, 1, i + n)
  <2> HIDE DEF t
  <2> QED
    BY <1>2, <1>3, <1>4, SameText
<1> QED
  BY <1>2, <1>5

\* A text in two parts.
LEMMA SplitText ==
    ASSUME NEW B, NEW s \in Seq(B), NEW k \in 0..Len(s)
    PROVE  /\ SubSeq(s, 1, k) \in Seq(B) /\ SubSeq(s, k + 1, Len(s)) \in Seq(B)
           /\ Len(SubSeq(s, k + 1, Len(s))) = Len(s) - k
           /\ SubSeq(s, 1, k) \o SubSeq(s, k + 1, Len(s)) = s
<1> DEFINE n == Len(s) - k
<1>1. Len(s) \in Nat /\ k \in Nat /\ n \in Nat /\ k + n = Len(s) /\ k + n <= Len(s)
  OBVIOUS
<1>2. SubSeq(s, 1, Len(s)) = s /\ n = Len(s) - k
  BY ConcatNothing
<1> HIDE DEF n
<1>3. /\ SubSeq(s, 1, k) \in Seq(B) /\ SubSeq(s, k + 1, k + n) \in Seq(B)
      /\ Len(SubSeq(s, k + 1, k + n)) = n
      /\ SubSeq(s, 1, k) \o SubSeq(s, k + 1, k + n) = SubSeq(s, 1, k + n)
  BY <1>1, NextPart
<1> QED
  BY <1>1, <1>2, <1>3

\* The beginning of a text is known by its length.
LEMMA BeginsIs ==
    ASSUME NEW s \in Texts, NEW front \in Texts, Begins(s, front)
    PROVE  Len(front) \in 0..Len(s) /\ front = SubSeq(s, 1, Len(front))
<1>1. PICK t \in Texts : s = front \o t
  BY DEF Begins
<1> DEFINE n == Len(front)
           u == SubSeq(s, 1, n)
<1>2. n \in Nat /\ Len(t) \in Nat /\ Len(s) = n + Len(t) /\ \A i \in 1..n : s[i] = front[i]
  BY <1>1, ConcatFacts DEF Texts
<1>3. n \in 0..Len(s)
  <2> HIDE DEF n
  <2> QED
    BY <1>2
<1>4. u \in Seq(Char) /\ Len(u) = n /\ \A i \in 1..n : u[i] = s[i]
  <2>1. s \in Seq(Char)
    BY DEF Texts
  <2> HIDE DEF n
  <2> QED
    BY <1>3, <2>1
<1>5. front \in Seq(Char) /\ \A i \in 1..n : u[i] = front[i]
  BY <1>2, <1>4 DEF Texts
<1>6. u = front
  <2> HIDE DEF u
  <2> QED
    BY <1>4, <1>5, SameText
<1> QED
  BY <1>3, <1>6

\* More is sent: the first k characters of the text, now.
LEMMA SentTwins ==
    ASSUME NEW kind \in Kinds, NEW past, NEW b, NEW m, SameBare(kind, past, b, m), NEW k \in 0..Len(b.text)
    PROVE  LET now == [gone |-> past.gone, kept |-> SubSeq(b.text, 1, k)]
           IN  /\ SameBare(kind, now, b, m)
               /\ Twins(kind, past, b, m) => Twins(kind, now, b, m)
<1> DEFINE front == SubSeq(b.text, 1, k)
           now == [gone |-> past.gone, kept |-> front]
<1>1. b.text \in Texts /\ past.gone \in Texts /\ b \in Builders(kind)
  BY DEF SameBare, Builders, JsonBuilders, XmlBuilders, Past
<1>2. front \in Texts /\ Begins(b.text, front)
  BY <1>1, SplitText DEF Texts, Begins
<1> HIDE DEF front
<1>3. now \in Past /\ now.gone = past.gone /\ now.kept = front
  BY <1>1, <1>2 DEF Past
<1> HIDE DEF now
<1>4. SameBare(kind, now, b, m) /\ (Twins(kind, past, b, m) => Twins(kind, now, b, m))
  BY <1>2, <1>3 DEF SameBare, Twins, JsonTwins, XmlTwins, Kinds
<1> QED
  BY <1>4 DEF now, front

\* What is left when the first k characters of the text are discarded.
WhenConsumed(kind, past, b, m, k) ==
    LET now == [gone |-> past.gone \o SubSeq(b.text, 1, k), kept |-> <<>>]
        c == Consumed(kind, b, k)
    IN  /\ Len(c.text) = Len(b.text) - k
        /\ SameBare(kind, now, c, m)
        /\ Twins(kind, past, b, m) => Twins(kind, now, c, m)

\* The builder is told to discard what was sent of its text.
LEMMA ConsumedTwins ==
    ASSUME NEW kind \in Kinds, NEW past, NEW b, NEW m, SameBare(kind, past, b, m), NEW k \in 0..Len(b.text)
    PROVE  WhenConsumed(kind, past, b, m, k)
<1> DEFINE gone == past.gone
           first == SubSeq(b.text, 1, k)
           rest == SubSeq(b.text, k + 1, Len(b.text))
           now == [gone |-> gone \o first, kept |-> <<>>]
           c == Consumed(kind, b, k)
<1>1. b.text \in Texts /\ gone \in Texts /\ b \in Builders(kind) /\ past \in Past
  BY DEF SameBare, Builders, JsonBuilders, XmlBuilders, Past
<1>2. first \in Texts /\ rest \in Texts /\ Len(rest) = Len(b.text) - k /\ first \o rest = b.text
  BY <1>1, SplitText DEF Texts
<1>3. c = [b EXCEPT !.text = rest]
  <2>1. CASE k = 0
    <3>1. rest = b.text
      BY <1>1, <2>1 DEF Texts
    <3>2. c = b /\ b = [b EXCEPT !.text = b.text]
      BY <1>1, <2>1 DEF Consumed, Builders, JsonBuilders, XmlBuilders
    <3> HIDE DEF rest, c
    <3> QED
      BY <3>1, <3>2
  <2>2. CASE k # 0
    BY <2>2 DEF Consumed, J!discard_current_prefix, X!discard_current_prefix
  <2> QED
    BY <2>1, <2>2
<1> HIDE DEF first, rest, c, gone
<1>4. gone \o first \in Texts
  BY <1>1, <1>2, ConcatFacts DEF Texts
<1>5. (gone \o first) \o rest = gone \o b.text
  <2>1. gone \o (first \o rest) = (gone \o first) \o rest
    BY <1>1, <1>2, TextAssoc, Zenon
  <2> QED
    BY <1>2, <2>1
<1>6. /\ c \in Builders(kind) /\ c.text = rest /\ c.stack = b.stack /\ c.mode = b.mode
      /\ kind = "json" => c.need_indent = b.need_indent
  BY <1>1, <1>2, <1>3 DEF Builders, JsonBuilders, XmlBuilders
<1>7. now \in Past /\ now.gone = gone \o first /\ now.kept = <<>>
  BY <1>4, NothingFacts DEF Past
<1>8. Begins(rest, <<>>)
  BY <1>2, ConcatNothing DEF Begins, Texts
<1> HIDE DEF now
<1>9. SameBare(kind, now, c, m)
  BY <1>5, <1>6, <1>7, <1>8 DEF SameBare, gone
<1>10. Twins(kind, past, b, m) => Twins(kind, now, c, m)
  BY <1>5, <1>6, <1>7, <1>8 DEF Twins, JsonTwins, XmlTwins, Builders, Kinds, gone
<1> QED
  BY <1>2, <1>6, <1>9, <1>10 DEF c, now, first, gone, WhenConsumed

-----------------------------------------------------------------------------
(* The builder in memory *)

MemoryRow(f, d, n) == f = [k \in 0..n |-> IF k = 0 THEN New(d.kind) ELSE Do(d.kind, f[k - 1], d.calls[k])]

\* Such a function exists for every number of calls.
LEMMA MemoryRowExists ==
    ASSUME NEW d, NEW N \in Nat
    PROVE  \E f : MemoryRow(f, d, N)
<1> DEFINE P == {n \in Nat : \E f : MemoryRow(f, d, n)}
           start == New(d.kind)
           step(x, k) == Do(d.kind, x, d.calls[k])
<1>0. \A f, n : MemoryRow(f, d, n) <=> f = [k \in 0..n |-> IF k = 0 THEN start ELSE step(f[k - 1], k)]
  BY DEF MemoryRow
<1> HIDE DEF start, step
<1>1. 0 \in P
  <2> DEFINE f == [k \in 0..0 |-> start]
  <2>1. f = [k \in 0..0 |-> IF k = 0 THEN start ELSE step(f[k - 1], k)]
    OBVIOUS
  <2> QED
    BY <1>0, <2>1
<1>2. ASSUME NEW n \in Nat, n \in P PROVE n + 1 \in P
  <2>1. PICK f : MemoryRow(f, d, n)
    BY <1>2
  <2> DEFINE e == n + 1
             g == [k \in 0..e |-> IF k = e THEN step(f[n], e) ELSE f[k]]
  <2>2. ASSUME NEW k \in 0..e PROVE g[k] = IF k = 0 THEN start ELSE step(g[k - 1], k)
    <3>1. CASE k = e
      <4>1. g[k] = step(f[n], e) /\ g[n] = f[n] /\ k # 0 /\ k - 1 = n
        BY <3>1
      <4> HIDE DEF g, e
      <4> QED
        BY <3>1, <4>1
    <3>2. CASE k # e
      <4>1. k \in 0..n /\ (k # 0 => k - 1 \in 0..e /\ k - 1 # e)
        BY <3>2
      <4>2. g[k] = f[k] /\ (k # 0 => g[k - 1] = f[k - 1])
        BY <3>2, <4>1
      <4>3. f[k] = IF k = 0 THEN start ELSE step(f[k - 1], k)
        BY <1>0, <2>1, <4>1
      <4> HIDE DEF g
      <4> QED
        BY <4>2, <4>3
    <3> QED
      BY <3>1, <3>2
  <2>3. MemoryRow(g, d, e)
    <3>1. g = [k \in 0..e |-> g[k]]
      OBVIOUS
    <3> HIDE DEF g, e
    <3>2. g = [k \in 0..e |-> IF k = 0 THEN start ELSE step(g[k - 1], k)]
      BY <3>1, <2>2
    <3> QED
      BY <1>0, <3>2
  <2> QED
    BY <2>3
<1> HIDE DEF P
<1>3. Nat \subseteq P
  BY <1>1, <1>2, SetInduction
<1> QED
  BY <1>3 DEF P

\* InMemory is what it says.
LEMMA InMemoryIs ==
    ASSUME NEW d, Len(d.calls) \in Nat
    PROVE  /\ InMemory(d)[0] = New(d.kind)
           /\ \A k \in 1..Len(d.calls) : InMemory(d)[k] = Do(d.kind, InMemory(d)[k - 1], d.calls[k])
<1>1. InMemory(d) = CHOOSE f : MemoryRow(f, d, Len(d.calls))
  BY DEF InMemory, MemoryRow
<1>2. MemoryRow(InMemory(d), d, Len(d.calls))
  BY <1>1, MemoryRowExists
<1> DEFINE f == InMemory(d)
           N == Len(d.calls)
<1>3. f = [k \in 0..N |-> IF k = 0 THEN New(d.kind) ELSE Do(d.kind, f[k - 1], d.calls[k])] /\ N \in Nat
  BY <1>2 DEF MemoryRow
<1> HIDE DEF f, N
<1>4. f[0] = New(d.kind) /\ \A k \in 1..N : f[k] = Do(d.kind, f[k - 1], d.calls[k])
  BY <1>3
<1> QED
  BY <1>4 DEF f, N

-----------------------------------------------------------------------------
(* Documents *)

\* What was made, sent and discarded belong together: put after what was taken
\* away, the builder's text is that of the builder in memory after as many calls,
\* and the two will go on in the same way.
Content(past) ==
    /\ made \in 0..Len(document.calls)
    /\ generator_end => made = Len(document.calls)
    /\ DataLen = Len(builder.text)
    /\ received = past.gone \o past.kept
    /\ Len(past.kept) = generator_offset
    /\ SameBare(document.kind, past, builder, InMemory(document)[made])
    /\ made < Len(document.calls) => Twins(document.kind, past, builder, InMemory(document)[made])

ContentInv ==
    /\ document \in Documents \cup {Anything}
    /\ document # Anything => \E past : Content(past)

DInv == IInv /\ ContentInv

\* What a document is.
LEMMA DocumentFacts ==
    ASSUME NEW d \in Documents \cup {Anything}, d # Anything
    PROVE  /\ d.kind \in Kinds /\ Len(d.calls) \in Nat /\ d \in Documents
           /\ \A k \in 1..Len(d.calls) : d.calls[k] \in IF d.kind = "json" THEN JsonCall ELSE XmlCall
           /\ \A k \in 1..Len(d.calls) - 1 : d.calls[k].op # "finish"
BY DocumentAssumption DEF Kinds

\* The initial state has the invariant.
LEMMA DocumentInitInv == DocumentInit => DInv
<1> SUFFICES ASSUME DocumentInit PROVE DInv
  OBVIOUS
<1>1. IInv
  BY InitInv DEF DocumentInit
<1>2. document \in Documents \cup {Anything}
  BY DEF DocumentInit
<1>3. ASSUME document # Anything PROVE Content(Nothing)
  <2>1. document.kind \in Kinds /\ Len(document.calls) \in Nat
    BY <1>2, <1>3, DocumentFacts
  <2>2. builder = New(document.kind) /\ made = 0 /\ received = <<>> /\ generator_offset = 0 /\ ~generator_end
        /\ DataLen = 0
    BY DEF DocumentInit, Init, DataLen
  <2>3. InMemory(document)[0] = builder
    BY <2>1, <2>2, InMemoryIs
  <2>4. Twins(document.kind, Nothing, builder, InMemory(document)[0])
    BY <2>1, <2>2, <2>3, NewTwins
  <2>5. SameBare(document.kind, Nothing, builder, InMemory(document)[0])
    BY <2>1, <2>4, TwinsFacts
  <2>6. builder.text = <<>> /\ Len(builder.text) = 0
    BY <2>2 DEF New, J!New, X!New
  <2>7. <<>> \o <<>> = <<>> /\ Len(<<>>) = 0
    OBVIOUS
  <2> QED
    BY <2>1, <2>2, <2>4, <2>5, <2>6, <2>7, NothingFacts DEF Content
<1> QED
  BY <1>1, <1>2, <1>3 DEF DInv, ContentInv

\* The steps of the documents are steps of the callback, except for calls that add
\* nothing.
LEMMA DocumentStep == DocumentNext => [Next]_vars
BY DEF DocumentNext, DocumentCallback, GenerateAnything, GenerateDocument, GenerateNothing, CopyDocument,
       Next, GeneratorCallback

\* The next call, of the builder and of the builder in memory.
LEMMA GenerateDocumentInv ==
    ASSUME DInv, GenerateDocument
    PROVE  ContentInv'
<1>1. /\ document' = document /\ document \in Documents \cup {Anything} /\ document # Anything
      /\ received' = received /\ generator_offset' = generator_offset /\ consumed' = consumed
  BY DEF DInv, ContentInv, GenerateDocument, Generate, GenerateNothing, vars, generator
<1>2. PICK past : Content(past)
  BY <1>1 DEF DInv, ContentInv
<1> DEFINE kind == document.kind
           e == made + 1
           call == document.calls[e]
           memory == InMemory(document)[made]
           N == Len(document.calls)
<1>3. made' = e /\ builder' = Do(kind, builder, call) /\ made < N
      /\ generated' = consumed + Len(builder'.text) /\ generator_end' = (made' = N)
  BY DEF GenerateDocument
<1>4. /\ kind \in Kinds /\ N \in Nat
      /\ \A k \in 1..N : document.calls[k] \in IF kind = "json" THEN JsonCall ELSE XmlCall
      /\ \A k \in 1..N - 1 : document.calls[k].op # "finish"
  BY <1>1, DocumentFacts
<1>5. made \in Nat /\ e \in 1..N /\ e - 1 = made /\ (e < N => e \in 1..N - 1) /\ e \in 0..N
  <2>1. made \in 0..N
    BY <1>2 DEF Content
  <2> HIDE DEF N
  <2> QED
    BY <1>3, <1>4, <2>1
<1>6. Twins(kind, past, builder, memory)
  BY <1>2, <1>3 DEF Content
<1>7. InMemory(document)[e] = Do(kind, memory, call)
  <2> HIDE DEF e
  <2> QED
    BY <1>4, <1>5, InMemoryIs
<1>8. call \in (IF kind = "json" THEN JsonCall ELSE XmlCall) /\ (e < N => call.op # "finish")
  <2> HIDE DEF e, N, kind
  <2> QED
    BY <1>4, <1>5
<1> HIDE DEF call, memory, kind
<1>9. SameBare(kind, past, builder', InMemory(document)[e])
      /\ (e < N => Twins(kind, past, builder', InMemory(document)[e]))
  BY <1>3, <1>4, <1>6, <1>7, <1>8, DoTwins
<1>10. DataLen' = Len(builder'.text)
  <2>1. Len(builder'.text) \in Nat
    BY <1>9 DEF SameBare, Builders, JsonBuilders, XmlBuilders, Texts
  <2>2. consumed \in Nat
    BY Counters DEF DInv
  <2> QED
    BY <1>1, <1>3, <2>1, <2>2 DEF DataLen
<1>11. received = past.gone \o past.kept /\ Len(past.kept) = generator_offset
  BY <1>2 DEF Content
<1> HIDE DEF e
<1>12. Content(past)'
  BY <1>1, <1>3, <1>5, <1>9, <1>10, <1>11 DEF Content, N, kind
<1> QED
  BY <1>1, <1>12 DEF ContentInv

\* What is sent is the next part of the builder's text, and it is taken away at
\* the end of what was sent.
LEMMA CopyDocumentInv ==
    ASSUME DInv, CopyDocument
    PROVE  ContentInv'
<1>1. document' = document /\ document \in Documents \cup {Anything}
  BY DEF DInv, ContentInv, CopyDocument, content
<1> SUFFICES ASSUME document # Anything PROVE \E past : Content(past)'
  BY <1>1 DEF ContentInv
<1>2. PICK past : Content(past)
  BY DEF DInv, ContentInv
<1> DEFINE kind == document.kind
           text == builder.text
           memory == InMemory(document)[made]
<1>3. kind \in Kinds
  BY <1>1, DocumentFacts
<1>4. IInv /\ Copy
  BY DEF DInv, CopyDocument
<1>5. PICK n \in Nat :
        /\ n > 0 /\ n <= Unsent
        /\ sent' = sent + n
        /\ generated' = generated /\ generator_end' = generator_end
        /\ \/ consumed' = consumed + generator_offset + n /\ generator_offset' = 0
           \/ consumed' = consumed /\ generator_offset' = generator_offset + n
  BY <1>4, CopyFacts
<1>6. /\ made' = made
      /\ received' = received \o SubSeq(text, generator_offset + 1, generator_offset + sent' - sent)
      /\ builder' = Consumed(kind, builder, consumed' - consumed)
  BY DEF CopyDocument
<1> DEFINE i == generator_offset
           k == i + n
<1>7. /\ i \in Nat /\ k \in Nat /\ k \in 0..Len(text) /\ k <= Len(text) /\ consumed \in Nat /\ generated \in Nat
      /\ DataLen = Len(text) /\ DataLen = generated - consumed /\ i + sent' - sent = k
  <2>1. DataLen = Len(text)
    BY <1>2 DEF Content
  <2>2. /\ generated \in Nat /\ consumed \in Nat /\ i \in Nat /\ DataLen = generated - consumed
        /\ Unsent = DataLen - i /\ DataLen \in Nat /\ sent \in Nat
    BY <1>4, Counters
  <2> HIDE DEF i
  <2> QED
    BY <1>5, <2>1, <2>2
<1>8. /\ received = past.gone \o past.kept /\ Len(past.kept) = i
      /\ SameBare(kind, past, builder, memory)
      /\ made < Len(document.calls) => Twins(kind, past, builder, memory)
      /\ made \in 0..Len(document.calls)
      /\ generator_end => made = Len(document.calls)
  BY <1>2 DEF Content
<1> HIDE DEF i, memory, kind
<1>9. text \in Texts /\ past.gone \in Texts /\ past.kept \in Texts /\ Begins(text, past.kept)
  BY <1>8 DEF SameBare, Builders, JsonBuilders, XmlBuilders, Past
<1> HIDE DEF text
<1> DEFINE front == SubSeq(text, 1, k)
<1>10. received' = past.gone \o front /\ front \in Texts /\ Len(front) = k
  <2>1. past.kept = SubSeq(text, 1, i)
    BY <1>8, <1>9, BeginsIs
  <2> DEFINE part == SubSeq(text, i + 1, k)
  <2>2. part \in Seq(Char) /\ past.kept \o part = front /\ received' = received \o part
    <3>1. text \in Seq(Char) /\ i + n <= Len(text)
      BY <1>7, <1>9 DEF Texts
    <3>2. SubSeq(text, i + 1, i + n) \in Seq(Char) /\ SubSeq(text, 1, i) \o SubSeq(text, i + 1, i + n) = SubSeq(text, 1, i + n)
      <4>1. i \in Nat
        BY <1>7
      <4> HIDE DEF k, part, front
      <4> QED
        BY <3>1, <4>1, NextPart
    <3> QED
      BY <1>6, <1>7, <2>1, <3>2 DEF i, text
  <2>3. front \in Seq(Char) /\ Len(front) = k
    <3>1. text \in Seq(Char) /\ k \in Nat /\ k <= Len(text)
      BY <1>7, <1>9 DEF Texts
    <3>2. Len(text) \in Nat
      BY <3>1
    <3> HIDE DEF k
    <3> QED
      BY <3>1, <3>2
  <2> HIDE DEF front, part
  <2>4. past.gone \o (past.kept \o part) = (past.gone \o past.kept) \o part
    BY <1>9, <2>2, TextAssoc, Zenon DEF Texts
  <2> QED
    BY <1>8, <2>2, <2>3, <2>4 DEF Texts
<1> HIDE DEF k
<1>11. CASE consumed' = consumed /\ generator_offset' = k
  <2>0. PICK now : now = [gone |-> past.gone, kept |-> front]
    OBVIOUS
  <2>1. builder' = builder
    BY <1>6, <1>7, <1>11 DEF Consumed
  <2>2. SameBare(kind, now, builder, memory) /\ (Twins(kind, past, builder, memory) => Twins(kind, now, builder, memory))
    BY <1>3, <1>7, <1>8, <2>0, SentTwins DEF text
  <2>3. now.gone = past.gone /\ now.kept = front
    BY <2>0
  <2>4. DataLen' = Len(builder'.text)
    BY <1>5, <1>7, <1>11, <2>1 DEF DataLen, text
  <2> HIDE DEF front
  <2>5. Content(now)'
    BY <1>1, <1>5, <1>6, <1>8, <1>10, <1>11, <2>1, <2>2, <2>3, <2>4 DEF Content, kind, memory
  <2> QED
    BY <2>5
<1>12. CASE consumed' = consumed + k /\ generator_offset' = 0
  <2>0. PICK now : now = [gone |-> past.gone \o front, kept |-> <<>>]
    OBVIOUS
  <2>1. builder' = Consumed(kind, builder, k)
    <3>1. consumed' - consumed = k
      BY <1>7, <1>12
    <3> QED
      BY <1>6, <3>1
  <2>2. /\ SameBare(kind, now, builder', memory)
        /\ (Twins(kind, past, builder, memory) => Twins(kind, now, builder', memory))
        /\ Len(builder'.text) = Len(text) - k
    <3> DEFINE c == Consumed(kind, builder, k)
    <3>1. /\ SameBare(kind, now, c, memory)
          /\ (Twins(kind, past, builder, memory) => Twins(kind, now, c, memory))
          /\ Len(c.text) = Len(text) - k
      <4> DEFINE r == [gone |-> past.gone \o SubSeq(builder.text, 1, k), kept |-> <<>>]
      <4>1. k \in 0..Len(builder.text)
        BY <1>7 DEF text
      <4>2. /\ SameBare(kind, r, c, memory)
            /\ (Twins(kind, past, builder, memory) => Twins(kind, r, c, memory))
            /\ Len(c.text) = Len(builder.text) - k
        <5>1. SameBare(kind, past, builder, memory)
          BY <1>8
        <5>2. WhenConsumed(kind, past, builder, memory, k)
          BY <1>3, <4>1, <5>1, ConsumedTwins
        <5> QED
          BY <5>2, Zenon DEF WhenConsumed
      <4>3. now = r
        BY <2>0 DEF text
      <4> HIDE DEF r, c
      <4> QED
        BY <4>2, <4>3 DEF text
    <3> HIDE DEF c
    <3> QED
      BY <2>1, <3>1 DEF c
  <2>3. now.gone = past.gone \o front /\ now.kept = <<>>
    BY <2>0
  <2>4. DataLen' = Len(builder'.text)
    <3>1. DataLen' = generated - (consumed + k)
      BY <1>5, <1>12 DEF DataLen
    <3>2. Len(builder'.text) = generated - consumed - k
      BY <1>7, <2>2
    <3> QED
      BY <1>7, <3>1, <3>2
  <2>5. past.gone \o front \in Texts
    BY <1>9, <1>10, ConcatFacts DEF Texts
  <2>6. received' = now.gone \o now.kept /\ Len(now.kept) = 0
    <3>1. (past.gone \o front) \o <<>> = past.gone \o front /\ Len(<<>>) = 0
      BY <2>5, ConcatNothing DEF Texts
    <3> QED
      BY <1>10, <2>3, <3>1
  <2> HIDE DEF front
  <2>7. Content(now)'
    BY <1>1, <1>5, <1>6, <1>8, <1>12, <2>2, <2>4, <2>6 DEF Content, kind, memory
  <2> QED
    BY <2>7
<1>13. \/ consumed' = consumed + k /\ generator_offset' = 0
       \/ consumed' = consumed /\ generator_offset' = k
  BY <1>5, <1>7 DEF i, k
<1> QED
  BY <1>11, <1>12, <1>13

\* Every step keeps the invariant.
LEMMA DocumentNextInv == DInv /\ [DocumentNext]_documentVars => DInv'
<1> SUFFICES ASSUME DInv, [DocumentNext]_documentVars PROVE DInv'
  OBVIOUS
<1>1. IInv'
  BY DocumentStep, NextInv DEF DInv, documentVars
<1>2. ASSUME UNCHANGED content, UNCHANGED <<generator, generator_end, generator_offset>> PROVE ContentInv'
  BY <1>2 DEF DInv, ContentInv, Content, content, generator, DataLen
<1>3. ASSUME GenerateAnything PROVE ContentInv'
  BY <1>3 DEF DInv, ContentInv, GenerateAnything, content
<1>4. ASSUME GenerateDocument PROVE ContentInv'
  BY <1>4, GenerateDocumentInv
<1>5. ASSUME CopyDocument PROVE ContentInv'
  BY <1>5, CopyDocumentInv
<1>6. ASSUME \/ EndOfStream /\ UNCHANGED content
             \/ (Call \/ RequestCompleted) /\ UNCHANGED content
             \/ UNCHANGED documentVars
      PROVE  ContentInv'
  BY <1>2, <1>6 DEF EndOfStream, Call, RequestCompleted, documentVars, vars
<1> QED
  BY <1>1, <1>3, <1>4, <1>5, <1>6 DEF DInv, DocumentNext, DocumentCallback

\* The invariant holds in every state of every response.
THEOREM DocumentInvariance == DocumentSpec => []DInv
BY DocumentInitInv, DocumentNextInv, PTL DEF DocumentSpec

\* However the text is sent while it is made, in whatever pieces, the client that
\* stays gets what the same calls make of a builder in memory, but for indentation.
THEOREM AsBuilt == DocumentSpec => []StreamedAsBuilt
<1>1. DInv => StreamedAsBuilt
  <2> SUFFICES ASSUME DInv, pc = "done", document # Anything
               PROVE  Bare(received) = Bare(InMemory(document)[Len(document.calls)].text)
    BY DEF StreamedAsBuilt
  <2>1. PICK past : Content(past)
    BY DEF DInv, ContentInv
  <2>2. generator_end /\ Unsent = 0 /\ IInv
    BY DEF DInv, IInv, DoneComplete
  <2>3. /\ made = Len(document.calls) /\ DataLen = Len(builder.text)
        /\ received = past.gone \o past.kept /\ Len(past.kept) = generator_offset
        /\ SameBare(document.kind, past, builder, InMemory(document)[made])
    BY <2>1, <2>2 DEF Content
  <2>4. generator_offset = Len(builder.text)
    BY <2>2, <2>3, Counters
  <2>5. /\ builder.text \in Texts /\ past.kept \in Texts /\ Begins(builder.text, past.kept)
        /\ Bare(past.gone \o builder.text) = Bare(InMemory(document)[made].text)
    BY <2>3 DEF SameBare, Builders, JsonBuilders, XmlBuilders, Past
  <2>6. past.kept = SubSeq(builder.text, 1, Len(builder.text))
    BY <2>3, <2>4, <2>5, BeginsIs
  <2>7. past.kept = builder.text
    BY <2>5, <2>6, ConcatNothing DEF Texts
  <2> QED
    BY <2>3, <2>5, <2>7
<1> QED
  BY <1>1, DocumentInvariance, PTL

\* The client gets the JSON text the document means, if that is what the calls
\* write in memory.
THEOREM JsonArrived == BuiltAsMeant("json") => (DocumentSpec => []JsonArrives)
<1> SUFFICES ASSUME BuiltAsMeant("json") PROVE DocumentSpec => []JsonArrives
  OBVIOUS
<1>1. DInv /\ StreamedAsBuilt => JsonArrives
  <2> SUFFICES ASSUME DInv, StreamedAsBuilt, pc = "done", document.kind = "json"
               PROVE  Bare(received) = document.means
    BY DEF JsonArrives, Arrived
  <2>1. document # Anything
    BY DEF Anything
  <2>2. document \in Documents
    BY <2>1 DEF DInv, ContentInv
  <2> QED
    BY <2>1, <2>2 DEF StreamedAsBuilt, BuiltAsMeant
<1> QED
  BY <1>1, DocumentInvariance, AsBuilt, PTL

\* The same of XML.
THEOREM XmlArrived == BuiltAsMeant("xml") => (DocumentSpec => []XmlArrives)
<1> SUFFICES ASSUME BuiltAsMeant("xml") PROVE DocumentSpec => []XmlArrives
  OBVIOUS
<1>1. DInv /\ StreamedAsBuilt => XmlArrives
  <2> SUFFICES ASSUME DInv, StreamedAsBuilt, pc = "done", document.kind = "xml"
               PROVE  Bare(received) = document.means
    BY DEF XmlArrives, Arrived
  <2>1. document # Anything
    BY DEF Anything
  <2>2. document \in Documents
    BY <2>1 DEF DInv, ContentInv
  <2> QED
    BY <2>1, <2>2 DEF StreamedAsBuilt, BuiltAsMeant
<1> QED
  BY <1>1, DocumentInvariance, AsBuilt, PTL
=============================================================================
