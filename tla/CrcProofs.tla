------------------------------ MODULE CrcProofs ------------------------------
(***************************************************************************)
(* Proofs about Crc: which errors data_handling's frame check finds, in    *)
(* frames of any contents. They are proved of frames of any length for the *)
(* CRC of Modbus; data_handling checks those it counts every byte of.      *)
(***************************************************************************)
EXTENDS FrameCheck, OrderLemmas, FiniteSetTheorems

\* A register is a set of bits: of any number of bits here, since the bits still
\* to come can be thought of as standing above those of the CRC.
Registers == SUBSET Nat

\* Bit b after a round.
LEMMA RoundBits ==
    ASSUME NEW X \in Registers, NEW j
    PROVE  /\ Round(X, j) \in Registers
           /\ \A b \in Nat : b \in Round(X, j) <=> ~(b + 1 \in X <=> (0 \in X /\ b \in Polynomial))
<1> DEFINE shifted == {b - 1 : b \in X \ {0}}
<1>1. shifted \in Registers /\ \A b \in Nat : b \in shifted <=> b + 1 \in X
  BY DEF Registers
<1>2. Polynomial \in Registers
  BY DEF Polynomial, Registers
<1>3. Round(X, j) = IF 0 \in X THEN SymDiff(shifted, Polynomial) ELSE shifted
  BY DEF Round
<1> HIDE DEF shifted
<1> QED
  BY <1>1, <1>2, <1>3 DEF SymDiff, Registers

\* Both sides have the same bits.
LEMMA SameBits ==
    ASSUME NEW X \in Registers, NEW Y \in Registers, \A b \in Nat : b \in X <=> b \in Y
    PROVE  X = Y
BY DEF Registers

LEMMA SymDiffBits ==
    ASSUME NEW X \in Registers, NEW Y \in Registers
    PROVE  /\ SymDiff(X, Y) \in Registers
           /\ \A b \in Nat : b \in SymDiff(X, Y) <=> ~(b \in X <=> b \in Y)
BY DEF SymDiff, Registers

\* A round of the difference of two registers is the difference of their rounds.
LEMMA RoundLinear ==
    ASSUME NEW X \in Registers, NEW Y \in Registers, NEW j
    PROVE  Round(SymDiff(X, Y), j) = SymDiff(Round(X, j), Round(Y, j))
<1>1. SymDiff(X, Y) \in Registers /\ Round(X, j) \in Registers /\ Round(Y, j) \in Registers
  BY SymDiffBits, RoundBits
<1>2. Round(SymDiff(X, Y), j) \in Registers /\ SymDiff(Round(X, j), Round(Y, j)) \in Registers
  BY <1>1, SymDiffBits, RoundBits
<1>3. ASSUME NEW b \in Nat
      PROVE  b \in Round(SymDiff(X, Y), j) <=> b \in SymDiff(Round(X, j), Round(Y, j))
  <2>1. b + 1 \in Nat /\ 0 \in Nat
    OBVIOUS
  <2>2. b \in Round(SymDiff(X, Y), j) <=>
            ~(b + 1 \in SymDiff(X, Y) <=> (0 \in SymDiff(X, Y) /\ b \in Polynomial))
    BY <1>1, RoundBits
  <2>3. /\ b + 1 \in SymDiff(X, Y) <=> ~(b + 1 \in X <=> b + 1 \in Y)
        /\ 0 \in SymDiff(X, Y) <=> ~(0 \in X <=> 0 \in Y)
    BY <2>1, SymDiffBits
  <2>4. /\ b \in Round(X, j) <=> ~(b + 1 \in X <=> (0 \in X /\ b \in Polynomial))
        /\ b \in Round(Y, j) <=> ~(b + 1 \in Y <=> (0 \in Y /\ b \in Polynomial))
    BY RoundBits
  <2>5. b \in SymDiff(Round(X, j), Round(Y, j)) <=> ~(b \in Round(X, j) <=> b \in Round(Y, j))
    BY <1>1, SymDiffBits
  <2> QED
    BY <2>2, <2>3, <2>4, <2>5
<1> QED
  BY <1>2, <1>3, SameBits

\* The differences of four registers in another order, and what differs in nothing.
LEMMA SymDiffShuffle ==
    ASSUME NEW A \in Registers, NEW B \in Registers, NEW C \in Registers, NEW D \in Registers
    PROVE  SymDiff(SymDiff(A, B), SymDiff(C, D)) = SymDiff(SymDiff(A, C), SymDiff(B, D))
BY DEF SymDiff

LEMMA SymDiffEmpty ==
    ASSUME NEW A \in Registers, NEW B \in Registers
    PROVE  /\ SymDiff(A, B) = {} <=> A = B
           /\ SymDiff(A, {}) = A /\ SymDiff({}, A) = A
BY DEF SymDiff

-----------------------------------------------------------------------------
(* Eight rounds *)

Eight(X) == Round(Round(Round(Round(Round(Round(Round(Round(X, 0), 1), 2), 3), 4), 5), 6), 7)

LEMMA EightRounds ==
    ASSUME NEW X \in Registers
    PROVE  FoldLeft(Round, X, <<0, 1, 2, 3, 4, 5, 6, 7>>) = Eight(X)
<1> DEFINE s == <<0, 1, 2, 3, 4, 5, 6, 7>>
           f == [Y \in Registers |-> [j \in 0..7 |-> Round(Y, j)]]
           Is(g) == g = [x \in SUBSET DOMAIN s |-> IF x = {} THEN X ELSE Round(g[x \ {Max(x)}], s[Max(x)])]
           g == CHOOSE g : Is(g)
<1>1. FoldLeft(Round, X, s) = g[DOMAIN s]
  BY DEF FoldLeft, MapThenFoldSet
<1>2. s \in [1..8 -> 0..7] /\ DOMAIN s = 1..8
  OBVIOUS
<1>3. f \in [Registers -> [0..7 -> Registers]]
  BY RoundBits
<1>4. \E k : Is(k)
  <2>1. PICK k \in [SUBSET (1..8) -> Registers] : \A x \in SUBSET (1..8) :
            k[x] = IF x = {} THEN X ELSE f[k[x \ {Max(x)}]][s[Max(x)]]
    <3> DEFINE E == 0..7
               N == 8
    <3>1. s \in [1..N -> E] /\ f \in [Registers -> [E -> Registers]] /\ N \in Nat
      <4> HIDE DEF f, s
      <4> QED
        BY <1>2, <1>3
    <3> HIDE DEF f, s, E, N
    <3>2. \E k : FoldFunctionIs(k, Registers, f, X, N, s)
      BY <3>1, FoldExists
    <3> QED
      BY <3>2 DEF N, FoldFunctionIs
  <2>2. ASSUME NEW x \in SUBSET (1..8), x # {}
        PROVE  f[k[x \ {Max(x)}]][s[Max(x)]] = Round(k[x \ {Max(x)}], s[Max(x)])
    <3>1. x \in SUBSET Nat /\ \A y \in x : y <= 8
      OBVIOUS
    <3>2. Max(x) \in x
      BY <3>1, <2>2, MaxFacts
    <3>3. Max(x) \in 1..8
      BY <3>2
    <3>4. s[Max(x)] \in 0..7
      <4> HIDE DEF s
      <4> QED
        BY <1>2, <3>3
    <3>5. k[x \ {Max(x)}] \in Registers
      OBVIOUS
    <3> HIDE DEF s
    <3> QED
      BY <3>4, <3>5
  <2>3. k = [x \in SUBSET (1..8) |-> IF x = {} THEN X ELSE Round(k[x \ {Max(x)}], s[Max(x)])]
    <3> HIDE DEF f, s
    <3> QED
      BY <2>1, <2>2
  <2> HIDE DEF s
  <2> QED
    BY <1>2, <2>3
<1>5. Is(g)
  <2> HIDE DEF Is
  <2> QED
    BY <1>4
<1> HIDE DEF g
<1>6. g[{}] = X
  <2> HIDE DEF s
  <2> QED
    BY <1>2, <1>5
<1>7. ASSUME NEW n \in 1..8 PROVE g[1..n] = Round(g[1..n - 1], s[n])
  <2>1. 1..n \in SUBSET (1..8) /\ 1..n # {} /\ 1..n \in SUBSET Nat /\ n \in 1..n /\ \A y \in 1..n : y <= n
    OBVIOUS
  <2>2. Max(1..n) = n
    BY <2>1, MaxIs
  <2>3. (1..n) \ {n} = 1..n - 1
    OBVIOUS
  <2>4. g[1..n] = Round(g[(1..n) \ {Max(1..n)}], s[Max(1..n)])
    <3> HIDE DEF s
    <3> QED
      BY <1>2, <1>5, <2>1
  <2> HIDE DEF s
  <2> QED
    BY <2>2, <2>3, <2>4
<1>8. 1..0 = {}
  OBVIOUS
<1>9. /\ s[1] = 0 /\ s[2] = 1 /\ s[3] = 2 /\ s[4] = 3 /\ s[5] = 4 /\ s[6] = 5 /\ s[7] = 6 /\ s[8] = 7
  OBVIOUS
<1> HIDE DEF s
<1>10. /\ g[1..1] = Round(X, 0)
       /\ g[1..2] = Round(g[1..1], 1) /\ g[1..3] = Round(g[1..2], 2) /\ g[1..4] = Round(g[1..3], 3)
       /\ g[1..5] = Round(g[1..4], 4) /\ g[1..6] = Round(g[1..5], 5) /\ g[1..7] = Round(g[1..6], 6)
       /\ g[1..8] = Round(g[1..7], 7)
  <2>1. \A n \in 1..8 : g[1..n] = Round(g[1..n - 1], s[n])
    BY <1>7
  <2> HIDE DEF Is
  <2>2. /\ g[1..1] = Round(g[1..1 - 1], s[1])
        /\ g[1..2] = Round(g[1..2 - 1], s[2]) /\ g[1..3] = Round(g[1..3 - 1], s[3]) /\ g[1..4] = Round(g[1..4 - 1], s[4])
        /\ g[1..5] = Round(g[1..5 - 1], s[5]) /\ g[1..6] = Round(g[1..6 - 1], s[6]) /\ g[1..7] = Round(g[1..7 - 1], s[7])
        /\ g[1..8] = Round(g[1..8 - 1], s[8])
    BY <2>1
  <2>3. 1 - 1 = 0 /\ 2 - 1 = 1 /\ 3 - 1 = 2 /\ 4 - 1 = 3 /\ 5 - 1 = 4 /\ 6 - 1 = 5 /\ 7 - 1 = 6 /\ 8 - 1 = 7
    OBVIOUS
  <2> QED
    BY <2>2, <2>3, <1>6, <1>8, <1>9
<1>11. FoldLeft(Round, X, s) = Eight(X)
  BY <1>1, <1>2, <1>10 DEF Eight
<1> QED
  BY <1>11 DEF s

\* What a round keeps, eight rounds keep.
LEMMA EightKeeps ==
    ASSUME NEW P \in SUBSET Registers, \A Y \in P : \A j : Round(Y, j) \in P, NEW X \in P
    PROVE  Eight(X) \in P
BY DEF Eight

LEMMA EightType ==
    ASSUME NEW X \in Registers
    PROVE  Eight(X) \in Registers
<1>1. \A Y \in Registers : \A j : Round(Y, j) \in Registers
  BY RoundBits
<1> QED
  BY <1>1, EightKeeps

\* The difference of two registers goes through the rounds by itself.
LEMMA EightLinear ==
    ASSUME NEW X \in Registers, NEW Y \in Registers
    PROVE  Eight(SymDiff(X, Y)) = SymDiff(Eight(X), Eight(Y))
<1> DEFINE x1 == Round(X, 0)   y1 == Round(Y, 0)
           x2 == Round(x1, 1)   y2 == Round(y1, 1)
           x3 == Round(x2, 2)   y3 == Round(y2, 2)
           x4 == Round(x3, 3)   y4 == Round(y3, 3)
           x5 == Round(x4, 4)   y5 == Round(y4, 4)
           x6 == Round(x5, 5)   y6 == Round(y5, 5)
           x7 == Round(x6, 6)   y7 == Round(y6, 6)
           x8 == Round(x7, 7)   y8 == Round(y7, 7)
<1>1. x1 \in Registers /\ y1 \in Registers /\ Round(SymDiff(X, Y), 0) = SymDiff(x1, y1)
  BY RoundBits, RoundLinear
<1>2. x2 \in Registers /\ y2 \in Registers /\ Round(SymDiff(x1, y1), 1) = SymDiff(x2, y2)
  BY <1>1, RoundBits, RoundLinear
<1>3. x3 \in Registers /\ y3 \in Registers /\ Round(SymDiff(x2, y2), 2) = SymDiff(x3, y3)
  BY <1>2, RoundBits, RoundLinear
<1>4. x4 \in Registers /\ y4 \in Registers /\ Round(SymDiff(x3, y3), 3) = SymDiff(x4, y4)
  BY <1>3, RoundBits, RoundLinear
<1>5. x5 \in Registers /\ y5 \in Registers /\ Round(SymDiff(x4, y4), 4) = SymDiff(x5, y5)
  BY <1>4, RoundBits, RoundLinear
<1>6. x6 \in Registers /\ y6 \in Registers /\ Round(SymDiff(x5, y5), 5) = SymDiff(x6, y6)
  BY <1>5, RoundBits, RoundLinear
<1>7. x7 \in Registers /\ y7 \in Registers /\ Round(SymDiff(x6, y6), 6) = SymDiff(x7, y7)
  BY <1>6, RoundBits, RoundLinear
<1>8. x8 \in Registers /\ y8 \in Registers /\ Round(SymDiff(x7, y7), 7) = SymDiff(x8, y8)
  BY <1>7, RoundBits, RoundLinear
<1> QED
  BY <1>1, <1>2, <1>3, <1>4, <1>5, <1>6, <1>7, <1>8 DEF Eight

\* The register k bits further, when those bits are 0.
Down(X, k) == {b \in Nat : b + k \in X}

\* Nothing but a shift happens while the lowest eight bits are 0.
LEMMA EightShifts ==
    ASSUME NEW X \in Registers, \A b \in X : b >= 8
    PROVE  Eight(X) = Down(X, 8)
<1>1. ASSUME NEW k \in 0..7, NEW j PROVE Round(Down(X, k), j) = Down(X, k + 1)
  <2>1. Down(X, k) \in Registers /\ Down(X, k + 1) \in Registers /\ 0 \notin Down(X, k)
    BY DEF Down, Registers
  <2>2. Round(Down(X, k), j) \in Registers
    BY <2>1, RoundBits
  <2>3. ASSUME NEW b \in Nat PROVE b \in Round(Down(X, k), j) <=> b \in Down(X, k + 1)
    <3>1. b \in Round(Down(X, k), j) <=> b + 1 \in Down(X, k)
      BY <2>1, RoundBits
    <3>2. (b + 1) + k = b + (k + 1) /\ b + 1 \in Nat
      OBVIOUS
    <3> QED
      BY <3>1, <3>2 DEF Down
  <2> QED
    BY <2>1, <2>2, <2>3, SameBits
<1>2. X = Down(X, 0)
  <2>1. \A b \in Nat : b + 0 = b
    OBVIOUS
  <2>2. Down(X, 0) \in Registers /\ \A b \in Nat : b \in Down(X, 0) <=> b \in X
    BY <2>1 DEF Down, Registers
  <2> QED
    BY <2>2, SameBits
<1>3. /\ Round(Down(X, 0), 0) = Down(X, 0 + 1) /\ Round(Down(X, 1), 1) = Down(X, 1 + 1)
      /\ Round(Down(X, 2), 2) = Down(X, 2 + 1) /\ Round(Down(X, 3), 3) = Down(X, 3 + 1)
      /\ Round(Down(X, 4), 4) = Down(X, 4 + 1) /\ Round(Down(X, 5), 5) = Down(X, 5 + 1)
      /\ Round(Down(X, 6), 6) = Down(X, 6 + 1) /\ Round(Down(X, 7), 7) = Down(X, 7 + 1)
  BY <1>1
<1>4. 0 + 1 = 1 /\ 1 + 1 = 2 /\ 2 + 1 = 3 /\ 3 + 1 = 4 /\ 4 + 1 = 5 /\ 5 + 1 = 6 /\ 6 + 1 = 7 /\ 7 + 1 = 8
  OBVIOUS
<1> QED
  BY <1>2, <1>3, <1>4 DEF Eight

-----------------------------------------------------------------------------
(* The bytes of a frame *)

Bytes == SUBSET (0..7)
Words == SUBSET (0..15)

LEMMA AddByteIs ==
    ASSUME NEW c \in Registers, NEW b \in Bytes
    PROVE  AddByte(c, b) = Eight(SymDiff(c, b)) /\ AddByte(c, b) \in Registers
<1>1. b \in Registers
  BY DEF Bytes, Registers
<1>2. SymDiff(c, b) \in Registers
  BY <1>1, SymDiffBits
<1> QED
  BY <1>2, EightRounds, EightType DEF AddByte

\* The CRC after each byte.
Row(h, bytes, c) ==
    /\ h \in [0..Len(bytes) -> Registers]
    /\ h[0] = c
    /\ \A k \in 1..Len(bytes) : h[k] = AddByte(h[k - 1], bytes[k])

LEMMA CrcRow ==
    ASSUME NEW bytes \in Seq(Bytes), NEW c \in Registers
    PROVE  \E h : Row(h, bytes, c) /\ Crc16(bytes, c) = h[Len(bytes)]
<1> DEFINE N == Len(bytes)
           f == [Y \in Registers |-> [b \in Bytes |-> AddByte(Y, b)]]
           Is(g) == g = [x \in SUBSET DOMAIN bytes |->
                            IF x = {} THEN c ELSE AddByte(g[x \ {Max(x)}], bytes[Max(x)])]
           g == CHOOSE g : Is(g)
<1>1. Crc16(bytes, c) = g[DOMAIN bytes]
  BY DEF Crc16, FoldLeft, MapThenFoldSet
<1>2. bytes \in [1..N -> Bytes] /\ DOMAIN bytes = 1..N /\ N \in Nat
  OBVIOUS
<1>3. f \in [Registers -> [Bytes -> Registers]]
  BY AddByteIs
<1> HIDE DEF N
<1>4. PICK k : FoldFunctionIs(k, Registers, f, c, N, bytes)
  <2> HIDE DEF f
  <2> QED
    BY <1>2, <1>3, FoldExists
<1>5. ASSUME NEW x \in SUBSET (1..N), x # {}
      PROVE  k[x] = AddByte(k[x \ {Max(x)}], bytes[Max(x)]) /\ k[x] \in Registers
  <2>1. x \in SUBSET Nat /\ \A y \in x : y <= N
    BY <1>2
  <2>2. Max(x) \in 1..N
    BY <1>2, <1>5, <2>1, MaxFacts
  <2>3. bytes[Max(x)] \in Bytes
    BY <1>2, <2>2
  <2>4. k[x \ {Max(x)}] \in Registers /\ k[x] \in Registers
    BY <1>4 DEF FoldFunctionIs
  <2>5. k[x] = f[k[x \ {Max(x)}]][bytes[Max(x)]]
    <3> HIDE DEF f
    <3> QED
      BY <1>4, <1>5 DEF FoldFunctionIs
  <2> QED
    BY <2>3, <2>4, <2>5
<1>6. \E i : Is(i)
  <2>1. k = [x \in SUBSET (1..N) |-> IF x = {} THEN c ELSE AddByte(k[x \ {Max(x)}], bytes[Max(x)])]
    <3>1. k = [x \in SUBSET (1..N) |-> k[x]] /\ k[{}] = c
      <4> HIDE DEF f
      <4> QED
        BY <1>4 DEF FoldFunctionIs
    <3> QED
      BY <1>5, <3>1
  <2> QED
    BY <1>2, <2>1
<1>7. Is(g)
  <2> HIDE DEF Is
  <2> QED
    BY <1>6
<1> HIDE DEF g
<1> DEFINE h == [i \in 0..N |-> g[1..i]]
<1>8. h[0] = c
  <2>1. 1..0 = {} /\ {} \in SUBSET (1..N) /\ 0 \in 0..N
    BY <1>2
  <2> QED
    BY <1>2, <1>7, <2>1
<1>9. ASSUME NEW i \in 1..N PROVE h[i] = AddByte(h[i - 1], bytes[i])
  <2>1. 1..i \in SUBSET (1..N) /\ 1..i # {} /\ 1..i \in SUBSET Nat /\ i \in 1..i /\ \A y \in 1..i : y <= i
    BY <1>2
  <2>2. Max(1..i) = i
    BY <2>1, MaxIs
  <2>3. (1..i) \ {i} = 1..i - 1 /\ i \in 0..N /\ i - 1 \in 0..N
    BY <1>2
  <2>4. g[1..i] = AddByte(g[(1..i) \ {Max(1..i)}], bytes[Max(1..i)])
    BY <1>2, <1>7, <2>1
  <2> QED
    BY <2>2, <2>3, <2>4
<1>10. h \in [0..N -> Registers]
  <2> DEFINE P == {i \in Nat : i <= N => h[i] \in Registers}
  <2>1. 0 \in P
    BY <1>8
  <2>2. ASSUME NEW i \in Nat, i \in P PROVE i + 1 \in P
    <3> SUFFICES ASSUME i + 1 <= N PROVE h[i + 1] \in Registers
      OBVIOUS
    <3>1. i + 1 \in 1..N /\ (i + 1) - 1 = i
      BY <1>2
    <3>2. h[i] \in Registers
      BY <1>2, <2>2
    <3>3. bytes[i + 1] \in Bytes
      BY <1>2, <3>1
    <3>4. h[i + 1] = AddByte(h[(i + 1) - 1], bytes[i + 1])
      BY <1>9, <3>1
    <3> HIDE DEF h
    <3> QED
      BY <3>1, <3>2, <3>3, <3>4, AddByteIs
  <2>3. Nat \subseteq P
    <3> HIDE DEF P
    <3> QED
      BY <2>1, <2>2, SetInduction
  <2>4. \A i \in 0..N : h[i] \in Registers
    <3> HIDE DEF h
    <3> QED
      BY <1>2, <2>3
  <2> QED
    BY <2>4
<1>11. h[N] = g[DOMAIN bytes]
  BY <1>2
<1> HIDE DEF h
<1>12. Row(h, bytes, c)
  BY <1>8, <1>9, <1>10 DEF Row, N
<1> QED
  BY <1>1, <1>11, <1>12 DEF N


-----------------------------------------------------------------------------
(* What goes through the rounds without a trace *)

\* The bits of an error burst the CRC cannot miss: no further apart than its width.
Narrow == {X \in Registers : X # {} /\ \A a, b \in X : a - b <= 15}

LEMMA RoundNarrow ==
    ASSUME NEW X \in Narrow, NEW j
    PROVE  Round(X, j) \in Narrow
<1>1. X \in Registers /\ X # {} /\ \A a, b \in X : a - b <= 15
  BY DEF Narrow
<1>2. Round(X, j) \in Registers
      /\ \A b \in Nat : b \in Round(X, j) <=> ~(b + 1 \in X <=> (0 \in X /\ b \in Polynomial))
  BY <1>1, RoundBits
<1>3. CASE 0 \in X
  <2>1. \A b \in X : b \in Nat /\ b <= 15
    <3>1. \A b \in X : b - 0 <= 15 /\ b \in Nat
      BY <1>1, <1>3 DEF Registers
    <3> QED
      BY <3>1
  <2>2. 15 \in Round(X, j)
    <3>1. 15 + 1 \notin X /\ 15 \in Nat
      BY <2>1
    <3>2. 15 \in Polynomial
      BY DEF Polynomial
    <3> QED
      BY <1>2, <1>3, <3>1, <3>2
  <2>3. ASSUME NEW b \in Round(X, j) PROVE b \in Nat /\ b <= 15
    <3>1. b \in Nat
      BY <1>2 DEF Registers
    <3>2. b + 1 \in X \/ b \in Polynomial
      BY <1>2, <3>1
    <3>3. b \in Polynomial => b <= 15
      BY DEF Polynomial
    <3> QED
      BY <2>1, <3>1, <3>2, <3>3
  <2>4. \A a, b \in Round(X, j) : a - b <= 15
    BY <2>3
  <2> QED
    BY <1>2, <2>2, <2>4 DEF Narrow
<1>4. CASE 0 \notin X
  <2>1. ASSUME NEW b \in Round(X, j) PROVE b \in Nat /\ b + 1 \in X
    <3>1. b \in Nat
      BY <1>2 DEF Registers
    <3> QED
      BY <1>2, <1>4, <3>1
  <2>2. PICK a \in X : TRUE
    BY <1>1
  <2>3. a \in Nat /\ a # 0
    BY <1>1, <1>4 DEF Registers
  <2>4. a - 1 \in Nat /\ (a - 1) + 1 = a
    BY <2>3
  <2>5. a - 1 \in Round(X, j)
    BY <1>2, <1>4, <2>4
  <2>6. ASSUME NEW b \in Round(X, j), NEW c \in Round(X, j) PROVE b - c <= 15
    <3>1. b \in Nat /\ c \in Nat /\ b + 1 \in X /\ c + 1 \in X
      BY <2>1
    <3>2. (b + 1) - (c + 1) <= 15
      BY <1>1, <3>1
    <3> QED
      BY <3>1, <3>2
  <2> QED
    BY <1>2, <2>5, <2>6 DEF Narrow
<1> QED
  BY <1>3, <1>4

LEMMA WordFacts ==
    ASSUME NEW X \in Words
    PROVE  /\ X \in Registers
           /\ X # {} => X \in Narrow
           /\ \A j : Round(X, j) \in Words
<1>1. X \in Registers
  BY DEF Words, Registers
<1>2. X # {} => X \in Narrow
  BY <1>1 DEF Words, Narrow
<1>3. ASSUME NEW j PROVE Round(X, j) \in Words
  <2>1. Round(X, j) \in Registers
        /\ \A b \in Nat : b \in Round(X, j) => b + 1 \in X \/ b \in Polynomial
    BY <1>1, RoundBits
  <2>2. Polynomial \in Words
    BY DEF Polynomial, Words
  <2>3. ASSUME NEW b \in Round(X, j) PROVE b \in 0..15
    <3>1. b \in Nat
      BY <2>1 DEF Registers
    <3>2. b + 1 \in 0..15 \/ b \in 0..15
      BY <2>1, <2>2, <3>1 DEF Words
    <3> QED
      BY <3>1, <3>2
  <2> QED
    BY <2>3 DEF Words
<1> QED
  BY <1>1, <1>2, <1>3

\* On 16 bits the rounds lose nothing.
LEMMA EightWords ==
    ASSUME NEW X \in Words
    PROVE  Eight(X) \in Words /\ (Eight(X) = {} <=> X = {})
<1>1. Words \in SUBSET Registers
  BY DEF Words, Registers
<1>2. Eight(X) \in Words
  BY <1>1, WordFacts, EightKeeps
<1>3. ASSUME X # {} PROVE Eight(X) # {}
  <2>1. Narrow \in SUBSET Registers /\ X \in Narrow
    BY <1>3, WordFacts DEF Narrow
  <2>2. Eight(X) \in Narrow
    BY <2>1, RoundNarrow, EightKeeps
  <2> QED
    BY <2>2 DEF Narrow
<1>4. X = {} => Eight(X) = {}
  <2>1. {} \in Registers /\ \A b \in {} : b >= 8
    BY DEF Registers
  <2>2. Eight({}) = Down({}, 8)
    BY <2>1, EightShifts
  <2> QED
    BY <2>2 DEF Down
<1> QED
  BY <1>2, <1>3, <1>4

LEMMA EightInjective ==
    ASSUME NEW X \in Words, NEW Y \in Words, Eight(X) = Eight(Y)
    PROVE  X = Y
<1>1. SymDiff(X, Y) \in Words
  BY DEF SymDiff, Words
<1>2. X \in Registers /\ Y \in Registers
  BY WordFacts
<1>3. Eight(SymDiff(X, Y)) = SymDiff(Eight(X), Eight(Y))
  BY <1>2, EightLinear
<1>4. Eight(SymDiff(X, Y)) = {}
  BY <1>2, <1>3, EightType, SymDiffEmpty
<1> QED
  BY <1>1, <1>2, <1>4, EightWords, SymDiffEmpty

\* A CRC that goes over the two bytes that are its own comes out as 0, and over
\* no others.
LEMMA Residue ==
    ASSUME NEW m \in Words, NEW lo \in Bytes, NEW hi \in Bytes
    PROVE  AddByte(AddByte(m, lo), hi) = {} <=>
               lo = m \cap 0..7 /\ hi = {b - 8 : b \in m \cap 8..15}
<1> DEFINE d == SymDiff(m, lo)
           up == {b + 8 : b \in hi}
<1>1. /\ m \in Registers /\ lo \in Words /\ lo \in Registers /\ hi \in Words /\ hi \in Registers
      /\ d \in Words /\ d \in Registers /\ up \in Words /\ up \in Registers
  BY DEF Words, Registers, Bytes, SymDiff
<1>2. AddByte(m, lo) = Eight(d) /\ Eight(d) \in Words /\ Eight(d) \in Registers
  BY <1>1, AddByteIs, EightWords, WordFacts
<1>3. AddByte(Eight(d), hi) = {} <=> Eight(d) = hi
  <2>1. SymDiff(Eight(d), hi) \in Words
    BY <1>1, <1>2 DEF Words, SymDiff
  <2>2. AddByte(Eight(d), hi) = Eight(SymDiff(Eight(d), hi))
    BY <1>2, AddByteIs
  <2> QED
    BY <1>1, <1>2, <2>1, <2>2, EightWords, SymDiffEmpty
<1>4. Eight(up) = hi
  <2>1. \A b \in up : b >= 8
    BY DEF Bytes
  <2>2. Eight(up) = Down(up, 8)
    BY <1>1, <2>1, EightShifts
  <2>3. Down(up, 8) \in Registers /\ \A b \in Nat : b \in Down(up, 8) <=> b \in hi
    BY <1>1 DEF Down, Registers, Bytes
  <2> QED
    BY <1>1, <2>2, <2>3, SameBits
<1>5. Eight(d) = hi <=> d = up
  BY <1>1, <1>4, EightInjective
<1>6. d = up <=> lo = m \cap 0..7 /\ hi = {b - 8 : b \in m \cap 8..15}
  <2>1. ASSUME d = up PROVE lo = m \cap 0..7 /\ hi = {b - 8 : b \in m \cap 8..15}
    <3>1. \A b \in 0..15 : ~(b \in m <=> b \in lo) <=> b \in up
      BY <2>1 DEF SymDiff
    <3>2. \A b \in 0..7 : b \notin up
      BY DEF Bytes
    <3>3. \A b \in 8..15 : b \notin lo /\ (b \in up <=> b - 8 \in hi)
      BY DEF Bytes
    <3>4. lo = m \cap 0..7
      <4>1. \A b \in 0..7 : b \in 0..15 /\ (b \in m <=> b \in lo)
        BY <3>1, <3>2
      <4> QED
        BY <4>1 DEF Bytes
    <3>5. \A b \in 8..15 : b \in m <=> b - 8 \in hi
      BY <3>1, <3>3
    <3>6. ASSUME NEW b \in hi PROVE b \in {c - 8 : c \in m \cap 8..15}
      <4>1. b \in 0..7 /\ b + 8 \in 8..15 /\ (b + 8) - 8 = b
        BY DEF Bytes
      <4> QED
        BY <3>5, <4>1
    <3>7. \A c \in m \cap 8..15 : c - 8 \in hi
      BY <3>5
    <3> QED
      BY <3>4, <3>6, <3>7
  <2>2. ASSUME lo = m \cap 0..7, hi = {b - 8 : b \in m \cap 8..15} PROVE d = up
    <3>1. ASSUME NEW b \in Nat PROVE b \in d <=> b \in up
      <4>1. b \in d <=> b \in m \cap 8..15
        BY <2>2 DEF SymDiff, Words
      <4>2. ASSUME NEW c \in m \cap 8..15 PROVE c \in up
        <5>1. c - 8 \in hi /\ (c - 8) + 8 = c
          BY <2>2
        <5> QED
          BY <5>1
      <4>3. ASSUME NEW c \in up PROVE c \in m \cap 8..15
        <5>1. PICK i \in hi : c = i + 8
          OBVIOUS
        <5>2. PICK a \in m \cap 8..15 : i = a - 8
          BY <2>2
        <5> QED
          BY <5>1, <5>2
      <4> QED
        BY <4>1, <4>2, <4>3
    <3> QED
      BY <1>1, <3>1, SameBits
  <2> QED
    BY <2>1, <2>2
<1> QED
  BY <1>2, <1>3, <1>5, <1>6


-----------------------------------------------------------------------------
(* From frames to errors *)

\* The difference of two words is one.
LEMMA WordsDiffer == \A a, b \in Words : SymDiff(a, b) \in Words
BY Zenon DEF SymDiff, Words

LEMMA RowWords ==
    ASSUME NEW bytes \in Seq(Bytes), NEW h, Row(h, bytes, AllOnes)
    PROVE  \A k \in 0..Len(bytes) : h[k] \in Words
<1> DEFINE P == {k \in Nat : k <= Len(bytes) => h[k] \in Words}
<1>1. 0 \in P
  BY DEF Row, AllOnes, Words
<1>2. ASSUME NEW k \in Nat, k \in P PROVE k + 1 \in P
  <2> SUFFICES ASSUME k + 1 <= Len(bytes) PROVE h[k + 1] \in Words
    OBVIOUS
  <2>1. k + 1 \in 1..Len(bytes) /\ (k + 1) - 1 = k /\ h[k] \in Words
    BY <1>2
  <2>2. bytes[k + 1] \in Bytes /\ h[k + 1] = AddByte(h[k], bytes[k + 1])
    BY <2>1 DEF Row
  <2>3. SymDiff(h[k], bytes[k + 1]) \in Words /\ h[k] \in Registers
    <3>1. h[k] \in Registers
      BY <2>1, WordFacts
    <3>2. SymDiff(h[k], bytes[k + 1]) \in Words
      <4>1. bytes[k + 1] \in Words
        BY <2>2 DEF Bytes, Words
      <4> QED
        BY <2>1, <4>1, WordsDiffer
    <3> QED
      BY <3>1, <3>2
  <2> QED
    BY <2>2, <2>3, AddByteIs, EightWords
<1>3. Nat \subseteq P
  <2> HIDE DEF P
  <2> QED
    BY <1>1, <1>2, SetInduction
<1> QED
  BY <1>3

\* What SubSeq returns at the beginning of a sequence.
LEMMA FrontFacts ==
    ASSUME NEW B, NEW s \in Seq(B), NEW l \in Nat, l <= Len(s)
    PROVE  SubSeq(s, 1, l) \in Seq(B) /\ Len(SubSeq(s, 1, l)) = l /\ \A i \in 1..l : SubSeq(s, 1, l)[i] = s[i]
OBVIOUS

\* A frame with the CRC of Modbus at its end.
Correct(F) == CrcBytes(Crc16(SubSeq(F, 1, Len(F) - 2), AllOnes)) = SubSeq(F, Len(F) - 1, Len(F))

\* It is one exactly when the CRC over all of it is 0.
LEMMA MatchRow ==
    ASSUME NEW F \in Seq(Bytes), Len(F) >= 2
    PROVE  \E h : Row(h, F, AllOnes) /\ (Correct(F) <=> h[Len(F)] = {})
<1> DEFINE n == Len(F)
           p == SubSeq(F, 1, n - 2)
<1>1. n \in Nat /\ n >= 2 /\ \A i \in 1..n : F[i] \in Bytes
  OBVIOUS
<1>2. p \in Seq(Bytes) /\ Len(p) = n - 2 /\ \A i \in 1..n - 2 : p[i] = F[i]
  <2>1. n - 2 \in Nat /\ n - 2 <= Len(F)
    BY <1>1
  <2> QED
    BY <2>1, FrontFacts
<1>3. AllOnes \in Registers
  BY DEF AllOnes, Registers
<1>4. PICK g : Row(g, p, AllOnes) /\ Crc16(p, AllOnes) = g[n - 2]
  <2> HIDE DEF p, n
  <2> QED
    BY <1>2, <1>3, CrcRow
<1>5. SubSeq(F, n - 1, n) = <<F[n - 1], F[n]>>
  <2> DEFINE q == SubSeq(F, n - 1, n)
  <2>1. q \in Seq(Bytes) /\ Len(q) = 2 /\ q[1] = F[n - 1] /\ q[2] = F[n]
    OBVIOUS
  <2> HIDE DEF q
  <2>2. q = <<q[1], q[2]>>
    BY <2>1
  <2> QED
    BY <2>1, <2>2 DEF q
<1>6. g[n - 2] \in Words /\ g[n - 2] \in Registers
  <2> HIDE DEF p, n
  <2>1. n - 2 \in 0..Len(p)
    BY <1>1, <1>2
  <2> QED
    BY <1>2, <1>4, <2>1, RowWords, WordFacts
<1>7. Correct(F) <=> AddByte(AddByte(g[n - 2], F[n - 1]), F[n]) = {}
  <2> DEFINE m == g[n - 2]
  <2>1. F[n - 1] \in Bytes /\ F[n] \in Bytes
    BY <1>1
  <2>2. Correct(F) <=> <<m \cap 0..7, {b - 8 : b \in m \cap 8..15}>> = <<F[n - 1], F[n]>>
    BY <1>4, <1>5 DEF Correct, CrcBytes
  <2> HIDE DEF m
  <2>3. Correct(F) <=> m \cap 0..7 = F[n - 1] /\ {b - 8 : b \in m \cap 8..15} = F[n]
    BY <2>2
  <2>4. m \in Words
    BY <1>6 DEF m
  <2>5. AddByte(AddByte(m, F[n - 1]), F[n]) = {} <=>
           F[n - 1] = m \cap 0..7 /\ F[n] = {b - 8 : b \in m \cap 8..15}
    BY <2>1, <2>4, Residue
  <2> QED
    BY <2>3, <2>5 DEF m
<1> DEFINE h == [k \in 0..n |-> IF k <= n - 2 THEN g[k]
                               ELSE IF k = n - 1 THEN AddByte(g[n - 2], F[n - 1])
                               ELSE AddByte(AddByte(g[n - 2], F[n - 1]), F[n])]
<1>8. Row(h, F, AllOnes)
  <2> HIDE DEF p
  <2>1. AddByte(g[n - 2], F[n - 1]) \in Registers
    BY <1>1, <1>6, AddByteIs
  <2>2. AddByte(AddByte(g[n - 2], F[n - 1]), F[n]) \in Registers
    BY <1>1, <2>1, AddByteIs
  <2>3. \A k \in 0..n - 2 : g[k] \in Registers
    BY <1>1, <1>2, <1>4 DEF Row
  <2>4. h \in [0..n -> Registers]
    BY <2>1, <2>2, <2>3
  <2>5. h[0] = AllOnes
    BY <1>1, <1>4 DEF Row
  <2>6. ASSUME NEW k \in 1..n PROVE h[k] = AddByte(h[k - 1], F[k])
    <3>1. CASE k <= n - 2
      <4>1. k \in 1..n - 2 /\ k \in 1..Len(p)
        BY <1>1, <1>2, <3>1
      <4>2. \A i \in 1..Len(p) : g[i] = AddByte(g[i - 1], p[i])
        BY <1>4 DEF Row
      <4>3. g[k] = AddByte(g[k - 1], p[k])
        BY <4>1, <4>2
      <4>4. p[k] = F[k]
        BY <1>2, <4>1
      <4>5. k \in 0..n /\ k - 1 \in 0..n /\ k <= n - 2 /\ k - 1 <= n - 2
        BY <1>1, <4>1
      <4>6. h[k] = g[k] /\ h[k - 1] = g[k - 1]
        BY <4>5
      <4> HIDE DEF h
      <4> QED
        BY <4>3, <4>4, <4>6
    <3>2. CASE k = n - 1
      <4>1. k - 1 = n - 2 /\ ~ (k <= n - 2) /\ k - 1 \in 0..n /\ k \in 0..n
        BY <1>1, <3>2
      <4> QED
        BY <3>2, <4>1
    <3>3. CASE k = n
      <4>1. k - 1 = n - 1 /\ ~ (k <= n - 2) /\ ~ (k - 1 <= n - 2) /\ k # n - 1 /\ k - 1 \in 0..n /\ k \in 0..n
        BY <1>1, <3>3
      <4> QED
        BY <3>3, <4>1
    <3> QED
      BY <1>1, <3>1, <3>2, <3>3
  <2> QED
    BY <2>4, <2>5, <2>6 DEF Row
<1>9. h[n] = AddByte(AddByte(g[n - 2], F[n - 1]), F[n])
  BY <1>1
<1> QED
  BY <1>7, <1>8, <1>9

\* The bits of the byte after k others that arrive inverted.
Wrong(w, k) == {j \in 0..7 : 8 * k + j \in w}

LEMMA GarbledBytes ==
    ASSUME NEW F \in Seq(Bytes), NEW w \in Registers
    PROVE  /\ Garble(F, w) \in Seq(Bytes) /\ Len(Garble(F, w)) = Len(F)
           /\ \A i \in 1..Len(F) :
                  Garble(F, w)[i] = SymDiff(F[i], Wrong(w, i - 1))
<1> DEFINE W(i) == {j \in 0..7 : 8 * (i - 1) + j \in w}
           G == [i \in 1..Len(F) |-> SymDiff(F[i], W(i))]
<1>0. \A i \in 1..Len(F) : W(i) = Wrong(w, i - 1)
  BY DEF Wrong
<1>1. Garble(F, w) = G
  <2>1. DOMAIN F = 1..Len(F)
    OBVIOUS
  <2> QED
    BY <2>1 DEF Garble
<1>2. ASSUME NEW i \in 1..Len(F) PROVE SymDiff(F[i], W(i)) \in Bytes
  <2>1. F[i] \in Bytes /\ W(i) \in Bytes
    BY DEF Bytes
  <2> HIDE DEF W
  <2> QED
    BY <2>1 DEF SymDiff, Bytes
<1> HIDE DEF W
<1>3. G \in Seq(Bytes) /\ Len(G) = Len(F)
  BY <1>2
<1> QED
  BY <1>0, <1>1, <1>3

\* What two CRCs differ in after a byte that arrived wrong, and the bits of the
\* errors still to come, are what eight rounds make of those before it.
LEMMA ErrorStep ==
    ASSUME NEW a \in Registers, NEW b \in Registers, NEW f \in Bytes, NEW w \in Registers, NEW k \in Nat
    PROVE  SymDiff(SymDiff(AddByte(a, f), AddByte(b, SymDiff(f, Wrong(w, k)))),
                   Down(w, 8 * (k + 1)))
             = Eight(SymDiff(SymDiff(a, b), Down(w, 8 * k)))
<1> DEFINE W == Wrong(w, k)
           X == Down(w, 8 * k)
           T == X \ (0..7)
           g == SymDiff(f, W)
<1>1. /\ W \in Bytes /\ X \in Registers /\ T \in Registers
      /\ f \in Registers /\ W \in Registers /\ Down(w, 8 * (k + 1)) \in Registers
  BY DEF Down, Registers, Bytes, Wrong
<1>2. g \in Bytes /\ g \in Registers
  <2> HIDE DEF W
  <2> QED
    BY <1>1 DEF Bytes, SymDiff, Registers
<1>3. X = SymDiff(W, T)
  <2>1. ASSUME NEW j \in 0..7 PROVE j \in W <=> j \in X
    <3>1. j + 8 * k = 8 * k + j
      OBVIOUS
    <3> QED
      BY <3>1 DEF Down, Wrong
  <2>2. W \subseteq 0..7
    BY DEF Wrong
  <2> HIDE DEF W, X
  <2> QED
    BY <2>1, <2>2 DEF SymDiff
<1>4. Eight(T) = Down(w, 8 * (k + 1))
  <2>1. \A c \in T : c >= 8
    BY <1>1 DEF Registers
  <2>2. Eight(T) = Down(T, 8)
    BY <1>1, <2>1, EightShifts
  <2>3. Down(T, 8) \in Registers
    BY DEF Down, Registers
  <2>4. ASSUME NEW c \in Nat PROVE c \in Down(T, 8) <=> c \in Down(w, 8 * (k + 1))
    <3>1. c + 8 \notin 0..7 /\ c + 8 \in Nat /\ (c + 8) + 8 * k = c + 8 * (k + 1)
      OBVIOUS
    <3> QED
      BY <3>1 DEF Down
  <2> QED
    <3> HIDE DEF T
    <3> QED
      BY <1>1, <2>2, <2>3, <2>4, SameBits
<1> HIDE DEF W, X, T, g
<1>5. AddByte(a, f) = Eight(SymDiff(a, f)) /\ AddByte(b, g) = Eight(SymDiff(b, g))
  BY <1>2, AddByteIs
<1>6. /\ SymDiff(a, f) \in Registers /\ SymDiff(b, g) \in Registers
      /\ SymDiff(SymDiff(a, f), SymDiff(b, g)) \in Registers
  BY <1>1, <1>2, SymDiffBits
<1>7. SymDiff(AddByte(a, f), AddByte(b, g)) = Eight(SymDiff(SymDiff(a, f), SymDiff(b, g)))
  BY <1>5, <1>6, EightLinear
<1>8. SymDiff(SymDiff(AddByte(a, f), AddByte(b, g)), Down(w, 8 * (k + 1)))
        = Eight(SymDiff(SymDiff(SymDiff(a, f), SymDiff(b, g)), T))
  BY <1>1, <1>4, <1>6, <1>7, EightLinear
<1>9. SymDiff(SymDiff(SymDiff(a, f), SymDiff(b, g)), T) = SymDiff(SymDiff(a, b), X)
  <2>1. SymDiff(SymDiff(SymDiff(a, f), SymDiff(b, SymDiff(f, W))), T)
          = SymDiff(SymDiff(a, b), SymDiff(W, T))
    BY DEF SymDiff
  <2> QED
    BY <1>3, <2>1 DEF g
<1> QED
  BY <1>8, <1>9 DEF g, X, W

\* What becomes of an error.
Trace(x, w, n) ==
    /\ x \in [0..n -> Registers]
    /\ x[0] = w
    /\ \A k \in 1..n : x[k] = Eight(x[k - 1])

\* The frame with the error is accepted exactly when nothing of it is left.
LEMMA ErrorRow ==
    ASSUME NEW F \in Seq(Bytes), Len(F) >= 2, Correct(F), NEW w \in SUBSET (0..8 * Len(F) - 1)
    PROVE  \E x : Trace(x, w, Len(F)) /\ (Correct(Garble(F, w)) <=> x[Len(F)] = {})
<1> DEFINE n == Len(F)
           G == Garble(F, w)
<1>1. w \in Registers
  BY DEF Registers
<1>2. /\ G \in Seq(Bytes) /\ Len(G) = n
      /\ \A i \in 1..n : G[i] = SymDiff(F[i], Wrong(w, i - 1))
  BY <1>1, GarbledBytes
<1>3. n \in Nat /\ \A i \in 1..n : F[i] \in Bytes
  OBVIOUS
<1> HIDE DEF G
<1>4. PICK h : Row(h, F, AllOnes) /\ (Correct(F) <=> h[n] = {})
  BY MatchRow
<1>5. PICK d : Row(d, G, AllOnes) /\ (Correct(G) <=> d[Len(G)] = {})
  <2>1. Len(G) >= 2
    BY <1>2
  <2> QED
    BY <1>2, <2>1, MatchRow
<1> HIDE DEF n
<1> DEFINE x == [k \in 0..n |-> SymDiff(SymDiff(h[k], d[k]), Down(w, 8 * k))]
<1>6. ASSUME NEW k \in 0..n
      PROVE  h[k] \in Registers /\ d[k] \in Registers /\ x[k] \in Registers
  <2>1. h[k] \in Registers /\ d[k] \in Registers
    BY <1>2, <1>4, <1>5 DEF Row, n
  <2>2. Down(w, 8 * k) \in Registers
    BY DEF Down, Registers
  <2> QED
    BY <2>1, <2>2, SymDiffBits
<1>7. x \in [0..n -> Registers]
  BY <1>6
<1>8. x[0] = w
  <2>1. 0 \in 0..n /\ h[0] = AllOnes /\ d[0] = AllOnes
    BY <1>3, <1>4, <1>5 DEF Row
  <2>2. SymDiff(AllOnes, AllOnes) = {}
    BY DEF SymDiff
  <2>3. Down(w, 8 * 0) = w
    <3>1. \A b \in Nat : b + 8 * 0 = b
      OBVIOUS
    <3>2. Down(w, 8 * 0) \in Registers
      BY DEF Down, Registers
    <3>3. \A b \in Nat : b \in Down(w, 8 * 0) <=> b \in w
      BY <3>1 DEF Down
    <3> QED
      BY <1>1, <3>2, <3>3, SameBits
  <2>4. SymDiff({}, w) = w
    BY DEF SymDiff
  <2> QED
    BY <2>1, <2>2, <2>3, <2>4
<1>9. ASSUME NEW k \in 1..n PROVE x[k] = Eight(x[k - 1])
  <2>1. k - 1 \in Nat /\ k - 1 \in 0..n /\ k \in 0..n /\ (k - 1) + 1 = k
    BY <1>3
  <2>2. h[k] = AddByte(h[k - 1], F[k]) /\ d[k] = AddByte(d[k - 1], G[k])
    BY <1>2, <1>4, <1>5 DEF Row, n
  <2>3. F[k] \in Bytes /\ G[k] = SymDiff(F[k], Wrong(w, k - 1))
    BY <1>2, <1>3
  <2>4. h[k - 1] \in Registers /\ d[k - 1] \in Registers
    BY <1>6, <2>1
  <2>5. SymDiff(SymDiff(h[k], d[k]), Down(w, 8 * ((k - 1) + 1)))
          = Eight(SymDiff(SymDiff(h[k - 1], d[k - 1]), Down(w, 8 * (k - 1))))
    <3> DEFINE i == k - 1
               g == SymDiff(F[k], Wrong(w, i))
    <3>1. SymDiff(SymDiff(AddByte(h[k - 1], F[k]), AddByte(d[k - 1], g)), Down(w, 8 * (i + 1)))
          = Eight(SymDiff(SymDiff(h[k - 1], d[k - 1]), Down(w, 8 * i)))
      <4>1. i \in Nat
        BY <2>1
      <4>2. F[k] \in Bytes
        BY <2>3
      <4> DEFINE a == h[k - 1]
                 b == d[k - 1]
                 f == F[k]
      <4>3. a \in Registers /\ b \in Registers /\ f \in Bytes
        BY <2>4, <4>2
      <4> HIDE DEF i, a, b, f
      <4>4. SymDiff(SymDiff(AddByte(a, f), AddByte(b, SymDiff(f, Wrong(w, i)))), Down(w, 8 * (i + 1)))
            = Eight(SymDiff(SymDiff(a, b), Down(w, 8 * i)))
        BY <1>1, <4>1, <4>3, ErrorStep
      <4> QED
        BY <4>4 DEF a, b, f
    <3> QED
      BY <2>2, <2>3, <3>1
  <2> QED
    BY <2>1, <2>5
<1>10. x[n] = d[n]
  <2>1. n \in 0..n
    BY <1>3
  <2>2. Down(w, 8 * n) = {}
    <3>1. ASSUME NEW b \in Nat PROVE b + 8 * n \notin 0..8 * n - 1
      BY <1>3
    <3> QED
      BY <3>1 DEF Down, n
  <2>3. h[n] = {}
    BY <1>4
  <2>4. SymDiff(SymDiff({}, d[n]), {}) = d[n]
    BY DEF SymDiff
  <2> QED
    BY <2>1, <2>2, <2>3, <2>4
<1> HIDE DEF x
<1>11. Trace(x, w, n)
  BY <1>7, <1>8, <1>9 DEF Trace
<1> QED
  BY <1>2, <1>5, <1>10, <1>11 DEF n, G

\* An error that the rounds cannot bring to nothing is found.
LEMMA Caught ==
    ASSUME NEW F \in Seq(Bytes), Len(F) >= 2, Correct(F),
           NEW P \in SUBSET Registers, {} \notin P, \A X \in P : \A j : Round(X, j) \in P,
           NEW w \in P, w \in SUBSET (0..8 * Len(F) - 1)
    PROVE  ~Correct(Garble(F, w))
<1>1. PICK x : Trace(x, w, Len(F)) /\ (Correct(Garble(F, w)) <=> x[Len(F)] = {})
  BY ErrorRow
<1> DEFINE n == Len(F)
           Q == {k \in Nat : k <= n => x[k] \in P}
<1>2. n \in Nat
  OBVIOUS
<1>3. 0 \in Q
  BY <1>1 DEF Trace
<1>4. ASSUME NEW k \in Nat, k \in Q PROVE k + 1 \in Q
  <2> SUFFICES ASSUME k + 1 <= n PROVE x[k + 1] \in P
    OBVIOUS
  <2>1. k + 1 \in 1..n /\ (k + 1) - 1 = k /\ x[k] \in P
    BY <1>2, <1>4
  <2>2. x[k + 1] = Eight(x[k])
    BY <1>1, <2>1 DEF Trace
  <2> QED
    BY <2>1, <2>2, EightKeeps
<1>5. Nat \subseteq Q
  <2> HIDE DEF Q
  <2> QED
    BY <1>3, <1>4, SetInduction
<1>6. x[n] \in P
  <2>1. n \in Q
    <3> HIDE DEF n, Q
    <3> QED
      BY <1>2, <1>5
  <2> QED
    BY <1>2, <2>1
<1>7. x[n] # {}
  BY <1>6
<1> QED
  BY <1>1, <1>7

LEMMA ConcatLen ==
    ASSUME NEW S, NEW s \in Seq(S), NEW t \in Seq(S)
    PROVE  s \o t \in Seq(S) /\ Len(s \o t) = Len(s) + Len(t)
OBVIOUS

\* Two members behind a sequence, and each part again.
LEMMA ConcatPair ==
    ASSUME NEW S, NEW s \in Seq(S), NEW t \in Seq(S), Len(t) = 2
    PROVE  /\ s \o t \in Seq(S) /\ Len(s \o t) = Len(s) + 2
           /\ SubSeq(s \o t, 1, Len(s)) = s
           /\ SubSeq(s \o t, Len(s) + 1, Len(s) + 2) = t
<1>1. s \o t \in Seq(S) /\ Len(s \o t) = Len(s) + Len(t)
  BY ConcatLen
<1>2. Len(s) \in Nat
  OBVIOUS
<1>3. SubSeq(s \o t, 1, Len(s)) = s
  <2> DEFINE u == SubSeq(s \o t, 1, Len(s))
  <2>1. u \in Seq(S) /\ Len(u) = Len(s) /\ \A i \in 1..Len(s) : u[i] = s[i]
    BY <1>1, <1>2
  <2> HIDE DEF u
  <2>2. u = s
    BY <2>1
  <2> QED
    BY <2>2 DEF u
<1>4. SubSeq(s \o t, Len(s) + 1, Len(s) + 2) = t
  <2> DEFINE u == SubSeq(s \o t, Len(s) + 1, Len(s) + 2)
  <2>1. u \in Seq(S) /\ Len(u) = 2 /\ u[1] = t[1] /\ u[2] = t[2]
    BY <1>1, <1>2
  <2> HIDE DEF u
  <2>2. u = t
    BY <2>1
  <2> QED
    BY <2>2 DEF u
<1> QED
  BY <1>1, <1>3, <1>4

\* A frame is correct as it was sent.
LEMMA FramedCorrect ==
    ASSUME NEW bytes \in Seq(Bytes)
    PROVE  Framed(bytes) \in Seq(Bytes) /\ Len(Framed(bytes)) = Len(bytes) + 2 /\ Correct(Framed(bytes))
<1> DEFINE F == Framed(bytes)
           c == CrcBytes(Crc16(bytes, AllOnes))
<1>1. AllOnes \in Registers
  BY DEF AllOnes, Registers
<1>2. PICK h : Row(h, bytes, AllOnes) /\ Crc16(bytes, AllOnes) = h[Len(bytes)]
  BY <1>1, CrcRow
<1>3. h[Len(bytes)] \in Words
  BY <1>2, RowWords
<1>4. c \in Seq(Bytes) /\ Len(c) = 2 /\ c = <<c[1], c[2]>>
  <2> DEFINE m == h[Len(bytes)]
  <2>1. c = <<m \cap 0..7, {b - 8 : b \in m \cap 8..15}>>
    BY <1>2 DEF CrcBytes
  <2>2. m \cap 0..7 \in Bytes /\ {b - 8 : b \in m \cap 8..15} \in Bytes
    BY DEF Bytes
  <2> HIDE DEF m, c
  <2> QED
    BY <2>1, <2>2
<1>5. F = bytes \o c
  BY DEF Framed
<1> HIDE DEF F, c
<1>6. /\ F \in Seq(Bytes) /\ Len(F) = Len(bytes) + 2
      /\ SubSeq(F, 1, Len(bytes)) = bytes
      /\ SubSeq(F, Len(bytes) + 1, Len(bytes) + 2) = c
  BY <1>4, <1>5, ConcatPair
<1>7. Len(F) - 2 = Len(bytes) /\ Len(F) - 1 = Len(bytes) + 1
  <2>1. Len(bytes) \in Nat
    OBVIOUS
  <2> QED
    BY <1>6, <2>1
<1>8. SubSeq(F, 1, Len(F) - 2) = bytes /\ SubSeq(F, Len(F) - 1, Len(F)) = c
  BY <1>6, <1>7
<1>9. Correct(F)
  BY <1>8 DEF Correct, c
<1> QED
  BY <1>6, <1>9 DEF F

-----------------------------------------------------------------------------
(* Two bits *)

\* What n rounds make of a lowest bit.
Orbit(p, n) ==
    /\ p \in [0..n -> Registers]
    /\ p[0] = {0}
    /\ \A k \in 0..n - 1 : p[k + 1] = Round(p[k], 0)

LEMMA OrbitExists == \A n \in Nat : \E p : Orbit(p, n)
<1> DEFINE Q == {n \in Nat : \E p : Orbit(p, n)}
<1>1. 0 \in Q
  <2> DEFINE p == [k \in 0..0 |-> {0}]
  <2>1. {0} \in Registers
    BY DEF Registers
  <2>2. Orbit(p, 0)
    BY <2>1 DEF Orbit
  <2> HIDE DEF p
  <2> QED
    BY <2>2
<1>2. ASSUME NEW n \in Nat, n \in Q PROVE n + 1 \in Q
  <2>1. PICK p : Orbit(p, n)
    BY <1>2
  <2> DEFINE q == [k \in 0..n + 1 |-> IF k <= n THEN p[k] ELSE Round(p[n], 0)]
  <2>2. n \in 0..n /\ p[n] \in Registers
    BY <2>1 DEF Orbit
  <2>3. Round(p[n], 0) \in Registers
    BY <2>2, RoundBits
  <2>4. ASSUME NEW k \in 0..n + 1 PROVE q[k] \in Registers
    <3>1. k <= n => k \in 0..n
      OBVIOUS
    <3> QED
      BY <2>1, <2>3, <3>1 DEF Orbit
  <2>5. q \in [0..n + 1 -> Registers]
    BY <2>4
  <2>6. q[0] = {0}
    BY <2>1 DEF Orbit
  <2>7. ASSUME NEW k \in 0..n PROVE q[k + 1] = Round(q[k], 0)
    <3>1. CASE k < n
      <4>1. k \in 0..n - 1 /\ k + 1 <= n /\ k + 1 \in 0..n + 1 /\ k \in 0..n + 1 /\ k <= n
        BY <3>1
      <4>2. p[k + 1] = Round(p[k], 0)
        BY <2>1, <4>1 DEF Orbit
      <4> QED
        BY <4>1, <4>2
    <3>2. CASE k = n
      <4>1. k + 1 \in 0..n + 1 /\ ~(k + 1 <= n) /\ k \in 0..n + 1 /\ k <= n
        BY <3>2
      <4> QED
        BY <3>2, <4>1
    <3> QED
      BY <3>1, <3>2
  <2>8. (n + 1) - 1 = n
    OBVIOUS
  <2> HIDE DEF q
  <2>9. Orbit(q, n + 1)
    BY <2>5, <2>6, <2>7, <2>8 DEF Orbit
  <2> QED
    BY <2>9
<1> QED
  <2> HIDE DEF Q
  <2>1. Nat \subseteq Q
    BY <1>1, <1>2, SetInduction
  <2> QED
    BY <2>1 DEF Q

\* In 55 rounds a lowest bit never becomes a single bit again.
LEMMA OrbitNotOneBit ==
    ASSUME NEW p, Orbit(p, 55)
    PROVE  \A k \in 1..55 : \E a, b \in p[k] : a # b
<1>0. /\ p[0] = {0}
      /\ \A k \in 0..54 : p[k + 1] = Round(p[k], 0)
  BY DEF Orbit
<1>1. p[1] = {0, 13, 15}
  <2>1. Round({0}, 0) = {0, 13, 15}
    <3>1. {b - 1 : b \in {0} \ {0}} = {}
      OBVIOUS
    <3>2. SymDiff({}, {0, 13, 15}) = {0, 13, 15}
      BY DEF SymDiff
    <3> QED
      BY <3>1, <3>2 DEF Round, Polynomial
  <2>2. p[0 + 1] = Round(p[0], 0)
    BY <1>0
  <2> QED
    BY <1>0, <2>1, <2>2
<1>2. p[2] = {0, 12, 13, 14, 15}
  <2>1. Round({0, 13, 15}, 0) = {0, 12, 13, 14, 15}
    <3>1. {b - 1 : b \in {0, 13, 15} \ {0}} = {12, 14}
      OBVIOUS
    <3>2. SymDiff({12, 14}, {0, 13, 15}) = {0, 12, 13, 14, 15}
      BY DEF SymDiff
    <3> QED
      BY <3>1, <3>2 DEF Round, Polynomial
  <2>2. p[1 + 1] = Round(p[1], 0)
    BY <1>0
  <2> QED
    BY <1>1, <2>1, <2>2
<1>3. p[3] = {0, 11, 12, 14, 15}
  <2>1. Round({0, 12, 13, 14, 15}, 0) = {0, 11, 12, 14, 15}
    <3>1. {b - 1 : b \in {0, 12, 13, 14, 15} \ {0}} = {11, 12, 13, 14}
      OBVIOUS
    <3>2. SymDiff({11, 12, 13, 14}, {0, 13, 15}) = {0, 11, 12, 14, 15}
      BY DEF SymDiff
    <3> QED
      BY <3>1, <3>2 DEF Round, Polynomial
  <2>2. p[2 + 1] = Round(p[2], 0)
    BY <1>0
  <2> QED
    BY <1>2, <2>1, <2>2
<1>4. p[4] = {0, 10, 11, 14, 15}
  <2>1. Round({0, 11, 12, 14, 15}, 0) = {0, 10, 11, 14, 15}
    <3>1. {b - 1 : b \in {0, 11, 12, 14, 15} \ {0}} = {10, 11, 13, 14}
      OBVIOUS
    <3>2. SymDiff({10, 11, 13, 14}, {0, 13, 15}) = {0, 10, 11, 14, 15}
      BY DEF SymDiff
    <3> QED
      BY <3>1, <3>2 DEF Round, Polynomial
  <2>2. p[3 + 1] = Round(p[3], 0)
    BY <1>0
  <2> QED
    BY <1>3, <2>1, <2>2
<1>5. p[5] = {0, 9, 10, 14, 15}
  <2>1. Round({0, 10, 11, 14, 15}, 0) = {0, 9, 10, 14, 15}
    <3>1. {b - 1 : b \in {0, 10, 11, 14, 15} \ {0}} = {9, 10, 13, 14}
      OBVIOUS
    <3>2. SymDiff({9, 10, 13, 14}, {0, 13, 15}) = {0, 9, 10, 14, 15}
      BY DEF SymDiff
    <3> QED
      BY <3>1, <3>2 DEF Round, Polynomial
  <2>2. p[4 + 1] = Round(p[4], 0)
    BY <1>0
  <2> QED
    BY <1>4, <2>1, <2>2
<1>6. p[6] = {0, 8, 9, 14, 15}
  <2>1. Round({0, 9, 10, 14, 15}, 0) = {0, 8, 9, 14, 15}
    <3>1. {b - 1 : b \in {0, 9, 10, 14, 15} \ {0}} = {8, 9, 13, 14}
      OBVIOUS
    <3>2. SymDiff({8, 9, 13, 14}, {0, 13, 15}) = {0, 8, 9, 14, 15}
      BY DEF SymDiff
    <3> QED
      BY <3>1, <3>2 DEF Round, Polynomial
  <2>2. p[5 + 1] = Round(p[5], 0)
    BY <1>0
  <2> QED
    BY <1>5, <2>1, <2>2
<1>7. p[7] = {0, 7, 8, 14, 15}
  <2>1. Round({0, 8, 9, 14, 15}, 0) = {0, 7, 8, 14, 15}
    <3>1. {b - 1 : b \in {0, 8, 9, 14, 15} \ {0}} = {7, 8, 13, 14}
      OBVIOUS
    <3>2. SymDiff({7, 8, 13, 14}, {0, 13, 15}) = {0, 7, 8, 14, 15}
      BY DEF SymDiff
    <3> QED
      BY <3>1, <3>2 DEF Round, Polynomial
  <2>2. p[6 + 1] = Round(p[6], 0)
    BY <1>0
  <2> QED
    BY <1>6, <2>1, <2>2
<1>8. p[8] = {0, 6, 7, 14, 15}
  <2>1. Round({0, 7, 8, 14, 15}, 0) = {0, 6, 7, 14, 15}
    <3>1. {b - 1 : b \in {0, 7, 8, 14, 15} \ {0}} = {6, 7, 13, 14}
      OBVIOUS
    <3>2. SymDiff({6, 7, 13, 14}, {0, 13, 15}) = {0, 6, 7, 14, 15}
      BY DEF SymDiff
    <3> QED
      BY <3>1, <3>2 DEF Round, Polynomial
  <2>2. p[7 + 1] = Round(p[7], 0)
    BY <1>0
  <2> QED
    BY <1>7, <2>1, <2>2
<1>9. p[9] = {0, 5, 6, 14, 15}
  <2>1. Round({0, 6, 7, 14, 15}, 0) = {0, 5, 6, 14, 15}
    <3>1. {b - 1 : b \in {0, 6, 7, 14, 15} \ {0}} = {5, 6, 13, 14}
      OBVIOUS
    <3>2. SymDiff({5, 6, 13, 14}, {0, 13, 15}) = {0, 5, 6, 14, 15}
      BY DEF SymDiff
    <3> QED
      BY <3>1, <3>2 DEF Round, Polynomial
  <2>2. p[8 + 1] = Round(p[8], 0)
    BY <1>0
  <2> QED
    BY <1>8, <2>1, <2>2
<1>10. p[10] = {0, 4, 5, 14, 15}
  <2>1. Round({0, 5, 6, 14, 15}, 0) = {0, 4, 5, 14, 15}
    <3>1. {b - 1 : b \in {0, 5, 6, 14, 15} \ {0}} = {4, 5, 13, 14}
      OBVIOUS
    <3>2. SymDiff({4, 5, 13, 14}, {0, 13, 15}) = {0, 4, 5, 14, 15}
      BY DEF SymDiff
    <3> QED
      BY <3>1, <3>2 DEF Round, Polynomial
  <2>2. p[9 + 1] = Round(p[9], 0)
    BY <1>0
  <2> QED
    BY <1>9, <2>1, <2>2
<1>11. p[11] = {0, 3, 4, 14, 15}
  <2>1. Round({0, 4, 5, 14, 15}, 0) = {0, 3, 4, 14, 15}
    <3>1. {b - 1 : b \in {0, 4, 5, 14, 15} \ {0}} = {3, 4, 13, 14}
      OBVIOUS
    <3>2. SymDiff({3, 4, 13, 14}, {0, 13, 15}) = {0, 3, 4, 14, 15}
      BY DEF SymDiff
    <3> QED
      BY <3>1, <3>2 DEF Round, Polynomial
  <2>2. p[10 + 1] = Round(p[10], 0)
    BY <1>0
  <2> QED
    BY <1>10, <2>1, <2>2
<1>12. p[12] = {0, 2, 3, 14, 15}
  <2>1. Round({0, 3, 4, 14, 15}, 0) = {0, 2, 3, 14, 15}
    <3>1. {b - 1 : b \in {0, 3, 4, 14, 15} \ {0}} = {2, 3, 13, 14}
      OBVIOUS
    <3>2. SymDiff({2, 3, 13, 14}, {0, 13, 15}) = {0, 2, 3, 14, 15}
      BY DEF SymDiff
    <3> QED
      BY <3>1, <3>2 DEF Round, Polynomial
  <2>2. p[11 + 1] = Round(p[11], 0)
    BY <1>0
  <2> QED
    BY <1>11, <2>1, <2>2
<1>13. p[13] = {0, 1, 2, 14, 15}
  <2>1. Round({0, 2, 3, 14, 15}, 0) = {0, 1, 2, 14, 15}
    <3>1. {b - 1 : b \in {0, 2, 3, 14, 15} \ {0}} = {1, 2, 13, 14}
      OBVIOUS
    <3>2. SymDiff({1, 2, 13, 14}, {0, 13, 15}) = {0, 1, 2, 14, 15}
      BY DEF SymDiff
    <3> QED
      BY <3>1, <3>2 DEF Round, Polynomial
  <2>2. p[12 + 1] = Round(p[12], 0)
    BY <1>0
  <2> QED
    BY <1>12, <2>1, <2>2
<1>14. p[14] = {1, 14, 15}
  <2>1. Round({0, 1, 2, 14, 15}, 0) = {1, 14, 15}
    <3>1. {b - 1 : b \in {0, 1, 2, 14, 15} \ {0}} = {0, 1, 13, 14}
      OBVIOUS
    <3>2. SymDiff({0, 1, 13, 14}, {0, 13, 15}) = {1, 14, 15}
      BY DEF SymDiff
    <3> QED
      BY <3>1, <3>2 DEF Round, Polynomial
  <2>2. p[13 + 1] = Round(p[13], 0)
    BY <1>0
  <2> QED
    BY <1>13, <2>1, <2>2
<1>15. p[15] = {0, 13, 14}
  <2>1. Round({1, 14, 15}, 0) = {0, 13, 14}
    BY DEF Round
  <2>2. p[14 + 1] = Round(p[14], 0)
    BY <1>0
  <2> QED
    BY <1>14, <2>1, <2>2
<1>16. p[16] = {0, 12, 15}
  <2>1. Round({0, 13, 14}, 0) = {0, 12, 15}
    <3>1. {b - 1 : b \in {0, 13, 14} \ {0}} = {12, 13}
      OBVIOUS
    <3>2. SymDiff({12, 13}, {0, 13, 15}) = {0, 12, 15}
      BY DEF SymDiff
    <3> QED
      BY <3>1, <3>2 DEF Round, Polynomial
  <2>2. p[15 + 1] = Round(p[15], 0)
    BY <1>0
  <2> QED
    BY <1>15, <2>1, <2>2
<1>17. p[17] = {0, 11, 13, 14, 15}
  <2>1. Round({0, 12, 15}, 0) = {0, 11, 13, 14, 15}
    <3>1. {b - 1 : b \in {0, 12, 15} \ {0}} = {11, 14}
      OBVIOUS
    <3>2. SymDiff({11, 14}, {0, 13, 15}) = {0, 11, 13, 14, 15}
      BY DEF SymDiff
    <3> QED
      BY <3>1, <3>2 DEF Round, Polynomial
  <2>2. p[16 + 1] = Round(p[16], 0)
    BY <1>0
  <2> QED
    BY <1>16, <2>1, <2>2
<1>18. p[18] = {0, 10, 12, 14, 15}
  <2>1. Round({0, 11, 13, 14, 15}, 0) = {0, 10, 12, 14, 15}
    <3>1. {b - 1 : b \in {0, 11, 13, 14, 15} \ {0}} = {10, 12, 13, 14}
      OBVIOUS
    <3>2. SymDiff({10, 12, 13, 14}, {0, 13, 15}) = {0, 10, 12, 14, 15}
      BY DEF SymDiff
    <3> QED
      BY <3>1, <3>2 DEF Round, Polynomial
  <2>2. p[17 + 1] = Round(p[17], 0)
    BY <1>0
  <2> QED
    BY <1>17, <2>1, <2>2
<1>19. p[19] = {0, 9, 11, 14, 15}
  <2>1. Round({0, 10, 12, 14, 15}, 0) = {0, 9, 11, 14, 15}
    <3>1. {b - 1 : b \in {0, 10, 12, 14, 15} \ {0}} = {9, 11, 13, 14}
      OBVIOUS
    <3>2. SymDiff({9, 11, 13, 14}, {0, 13, 15}) = {0, 9, 11, 14, 15}
      BY DEF SymDiff
    <3> QED
      BY <3>1, <3>2 DEF Round, Polynomial
  <2>2. p[18 + 1] = Round(p[18], 0)
    BY <1>0
  <2> QED
    BY <1>18, <2>1, <2>2
<1>20. p[20] = {0, 8, 10, 14, 15}
  <2>1. Round({0, 9, 11, 14, 15}, 0) = {0, 8, 10, 14, 15}
    <3>1. {b - 1 : b \in {0, 9, 11, 14, 15} \ {0}} = {8, 10, 13, 14}
      OBVIOUS
    <3>2. SymDiff({8, 10, 13, 14}, {0, 13, 15}) = {0, 8, 10, 14, 15}
      BY DEF SymDiff
    <3> QED
      BY <3>1, <3>2 DEF Round, Polynomial
  <2>2. p[19 + 1] = Round(p[19], 0)
    BY <1>0
  <2> QED
    BY <1>19, <2>1, <2>2
<1>21. p[21] = {0, 7, 9, 14, 15}
  <2>1. Round({0, 8, 10, 14, 15}, 0) = {0, 7, 9, 14, 15}
    <3>1. {b - 1 : b \in {0, 8, 10, 14, 15} \ {0}} = {7, 9, 13, 14}
      OBVIOUS
    <3>2. SymDiff({7, 9, 13, 14}, {0, 13, 15}) = {0, 7, 9, 14, 15}
      BY DEF SymDiff
    <3> QED
      BY <3>1, <3>2 DEF Round, Polynomial
  <2>2. p[20 + 1] = Round(p[20], 0)
    BY <1>0
  <2> QED
    BY <1>20, <2>1, <2>2
<1>22. p[22] = {0, 6, 8, 14, 15}
  <2>1. Round({0, 7, 9, 14, 15}, 0) = {0, 6, 8, 14, 15}
    <3>1. {b - 1 : b \in {0, 7, 9, 14, 15} \ {0}} = {6, 8, 13, 14}
      OBVIOUS
    <3>2. SymDiff({6, 8, 13, 14}, {0, 13, 15}) = {0, 6, 8, 14, 15}
      BY DEF SymDiff
    <3> QED
      BY <3>1, <3>2 DEF Round, Polynomial
  <2>2. p[21 + 1] = Round(p[21], 0)
    BY <1>0
  <2> QED
    BY <1>21, <2>1, <2>2
<1>23. p[23] = {0, 5, 7, 14, 15}
  <2>1. Round({0, 6, 8, 14, 15}, 0) = {0, 5, 7, 14, 15}
    <3>1. {b - 1 : b \in {0, 6, 8, 14, 15} \ {0}} = {5, 7, 13, 14}
      OBVIOUS
    <3>2. SymDiff({5, 7, 13, 14}, {0, 13, 15}) = {0, 5, 7, 14, 15}
      BY DEF SymDiff
    <3> QED
      BY <3>1, <3>2 DEF Round, Polynomial
  <2>2. p[22 + 1] = Round(p[22], 0)
    BY <1>0
  <2> QED
    BY <1>22, <2>1, <2>2
<1>24. p[24] = {0, 4, 6, 14, 15}
  <2>1. Round({0, 5, 7, 14, 15}, 0) = {0, 4, 6, 14, 15}
    <3>1. {b - 1 : b \in {0, 5, 7, 14, 15} \ {0}} = {4, 6, 13, 14}
      OBVIOUS
    <3>2. SymDiff({4, 6, 13, 14}, {0, 13, 15}) = {0, 4, 6, 14, 15}
      BY DEF SymDiff
    <3> QED
      BY <3>1, <3>2 DEF Round, Polynomial
  <2>2. p[23 + 1] = Round(p[23], 0)
    BY <1>0
  <2> QED
    BY <1>23, <2>1, <2>2
<1>25. p[25] = {0, 3, 5, 14, 15}
  <2>1. Round({0, 4, 6, 14, 15}, 0) = {0, 3, 5, 14, 15}
    <3>1. {b - 1 : b \in {0, 4, 6, 14, 15} \ {0}} = {3, 5, 13, 14}
      OBVIOUS
    <3>2. SymDiff({3, 5, 13, 14}, {0, 13, 15}) = {0, 3, 5, 14, 15}
      BY DEF SymDiff
    <3> QED
      BY <3>1, <3>2 DEF Round, Polynomial
  <2>2. p[24 + 1] = Round(p[24], 0)
    BY <1>0
  <2> QED
    BY <1>24, <2>1, <2>2
<1>26. p[26] = {0, 2, 4, 14, 15}
  <2>1. Round({0, 3, 5, 14, 15}, 0) = {0, 2, 4, 14, 15}
    <3>1. {b - 1 : b \in {0, 3, 5, 14, 15} \ {0}} = {2, 4, 13, 14}
      OBVIOUS
    <3>2. SymDiff({2, 4, 13, 14}, {0, 13, 15}) = {0, 2, 4, 14, 15}
      BY DEF SymDiff
    <3> QED
      BY <3>1, <3>2 DEF Round, Polynomial
  <2>2. p[25 + 1] = Round(p[25], 0)
    BY <1>0
  <2> QED
    BY <1>25, <2>1, <2>2
<1>27. p[27] = {0, 1, 3, 14, 15}
  <2>1. Round({0, 2, 4, 14, 15}, 0) = {0, 1, 3, 14, 15}
    <3>1. {b - 1 : b \in {0, 2, 4, 14, 15} \ {0}} = {1, 3, 13, 14}
      OBVIOUS
    <3>2. SymDiff({1, 3, 13, 14}, {0, 13, 15}) = {0, 1, 3, 14, 15}
      BY DEF SymDiff
    <3> QED
      BY <3>1, <3>2 DEF Round, Polynomial
  <2>2. p[26 + 1] = Round(p[26], 0)
    BY <1>0
  <2> QED
    BY <1>26, <2>1, <2>2
<1>28. p[28] = {2, 14, 15}
  <2>1. Round({0, 1, 3, 14, 15}, 0) = {2, 14, 15}
    <3>1. {b - 1 : b \in {0, 1, 3, 14, 15} \ {0}} = {0, 2, 13, 14}
      OBVIOUS
    <3>2. SymDiff({0, 2, 13, 14}, {0, 13, 15}) = {2, 14, 15}
      BY DEF SymDiff
    <3> QED
      BY <3>1, <3>2 DEF Round, Polynomial
  <2>2. p[27 + 1] = Round(p[27], 0)
    BY <1>0
  <2> QED
    BY <1>27, <2>1, <2>2
<1>29. p[29] = {1, 13, 14}
  <2>1. Round({2, 14, 15}, 0) = {1, 13, 14}
    BY DEF Round
  <2>2. p[28 + 1] = Round(p[28], 0)
    BY <1>0
  <2> QED
    BY <1>28, <2>1, <2>2
<1>30. p[30] = {0, 12, 13}
  <2>1. Round({1, 13, 14}, 0) = {0, 12, 13}
    BY DEF Round
  <2>2. p[29 + 1] = Round(p[29], 0)
    BY <1>0
  <2> QED
    BY <1>29, <2>1, <2>2
<1>31. p[31] = {0, 11, 12, 13, 15}
  <2>1. Round({0, 12, 13}, 0) = {0, 11, 12, 13, 15}
    <3>1. {b - 1 : b \in {0, 12, 13} \ {0}} = {11, 12}
      OBVIOUS
    <3>2. SymDiff({11, 12}, {0, 13, 15}) = {0, 11, 12, 13, 15}
      BY DEF SymDiff
    <3> QED
      BY <3>1, <3>2 DEF Round, Polynomial
  <2>2. p[30 + 1] = Round(p[30], 0)
    BY <1>0
  <2> QED
    BY <1>30, <2>1, <2>2
<1>32. p[32] = {0, 10, 11, 12, 13, 14, 15}
  <2>1. Round({0, 11, 12, 13, 15}, 0) = {0, 10, 11, 12, 13, 14, 15}
    <3>1. {b - 1 : b \in {0, 11, 12, 13, 15} \ {0}} = {10, 11, 12, 14}
      OBVIOUS
    <3>2. SymDiff({10, 11, 12, 14}, {0, 13, 15}) = {0, 10, 11, 12, 13, 14, 15}
      BY DEF SymDiff
    <3> QED
      BY <3>1, <3>2 DEF Round, Polynomial
  <2>2. p[31 + 1] = Round(p[31], 0)
    BY <1>0
  <2> QED
    BY <1>31, <2>1, <2>2
<1>33. p[33] = {0, 9, 10, 11, 12, 14, 15}
  <2>1. Round({0, 10, 11, 12, 13, 14, 15}, 0) = {0, 9, 10, 11, 12, 14, 15}
    <3>1. {b - 1 : b \in {0, 10, 11, 12, 13, 14, 15} \ {0}} = {9, 10, 11, 12, 13, 14}
      OBVIOUS
    <3>2. SymDiff({9, 10, 11, 12, 13, 14}, {0, 13, 15}) = {0, 9, 10, 11, 12, 14, 15}
      BY DEF SymDiff
    <3> QED
      BY <3>1, <3>2 DEF Round, Polynomial
  <2>2. p[32 + 1] = Round(p[32], 0)
    BY <1>0
  <2> QED
    BY <1>32, <2>1, <2>2
<1>34. p[34] = {0, 8, 9, 10, 11, 14, 15}
  <2>1. Round({0, 9, 10, 11, 12, 14, 15}, 0) = {0, 8, 9, 10, 11, 14, 15}
    <3>1. {b - 1 : b \in {0, 9, 10, 11, 12, 14, 15} \ {0}} = {8, 9, 10, 11, 13, 14}
      OBVIOUS
    <3>2. SymDiff({8, 9, 10, 11, 13, 14}, {0, 13, 15}) = {0, 8, 9, 10, 11, 14, 15}
      BY DEF SymDiff
    <3> QED
      BY <3>1, <3>2 DEF Round, Polynomial
  <2>2. p[33 + 1] = Round(p[33], 0)
    BY <1>0
  <2> QED
    BY <1>33, <2>1, <2>2
<1>35. p[35] = {0, 7, 8, 9, 10, 14, 15}
  <2>1. Round({0, 8, 9, 10, 11, 14, 15}, 0) = {0, 7, 8, 9, 10, 14, 15}
    <3>1. {b - 1 : b \in {0, 8, 9, 10, 11, 14, 15} \ {0}} = {7, 8, 9, 10, 13, 14}
      OBVIOUS
    <3>2. SymDiff({7, 8, 9, 10, 13, 14}, {0, 13, 15}) = {0, 7, 8, 9, 10, 14, 15}
      BY DEF SymDiff
    <3> QED
      BY <3>1, <3>2 DEF Round, Polynomial
  <2>2. p[34 + 1] = Round(p[34], 0)
    BY <1>0
  <2> QED
    BY <1>34, <2>1, <2>2
<1>36. p[36] = {0, 6, 7, 8, 9, 14, 15}
  <2>1. Round({0, 7, 8, 9, 10, 14, 15}, 0) = {0, 6, 7, 8, 9, 14, 15}
    <3>1. {b - 1 : b \in {0, 7, 8, 9, 10, 14, 15} \ {0}} = {6, 7, 8, 9, 13, 14}
      OBVIOUS
    <3>2. SymDiff({6, 7, 8, 9, 13, 14}, {0, 13, 15}) = {0, 6, 7, 8, 9, 14, 15}
      BY DEF SymDiff
    <3> QED
      BY <3>1, <3>2 DEF Round, Polynomial
  <2>2. p[35 + 1] = Round(p[35], 0)
    BY <1>0
  <2> QED
    BY <1>35, <2>1, <2>2
<1>37. p[37] = {0, 5, 6, 7, 8, 14, 15}
  <2>1. Round({0, 6, 7, 8, 9, 14, 15}, 0) = {0, 5, 6, 7, 8, 14, 15}
    <3>1. {b - 1 : b \in {0, 6, 7, 8, 9, 14, 15} \ {0}} = {5, 6, 7, 8, 13, 14}
      OBVIOUS
    <3>2. SymDiff({5, 6, 7, 8, 13, 14}, {0, 13, 15}) = {0, 5, 6, 7, 8, 14, 15}
      BY DEF SymDiff
    <3> QED
      BY <3>1, <3>2 DEF Round, Polynomial
  <2>2. p[36 + 1] = Round(p[36], 0)
    BY <1>0
  <2> QED
    BY <1>36, <2>1, <2>2
<1>38. p[38] = {0, 4, 5, 6, 7, 14, 15}
  <2>1. Round({0, 5, 6, 7, 8, 14, 15}, 0) = {0, 4, 5, 6, 7, 14, 15}
    <3>1. {b - 1 : b \in {0, 5, 6, 7, 8, 14, 15} \ {0}} = {4, 5, 6, 7, 13, 14}
      OBVIOUS
    <3>2. SymDiff({4, 5, 6, 7, 13, 14}, {0, 13, 15}) = {0, 4, 5, 6, 7, 14, 15}
      BY DEF SymDiff
    <3> QED
      BY <3>1, <3>2 DEF Round, Polynomial
  <2>2. p[37 + 1] = Round(p[37], 0)
    BY <1>0
  <2> QED
    BY <1>37, <2>1, <2>2
<1>39. p[39] = {0, 3, 4, 5, 6, 14, 15}
  <2>1. Round({0, 4, 5, 6, 7, 14, 15}, 0) = {0, 3, 4, 5, 6, 14, 15}
    <3>1. {b - 1 : b \in {0, 4, 5, 6, 7, 14, 15} \ {0}} = {3, 4, 5, 6, 13, 14}
      OBVIOUS
    <3>2. SymDiff({3, 4, 5, 6, 13, 14}, {0, 13, 15}) = {0, 3, 4, 5, 6, 14, 15}
      BY DEF SymDiff
    <3> QED
      BY <3>1, <3>2 DEF Round, Polynomial
  <2>2. p[38 + 1] = Round(p[38], 0)
    BY <1>0
  <2> QED
    BY <1>38, <2>1, <2>2
<1>40. p[40] = {0, 2, 3, 4, 5, 14, 15}
  <2>1. Round({0, 3, 4, 5, 6, 14, 15}, 0) = {0, 2, 3, 4, 5, 14, 15}
    <3>1. {b - 1 : b \in {0, 3, 4, 5, 6, 14, 15} \ {0}} = {2, 3, 4, 5, 13, 14}
      OBVIOUS
    <3>2. SymDiff({2, 3, 4, 5, 13, 14}, {0, 13, 15}) = {0, 2, 3, 4, 5, 14, 15}
      BY DEF SymDiff
    <3> QED
      BY <3>1, <3>2 DEF Round, Polynomial
  <2>2. p[39 + 1] = Round(p[39], 0)
    BY <1>0
  <2> QED
    BY <1>39, <2>1, <2>2
<1>41. p[41] = {0, 1, 2, 3, 4, 14, 15}
  <2>1. Round({0, 2, 3, 4, 5, 14, 15}, 0) = {0, 1, 2, 3, 4, 14, 15}
    <3>1. {b - 1 : b \in {0, 2, 3, 4, 5, 14, 15} \ {0}} = {1, 2, 3, 4, 13, 14}
      OBVIOUS
    <3>2. SymDiff({1, 2, 3, 4, 13, 14}, {0, 13, 15}) = {0, 1, 2, 3, 4, 14, 15}
      BY DEF SymDiff
    <3> QED
      BY <3>1, <3>2 DEF Round, Polynomial
  <2>2. p[40 + 1] = Round(p[40], 0)
    BY <1>0
  <2> QED
    BY <1>40, <2>1, <2>2
<1>42. p[42] = {1, 2, 3, 14, 15}
  <2>1. Round({0, 1, 2, 3, 4, 14, 15}, 0) = {1, 2, 3, 14, 15}
    <3>1. {b - 1 : b \in {0, 1, 2, 3, 4, 14, 15} \ {0}} = {0, 1, 2, 3, 13, 14}
      OBVIOUS
    <3>2. SymDiff({0, 1, 2, 3, 13, 14}, {0, 13, 15}) = {1, 2, 3, 14, 15}
      BY DEF SymDiff
    <3> QED
      BY <3>1, <3>2 DEF Round, Polynomial
  <2>2. p[41 + 1] = Round(p[41], 0)
    BY <1>0
  <2> QED
    BY <1>41, <2>1, <2>2
<1>43. p[43] = {0, 1, 2, 13, 14}
  <2>1. Round({1, 2, 3, 14, 15}, 0) = {0, 1, 2, 13, 14}
    BY DEF Round
  <2>2. p[42 + 1] = Round(p[42], 0)
    BY <1>0
  <2> QED
    BY <1>42, <2>1, <2>2
<1>44. p[44] = {1, 12, 15}
  <2>1. Round({0, 1, 2, 13, 14}, 0) = {1, 12, 15}
    <3>1. {b - 1 : b \in {0, 1, 2, 13, 14} \ {0}} = {0, 1, 12, 13}
      OBVIOUS
    <3>2. SymDiff({0, 1, 12, 13}, {0, 13, 15}) = {1, 12, 15}
      BY DEF SymDiff
    <3> QED
      BY <3>1, <3>2 DEF Round, Polynomial
  <2>2. p[43 + 1] = Round(p[43], 0)
    BY <1>0
  <2> QED
    BY <1>43, <2>1, <2>2
<1>45. p[45] = {0, 11, 14}
  <2>1. Round({1, 12, 15}, 0) = {0, 11, 14}
    BY DEF Round
  <2>2. p[44 + 1] = Round(p[44], 0)
    BY <1>0
  <2> QED
    BY <1>44, <2>1, <2>2
<1>46. p[46] = {0, 10, 15}
  <2>1. Round({0, 11, 14}, 0) = {0, 10, 15}
    <3>1. {b - 1 : b \in {0, 11, 14} \ {0}} = {10, 13}
      OBVIOUS
    <3>2. SymDiff({10, 13}, {0, 13, 15}) = {0, 10, 15}
      BY DEF SymDiff
    <3> QED
      BY <3>1, <3>2 DEF Round, Polynomial
  <2>2. p[45 + 1] = Round(p[45], 0)
    BY <1>0
  <2> QED
    BY <1>45, <2>1, <2>2
<1>47. p[47] = {0, 9, 13, 14, 15}
  <2>1. Round({0, 10, 15}, 0) = {0, 9, 13, 14, 15}
    <3>1. {b - 1 : b \in {0, 10, 15} \ {0}} = {9, 14}
      OBVIOUS
    <3>2. SymDiff({9, 14}, {0, 13, 15}) = {0, 9, 13, 14, 15}
      BY DEF SymDiff
    <3> QED
      BY <3>1, <3>2 DEF Round, Polynomial
  <2>2. p[46 + 1] = Round(p[46], 0)
    BY <1>0
  <2> QED
    BY <1>46, <2>1, <2>2
<1>48. p[48] = {0, 8, 12, 14, 15}
  <2>1. Round({0, 9, 13, 14, 15}, 0) = {0, 8, 12, 14, 15}
    <3>1. {b - 1 : b \in {0, 9, 13, 14, 15} \ {0}} = {8, 12, 13, 14}
      OBVIOUS
    <3>2. SymDiff({8, 12, 13, 14}, {0, 13, 15}) = {0, 8, 12, 14, 15}
      BY DEF SymDiff
    <3> QED
      BY <3>1, <3>2 DEF Round, Polynomial
  <2>2. p[47 + 1] = Round(p[47], 0)
    BY <1>0
  <2> QED
    BY <1>47, <2>1, <2>2
<1>49. p[49] = {0, 7, 11, 14, 15}
  <2>1. Round({0, 8, 12, 14, 15}, 0) = {0, 7, 11, 14, 15}
    <3>1. {b - 1 : b \in {0, 8, 12, 14, 15} \ {0}} = {7, 11, 13, 14}
      OBVIOUS
    <3>2. SymDiff({7, 11, 13, 14}, {0, 13, 15}) = {0, 7, 11, 14, 15}
      BY DEF SymDiff
    <3> QED
      BY <3>1, <3>2 DEF Round, Polynomial
  <2>2. p[48 + 1] = Round(p[48], 0)
    BY <1>0
  <2> QED
    BY <1>48, <2>1, <2>2
<1>50. p[50] = {0, 6, 10, 14, 15}
  <2>1. Round({0, 7, 11, 14, 15}, 0) = {0, 6, 10, 14, 15}
    <3>1. {b - 1 : b \in {0, 7, 11, 14, 15} \ {0}} = {6, 10, 13, 14}
      OBVIOUS
    <3>2. SymDiff({6, 10, 13, 14}, {0, 13, 15}) = {0, 6, 10, 14, 15}
      BY DEF SymDiff
    <3> QED
      BY <3>1, <3>2 DEF Round, Polynomial
  <2>2. p[49 + 1] = Round(p[49], 0)
    BY <1>0
  <2> QED
    BY <1>49, <2>1, <2>2
<1>51. p[51] = {0, 5, 9, 14, 15}
  <2>1. Round({0, 6, 10, 14, 15}, 0) = {0, 5, 9, 14, 15}
    <3>1. {b - 1 : b \in {0, 6, 10, 14, 15} \ {0}} = {5, 9, 13, 14}
      OBVIOUS
    <3>2. SymDiff({5, 9, 13, 14}, {0, 13, 15}) = {0, 5, 9, 14, 15}
      BY DEF SymDiff
    <3> QED
      BY <3>1, <3>2 DEF Round, Polynomial
  <2>2. p[50 + 1] = Round(p[50], 0)
    BY <1>0
  <2> QED
    BY <1>50, <2>1, <2>2
<1>52. p[52] = {0, 4, 8, 14, 15}
  <2>1. Round({0, 5, 9, 14, 15}, 0) = {0, 4, 8, 14, 15}
    <3>1. {b - 1 : b \in {0, 5, 9, 14, 15} \ {0}} = {4, 8, 13, 14}
      OBVIOUS
    <3>2. SymDiff({4, 8, 13, 14}, {0, 13, 15}) = {0, 4, 8, 14, 15}
      BY DEF SymDiff
    <3> QED
      BY <3>1, <3>2 DEF Round, Polynomial
  <2>2. p[51 + 1] = Round(p[51], 0)
    BY <1>0
  <2> QED
    BY <1>51, <2>1, <2>2
<1>53. p[53] = {0, 3, 7, 14, 15}
  <2>1. Round({0, 4, 8, 14, 15}, 0) = {0, 3, 7, 14, 15}
    <3>1. {b - 1 : b \in {0, 4, 8, 14, 15} \ {0}} = {3, 7, 13, 14}
      OBVIOUS
    <3>2. SymDiff({3, 7, 13, 14}, {0, 13, 15}) = {0, 3, 7, 14, 15}
      BY DEF SymDiff
    <3> QED
      BY <3>1, <3>2 DEF Round, Polynomial
  <2>2. p[52 + 1] = Round(p[52], 0)
    BY <1>0
  <2> QED
    BY <1>52, <2>1, <2>2
<1>54. p[54] = {0, 2, 6, 14, 15}
  <2>1. Round({0, 3, 7, 14, 15}, 0) = {0, 2, 6, 14, 15}
    <3>1. {b - 1 : b \in {0, 3, 7, 14, 15} \ {0}} = {2, 6, 13, 14}
      OBVIOUS
    <3>2. SymDiff({2, 6, 13, 14}, {0, 13, 15}) = {0, 2, 6, 14, 15}
      BY DEF SymDiff
    <3> QED
      BY <3>1, <3>2 DEF Round, Polynomial
  <2>2. p[53 + 1] = Round(p[53], 0)
    BY <1>0
  <2> QED
    BY <1>53, <2>1, <2>2
<1>55. p[55] = {0, 1, 5, 14, 15}
  <2>1. Round({0, 2, 6, 14, 15}, 0) = {0, 1, 5, 14, 15}
    <3>1. {b - 1 : b \in {0, 2, 6, 14, 15} \ {0}} = {1, 5, 13, 14}
      OBVIOUS
    <3>2. SymDiff({1, 5, 13, 14}, {0, 13, 15}) = {0, 1, 5, 14, 15}
      BY DEF SymDiff
    <3> QED
      BY <3>1, <3>2 DEF Round, Polynomial
  <2>2. p[54 + 1] = Round(p[54], 0)
    BY <1>0
  <2> QED
    BY <1>54, <2>1, <2>2
<1>56. ASSUME NEW k \in 1..55 PROVE \E a, b \in p[k] : a # b
  BY <1>1, <1>2, <1>3, <1>4, <1>5, <1>6, <1>7, <1>8, <1>9, <1>10, <1>11, <1>12, <1>13, <1>14, <1>15, <1>16, <1>17, <1>18, <1>19, <1>20, <1>21, <1>22, <1>23, <1>24, <1>25, <1>26, <1>27, <1>28, <1>29, <1>30, <1>31, <1>32, <1>33, <1>34, <1>35, <1>36, <1>37, <1>38, <1>39, <1>40, <1>41, <1>42, <1>43, <1>44, <1>45, <1>46, <1>47, <1>48, <1>49, <1>50, <1>51, <1>52, <1>53, <1>54, <1>55
<1> QED
  BY <1>56

\* Single bits.
LEMMA RoundBit ==
    ASSUME NEW c \in Nat, c # 0, NEW j
    PROVE  {c} \in Registers /\ Round({c}, j) = {c - 1}
BY DEF Round, Registers

\* Two bits less than 56 apart, on their way to the lower end, after the first
\* got there, and after both did.
Pairs(p) ==
    {X \in Registers :
        \/ \E a \in Nat, d \in 1..55 : X = {a, a + d}
        \/ \E k \in 1..55, c \in Nat : k + c <= 55 /\ X = SymDiff(p[k], {c})
        \/ X \in Words \ {{}}}

LEMMA OrbitWords ==
    ASSUME NEW p, Orbit(p, 55)
    PROVE  \A k \in 0..55 : p[k] \in Words /\ p[k] \in Registers
<1> DEFINE Q == {k \in Nat : k <= 55 => p[k] \in Words}
<1>1. 0 \in Q
  BY DEF Orbit, Words
<1>2. ASSUME NEW k \in Nat, k \in Q PROVE k + 1 \in Q
  <2> SUFFICES ASSUME k + 1 <= 55 PROVE p[k + 1] \in Words
    OBVIOUS
  <2>1. k \in 0..54 /\ p[k] \in Words
    BY <1>2
  <2>2. p[k + 1] = Round(p[k], 0)
    BY <2>1 DEF Orbit
  <2> QED
    BY <2>1, <2>2, WordFacts
<1>3. Nat \subseteq Q
  <2> HIDE DEF Q
  <2> QED
    BY <1>1, <1>2, SetInduction
<1> QED
  BY <1>3 DEF Orbit

LEMMA PairsKept ==
    ASSUME NEW p, Orbit(p, 55)
    PROVE  /\ Pairs(p) \in SUBSET Registers
           /\ {} \notin Pairs(p)
           /\ \A X \in Pairs(p) : \A j : Round(X, j) \in Pairs(p)
<1>1. \A k \in 1..55 : \E a, b \in p[k] : a # b
  BY OrbitNotOneBit
<1>2. \A k \in 0..55 : p[k] \in Words /\ p[k] \in Registers
  BY OrbitWords
<1>3. {} \notin Pairs(p)
  <2>1. ASSUME NEW a \in Nat, NEW d \in 1..55 PROVE {} # {a, a + d}
    OBVIOUS
  <2>2. ASSUME NEW k \in 1..55, NEW c \in Nat PROVE {} # SymDiff(p[k], {c})
    BY <1>1 DEF SymDiff
  <2> QED
    BY <2>1, <2>2 DEF Pairs
<1>4. ASSUME NEW X \in Words, X # {}, NEW j PROVE Round(X, j) \in Pairs(p)
  <2>1. X \in Narrow /\ Round(X, j) \in Words
    BY <1>4, WordFacts
  <2>2. Round(X, j) \in Narrow
    BY <2>1, RoundNarrow
  <2> QED
    BY <2>1, <2>2 DEF Narrow, Pairs
<1>5. ASSUME NEW k \in 0..54, NEW c \in Nat, c # 0, k + c <= 55, NEW j
      PROVE  Round(SymDiff(p[k], {c}), j) \in Pairs(p)
  <2>1. p[k] \in Registers /\ p[k + 1] \in Registers /\ k + 1 \in 1..55 /\ k \in 0..54
    BY <1>2
  <2>2. Round(p[k], j) = p[k + 1]
    <3>1. p[k + 1] = Round(p[k], 0)
      BY <2>1 DEF Orbit
    <3>2. Round(p[k], j) = Round(p[k], 0)
      BY DEF Round
    <3> QED
      BY <3>1, <3>2
  <2>3. {c} \in Registers /\ Round({c}, j) = {c - 1}
    BY <1>5, RoundBit
  <2>4. Round(SymDiff(p[k], {c}), j) = SymDiff(p[k + 1], {c - 1})
    <3>1. Round(SymDiff(p[k], {c}), j) = SymDiff(Round(p[k], j), Round({c}, j))
      BY <2>1, <2>3, RoundLinear
    <3> QED
      BY <2>2, <2>3, <3>1
  <2>5. c - 1 \in Nat /\ (k + 1) + (c - 1) <= 55
    BY <1>5
  <2>6. SymDiff(p[k], {c}) \in Registers
    BY <2>1, <2>3, SymDiffBits
  <2>7. Round(SymDiff(p[k], {c}), j) \in Registers
    BY <2>6, RoundBits
  <2> QED
    BY <2>1, <2>4, <2>5, <2>7 DEF Pairs
<1>6. ASSUME NEW X \in Pairs(p), NEW j PROVE Round(X, j) \in Pairs(p)
  <2>1. CASE \E a \in Nat, d \in 1..55 : X = {a, a + d}
    <3>1. PICK a \in Nat, d \in 1..55 : X = {a, a + d}
      BY <2>1
    <3>2. CASE a = 0
      <4>1. p[0] = {0}
        BY DEF Orbit
      <4>2. X = SymDiff(p[0], {d})
        BY <3>1, <3>2, <4>1 DEF SymDiff
      <4>3. 0 \in 0..54 /\ d \in Nat /\ d # 0 /\ 0 + d <= 55
        OBVIOUS
      <4> QED
        BY <1>5, <4>2, <4>3
    <3>3. CASE a # 0
      <4>1. Round(X, j) = {a - 1, (a - 1) + d}
        BY <3>1, <3>3 DEF Round
      <4>2. a - 1 \in Nat /\ {a - 1, (a - 1) + d} \in Registers
        BY <3>3 DEF Registers
      <4> QED
        BY <4>1, <4>2 DEF Pairs
    <3> QED
      BY <3>2, <3>3
  <2>2. CASE \E k \in 1..55, c \in Nat : k + c <= 55 /\ X = SymDiff(p[k], {c})
    <3>1. PICK k \in 1..55, c \in Nat : k + c <= 55 /\ X = SymDiff(p[k], {c})
      BY <2>2
    <3>2. CASE c = 0
      <4>1. X \in Words
        BY <1>2, <3>1, <3>2 DEF SymDiff, Words
      <4>2. X # {}
        BY <1>3
      <4> QED
        BY <1>4, <4>1, <4>2
    <3>3. CASE c # 0
      <4>1. k \in 0..54
        BY <3>1, <3>3
      <4> QED
        BY <1>5, <3>1, <3>3, <4>1
    <3> QED
      BY <3>2, <3>3
  <2>3. CASE X \in Words \ {{}}
    BY <1>4, <2>3
  <2> QED
    BY <2>1, <2>2, <2>3 DEF Pairs
<1> QED
  BY <1>3, <1>6 DEF Pairs

\* Two bits less than 56 apart are found.
LEMMA PairCaught ==
    ASSUME NEW F \in Seq(Bytes), Len(F) >= 2, Correct(F),
           NEW a \in Nat, NEW d \in 1..55, a + d <= 8 * Len(F) - 1
    PROVE  ~Correct(Garble(F, {a, a + d}))
<1>1. PICK p : Orbit(p, 55)
  <2>1. 55 \in Nat
    OBVIOUS
  <2> QED
    BY <2>1, OrbitExists
<1>2. {a, a + d} \in Pairs(p)
  <2>1. {a, a + d} \in Registers
    BY DEF Registers
  <2> QED
    BY <2>1 DEF Pairs
<1>3. {a, a + d} \in SUBSET (0..8 * Len(F) - 1)
  <2>1. Len(F) \in Nat
    OBVIOUS
  <2> QED
    BY <2>1
<1> DEFINE P == Pairs(p)
           w == {a, a + d}
<1>4. /\ P \in SUBSET Registers /\ {} \notin P /\ \A X \in P : \A j : Round(X, j) \in P
      /\ w \in P /\ w \in SUBSET (0..8 * Len(F) - 1)
  BY <1>1, <1>2, <1>3, PairsKept
<1> HIDE DEF P, w
<1>5. ~Correct(Garble(F, w))
  BY <1>4, Caught
<1> QED
  BY <1>5 DEF w

\* A burst of at most 16 bits is found.
LEMMA BurstCaught ==
    ASSUME NEW F \in Seq(Bytes), Len(F) >= 2, Correct(F), NEW w \in Narrow, w \in SUBSET (0..8 * Len(F) - 1)
    PROVE  ~Correct(Garble(F, w))
<1>1. Narrow \in SUBSET Registers /\ {} \notin Narrow
  BY DEF Narrow
<1>2. \A X \in Narrow : \A j : Round(X, j) \in Narrow
  BY RoundNarrow
<1> QED
  BY <1>1, <1>2, Caught

-----------------------------------------------------------------------------
(* Odd errors *)

\* Registers with an odd number of bits: the rounds keep it odd, whichever way
\* the lowest bit is, as the polynomial has three.
OddCard(X) == IsFiniteSet(X) /\ \E m \in Nat : Cardinality(X) = 2 * m + 1
EvenCard(X) == IsFiniteSet(X) /\ \E m \in Nat : Cardinality(X) = 2 * m
OddRegisters == {X \in Registers : OddCard(X)}

\* One more bit, or one less.
LEMMA Toggled ==
    ASSUME NEW X \in Registers, NEW b \in Nat
    PROVE  /\ OddCard(X) => EvenCard(SymDiff(X, {b}))
           /\ EvenCard(X) => OddCard(SymDiff(X, {b}))
<1>0. SUFFICES ASSUME IsFiniteSet(X)
      PROVE  /\ OddCard(X) => EvenCard(SymDiff(X, {b}))
             /\ EvenCard(X) => OddCard(SymDiff(X, {b}))
  BY DEF OddCard, EvenCard
<1>1. CASE b \in X
  <2>1. SymDiff(X, {b}) = X \ {b}
    BY <1>1 DEF SymDiff
  <2>2. IsFiniteSet(X \ {b}) /\ Cardinality(X \ {b}) = Cardinality(X) - 1 /\ Cardinality(X) \in Nat
    BY <1>0, <1>1, FS_RemoveElement, FS_CardinalityType
  <2>3. Cardinality(X \ {b}) \in Nat
    BY <2>2, FS_CardinalityType
  <2>4. \A m \in Nat : 2 * m - 1 \in Nat => m - 1 \in Nat /\ 2 * m - 1 = 2 * (m - 1) + 1
    OBVIOUS
  <2>5. ASSUME OddCard(X) PROVE EvenCard(X \ {b})
    <3>1. PICK m \in Nat : Cardinality(X) = 2 * m + 1
      BY <2>5 DEF OddCard
    <3>2. Cardinality(X \ {b}) = 2 * m
      BY <2>2, <3>1
    <3> QED
      BY <2>2, <3>2 DEF EvenCard
  <2>6. ASSUME EvenCard(X) PROVE OddCard(X \ {b})
    <3>1. PICK m \in Nat : Cardinality(X) = 2 * m
      BY <2>6 DEF EvenCard
    <3>2. m - 1 \in Nat /\ Cardinality(X \ {b}) = 2 * (m - 1) + 1
      BY <2>2, <2>3, <3>1
    <3> QED
      BY <2>2, <3>2 DEF OddCard
  <2> QED
    BY <2>1, <2>5, <2>6
<1>2. CASE b \notin X
  <2>1. SymDiff(X, {b}) = X \cup {b}
    BY <1>2 DEF SymDiff
  <2>2. IsFiniteSet(X \cup {b}) /\ Cardinality(X \cup {b}) = Cardinality(X) + 1 /\ Cardinality(X) \in Nat
    BY <1>0, <1>2, FS_AddElement, FS_CardinalityType
  <2>3. ASSUME OddCard(X) PROVE EvenCard(X \cup {b})
    <3>1. PICK m \in Nat : Cardinality(X) = 2 * m + 1
      BY <2>3 DEF OddCard
    <3>2. m + 1 \in Nat /\ Cardinality(X \cup {b}) = 2 * (m + 1)
      BY <2>2, <3>1
    <3> QED
      BY <2>2, <3>2 DEF EvenCard
  <2>4. ASSUME EvenCard(X) PROVE OddCard(X \cup {b})
    <3>1. PICK m \in Nat : Cardinality(X) = 2 * m
      BY <2>4 DEF EvenCard
    <3>2. Cardinality(X \cup {b}) = 2 * m + 1
      BY <2>2, <3>1
    <3> QED
      BY <2>2, <3>1, <3>2 DEF OddCard
  <2> QED
    BY <2>1, <2>3, <2>4
<1> QED
  BY <1>1, <1>2

\* A shift without a lowest bit to lose keeps their number.
LEMMA ShiftCard ==
    ASSUME NEW X \in Registers, IsFiniteSet(X), 0 \notin X
    PROVE  /\ IsFiniteSet({b - 1 : b \in X}) /\ {b - 1 : b \in X} \in Registers
           /\ Cardinality({b - 1 : b \in X}) = Cardinality(X)
<1> DEFINE S == {b - 1 : b \in X}
           f == [b \in X |-> b - 1]
<1>1. S \in Registers /\ \A b \in X : b \in Nat /\ b # 0
  <2>1. \A b \in X : b \in Nat /\ b # 0
    BY DEF Registers
  <2>2. \A b \in X : b - 1 \in Nat
    BY <2>1
  <2> QED
    BY <2>1, <2>2 DEF Registers
<1>2. f \in Bijection(X, S)
  <2>1. f \in [X -> S]
    OBVIOUS
  <2>2. \A a, b \in X : f[a] = f[b] => a = b
    BY <1>1
  <2>3. \A s \in S : \E b \in X : f[b] = s
    OBVIOUS
  <2> HIDE DEF f, S
  <2> QED
    BY <2>1, <2>2, <2>3 DEF Bijection, Injection, Surjection, IsInjective
<1> HIDE DEF S, f
<1>3. IsFiniteSet(S) /\ Cardinality(S) = Cardinality(X)
  <2>1. ExistsBijection(X, S)
    BY <1>2 DEF ExistsBijection
  <2> QED
    BY <2>1, FS_Bijection
<1> QED
  BY <1>1, <1>3 DEF S

LEMMA RoundOdd ==
    ASSUME NEW X \in OddRegisters, NEW j
    PROVE  Round(X, j) \in OddRegisters
<1>1. X \in Registers /\ OddCard(X) /\ IsFiniteSet(X) /\ Round(X, j) \in Registers
  BY RoundBits DEF OddRegisters, OddCard
<1>2. CASE 0 \notin X
  <2>1. X \ {0} = X
    BY <1>2
  <2>2. Round(X, j) = {b - 1 : b \in X}
    BY <1>2, <2>1 DEF Round
  <2>3. OddCard({b - 1 : b \in X})
    <3> DEFINE S == {b - 1 : b \in X}
    <3>1. IsFiniteSet(S) /\ Cardinality(S) = Cardinality(X)
      BY <1>1, <1>2, ShiftCard
    <3> HIDE DEF S
    <3>2. OddCard(S)
      BY <1>1, <3>1 DEF OddCard
    <3> QED
      BY <3>2 DEF S
  <2> QED
    BY <1>1, <2>2, <2>3 DEF OddRegisters
<1>3. CASE 0 \in X
  <2> DEFINE Y == SymDiff(X, {0})
             S == {b - 1 : b \in Y}
             A == SymDiff(S, {0})
             B == SymDiff(A, {13})
             C == SymDiff(B, {15})
  <2>1. Y = X \ {0} /\ Y \in Registers /\ 0 \notin Y
    BY <1>1, <1>3 DEF SymDiff, Registers
  <2>2. EvenCard(Y)
    BY <1>1, Toggled
  <2> HIDE DEF Y
  <2>3. S \in Registers /\ EvenCard(S)
    <3>1. IsFiniteSet(Y)
      BY <2>2 DEF EvenCard
    <3>2. IsFiniteSet(S) /\ S \in Registers /\ Cardinality(S) = Cardinality(Y)
      BY <2>1, <3>1, ShiftCard
    <3> HIDE DEF S
    <3> QED
      BY <2>2, <3>2 DEF EvenCard
  <2>4. Round(X, j) = SymDiff(S, Polynomial)
    BY <1>3, <2>1 DEF Round
  <2> HIDE DEF S
  <2>5. SymDiff(S, Polynomial) = C
    BY DEF SymDiff, Polynomial
  <2>6. \A b \in {0, 13, 15} : b \in Nat /\ {b} \in Registers
    BY DEF Registers
  <2> HIDE DEF A, B, C
  <2>7. A \in Registers /\ OddCard(A)
    BY <2>3, <2>6, Toggled, SymDiffBits DEF A
  <2>8. B \in Registers /\ EvenCard(B)
    BY <2>6, <2>7, Toggled, SymDiffBits DEF B
  <2>9. C \in Registers /\ OddCard(C)
    BY <2>6, <2>8, Toggled, SymDiffBits DEF C
  <2> QED
    BY <2>4, <2>5, <2>9 DEF OddRegisters
<1> QED
  BY <1>2, <1>3

\* Any odd number of wrong bits is found, wherever they are.
LEMMA OddCaught ==
    ASSUME NEW F \in Seq(Bytes), Len(F) >= 2, Correct(F),
           NEW w \in SUBSET (0..8 * Len(F) - 1), Cardinality(w) % 2 = 1
    PROVE  ~Correct(Garble(F, w))
<1> DEFINE top == 8 * Len(F) - 1
<1>1. top \in Int /\ 0..top \in Registers
  <2>1. Len(F) \in Nat
    OBVIOUS
  <2> QED
    BY <2>1 DEF Registers
<1>2. IsFiniteSet(w) /\ Cardinality(w) \in Nat /\ w \in Registers
  <2>1. IsFiniteSet(0..top)
    BY <1>1, FS_Interval
  <2>2. IsFiniteSet(w)
    BY <2>1, FS_Subset
  <2> QED
    BY <1>1, <2>2, FS_CardinalityType DEF Registers
<1>3. OddCard(w)
  <2> DEFINE c == Cardinality(w)
  <2>1. c \in Nat /\ c % 2 = 1
    BY <1>2
  <2> HIDE DEF c
  <2>2. c \div 2 \in Nat /\ c = 2 * (c \div 2) + 1
    BY <2>1
  <2> QED
    BY <1>2, <2>2 DEF OddCard, c
<1>4. w \in OddRegisters /\ OddRegisters \in SUBSET Registers
  BY <1>2, <1>3 DEF OddRegisters
<1>5. {} \notin OddRegisters
  <2>1. Cardinality({}) = 0
    BY FS_EmptySet
  <2>2. \A m \in Nat : 0 # 2 * m + 1
    OBVIOUS
  <2> QED
    BY <2>1, <2>2 DEF OddRegisters, OddCard
<1>6. \A X \in OddRegisters : \A j : Round(X, j) \in OddRegisters
  BY RoundOdd
<1> QED
  BY <1>4, <1>5, <1>6, Caught

-----------------------------------------------------------------------------
(* The errors of the line *)

LEMMA ErrorFound ==
    ASSUME NEW answer \in Seq(Bytes), NEW span \in 0..56, NEW width \in 0..16,
           NEW w \in Errors(8 * Len(Framed(answer)), span, width)
    PROVE  ~Correct(Garble(Framed(answer), w))
<1> DEFINE F == Framed(answer)
           bits == 8 * Len(F)
           Moved(burst, i) == {i + k : k \in burst}
<1>1. F \in Seq(Bytes) /\ Len(F) = Len(answer) + 2 /\ Correct(F)
  BY FramedCorrect
<1> HIDE DEF F
<1>2. Len(F) \in Nat /\ Len(F) >= 2 /\ bits \in Nat
  BY <1>1
<1>3. ASSUME NEW i \in 0..bits - 1, NEW d \in 0..span - 1, w = {i, i + d}, w \subseteq 0..bits - 1
      PROVE  ~Correct(Garble(F, w))
  <2>1. i \in Nat /\ i + d <= bits - 1 /\ d \in 0..55
    BY <1>3
  <2>2. CASE d = 0
    <3>1. w \in Narrow
      BY <1>3, <2>1, <2>2 DEF Narrow, Registers
    <3> QED
      BY <1>1, <1>2, <1>3, <3>1, BurstCaught
  <2>3. CASE d # 0
    <3>1. d \in 1..55
      BY <2>1, <2>3
    <3>2. ~Correct(Garble(F, {i, i + d}))
      BY <1>1, <1>2, <2>1, <3>1, PairCaught
    <3> QED
      BY <1>3, <3>2
  <2> QED
    BY <2>2, <2>3
<1>4. ASSUME NEW i \in 0..bits - width, NEW burst \in SUBSET (0..width - 1), burst # {}, w = Moved(burst, i)
      PROVE  ~Correct(Garble(F, w))
  <2>1. \A k \in burst : k \in 0..15 /\ i + k \in 0..bits - 1 /\ i + k \in Nat /\ i \in Nat
    BY <1>2
  <2>2. w \in SUBSET (0..bits - 1) /\ w \in Registers /\ w # {}
    BY <1>4, <2>1 DEF Registers
  <2>3. \A a, b \in w : a - b <= 15
    BY <1>4, <2>1
  <2>4. w \in Narrow
    BY <2>2, <2>3 DEF Narrow
  <2> QED
    BY <1>1, <1>2, <2>2, <2>4, BurstCaught
<1>5. ~Correct(Garble(F, w))
  <2>1. w \in Errors(bits, span, width)
    BY DEF F
  <2> HIDE DEF bits
  <2> DEFINE Two(i) == {{i, i + d} : d \in {d \in 0..span - 1 : i + d < bits}}
             Burst(i) == {{i + k : k \in burst} : burst \in (SUBSET (0..width - 1)) \ {{}}}
             AnyTwo == UNION {Two(i) : i \in 0..bits - 1}
             AnyBurst == UNION {Burst(i) : i \in 0..bits - width}
  <2>2. w \in AnyTwo \/ w \in AnyBurst
    <3>1. Errors(bits, span, width) = AnyTwo \cup AnyBurst
      BY DEF Errors
    <3> HIDE DEF AnyTwo, AnyBurst
    <3> QED
      BY <2>1, <3>1
  <2>3. CASE w \in AnyTwo
    <3>1. PICK i \in 0..bits - 1 : w \in Two(i)
      <4> HIDE DEF Two
      <4> QED
        BY <2>3
    <3>2. PICK d \in 0..span - 1 : w = {i, i + d} /\ i + d < bits
      BY <3>1
    <3>3. {i, i + d} \subseteq 0..bits - 1
      BY <1>2, <3>2 DEF bits
    <3> HIDE DEF Two
    <3> QED
      BY <1>3, <3>2, <3>3
  <2>4. CASE w \in AnyBurst
    <3>1. PICK i \in 0..bits - width : w \in Burst(i)
      <4> HIDE DEF Burst
      <4> QED
        BY <2>4
    <3>2. PICK burst \in (SUBSET (0..width - 1)) \ {{}} : w = Moved(burst, i)
      BY <3>1
    <3> HIDE DEF Moved, Burst
    <3> QED
      BY <1>4, <3>2
  <2> HIDE DEF AnyTwo, AnyBurst
  <2> QED
    BY <2>2, <2>3, <2>4
<1> QED
  BY <1>5 DEF F

\* calc_crc16 counts every byte of a content of at most 255 bytes, so that of frames
\* up to 257 bytes data_handling accepts the correct ones.
LEMMA ShortFrames ==
    ASSUME NEW F \in Seq(Bytes), Len(F) >= 2, Len(F) <= 257
    PROVE  CrcMatches(F) <=> Correct(F)
<1> DEFINE n == Len(F)
           p == SubSeq(F, 1, n - 2)
<1>1. n \in Nat /\ n - 2 \in Nat /\ n - 2 <= n /\ n - 2 < 256
  OBVIOUS
<1>2. p \in Seq(Bytes) /\ Len(p) = n - 2
  BY <1>1, FrontFacts
<1> HIDE DEF p, n
<1>3. SubSeq(p, 1, Len(p) % 256) = p
  <2> DEFINE q == SubSeq(p, 1, Len(p))
  <2>1. Len(p) \in Nat /\ Len(p) <= Len(p) /\ Len(p) % 256 = Len(p)
    BY <1>1, <1>2
  <2>2. q \in Seq(Bytes) /\ Len(q) = Len(p) /\ \A i \in 1..Len(p) : q[i] = p[i]
    BY <1>2, <2>1, FrontFacts
  <2>3. q = p
    <3> HIDE DEF q
    <3> QED
      BY <1>2, <2>2
  <2> QED
    BY <2>1, <2>3
<1>4. calc_crc16(p, AllOnes) = Crc16(p, AllOnes)
  BY <1>3 DEF calc_crc16
<1> QED
  BY <1>4 DEF CrcMatches, Correct, p, n

\* A frame of such a content is accepted as it was sent, and an error is as well found by
\* data_handling as by the CRC of Modbus.
LEMMA ShortFramed ==
    ASSUME NEW answer \in Seq(Bytes), Len(answer) < 256
    PROVE  /\ CrcMatches(Framed(answer))
           /\ \A w \in Registers : CrcMatches(Garble(Framed(answer), w)) <=> Correct(Garble(Framed(answer), w))
<1> DEFINE F == Framed(answer)
<1>1. F \in Seq(Bytes) /\ Len(F) = Len(answer) + 2 /\ Correct(F)
  BY FramedCorrect
<1>2. Len(answer) \in Nat
  OBVIOUS
<1> HIDE DEF F
<1>3. Len(F) >= 2 /\ Len(F) <= 257
  BY <1>1, <1>2
<1>4. CrcMatches(F)
  BY <1>1, <1>3, ShortFrames
<1>5. ASSUME NEW w \in Registers PROVE CrcMatches(Garble(F, w)) <=> Correct(Garble(F, w))
  <2>1. Garble(F, w) \in Seq(Bytes) /\ Len(Garble(F, w)) = Len(F)
    BY <1>1, GarbledBytes
  <2> QED
    BY <1>3, <2>1, ShortFrames
<1> QED
  BY <1>4, <1>5 DEF F

\* The errors of the line are errors in the bits of a frame.
LEMMA ErrorBits ==
    ASSUME NEW bits, NEW span, NEW width, NEW w \in Errors(bits, span, width), bits \in Nat, span \in 0..56, width \in 0..16
    PROVE  w \in Registers
BY DEF Errors, Registers

\* Whatever else data_handling is given, the frame check accepts an answer as the
\* device sent it and rejects it with the errors of the line.
THEOREM FrameCheckReliable == Spec => []GarbledRejected
<1>0. \A answer \in Contents : answer \in Seq(Bytes) /\ Len(answer) < 256
  BY FrameAssumption DEF Bytes
<1>1. SentAccepted
  BY <1>0, ShortFramed DEF SentAccepted
<1>2. ErrorsFound
  <2> SUFFICES ASSUME NEW answer \in Contents,
                      NEW w \in Errors(8 * Len(Framed(answer)), PairSpan, BurstWidth)
               PROVE  ~CrcMatches(Garble(Framed(answer), w))
    BY DEF ErrorsFound
  <2>1. PairSpan \in 0..56 /\ BurstWidth \in 0..16 /\ answer \in Seq(Bytes) /\ Len(answer) < 256
    BY <1>0, FrameAssumption
  <2>2. ~Correct(Garble(Framed(answer), w))
    BY <2>1, ErrorFound
  <2>3. w \in Registers
    <3>1. 8 * Len(Framed(answer)) \in Nat
      <4>1. Framed(answer) \in Seq(Bytes)
        BY <2>1, FramedCorrect
      <4> QED
        BY <4>1
    <3> QED
      BY <2>1, <3>1, ErrorBits
  <2> QED
    BY <2>1, <2>2, <2>3, ShortFramed
<1>3. GarbledRejected
  BY <1>1, <1>2 DEF GarbledRejected
<1> QED
  BY <1>3, PTL

\* An odd number of bits that arrive wrong is rejected wherever they are, in an answer
\* with as many bytes as calc_crc16 can count: its `len' is a uint8_t.
THEOREM OddErrorsFound ==
    \A answer \in Seq(SUBSET (0..7)) :
        Len(answer) < 256 =>
        \A wrong \in SUBSET (0..8 * Len(Framed(answer)) - 1) :
            Cardinality(wrong) % 2 = 1 => ~CrcMatches(Garble(Framed(answer), wrong))
<1> SUFFICES ASSUME NEW answer \in Seq(SUBSET (0..7)), Len(answer) < 256,
                    NEW wrong \in SUBSET (0..8 * Len(Framed(answer)) - 1), Cardinality(wrong) % 2 = 1
             PROVE  ~CrcMatches(Garble(Framed(answer), wrong))
  OBVIOUS
<1>1. answer \in Seq(Bytes) /\ Len(answer) \in Nat
  BY DEF Bytes
<1>2. Framed(answer) \in Seq(Bytes) /\ Len(Framed(answer)) >= 2 /\ Correct(Framed(answer))
  BY <1>1, FramedCorrect
<1>3. ~Correct(Garble(Framed(answer), wrong))
  BY <1>2, OddCaught
<1>4. wrong \in Registers
  <2>1. Len(Framed(answer)) \in Nat
    BY <1>2
  <2> QED
    BY <2>1 DEF Registers
<1> QED
  BY <1>1, <1>3, <1>4, ShortFramed
=============================================================================
