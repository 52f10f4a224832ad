------------------------ MODULE ServerLifecycleProofs ------------------------
(***************************************************************************)
(* Proofs about ServerLifecycle: the limit on connections, the counter     *)
(* that stop waits for, what stop ends unanswered, and what is left when   *)
(* it returns, for every number of workers and clients and every limit.    *)
(***************************************************************************)
EXTENDS ServerLifecycle, FiniteSetTheorems, SequenceTheorems, OrderLemmas, TLAPS

-----------------------------------------------------------------------------
(* The inductive invariant: what each thread does *)

\* A polling thread that is going to accept, or may be told to.
Fetching(d) ==
    \/ loop[d] \in {"accept", "accepting", "adding"}
    \/ loop[d] \in {"polling", "handling"} /\ poll_listen[d]

\* Stages of main, from the one in which its name is reached.
Closed == {"counting", "sleep", "shutdown", "joining", "closing"}
Quiesced == Closed \cup {"close"}

\* How far main has come shows in the flags.
Stages ==
    /\ main \in Quiesced => ~socket_fd
    /\ main \in Closed => ~listening
    /\ main \in {"joining", "closing"} => shutdown
    /\ shutdown => main \in {"joining", "closing", "returned", "killed", "aborted"}
    /\ main \in {"counting", "joining", "closing"} => visiting \in Loops
    /\ socket_fd => listening
    /\ shutdown => ~listening
    /\ raced \/ pos[MainThread] # None => ~listening
    /\ pos[MainThread] # None => main \in {"counting", "killed", "aborted"}
    /\ dropped # {} => shutdown
    /\ Queued # {} => listening

\* Before the start there is nothing.
Blank ==
    main = "begin" =>
        /\ ~listening /\ ~shutdown /\ ~raced
        /\ \A d \in AllLoops :
              loop[d] = "off" /\ connections[d] = 0 /\ cleanup[d] = <<>> /\ pos[d] = None
        /\ pos[MainThread] = None
        /\ \A c \in Clients : conn[c] = "none"

\* Only the threads there are run, and each keeps what it works at.
ThreadsOK ==
    /\ \A d \in AllLoops \ Loops : loop[d] = "off"
    /\ \A d \in AllLoops : pos[d] # None => loop[d] = "cleaning"
    /\ \A d \in Loops : loop[d] = "adding" =>
          /\ taking[d] \in Clients
          /\ conn[taking[d]] = "accepted"
          /\ owner[taking[d]] = d
    /\ \A c \in Clients :
          /\ conn[c] \in {"accepted", "live", "finished", "cleanup"} => owner[c] \in Loops
          /\ conn[c] = "accepted" => loop[owner[c]] = "adding" /\ taking[owner[c]] = c

-----------------------------------------------------------------------------
(* The inductive invariant: lists and counters *)

\* The connections of d that are not yet freed.
Held(d) == At({"live", "finished", "cleanup"}, d)

Listed(d) == {cleanup[d][i] : i \in DOMAIN cleanup[d]}

\* No connection is in a list twice.
Once(list) == \A i, j \in DOMAIN list : list[i] = list[j] => i = j

\* What is in the list of d, or being disposed of, is a connection of d at its end.
ListsOwned ==
    \A d \in Loops :
        /\ Once(cleanup[d])
        /\ \A c \in Listed(d) : owner[c] = d /\ conn[c] \in {"cleanup", "gone"}
        /\ pos[d] # None => owner[pos[d]] = d /\ conn[pos[d]] \in {"cleanup", "gone"}
        /\ MainIn(d) => /\ owner[pos[MainThread]] = d
                        /\ conn[pos[MainThread]] \in {"cleanup", "gone"}

\* Nothing in the list, or being disposed of, has been freed, and the counter
\* counts what is held.
Exact(d) ==
    /\ \A c \in Listed(d) : conn[c] = "cleanup"
    /\ pos[d] # None => conn[pos[d]] = "cleanup"
    /\ MainIn(d) => conn[pos[MainThread]] = "cleanup"
    /\ connections[d] = IF loop[d] # "counting" THEN Cardinality(Held(d))
                        ELSE IF Cardinality(Held(d)) = 0 THEN UnsignedMax
                        ELSE Cardinality(Held(d)) - 1

\* A race leaves the daemon structures alone whose threads are going to accept.
Counters == \A d \in Loops : ~raced \/ Fetching(d) => Exact(d)

\* Every connection at its end is in its list.
Complete == ~raced => \A c \in Clients : conn[c] = "cleanup" => c \in Listed(owner[c])

\* There is room for a connection that is going to be accepted.
Room ==
    /\ \A d \in Loops :
          /\ Cardinality(Held(d)) <= LimitOf(d)
          /\ Fetching(d) => Cardinality(Held(d)) < LimitOf(d)
    /\ \A c \in Clients : conn[c] # "refused"

-----------------------------------------------------------------------------
(* The inductive invariant: the end *)

\* A worker has what it has not counted yet.
Uncounted ==
    threads > 0 => \A d \in Loops : loop[d] = "counting" => At({"live", "finished"}, d) # {}

\* The connections of d that stop may end unanswered, and that it did end.
Unanswered(d) == {c \in Clients : owner[c] = d /\ (conn[c] \in {"accepted", "live"} \/ c \in dropped)}
AtMostOne(d) == \A c, e \in Unanswered(d) : c = e

\* The daemon structures that main has visited in this round.
Before == {d \in Loops : d < visiting}
OwnedBy(D) == {c \in Clients : owner[c] \in D}

\* A round that has seen nothing has passed daemon structures with at most one.
Drained ==
    ~raced =>
        /\ main = "counting" =>
              /\ seen <= Cardinality(OwnedBy(Before))
              /\ seen = 0 => \A d \in Before : AtMostOne(d)
              /\ threads = 0 => seen = 0
        /\ main = "shutdown" \/ shutdown => \A d \in Loops : AtMostOne(d)

\* A polling thread that was joined has ended, and its connections are closed.
Over(d) ==
    /\ loop[d] = "ended"
    /\ raced \/ \A c \in Clients :
          owner[c] = d => conn[c] \notin {"accepted", "live", "finished", "cleanup"}

Joined ==
    /\ main \in {"joining", "closing"} => \A d \in Before : Over(d)
    /\ main = "closing" => loop[visiting] = "ended"

\* The type invariant, in parts.
MainType ==
    /\ threads \in ThreadCounts
    /\ main \in {"begin", "announce", "sigwait", "quiesce", "close", "counting", "sleep",
                 "shutdown", "joining", "closing", "returned", "killed", "aborted"}
    /\ visiting \in AllLoops
    /\ seen \in 0..UnsignedMax
    /\ mutex \in {0, MainThread, None}

FlagType == {socket_fd, listening, wpipe, shutdown, raced} \subseteq BOOLEAN

LoopType ==
    /\ loop \in [AllLoops -> {"off", "top", "polling", "handling", "accept", "accepting",
                              "adding", "counting", "cleaning", "ended"}]
    /\ poll_listen \in [AllLoops -> BOOLEAN]
    /\ taking \in [AllLoops -> Clients \cup {None}]

ListType ==
    /\ connections \in [AllLoops -> 0..UnsignedMax]
    /\ DOMAIN cleanup = AllLoops
    /\ \A d \in AllLoops : cleanup[d] \in Seq(Clients)
    /\ pos \in [AllLoops \cup {MainThread} -> Clients \cup {None}]

ConnType ==
    /\ conn \in [Clients -> {"none", "queued", "accepted", "live", "finished", "cleanup",
                             "gone", "refused", "reset"}]
    /\ owner \in [Clients -> AllLoops]
    /\ dropped \subseteq Clients

IInv ==
    /\ MainType /\ FlagType /\ LoopType /\ ListType /\ ConnType
    /\ Stages /\ Blank /\ ThreadsOK
    /\ ListsOwned /\ Counters /\ Complete /\ Room /\ Uncounted
    /\ Drained /\ Joined /\ NothingLeft

-----------------------------------------------------------------------------
(* Facts about the helpers *)

\* The parts are the whole.
LEMMA TypeParts == IInv => TypeOK
BY DEF IInv, MainType, FlagType, LoopType, ListType, ConnType, TypeOK

\* The daemon structures are numbers, and main is none of them.
LEMMA LoopNumbers ==
    ASSUME MainType
    PROVE  /\ threads \in Nat
           /\ Loops \subseteq AllLoops /\ AllLoops \subseteq Nat
           /\ Loops = FirstLoop..LastLoop
           /\ FirstLoop \in Loops /\ LastLoop \in Loops
           /\ FirstLoop \in Nat /\ LastLoop \in Nat
           /\ MainThread \notin AllLoops
           /\ 0 \in AllLoops
<1>1. threads \in ThreadCounts /\ ThreadCounts \subseteq Nat
  BY ServerAssumption DEF MainType
<1>2. threads \in Nat
  BY <1>1
<1>3. AllLoops \subseteq Nat
  BY ServerAssumption DEF AllLoops
<1>4. {0} \cup 1..threads \subseteq AllLoops
  BY <1>1 DEF AllLoops
<1>5. MainThread \notin Nat
  BY DEF MainThread
<1>6. Loops = FirstLoop..LastLoop /\ FirstLoop \in Loops /\ LastLoop \in Loops
      /\ FirstLoop \in Nat /\ LastLoop \in Nat
  <2>1. CASE threads = 0
    BY <2>1 DEF Loops, FirstLoop, LastLoop
  <2>2. CASE threads # 0
    BY <1>2, <2>2 DEF Loops, FirstLoop, LastLoop
  <2> QED
    BY <2>1, <2>2
<1>7. Loops \subseteq AllLoops
  BY <1>4 DEF Loops
<1> QED
  BY <1>2, <1>3, <1>4, <1>5, <1>6, <1>7

\* There are fewer connections than an unsigned can count.
LEMMA CountFacts ==
    ASSUME NEW S \in SUBSET Clients
    PROVE  /\ IsFiniteSet(S)
           /\ Cardinality(S) \in Nat
           /\ Cardinality(S) < UnsignedMax
           /\ Cardinality(S) = 0 <=> S = {}
<1>1. IsFiniteSet(Clients) /\ Cardinality(Clients) < UnsignedMax /\ UnsignedMax \in Nat
  BY ServerAssumption
<1>2. IsFiniteSet(S) /\ Cardinality(S) <= Cardinality(Clients)
  BY <1>1, FS_Subset
<1>3. Cardinality(S) \in Nat /\ Cardinality(Clients) \in Nat
  BY <1>1, <1>2, FS_CardinalityType
<1>4. Cardinality(S) = 0 <=> S = {}
  BY <1>2, FS_EmptySet
<1> QED
  BY <1>1, <1>2, <1>3, <1>4

LEMMA HeldFacts ==
    ASSUME NEW d
    PROVE  /\ Held(d) \in SUBSET Clients
           /\ Cardinality(Held(d)) \in Nat
           /\ Cardinality(Held(d)) < UnsignedMax
           /\ Cardinality(Held(d)) = 0 <=> Held(d) = {}
<1>1. Held(d) \in SUBSET Clients
  BY DEF Held, At
<1> QED
  BY <1>1, CountFacts

\* An unsigned counts down, and around.
LEMMA DecrementedFacts ==
    ASSUME NEW n \in 0..UnsignedMax
    PROVE  /\ Decremented(n) \in 0..UnsignedMax
           /\ n # 0 => Decremented(n) = n - 1
           /\ n = 0 => Decremented(n) = UnsignedMax
<1>1. UnsignedMax \in Nat
  BY ServerAssumption
<1>2. CASE n = 0
  BY <1>1, <1>2 DEF Decremented
<1>3. CASE n # 0
  <2>1. n + UnsignedMax = (n - 1) + 1 * (UnsignedMax + 1) /\ n - 1 \in 0..UnsignedMax
    BY <1>1, <1>3
  <2>2. (n + UnsignedMax) % (UnsignedMax + 1) = n - 1
    BY <1>1, <2>1
  <2> QED
    BY <1>1, <1>3, <2>1, <2>2 DEF Decremented
<1> QED
  BY <1>2, <1>3

\* What is kept within an unsigned.
LEMMA Wrapped ==
    ASSUME NEW n \in Int
    PROVE  /\ n % (UnsignedMax + 1) \in 0..UnsignedMax
           /\ n \in 0..UnsignedMax => n % (UnsignedMax + 1) = n
           /\ n = UnsignedMax + 1 => n % (UnsignedMax + 1) = 0
BY ServerAssumption

-----------------------------------------------------------------------------
(* What a step that leaves the connections alone leaves alone *)

LEMMA SameThreads ==
    ASSUME UNCHANGED threads
    PROVE  /\ Loops' = Loops /\ FirstLoop' = FirstLoop /\ LastLoop' = LastLoop
           /\ \A d : LimitOf(d)' = LimitOf(d)
BY DEF Loops, FirstLoop, LastLoop, LimitOf, conns_per_thread, leftover_conns

LEMMA SameConnections ==
    ASSUME UNCHANGED <<conn, owner>>
    PROVE  /\ \A d : Held(d)' = Held(d)
           /\ \A d : At({"live", "finished"}, d)' = At({"live", "finished"}, d)
           /\ Queued' = Queued
BY DEF Held, At, Queued

LEMMA SameLists ==
    ASSUME UNCHANGED cleanup
    PROVE  \A d : Listed(d)' = Listed(d)
BY DEF Listed

\* The lists and counters of a daemon structure, when its thread stays where it
\* is or comes from and goes to a place where everything is counted.
LEMMA SameExact ==
    ASSUME NEW d, UNCHANGED <<conn, owner, cleanup, connections, pos>>,
           MainIn(d)' => MainIn(d), loop'[d] = "counting" <=> loop[d] = "counting", Exact(d)
    PROVE  Exact(d)'
<1>1. Held(d)' = Held(d) /\ Listed(d)' = Listed(d)
  BY SameConnections, SameLists
<1> QED
  BY <1>1 DEF Exact

LEMMA SameOwned ==
    ASSUME ListsOwned, UNCHANGED <<threads, conn, owner, cleanup, pos>>, \A d : MainIn(d)' => MainIn(d)
    PROVE  ListsOwned'
<1>1. Loops' = Loops /\ \A d : Listed(d)' = Listed(d)
  BY SameThreads, SameLists
<1> QED
  BY <1>1 DEF ListsOwned

LEMMA SameComplete ==
    ASSUME Complete, UNCHANGED <<conn, owner, cleanup, raced>>
    PROVE  Complete'
<1>1. \A c \in Clients : Listed(owner[c])' = Listed(owner[c])
  BY DEF Listed
<1> QED
  BY <1>1 DEF Complete

LEMMA SameUnanswered ==
    ASSUME UNCHANGED <<conn, owner, dropped>>, NEW d
    PROVE  AtMostOne(d)' <=> AtMostOne(d)
BY DEF AtMostOne, Unanswered

LEMMA SameOver ==
    ASSUME UNCHANGED <<conn, owner, raced>>, NEW d, Over(d), loop'[d] = loop[d]
    PROVE  Over(d)'
BY DEF Over

LEMMA SameDrained ==
    ASSUME Drained, UNCHANGED <<threads, main, visiting, seen, shutdown, raced, conn, owner, dropped>>
    PROVE  Drained'
<1>1. Loops' = Loops /\ Before' = Before /\ OwnedBy(Before)' = OwnedBy(Before)
  BY DEF Loops, Before, OwnedBy
<1>2. \A d : AtMostOne(d)' <=> AtMostOne(d)
  BY SameUnanswered
<1> QED
  BY <1>1, <1>2 DEF Drained

-----------------------------------------------------------------------------
(* The polling threads *)

\* A polling thread goes on without touching a connection.
LEMMA LoopGoesOn ==
    ASSUME IInv, NEW d \in Loops,
           NEW x \in {"top", "polling", "handling", "accept", "accepting", "cleaning", "ended"},
           loop' = [loop EXCEPT ![d] = x],
           loop[d] \notin {"off", "counting", "adding", "ended"},
           poll_listen' \in [AllLoops -> BOOLEAN],
           \A e \in AllLoops : e # d => poll_listen'[e] = poll_listen[e],
           pos[d] # None => x = "cleaning",
           Fetching(d)' =>
               \/ Fetching(d)
               \/ ~raced /\ Cardinality(Held(d)) < LimitOf(d),
           mutex' \in {0, MainThread, None},
           UNCHANGED <<threads, main, visiting, seen, taking, connections, cleanup, pos, raced,
                       socket_fd, listening, wpipe, shutdown, conn, owner, dropped>>
    PROVE  IInv'
<1>1. Loops \subseteq AllLoops /\ Loops' = Loops /\ \A e : LimitOf(e)' = LimitOf(e)
  BY LoopNumbers, SameThreads DEF IInv
<1>2. /\ loop'[d] = x
      /\ \A e \in AllLoops : e # d => loop'[e] = loop[e]
      /\ loop' \in [AllLoops -> {"off", "top", "polling", "handling", "accept", "accepting",
                                 "adding", "counting", "cleaning", "ended"}]
  BY <1>1 DEF IInv, LoopType
<1>3. \A e \in Loops : e # d => (Fetching(e)' <=> Fetching(e))
  BY <1>1, <1>2 DEF Fetching
<1>4. \A e : MainIn(e)' <=> MainIn(e)
  BY DEF MainIn
<1>5. MainType' /\ FlagType' /\ LoopType' /\ ListType' /\ ConnType'
  <2>1. MainType' /\ FlagType'
    BY DEF IInv, MainType, FlagType
  <2>2. LoopType'
    BY <1>2 DEF IInv, LoopType
  <2>3. ListType' /\ ConnType'
    BY DEF IInv, ListType, ConnType
  <2> QED
    BY <2>1, <2>2, <2>3
<1>6. Stages'
  BY <1>1, SameConnections DEF IInv, Stages
<1>7. Blank'
  BY <1>1 DEF IInv, Blank
<1>8. ThreadsOK'
  <2>1. \A e \in AllLoops \ Loops' : loop'[e] = "off"
    BY <1>1, <1>2 DEF IInv, ThreadsOK
  <2>2. \A e \in AllLoops : pos'[e] # None => loop'[e] = "cleaning"
    BY <1>1, <1>2 DEF IInv, ThreadsOK
  <2>3. \A e \in Loops' : loop'[e] = "adding" =>
           taking'[e] \in Clients /\ conn'[taking'[e]] = "accepted" /\ owner'[taking'[e]] = e
    BY <1>1, <1>2 DEF IInv, ThreadsOK
  <2>4. \A c \in Clients :
          /\ conn'[c] \in {"accepted", "live", "finished", "cleanup"} => owner'[c] \in Loops'
          /\ conn'[c] = "accepted" => loop'[owner'[c]] = "adding" /\ taking'[owner'[c]] = c
    BY <1>1, <1>2 DEF IInv, ThreadsOK
  <2> QED
    BY <2>1, <2>2, <2>3, <2>4 DEF ThreadsOK
<1>9. ListsOwned' /\ Complete'
  BY <1>4, SameOwned, SameComplete DEF IInv
<1>10. Counters'
  <2> SUFFICES ASSUME NEW e \in Loops, ~raced \/ Fetching(e)' PROVE Exact(e)'
    BY <1>1 DEF Counters
  <2>1. ~raced \/ Fetching(e)
    BY <1>3
  <2>2. Exact(e)
    BY <2>1 DEF IInv, Counters
  <2>3. loop'[e] = "counting" <=> loop[e] = "counting"
    BY <1>1, <1>2
  <2> QED
    BY <1>4, <2>2, <2>3, SameExact
<1>11. Room'
  <2>1. \A e \in Loops : Held(e)' = Held(e)
    BY SameConnections
  <2>2. \A e \in Loops : Fetching(e)' => Cardinality(Held(e)) < LimitOf(e)
    BY <1>3 DEF IInv, Room
  <2> QED
    BY <1>1, <2>1, <2>2 DEF IInv, Room
<1>12. Uncounted'
  <2>1. \A e \in Loops : At({"live", "finished"}, e)' = At({"live", "finished"}, e)
    BY SameConnections
  <2> QED
    BY <1>1, <1>2, <2>1 DEF IInv, Uncounted
<1>13. Drained'
  BY SameDrained DEF IInv
<1>14. Joined'
  <2>1. Before' = Before /\ Before \subseteq Loops
    BY <1>1 DEF Before
  <2>2. \A e \in Before : Over(e) => Over(e)'
    <3> SUFFICES ASSUME NEW e \in Before, Over(e) PROVE Over(e)'
      OBVIOUS
    <3>1. loop'[e] = loop[e]
      BY <1>1, <1>2, <2>1 DEF Over
    <3> QED
      BY <3>1, SameOver
  <2>3. main = "closing" => loop'[visiting] = "ended"
    BY <1>1, <1>2 DEF IInv, Joined, Stages
  <2> QED
    BY <2>1, <2>2, <2>3 DEF IInv, Joined
<1>15. NothingLeft'
  BY <1>1 DEF IInv, NothingLeft
<1> QED
  BY <1>5, <1>6, <1>7, <1>8, <1>9, <1>10, <1>11, <1>12, <1>13, <1>14, <1>15 DEF IInv

-----------------------------------------------------------------------------
(* The main thread *)

\* main goes on without touching a connection or a list.
LEMMA MainGoesOn ==
    ASSUME IInv,
           UNCHANGED <<threads, loop, poll_listen, taking, connections, cleanup, pos, raced,
                       conn, owner, dropped>>,
           pos[MainThread] = None \/ visiting' = visiting,
           main' # "begin",
           MainType', FlagType', Stages', Drained', Joined', NothingLeft'
    PROVE  IInv'
<1>1. Loops' = Loops /\ \A e : LimitOf(e)' = LimitOf(e)
  BY SameThreads
<1>2. \A e : MainIn(e)' => MainIn(e)
  BY DEF MainIn
<1>3. \A e \in Loops : Fetching(e)' <=> Fetching(e)
  BY DEF Fetching
<1>4. LoopType' /\ ListType' /\ ConnType'
  BY DEF IInv, LoopType, ListType, ConnType
<1>5. Blank'
  BY DEF Blank
<1>6. ThreadsOK'
  BY <1>1 DEF IInv, ThreadsOK
<1>7. ListsOwned' /\ Complete'
  BY <1>2, SameOwned, SameComplete DEF IInv
<1>8. Counters'
  <2> SUFFICES ASSUME NEW e \in Loops, ~raced \/ Fetching(e)' PROVE Exact(e)'
    BY <1>1 DEF Counters
  <2>1. Exact(e)
    BY <1>3 DEF IInv, Counters
  <2> QED
    BY <1>2, <2>1, SameExact
<1>9. Room'
  <2>1. \A e \in Loops : Held(e)' = Held(e)
    BY SameConnections
  <2> QED
    BY <1>1, <1>3, <2>1 DEF IInv, Room
<1>10. Uncounted'
  <2>1. \A e \in Loops : At({"live", "finished"}, e)' = At({"live", "finished"}, e)
    BY SameConnections
  <2> QED
    BY <1>1, <2>1 DEF IInv, Uncounted
<1> QED
  BY <1>4, <1>5, <1>6, <1>7, <1>8, <1>9, <1>10 DEF IInv

\* A part of the end that main's next stage does not touch.
LEMMA SameJoined ==
    ASSUME IInv, UNCHANGED <<threads, visiting, loop, conn, owner, raced>>,
           main' \in {"joining", "closing"} => main \in {"joining", "closing"},
           main' = "closing" => loop[visiting] = "ended"
    PROVE  Joined'
<1>1. Before' = Before
  BY DEF Before, Loops
<1>2. \A e : Over(e)' <=> Over(e)
  BY DEF Over
<1> QED
  BY <1>1, <1>2 DEF IInv, Joined

LEMMA BlockSignalsInv ==
    ASSUME IInv, BlockSignals
    PROVE  IInv'
<1>1. /\ main = "announce" /\ main' = "sigwait"
      /\ UNCHANGED <<threads, visiting, seen, loop, poll_listen, taking, connections, cleanup, pos,
                     mutex, raced, socket_fd, listening, wpipe, shutdown, conn, owner, dropped>>
  BY DEF BlockSignals, loopvars, lists, flags, served
<1>2. MainType' /\ FlagType' /\ Stages'
  BY <1>1, SameThreads, SameConnections DEF IInv, MainType, FlagType, Stages, Closed, Quiesced
<1>3. Drained'
  <2>1. Loops' = Loops /\ \A d : AtMostOne(d)' <=> AtMostOne(d)
    BY <1>1, SameThreads, SameUnanswered
  <2> QED
    BY <1>1, <2>1 DEF IInv, Drained
<1>4. Joined'
  BY <1>1, SameJoined
<1>5. NothingLeft'
  BY <1>1 DEF NothingLeft
<1> QED
  BY <1>1, <1>2, <1>3, <1>4, <1>5, MainGoesOn

LEMMA SignalInv ==
    ASSUME IInv, Signal
    PROVE  IInv'
<1>1. /\ main' \in {"quiesce", "killed"}
      /\ main' = "quiesce" => main = "sigwait"
      /\ UNCHANGED <<threads, visiting, seen, loop, poll_listen, taking, connections, cleanup, pos,
                     mutex, raced, socket_fd, listening, wpipe, shutdown, conn, owner, dropped>>
  BY DEF Signal, loopvars, lists, flags, served
<1>2. MainType' /\ FlagType' /\ Stages'
  BY <1>1, SameThreads, SameConnections DEF IInv, MainType, FlagType, Stages, Closed, Quiesced
<1>3. Drained'
  <2>1. Loops' = Loops /\ \A d : AtMostOne(d)' <=> AtMostOne(d)
    BY <1>1, SameThreads, SameUnanswered
  <2> QED
    BY <1>1, <2>1 DEF IInv, Drained
<1>4. Joined'
  BY <1>1, SameJoined
<1>5. NothingLeft'
  BY <1>1 DEF NothingLeft
<1> QED
  BY <1>1, <1>2, <1>3, <1>4, <1>5, MainGoesOn

LEMMA QuiesceInv ==
    ASSUME IInv, Quiesce
    PROVE  IInv'
<1>1. /\ main = "quiesce" /\ main' = "close" /\ socket_fd' = FALSE /\ wpipe' = TRUE
      /\ UNCHANGED <<threads, visiting, seen, loop, poll_listen, taking, connections, cleanup, pos,
                     mutex, raced, listening, shutdown, conn, owner, dropped>>
  BY DEF Quiesce, loopvars, lists, served
<1>2. MainType' /\ FlagType' /\ Stages'
  BY <1>1, SameThreads, SameConnections DEF IInv, MainType, FlagType, Stages, Closed, Quiesced
<1>3. Drained'
  <2>1. Loops' = Loops /\ \A d : AtMostOne(d)' <=> AtMostOne(d)
    BY <1>1, SameThreads, SameUnanswered
  <2> QED
    BY <1>1, <2>1 DEF IInv, Drained
<1>4. Joined'
  BY <1>1, SameJoined
<1>5. NothingLeft'
  BY <1>1 DEF NothingLeft
<1> QED
  BY <1>1, <1>2, <1>3, <1>4, <1>5, MainGoesOn

LEMMA JoinInv ==
    ASSUME IInv, Join
    PROVE  IInv'
<1>1. /\ main = "joining" /\ main' = "closing" /\ loop[visiting] = "ended"
      /\ UNCHANGED <<threads, visiting, seen, loop, poll_listen, taking, connections, cleanup, pos,
                     mutex, raced, socket_fd, listening, wpipe, shutdown, conn, owner, dropped>>
  BY DEF Join, loopvars, lists, flags, served
<1>2. MainType' /\ FlagType' /\ Stages'
  BY <1>1, SameThreads, SameConnections DEF IInv, MainType, FlagType, Stages, Closed, Quiesced
<1>3. Drained'
  <2>1. Loops' = Loops /\ \A d : AtMostOne(d)' <=> AtMostOne(d)
    BY <1>1, SameThreads, SameUnanswered
  <2> QED
    BY <1>1, <2>1 DEF IInv, Drained
<1>4. Joined'
  BY <1>1, SameJoined
<1>5. NothingLeft'
  BY <1>1 DEF NothingLeft
<1> QED
  BY <1>1, <1>2, <1>3, <1>4, <1>5, MainGoesOn

\* Nothing comes before the first daemon structure.
LEMMA NothingBefore ==
    ASSUME MainType, UNCHANGED threads, visiting' = FirstLoop
    PROVE  Before' = {} /\ visiting' \in Loops' /\ visiting' \in AllLoops'
<1>1. Loops' = Loops /\ Loops = FirstLoop..LastLoop /\ FirstLoop \in Loops /\ Loops \subseteq AllLoops
      /\ FirstLoop \in Nat /\ LastLoop \in Nat
  BY LoopNumbers, SameThreads
<1>2. Before' = {d \in Loops : d < FirstLoop}
  BY <1>1 DEF Before
<1>3. Before' = {}
  BY <1>1, <1>2
<1> QED
  BY <1>1, <1>3 DEF AllLoops

\* A round of main begins with nothing seen.
LEMMA RoundBegins ==
    ASSUME IInv, UNCHANGED <<threads, shutdown>>,
           visiting' = FirstLoop, seen' = 0, main' = "counting", ~shutdown
    PROVE  Drained'
<1>1. Before' = {}
  BY NothingBefore DEF IInv
<1>2. OwnedBy(Before)' = {}
  BY <1>1 DEF OwnedBy
<1>3. seen' <= Cardinality(OwnedBy(Before)')
  BY <1>2, FS_EmptySet
<1> QED
  BY <1>1, <1>3 DEF Drained

LEMMA SleepOverInv ==
    ASSUME IInv, SleepOver
    PROVE  IInv'
<1>1. /\ main = "sleep" /\ main' = "counting" /\ visiting' = FirstLoop /\ seen' = 0
      /\ UNCHANGED <<threads, loop, poll_listen, taking, connections, cleanup, pos,
                     mutex, raced, socket_fd, listening, wpipe, shutdown, conn, owner, dropped>>
  BY DEF SleepOver, loopvars, lists, flags, served
<1>2. Before' = {} /\ visiting' \in Loops' /\ visiting' \in AllLoops'
  BY <1>1, NothingBefore DEF IInv
<1>3. pos[MainThread] = None /\ ~shutdown
  BY <1>1 DEF IInv, Stages
<1>4. MainType' /\ FlagType'
  BY <1>1, <1>2, ServerAssumption DEF IInv, MainType, FlagType
<1>5. Stages'
  BY <1>1, <1>2, SameConnections DEF IInv, Stages, Closed, Quiesced
<1>6. Drained'
  BY <1>1, <1>3, RoundBegins
<1>7. Joined' /\ NothingLeft'
  BY <1>1 DEF Joined, NothingLeft
<1> QED
  BY <1>1, <1>3, <1>4, <1>5, <1>6, <1>7, MainGoesOn

LEMMA StopDaemonInv ==
    ASSUME IInv, StopDaemon
    PROVE  IInv'
<1>1. /\ main = "shutdown" /\ main' = "joining" /\ visiting' = FirstLoop
      /\ shutdown' = TRUE /\ wpipe' = TRUE
      /\ UNCHANGED <<threads, seen, loop, poll_listen, taking, connections, cleanup, pos,
                     mutex, raced, socket_fd, listening, conn, owner, dropped>>
  BY DEF StopDaemon, loopvars, lists, served
<1>2. Before' = {} /\ visiting' \in Loops' /\ visiting' \in AllLoops'
  BY <1>1, NothingBefore DEF IInv
<1>3. pos[MainThread] = None /\ ~listening
  BY <1>1 DEF IInv, Stages, Closed
<1>4. MainType' /\ FlagType'
  BY <1>1, <1>2 DEF IInv, MainType, FlagType
<1>5. Stages'
  BY <1>1, <1>2, <1>3, SameConnections DEF IInv, Stages, Closed, Quiesced
<1>6. Drained'
  <2>1. Loops' = Loops /\ \A d : AtMostOne(d)' <=> AtMostOne(d)
    BY <1>1, SameThreads, SameUnanswered
  <2> QED
    BY <1>1, <2>1 DEF IInv, Drained
<1>7. Joined' /\ NothingLeft'
  BY <1>1, <1>2 DEF Joined, NothingLeft
<1> QED
  BY <1>1, <1>3, <1>4, <1>5, <1>6, <1>7, MainGoesOn

\* A counter at 0 has at most one connection, which its thread has not counted.
LEMMA NoneCounted ==
    ASSUME IInv, NEW d \in Loops, ~raced, dropped = {}, connections[d] = 0
    PROVE  AtMostOne(d)
<1>1. connections[d] = IF loop[d] # "counting" THEN Cardinality(Held(d))
                       ELSE IF Cardinality(Held(d)) = 0 THEN UnsignedMax
                       ELSE Cardinality(Held(d)) - 1
  BY DEF IInv, Counters, Exact
<1>2. /\ Held(d) \in SUBSET Clients /\ Cardinality(Held(d)) \in Nat
      /\ Cardinality(Held(d)) < UnsignedMax /\ UnsignedMax \in Nat
      /\ Cardinality(Held(d)) = 0 <=> Held(d) = {}
  BY HeldFacts, ServerAssumption
<1>3. \A c \in Unanswered(d) :
         /\ c \in Clients
         /\ conn[c] = "accepted" => loop[d] = "adding" /\ c = taking[d]
         /\ conn[c] # "accepted" => c \in Held(d)
  BY DEF Unanswered, IInv, ThreadsOK, Held, At
<1>4. CASE loop[d] = "counting"
  <2>1. Cardinality(Held(d)) = 1
    BY <1>1, <1>2, <1>4
  <2>2. PICK c : Held(d) = {c}
    BY <1>2, <2>1, CountFacts, FS_Singleton
  <2> QED
    BY <1>3, <1>4, <2>2 DEF AtMostOne
<1>5. CASE loop[d] # "counting"
  <2>1. Held(d) = {}
    BY <1>1, <1>2, <1>5
  <2> QED
    BY <1>3, <2>1 DEF AtMostOne
<1> QED
  BY <1>4, <1>5

\* The counter of a worker is not above what the worker has.
LEMMA CounterBelow ==
    ASSUME IInv, NEW d \in Loops, ~raced, threads > 0
    PROVE  connections[d] <= Cardinality(Held(d)) /\ connections[d] \in Nat
<1>1. connections[d] = IF loop[d] # "counting" THEN Cardinality(Held(d))
                       ELSE IF Cardinality(Held(d)) = 0 THEN UnsignedMax
                       ELSE Cardinality(Held(d)) - 1
  BY DEF IInv, Counters, Exact
<1>2. /\ Held(d) \in SUBSET Clients /\ Cardinality(Held(d)) \in Nat
      /\ Cardinality(Held(d)) = 0 <=> Held(d) = {}
  BY HeldFacts
<1>3. loop[d] = "counting" => Held(d) # {}
  BY DEF IInv, Uncounted, Held, At
<1> QED
  BY <1>1, <1>2, <1>3

\* One daemon structure more in a round.
LEMMA RoundGoesOn ==
    ASSUME IInv, main = "counting", ~raced, threads > 0
    PROVE  /\ seen + connections[visiting] \in 0..UnsignedMax
           /\ seen + connections[visiting]
                 <= Cardinality(OwnedBy(Before \cup {visiting}))
<1> DEFINE O == OwnedBy(Before)
           H == Held(visiting)
           A == OwnedBy(Before \cup {visiting})
<1>1. visiting \in Loops /\ seen \in Nat /\ seen <= Cardinality(O) /\ visiting \in Nat
  <2>1. visiting \in Loops /\ visiting \in Nat
    BY LoopNumbers DEF IInv, Stages
  <2>2. seen \in Nat
    BY ServerAssumption DEF IInv, MainType
  <2> QED
    BY <2>1, <2>2 DEF IInv, Drained
<1>2. connections[visiting] <= Cardinality(H) /\ connections[visiting] \in Nat
  BY <1>1, CounterBelow
<1>3. O \in SUBSET Clients /\ H \in SUBSET Clients /\ A \in SUBSET Clients
  BY DEF OwnedBy, Held, At
<1>4. O \cap H = {} /\ O \cup H \in SUBSET A
  BY <1>1 DEF OwnedBy, Held, At, Before
<1>5. /\ IsFiniteSet(O) /\ IsFiniteSet(H) /\ IsFiniteSet(A)
      /\ Cardinality(O) \in Nat /\ Cardinality(H) \in Nat
      /\ Cardinality(A) \in Nat /\ Cardinality(A) < UnsignedMax
  BY <1>3, CountFacts
<1>6. Cardinality(O \cup H) = Cardinality(O) + Cardinality(H)
  <2>1. Cardinality(O \cap H) = 0
    BY <1>4, FS_EmptySet
  <2>2. Cardinality(O \cup H) = Cardinality(O) + Cardinality(H) - Cardinality(O \cap H)
    BY <1>5, FS_Union
  <2> HIDE DEF O, H
  <2> QED
    BY <1>5, <2>1, <2>2
<1>7. Cardinality(O \cup H) <= Cardinality(A)
  BY <1>4, <1>5, FS_Subset
<1> HIDE DEF O, H, A
<1>8. seen + connections[visiting] <= Cardinality(A)
  BY <1>1, <1>2, <1>5, <1>6, <1>7
<1> QED
  BY <1>1, <1>2, <1>5, <1>8, ServerAssumption DEF A

LEMMA MainCountsInv ==
    ASSUME IInv, MainCounts
    PROVE  IInv'
<1>1. /\ main = "counting" /\ pos[MainThread] = None
      /\ mutex' \in {mutex, None}
      /\ seen' = (seen + connections[visiting]) % (UnsignedMax + 1)
      /\ \/ visiting # LastLoop /\ visiting' = visiting + 1 /\ main' = main
         \/ visiting = LastLoop /\ visiting' = visiting
            /\ main' = IF seen' = 0 THEN "shutdown" ELSE "sleep"
      /\ UNCHANGED <<threads, loop, poll_listen, taking, connections, cleanup, pos,
                     raced, socket_fd, listening, wpipe, shutdown, conn, owner, dropped>>
  BY DEF MainCounts, CleanupOver, loopvars, flags, served
<1>2. /\ visiting \in Loops /\ Loops = FirstLoop..LastLoop /\ Loops \subseteq AllLoops
      /\ FirstLoop \in Nat /\ LastLoop \in Nat /\ threads \in Nat
      /\ Loops' = Loops /\ AllLoops' = AllLoops
  BY <1>1, LoopNumbers, SameThreads DEF IInv, Stages, AllLoops
<1>3. visiting' \in Loops
  BY <1>1, <1>2
<1>4. ~shutdown /\ ~listening /\ dropped = {}
  BY <1>1 DEF IInv, Stages, Closed
<1>5. connections[visiting] \in 0..UnsignedMax /\ seen \in 0..UnsignedMax
  BY <1>2 DEF IInv, ListType, MainType
<1>6. seen' \in 0..UnsignedMax
  BY <1>1, <1>5, Wrapped
<1>7. MainType' /\ FlagType'
  BY <1>1, <1>2, <1>3, <1>6 DEF IInv, MainType, FlagType
<1>8. Stages'
  BY <1>1, <1>2, <1>3, <1>4, SameConnections DEF IInv, Stages, Closed, Quiesced
<1>9. Drained'
  <2> SUFFICES ASSUME ~raced
               PROVE  /\ main' = "counting" =>
                           /\ seen' <= Cardinality(OwnedBy(Before)')
                           /\ seen' = 0 => \A d \in Before' : AtMostOne(d)'
                           /\ threads = 0 => seen' = 0
                      /\ main' = "shutdown" => \A d \in Loops : AtMostOne(d)'
    BY <1>1, <1>2, <1>4 DEF Drained
  <2>1. \A d : AtMostOne(d)' <=> AtMostOne(d)
    BY <1>1, SameUnanswered
  <2>2. /\ seen <= Cardinality(OwnedBy(Before))
        /\ seen = 0 => \A d \in Before : AtMostOne(d)
        /\ threads = 0 => seen = 0
    BY <1>1 DEF IInv, Drained
  <2>3. seen' = seen + connections[visiting]
    <3>1. CASE threads = 0
      <4>1. seen + connections[visiting] \in 0..UnsignedMax
        BY <1>5, <2>2, <3>1
      <4> QED
        BY <1>1, <4>1, Wrapped
    <3>2. CASE threads > 0
      <4>1. seen + connections[visiting] \in 0..UnsignedMax
        BY <1>1, <3>2, RoundGoesOn
      <4> QED
        BY <1>1, <4>1, Wrapped
    <3> QED
      BY <1>2, <3>1, <3>2
  <2>4. seen' = 0 => \A d \in Before \cup {visiting} : AtMostOne(d)
    <3> SUFFICES ASSUME seen' = 0 PROVE \A d \in Before \cup {visiting} : AtMostOne(d)
      OBVIOUS
    <3>1. seen = 0 /\ connections[visiting] = 0
      BY <1>5, <2>3, ServerAssumption
    <3> QED
      BY <1>2, <1>4, <2>2, <3>1, NoneCounted
  <2>5. CASE visiting # LastLoop
    <3>1. visiting' = visiting + 1 /\ main' = "counting"
      BY <1>1, <2>5
    <3>2. Before' = Before \cup {visiting}
      BY <1>2, <3>1 DEF Before
    <3>3. threads # 0
      BY <1>2, <2>5 DEF FirstLoop, LastLoop
    <3>4. seen' <= Cardinality(OwnedBy(Before)')
      <4>1. OwnedBy(Before)' = OwnedBy(Before \cup {visiting})
        BY <1>1, <3>2 DEF OwnedBy
      <4>2. threads > 0
        BY <1>2, <3>3
      <4> QED
        BY <1>1, <2>3, <4>1, <4>2, RoundGoesOn
    <3> QED
      BY <2>1, <2>4, <3>1, <3>2, <3>3, <3>4
  <2>6. CASE visiting = LastLoop
    <3>1. Loops = Before \cup {visiting}
      BY <1>2, <2>6 DEF Before
    <3>2. main' = "shutdown" => seen' = 0
      BY <1>1, <2>6
    <3>3. main' # "counting"
      BY <1>1, <2>6
    <3> QED
      BY <2>1, <2>4, <3>1, <3>2, <3>3
  <2> QED
    BY <2>5, <2>6
<1>10. Joined' /\ NothingLeft'
  BY <1>1 DEF Joined, NothingLeft
<1> QED
  BY <1>1, <1>7, <1>8, <1>9, <1>10, MainGoesOn

-----------------------------------------------------------------------------
(* The polling threads, step by step *)

LEMMA LoopPos ==
    ASSUME IInv, NEW d \in Loops, loop[d] # "cleaning"
    PROVE  pos[d] = None
BY LoopNumbers DEF IInv, ThreadsOK

\* The limit of a daemon structure is a number.
LEMMA LimitType ==
    ASSUME MainType, NEW d \in Loops
    PROVE  LimitOf(d) \in Nat
<1>1. threads \in Nat /\ ConnectionLimit \in Nat /\ d \in Nat
  BY LoopNumbers, ServerAssumption
<1>2. CASE threads = 0
  BY <1>1, <1>2 DEF LimitOf, conns_per_thread, leftover_conns
<1>3. CASE threads # 0
  <2>1. ConnectionLimit \div threads \in Nat
    BY <1>1, <1>3
  <2> QED
    BY <1>3, <2>1 DEF LimitOf, conns_per_thread, leftover_conns
<1> QED
  BY <1>2, <1>3

LEMMA PollBeginsInv ==
    ASSUME IInv, NEW d \in Loops, PollBegins(d)
    PROVE  IInv'
<1>1. /\ loop[d] = "top"
      /\ loop' = [loop EXCEPT ![d] = "polling"]
      /\ poll_listen' = [poll_listen EXCEPT ![d] =
            /\ socket_fd
            /\ IF threads = 0 THEN connections[d] # LimitOf(d)
               ELSE connections[d] < LimitOf(d)]
      /\ UNCHANGED <<threads, main, visiting, seen, taking, connections, cleanup, pos, mutex,
                     raced, socket_fd, listening, wpipe, shutdown, conn, owner, dropped>>
  BY DEF PollBegins, mainvars, lists, flags, served
<1>2. d \in AllLoops /\ poll_listen \in [AllLoops -> BOOLEAN] /\ loop = [e \in AllLoops |-> loop[e]]
  BY LoopNumbers DEF IInv, LoopType
<1>3. /\ poll_listen' \in [AllLoops -> BOOLEAN]
      /\ \A e \in AllLoops : e # d => poll_listen'[e] = poll_listen[e]
  BY <1>1, <1>2
<1>4. pos[d] = None
  BY <1>1, LoopPos
<1>5. Fetching(d)' => ~raced /\ Cardinality(Held(d)) < LimitOf(d)
  <2> SUFFICES ASSUME Fetching(d)' PROVE ~raced /\ Cardinality(Held(d)) < LimitOf(d)
    OBVIOUS
  <2>1. loop'[d] = "polling"
    BY <1>1, <1>2
  <2>2. poll_listen'[d]
    BY <2>1 DEF Fetching
  <2>3. socket_fd /\ IF threads = 0 THEN connections[d] # LimitOf(d)
                     ELSE connections[d] < LimitOf(d)
    BY <1>1, <1>2, <2>2
  <2>4. ~raced
    BY <2>3 DEF IInv, Stages
  <2>5. connections[d] = Cardinality(Held(d))
    BY <1>1, <2>4 DEF IInv, Counters, Exact
  <2>6. Cardinality(Held(d)) <= LimitOf(d) /\ Cardinality(Held(d)) \in Nat /\ LimitOf(d) \in Nat
    BY HeldFacts, LimitType DEF IInv, Room
  <2> QED
    BY <2>3, <2>4, <2>5, <2>6
<1>6. mutex' \in {0, MainThread, None}
  BY <1>1 DEF IInv, MainType
<1> QED
  BY <1>1, <1>3, <1>4, <1>5, <1>6, LoopGoesOn

LEMMA LoopEndsInv ==
    ASSUME IInv, NEW d \in Loops, LoopEnds(d)
    PROVE  IInv'
<1>1. /\ loop[d] = "top"
      /\ loop' = [loop EXCEPT ![d] = "ended"]
      /\ UNCHANGED <<threads, main, visiting, seen, poll_listen, taking, connections, cleanup, pos,
                     mutex, raced, socket_fd, listening, wpipe, shutdown, conn, owner, dropped>>
  BY DEF LoopEnds, mainvars, lists, flags, served
<1>2. d \in AllLoops /\ poll_listen' \in [AllLoops -> BOOLEAN] /\ loop = [e \in AllLoops |-> loop[e]]
  BY <1>1, LoopNumbers DEF IInv, LoopType
<1>3. pos[d] = None
  BY <1>1, LoopPos
<1>4. ~Fetching(d)'
  BY <1>1, <1>2 DEF Fetching
<1>5. mutex' \in {0, MainThread, None}
  BY <1>1 DEF IInv, MainType
<1> QED
  BY <1>1, <1>2, <1>3, <1>4, <1>5, LoopGoesOn

LEMMA PollReturnsInv ==
    ASSUME IInv, NEW d \in Loops, PollReturns(d)
    PROVE  IInv'
<1>1. /\ loop[d] = "polling"
      /\ loop' = [loop EXCEPT ![d] = IF shutdown THEN "cleaning" ELSE "handling"]
      /\ poll_listen' = [poll_listen EXCEPT ![d] = @ /\ Queued # {}]
      /\ UNCHANGED <<threads, main, visiting, seen, taking, connections, cleanup, pos,
                     mutex, raced, socket_fd, listening, wpipe, shutdown, conn, owner, dropped>>
  BY DEF PollReturns, mainvars, lists, flags, served
<1>2. d \in AllLoops /\ poll_listen \in [AllLoops -> BOOLEAN] /\ loop = [e \in AllLoops |-> loop[e]]
  BY LoopNumbers DEF IInv, LoopType
<1>3. /\ poll_listen' \in [AllLoops -> BOOLEAN]
      /\ \A e \in AllLoops : e # d => poll_listen'[e] = poll_listen[e]
      /\ poll_listen'[d] => poll_listen[d]
  BY <1>1, <1>2
<1>4. pos[d] = None
  BY <1>1, LoopPos
<1>5. PICK x \in {"cleaning", "handling"} : loop' = [loop EXCEPT ![d] = x]
  BY <1>1
<1>6. Fetching(d)' => Fetching(d)
  BY <1>1, <1>2, <1>3, <1>5 DEF Fetching
<1>7. mutex' \in {0, MainThread, None}
  BY <1>1 DEF IInv, MainType
<1> QED
  BY <1>1, <1>3, <1>4, <1>5, <1>6, <1>7, LoopGoesOn

LEMMA HandlersDoneInv ==
    ASSUME IInv, NEW d \in Loops, HandlersDone(d)
    PROVE  IInv'
<1>1. /\ loop[d] = "handling"
      /\ loop' = [loop EXCEPT ![d] = IF poll_listen[d] THEN "accept" ELSE "cleaning"]
      /\ poll_listen' = [poll_listen EXCEPT ![d] = FALSE]
      /\ UNCHANGED <<threads, main, visiting, seen, taking, connections, cleanup, pos,
                     mutex, raced, socket_fd, listening, wpipe, shutdown, conn, owner, dropped>>
  BY DEF HandlersDone, mainvars, lists, flags, served
<1>2. d \in AllLoops /\ poll_listen \in [AllLoops -> BOOLEAN] /\ loop = [e \in AllLoops |-> loop[e]]
  BY LoopNumbers DEF IInv, LoopType
<1>3. /\ poll_listen' \in [AllLoops -> BOOLEAN]
      /\ \A e \in AllLoops : e # d => poll_listen'[e] = poll_listen[e]
  BY <1>1, <1>2
<1>4. pos[d] = None
  BY <1>1, LoopPos
<1>5. PICK x \in {"cleaning", "accept"} : /\ loop' = [loop EXCEPT ![d] = x]
                                          /\ x = "accept" => poll_listen[d]
  BY <1>1
<1>6. Fetching(d)' => Fetching(d)
  BY <1>1, <1>2, <1>3, <1>5 DEF Fetching
<1>7. mutex' \in {0, MainThread, None}
  BY <1>1 DEF IInv, MainType
<1> QED
  BY <1>1, <1>3, <1>4, <1>5, <1>6, <1>7, LoopGoesOn

LEMMA AcceptBeginsInv ==
    ASSUME IInv, NEW d \in Loops, AcceptBegins(d)
    PROVE  IInv'
<1>1. /\ loop[d] = "accept"
      /\ loop' = [loop EXCEPT ![d] = IF socket_fd THEN "accepting" ELSE "cleaning"]
      /\ UNCHANGED <<threads, main, visiting, seen, poll_listen, taking, connections, cleanup, pos,
                     mutex, raced, socket_fd, listening, wpipe, shutdown, conn, owner, dropped>>
  BY DEF AcceptBegins, mainvars, lists, flags, served
<1>2. d \in AllLoops /\ poll_listen' \in [AllLoops -> BOOLEAN] /\ loop = [e \in AllLoops |-> loop[e]]
  BY <1>1, LoopNumbers DEF IInv, LoopType
<1>3. pos[d] = None /\ Fetching(d)
  BY <1>1, LoopPos DEF Fetching
<1>4. PICK x \in {"cleaning", "accepting"} : loop' = [loop EXCEPT ![d] = x]
  BY <1>1
<1>5. mutex' \in {0, MainThread, None}
  BY <1>1 DEF IInv, MainType
<1> QED
  BY <1>1, <1>2, <1>3, <1>4, <1>5, LoopGoesOn

LEMMA LoopCleanedInv ==
    ASSUME IInv, NEW d \in Loops, LoopCleaned(d)
    PROVE  IInv'
<1>1. /\ loop[d] = "cleaning" /\ pos[d] = None
      /\ loop' = [loop EXCEPT ![d] = "top"]
      /\ mutex' \in {mutex, None}
      /\ UNCHANGED <<threads, main, visiting, seen, poll_listen, taking, connections, cleanup, pos,
                     raced, socket_fd, listening, wpipe, shutdown, conn, owner, dropped>>
  BY DEF LoopCleaned, CleanupOver, mainvars, flags, served
<1>2. d \in AllLoops /\ poll_listen' \in [AllLoops -> BOOLEAN] /\ loop = [e \in AllLoops |-> loop[e]]
  BY <1>1, LoopNumbers DEF IInv, LoopType
<1>3. ~Fetching(d)'
  BY <1>1, <1>2 DEF Fetching
<1>4. mutex' \in {0, MainThread, None}
  BY <1>1 DEF IInv, MainType
<1> QED
  BY <1>1, <1>2, <1>3, <1>4, LoopGoesOn

-----------------------------------------------------------------------------
(* The lists *)

\* The list without an element has all others.
LEMMA UnlinkedFacts ==
    ASSUME NEW list \in Seq(Clients), Once(list), NEW c
    PROVE  /\ Unlinked(list, c) \in Seq(Clients)
           /\ Once(Unlinked(list, c))
           /\ {Unlinked(list, c)[i] : i \in DOMAIN Unlinked(list, c)}
                 = {list[i] : i \in DOMAIN list} \ {c}
<1> DEFINE at == {i \in DOMAIN list : list[i] = c}
<1>1. Len(list) \in Nat /\ DOMAIN list = 1..Len(list) /\ \A i \in 1..Len(list) : list[i] \in Clients
  BY LenProperties, ElementOfSeq
<1>2. CASE at = {}
  <2>1. Unlinked(list, c) = list
    BY <1>2 DEF Unlinked
  <2> QED
    BY <1>2, <2>1
<1>3. CASE at # {}
  <2>1. PICK k : k \in at /\ k = CHOOSE i \in at : TRUE
    BY <1>3
  <2> DEFINE head == SubSeq(list, 1, k - 1)
             tail == SubSeq(list, k + 1, Len(list))
             new == head \o tail
  <2>2. Unlinked(list, c) = new
    BY <1>3, <2>1 DEF Unlinked
  <2>3. k \in 1..Len(list) /\ list[k] = c
    BY <1>1, <2>1
  <2>4. /\ head \in Seq(Clients) /\ Len(head) = k - 1
        /\ \A i \in 1..(k - 1) : head[i] = list[i]
    BY <1>1, <2>3, SubSeqProperties
  <2>5. /\ tail \in Seq(Clients) /\ Len(tail) = Len(list) - k
        /\ \A i \in 1..(Len(list) - k) : tail[i] = list[k + i]
    <3>1. \A i \in (k + 1)..Len(list) : list[i] \in Clients
      BY <1>1, <2>3
    <3>2. /\ tail \in Seq(Clients)
          /\ Len(tail) = IF k + 1 <= Len(list) THEN Len(list) - (k + 1) + 1 ELSE 0
          /\ \A i \in 1..(Len(list) - (k + 1) + 1) : tail[i] = list[(k + 1) + i - 1]
      BY <1>1, <2>3, <3>1, SubSeqProperties
    <3> HIDE DEF tail
    <3>3. Len(tail) = Len(list) - k
      <4>1. CASE k + 1 <= Len(list)
        <5>1. Len(tail) = Len(list) - (k + 1) + 1
          BY <3>2, <4>1
        <5> QED
          BY <1>1, <2>3, <5>1
      <4>2. CASE ~(k + 1 <= Len(list))
        <5>1. Len(tail) = 0
          BY <3>2, <4>2
        <5>2. \A n \in Nat : \A m \in 1..n : ~(m + 1 <= n) => n - m = 0
          OBVIOUS
        <5>3. Len(list) - k = 0
          BY <1>1, <2>3, <4>2, <5>2
        <5> QED
          BY <5>1, <5>3
      <4> QED
        BY <4>1, <4>2
    <3>4. ASSUME NEW i \in 1..(Len(list) - k) PROVE tail[i] = list[k + i]
      <4>1. i \in 1..(Len(list) - (k + 1) + 1) /\ (k + 1) + i - 1 = k + i
        BY <1>1, <2>3
      <4> QED
        BY <3>2, <4>1
    <3> QED
      BY <3>2, <3>3, <3>4
  <2> HIDE DEF head, tail
  <2>6. /\ new \in Seq(Clients) /\ DOMAIN new = 1..(Len(list) - 1)
        /\ \A i \in 1..(Len(list) - 1) : new[i] = IF i <= k - 1 THEN list[i] ELSE list[i + 1]
    <3>1. /\ new \in Seq(Clients) /\ Len(new) = Len(head) + Len(tail)
          /\ \A i \in 1..(Len(head) + Len(tail)) :
                new[i] = IF i <= Len(head) THEN head[i] ELSE tail[i - Len(head)]
      BY <2>4, <2>5, ConcatProperties
    <3>2. DOMAIN new = 1..Len(new)
      BY <3>1, LenProperties
    <3> HIDE DEF new
    <3>3. Len(new) = Len(list) - 1
      BY <1>1, <2>3, <2>4, <2>5, <3>1
    <3>4. ASSUME NEW i \in 1..(Len(list) - 1)
          PROVE  new[i] = IF i <= k - 1 THEN list[i] ELSE list[i + 1]
      <4>1. new[i] = IF i <= k - 1 THEN head[i] ELSE tail[i - (k - 1)]
        BY <1>1, <2>3, <2>4, <2>5, <3>1
      <4>2. CASE i <= k - 1
        BY <2>3, <2>4, <4>1, <4>2
      <4>3. CASE ~(i <= k - 1)
        <5>1. i - (k - 1) \in 1..(Len(list) - k) /\ k + (i - (k - 1)) = i + 1
          BY <1>1, <2>3, <4>3
        <5>2. tail[i - (k - 1)] = list[i + 1]
          BY <2>5, <5>1
        <5> QED
          BY <4>1, <4>3, <5>2
      <4> QED
        BY <4>2, <4>3
    <3>5. DOMAIN new = 1..(Len(list) - 1)
      BY <3>2, <3>3
    <3> QED
      BY <3>1, <3>4, <3>5
  <2> HIDE DEF new
  <2>7. Once(new)
    <3> SUFFICES ASSUME NEW i \in DOMAIN new, NEW j \in DOMAIN new, new[i] = new[j] PROVE i = j
      BY DEF Once
    <3> DEFINE at1 == IF i <= k - 1 THEN i ELSE i + 1
               at2 == IF j <= k - 1 THEN j ELSE j + 1
    <3>1. i \in 1..(Len(list) - 1) /\ j \in 1..(Len(list) - 1)
      BY <2>6
    <3>2. new[i] = list[at1] /\ new[j] = list[at2]
      BY <2>6, <3>1
    <3>3. at1 \in DOMAIN list /\ at2 \in DOMAIN list
      BY <1>1, <2>3, <3>1
    <3>4. at1 = at2 => i = j
      BY <2>3, <3>1
    <3> HIDE DEF at1, at2
    <3>5. list[at1] = list[at2] => at1 = at2
      BY <1>1, <3>3 DEF Once
    <3> QED
      BY <3>2, <3>4, <3>5
  <2>8. ASSUME NEW i \in DOMAIN new PROVE new[i] \in {list[j] : j \in DOMAIN list} \ {c}
    <3>1. PICK j \in 1..Len(list) : new[i] = list[j] /\ j # k
      BY <1>1, <2>3, <2>6
    <3> QED
      BY <1>1, <2>3, <3>1 DEF Once
  <2>9. ASSUME NEW j \in DOMAIN list, list[j] # c
        PROVE  \E i \in DOMAIN new : new[i] = list[j]
    <3>1. CASE j < k
      BY <1>1, <2>3, <2>6, <3>1
    <3>2. CASE j > k
      <4>1. j - 1 \in DOMAIN new /\ new[j - 1] = list[j]
        BY <1>1, <2>3, <2>6, <3>2
      <4> QED
        BY <4>1
    <3> QED
      BY <1>1, <2>3, <2>9, <3>1, <3>2
  <2> QED
    BY <2>2, <2>6, <2>7, <2>8, <2>9
<1> QED
  BY <1>2, <1>3

\* A list with one element more at its head.
LEMMA PutFacts ==
    ASSUME NEW list \in Seq(Clients), Once(list), NEW c \in Clients,
           c \notin {list[i] : i \in DOMAIN list}
    PROVE  /\ <<c>> \o list \in Seq(Clients)
           /\ Once(<<c>> \o list)
           /\ {(<<c>> \o list)[i] : i \in DOMAIN (<<c>> \o list)}
                 = {list[i] : i \in DOMAIN list} \cup {c}
<1> DEFINE new == <<c>> \o list
<1>1. Len(list) \in Nat /\ DOMAIN list = 1..Len(list)
  BY LenProperties
<1>2. <<c>> \in Seq(Clients) /\ Len(<<c>>) = 1 /\ <<c>>[1] = c
  OBVIOUS
<1>3. /\ new \in Seq(Clients) /\ Len(new) = Len(<<c>>) + Len(list)
      /\ \A i \in 1..(Len(<<c>>) + Len(list)) :
            new[i] = IF i <= Len(<<c>>) THEN <<c>>[i] ELSE list[i - Len(<<c>>)]
  BY <1>2, ConcatProperties
<1>4. DOMAIN new = 1..Len(new)
  BY <1>3, LenProperties
<1> HIDE DEF new
<1>5. /\ DOMAIN new = 1..(Len(list) + 1)
      /\ new[1] = c
      /\ \A i \in 1..Len(list) : new[i + 1] = list[i]
  BY <1>1, <1>2, <1>3, <1>4
<1>6. ASSUME NEW i \in DOMAIN new, i # 1
      PROVE  i - 1 \in DOMAIN list /\ new[i] = list[i - 1]
  BY <1>1, <1>2, <1>3, <1>5, <1>6
<1>7. ASSUME NEW i \in DOMAIN list
      PROVE  i + 1 \in DOMAIN new /\ new[i + 1] = list[i]
  BY <1>1, <1>5
<1>8. 1 \in DOMAIN new
  BY <1>1, <1>5
<1>9. Once(new)
  <2> SUFFICES ASSUME NEW i \in DOMAIN new, NEW j \in DOMAIN new, new[i] = new[j] PROVE i = j
    BY DEF Once
  <2>1. i = 1 <=> j = 1
    BY <1>5, <1>6
  <2>2. CASE i # 1
    <3>1. i - 1 = j - 1
      BY <1>6, <2>1, <2>2 DEF Once
    <3> QED
      BY <1>1, <1>5, <3>1
  <2> QED
    BY <2>1, <2>2
<1>10. {new[i] : i \in DOMAIN new} = {list[i] : i \in DOMAIN list} \cup {c}
  <2>1. ASSUME NEW i \in DOMAIN new PROVE new[i] \in {list[j] : j \in DOMAIN list} \cup {c}
    BY <1>5, <1>6
  <2>2. ASSUME NEW j \in DOMAIN list PROVE list[j] \in {new[i] : i \in DOMAIN new}
    BY <1>7
  <2>3. c \in {new[i] : i \in DOMAIN new}
    BY <1>5, <1>8
  <2> QED
    BY <2>1, <2>2, <2>3
<1> QED
  BY <1>3, <1>9, <1>10 DEF new

-----------------------------------------------------------------------------
(* A connection comes *)

\* Nothing was raced, dropped or stopped while the server listens.
LEMMA WhileListening ==
    ASSUME IInv, listening
    PROVE  /\ ~raced /\ ~shutdown /\ dropped = {} /\ pos[MainThread] = None
           /\ main \notin Closed
BY DEF IInv, Stages, FlagType

\* Lists and threads deal with connections.
LEMMA ListElements ==
    ASSUME ListType
    PROVE  /\ \A d \in AllLoops : Listed(d) \subseteq Clients
           /\ \A d \in AllLoops : pos[d] \in Clients \cup {None}
           /\ pos[MainThread] \in Clients \cup {None}
<1>1. ASSUME NEW d \in AllLoops PROVE Listed(d) \subseteq Clients
  <2>1. cleanup[d] \in Seq(Clients)
    BY DEF ListType
  <2>2. DOMAIN cleanup[d] = 1..Len(cleanup[d])
    BY <2>1, LenProperties
  <2> QED
    BY <2>1, <2>2, ElementOfSeq DEF Listed
<1> QED
  BY <1>1 DEF ListType

LEMMA AcceptInv ==
    ASSUME IInv, NEW d \in Loops, Accept(d)
    PROVE  IInv'
<1>1. /\ loop[d] = "accepting"
      /\ UNCHANGED <<threads, main, visiting, seen, poll_listen, connections, cleanup, pos, mutex,
                     raced, socket_fd, listening, wpipe, shutdown, dropped>>
  BY DEF Accept, mainvars, lists, flags
<1>2. Loops \subseteq AllLoops /\ Loops' = Loops /\ \A e : LimitOf(e)' = LimitOf(e)
  BY <1>1, LoopNumbers, SameThreads DEF IInv
<1>3. pos[d] = None /\ Fetching(d) /\ mutex' \in {0, MainThread, None}
  BY <1>1, LoopPos DEF Fetching, IInv, MainType
<1>4. CASE loop' = [loop EXCEPT ![d] = "cleaning"] /\ UNCHANGED <<conn, owner, taking>>
  <2>1. poll_listen' \in [AllLoops -> BOOLEAN]
    BY <1>1 DEF IInv, LoopType
  <2> QED
    BY <1>1, <1>3, <1>4, <2>1, LoopGoesOn
<1>5. CASE \E c \in Queued :
              /\ listening
              /\ conn' = [conn EXCEPT ![c] = "accepted"]
              /\ owner' = [owner EXCEPT ![c] = d]
              /\ taking' = [taking EXCEPT ![d] = c]
              /\ loop' = [loop EXCEPT ![d] = "adding"]
  <2>1. PICK c \in Queued :
              /\ listening
              /\ conn' = [conn EXCEPT ![c] = "accepted"]
              /\ owner' = [owner EXCEPT ![c] = d]
              /\ taking' = [taking EXCEPT ![d] = c]
              /\ loop' = [loop EXCEPT ![d] = "adding"]
    BY <1>5
  <2>2. c \in Clients /\ conn[c] = "queued"
    BY DEF Queued
  <2>3. LoopType' /\ ConnType'
    BY <1>1, <1>2, <2>1, <2>2 DEF IInv, LoopType, ConnType
  <2>4. /\ loop'[d] = "adding" /\ \A e \in AllLoops : e # d => loop'[e] = loop[e]
        /\ taking'[d] = c /\ \A e \in AllLoops : e # d => taking'[e] = taking[e]
        /\ conn'[c] = "accepted" /\ \A x \in Clients : x # c => conn'[x] = conn[x]
        /\ owner'[c] = d /\ \A x \in Clients : x # c => owner'[x] = owner[x]
    BY <1>2, <2>1, <2>2 DEF IInv, LoopType, ConnType
  <2>5. /\ ~raced /\ ~shutdown /\ dropped = {} /\ pos[MainThread] = None
        /\ main \notin Closed
    BY <2>1, WhileListening
  <2>6. MainType' /\ FlagType' /\ ListType'
    BY <1>1 DEF IInv, MainType, FlagType, ListType
  <2>7. Stages'
    BY <1>1, <1>2, <2>1, <2>5 DEF IInv, Stages, Closed, Quiesced
  <2>8. Blank'
    BY <1>1, <1>2 DEF IInv, Blank
  <2>9. ThreadsOK'
    <3>1. \A e \in AllLoops \ Loops' : loop'[e] = "off"
      BY <1>2, <2>4 DEF IInv, ThreadsOK
    <3>2. \A e \in AllLoops : pos'[e] # None => loop'[e] = "cleaning"
      BY <1>1, <1>2, <1>3, <2>4 DEF IInv, ThreadsOK
    <3>3. \A e \in Loops' : loop'[e] = "adding" =>
             taking'[e] \in Clients /\ conn'[taking'[e]] = "accepted" /\ owner'[taking'[e]] = e
      BY <1>2, <2>2, <2>4 DEF IInv, ThreadsOK
    <3>4. ASSUME NEW x \in Clients
          PROVE  /\ conn'[x] \in {"accepted", "live", "finished", "cleanup"} => owner'[x] \in Loops'
                 /\ conn'[x] = "accepted" => loop'[owner'[x]] = "adding" /\ taking'[owner'[x]] = x
      <4>1. CASE x = c
        BY <1>2, <2>4, <4>1
      <4>2. CASE x # c
        BY <1>1, <1>2, <2>4, <4>2 DEF IInv, ThreadsOK
      <4> QED
        BY <4>1, <4>2
    <3> QED
      BY <3>1, <3>2, <3>3, <3>4 DEF ThreadsOK
  <2>10. /\ \A e : Held(e)' = Held(e)
         /\ \A e : At({"live", "finished"}, e)' = At({"live", "finished"}, e)
    BY <2>2, <2>4 DEF Held, At
  <2>11. /\ \A e : Listed(e)' = Listed(e)
         /\ \A e : ~MainIn(e)'
    BY <1>1, <2>5, SameLists DEF MainIn
  <2>12. ListsOwned'
    <3> SUFFICES ASSUME NEW e \in Loops
                 PROVE  /\ Once(cleanup'[e])
                        /\ \A x \in Listed(e) : owner'[x] = e /\ conn'[x] \in {"cleanup", "gone"}
                        /\ pos[e] # None =>
                              owner'[pos[e]] = e /\ conn'[pos[e]] \in {"cleanup", "gone"}
      BY <1>1, <1>2, <2>11 DEF ListsOwned, Once
    <3>1. Listed(e) \subseteq Clients /\ pos[e] \in Clients \cup {None}
      BY <1>2, ListElements DEF IInv
    <3> QED
      BY <1>1, <2>2, <2>4, <3>1 DEF IInv, ListsOwned
  <2>13. Counters'
    <3> SUFFICES ASSUME NEW e \in Loops PROVE Exact(e)'
      BY <1>2 DEF Counters
    <3>1. Exact(e)
      BY <2>5 DEF IInv, Counters
    <3>2. loop'[e] = "counting" <=> loop[e] = "counting"
      BY <1>1, <1>2, <2>4
    <3>3. \A x \in Listed(e) : conn'[x] = "cleanup"
      BY <2>1, <2>2, <3>1 DEF Exact, IInv, ConnType
    <3>4. pos[e] # None => conn'[pos[e]] = "cleanup"
      BY <2>1, <2>2, <3>1 DEF Exact, IInv, ConnType
    <3> QED
      BY <1>1, <2>10, <2>11, <3>1, <3>2, <3>3, <3>4 DEF Exact
  <2>14. Complete'
    BY <1>1, <2>4, <2>11 DEF IInv, Complete, Listed
  <2>15. Room'
    <3>1. \A e \in Loops : Fetching(e)' => Fetching(e)
      BY <1>1, <1>2, <1>3, <2>4 DEF Fetching
    <3> QED
      BY <1>2, <2>4, <2>10, <3>1 DEF IInv, Room
  <2>16. Uncounted'
    BY <1>1, <1>2, <2>4, <2>10 DEF IInv, Uncounted
  <2>17. Drained' /\ Joined' /\ NothingLeft'
    <3>1. main # "returned"
      BY <1>1, <1>2 DEF IInv, NothingLeft
    <3> QED
      BY <1>1, <2>5, <3>1 DEF Drained, Joined, NothingLeft, Closed
  <2> QED
    BY <2>3, <2>6, <2>7, <2>8, <2>9, <2>12, <2>13, <2>14, <2>15, <2>16, <2>17 DEF IInv
<1> QED
  BY <1>1, <1>4, <1>5 DEF Accept

\* The lists, when the connections at their end stay where they are.
LEMMA OwnedKept ==
    ASSUME IInv, UNCHANGED <<threads, cleanup, pos>>, \A e : MainIn(e)' => MainIn(e),
           \A x \in Clients : conn[x] \in {"cleanup", "gone"} =>
               owner'[x] = owner[x] /\ conn'[x] = conn[x]
    PROVE  ListsOwned'
<1>1. Loops' = Loops /\ Loops \subseteq AllLoops
  BY LoopNumbers, SameThreads DEF IInv
<1> SUFFICES ASSUME NEW e \in Loops
             PROVE  /\ Once(cleanup'[e])
                    /\ \A x \in Listed(e) : owner'[x] = e /\ conn'[x] \in {"cleanup", "gone"}
                    /\ pos[e] # None =>
                          owner'[pos[e]] = e /\ conn'[pos[e]] \in {"cleanup", "gone"}
                    /\ MainIn(e) =>
                          /\ owner'[pos[MainThread]] = e
                          /\ conn'[pos[MainThread]] \in {"cleanup", "gone"}
  BY <1>1, SameLists DEF ListsOwned, Once
<1>2. /\ Listed(e) \subseteq Clients /\ pos[e] \in Clients \cup {None}
      /\ pos[MainThread] \in Clients \cup {None}
  BY <1>1, ListElements DEF IInv
<1>3. MainIn(e) => pos[MainThread] \in Clients
  BY <1>2 DEF MainIn
<1> QED
  BY <1>2, <1>3 DEF IInv, ListsOwned

\* Likewise, and the counter follows.
LEMMA ExactKept ==
    ASSUME IInv, UNCHANGED <<cleanup, pos>>, \A e : MainIn(e)' => MainIn(e),
           \A x \in Clients : conn[x] = "cleanup" => conn'[x] = conn[x],
           NEW d \in Loops, Exact(d),
           connections'[d] = IF loop'[d] # "counting" THEN Cardinality(Held(d)')
                             ELSE IF Cardinality(Held(d)') = 0 THEN UnsignedMax
                             ELSE Cardinality(Held(d)') - 1
    PROVE  Exact(d)'
<1>1. d \in AllLoops
  BY LoopNumbers DEF IInv
<1>2. /\ Listed(d) \subseteq Clients /\ pos[d] \in Clients \cup {None}
      /\ pos[MainThread] \in Clients \cup {None}
  BY <1>1, ListElements DEF IInv
<1>3. MainIn(d) => pos[MainThread] \in Clients
  BY <1>2 DEF MainIn
<1>4. Listed(d)' = Listed(d)
  BY SameLists
<1> QED
  BY <1>2, <1>3, <1>4 DEF Exact

\* What is known where a thread is going to add a connection.
LEMMA WhileAdding ==
    ASSUME IInv, NEW d \in Loops, loop[d] = "adding"
    PROVE  /\ taking[d] \in Clients /\ conn[taking[d]] = "accepted" /\ owner[taking[d]] = d
           /\ connections[d] = Cardinality(Held(d)) /\ Cardinality(Held(d)) < LimitOf(d)
           /\ Exact(d)
<1>1. Fetching(d)
  BY DEF Fetching
<1>2. Exact(d)
  BY <1>1 DEF IInv, Counters
<1> QED
  BY <1>1, <1>2 DEF IInv, ThreadsOK, Room, Exact

LEMMA AddConnectionInv ==
    ASSUME IInv, NEW d \in Loops, AddConnection(d)
    PROVE  IInv'
<1>1. /\ loop[d] = "adding" /\ taking' = [taking EXCEPT ![d] = None]
      /\ UNCHANGED <<threads, main, visiting, seen, poll_listen, connections, cleanup, pos, mutex,
                     raced, socket_fd, listening, wpipe, shutdown, owner, dropped>>
  BY DEF AddConnection, mainvars, lists, flags
<1>2. PICK c \in Clients : c = taking[d] /\ conn[c] = "accepted" /\ owner[c] = d
  BY <1>1, WhileAdding
<1>3. connections[d] = Cardinality(Held(d)) /\ Cardinality(Held(d)) < LimitOf(d) /\ Exact(d)
  BY <1>1, WhileAdding
<1>4. Cardinality(Held(d)) \in Nat /\ Held(d) \in SUBSET Clients /\ LimitOf(d) \in Nat
  BY HeldFacts, LimitType DEF IInv
<1>5. conn' = [conn EXCEPT ![c] = "live"] /\ loop' = [loop EXCEPT ![d] = "counting"]
  <2>1. connections[d] # LimitOf(d)
    BY <1>3, <1>4
  <2> QED
    BY <1>2, <2>1 DEF AddConnection
<1>6. Loops \subseteq AllLoops /\ Loops' = Loops /\ \A e : LimitOf(e)' = LimitOf(e)
  BY <1>1, LoopNumbers, SameThreads DEF IInv
<1>7. /\ loop'[d] = "counting" /\ \A e \in AllLoops : e # d => loop'[e] = loop[e]
      /\ \A e \in AllLoops : e # d => taking'[e] = taking[e]
      /\ conn'[c] = "live" /\ \A x \in Clients : x # c => conn'[x] = conn[x]
  BY <1>1, <1>2, <1>5, <1>6 DEF IInv, LoopType, ConnType
<1>8. pos[d] = None
  BY <1>1, LoopPos
<1>9. MainType' /\ FlagType' /\ LoopType' /\ ListType' /\ ConnType'
  <2>1. MainType' /\ FlagType' /\ ListType'
    BY <1>1 DEF IInv, MainType, FlagType, ListType
  <2>2. LoopType'
    BY <1>1, <1>5, <1>6 DEF IInv, LoopType
  <2>3. ConnType'
    BY <1>1, <1>5 DEF IInv, ConnType
  <2> QED
    BY <2>1, <2>2, <2>3
<1>10. Stages'
  <2>1. Queued' \subseteq Queued
    BY <1>2, <1>7 DEF Queued
  <2> QED
    BY <1>1, <1>6, <2>1 DEF IInv, Stages
<1>11. Blank'
  BY <1>1, <1>6 DEF IInv, Blank
<1>12. ThreadsOK'
  <2>1. \A e \in AllLoops \ Loops' : loop'[e] = "off"
    BY <1>6, <1>7 DEF IInv, ThreadsOK
  <2>2. \A e \in AllLoops : pos'[e] # None => loop'[e] = "cleaning"
    BY <1>1, <1>6, <1>7, <1>8 DEF IInv, ThreadsOK
  <2>3. ASSUME NEW e \in Loops, loop'[e] = "adding"
        PROVE  taking'[e] \in Clients /\ conn'[taking'[e]] = "accepted" /\ owner'[taking'[e]] = e
    <3>1. e # d /\ loop[e] = "adding" /\ taking'[e] = taking[e]
      BY <1>6, <1>7, <2>3
    <3>2. taking[e] \in Clients /\ conn[taking[e]] = "accepted" /\ owner[taking[e]] = e
      BY <3>1 DEF IInv, ThreadsOK
    <3> QED
      BY <1>1, <1>2, <1>7, <3>1, <3>2
  <2>4. ASSUME NEW x \in Clients
        PROVE  /\ conn'[x] \in {"accepted", "live", "finished", "cleanup"} => owner'[x] \in Loops'
               /\ conn'[x] = "accepted" => loop'[owner'[x]] = "adding" /\ taking'[owner'[x]] = x
    <3>1. CASE x = c
      BY <1>1, <1>2, <1>6, <1>7, <3>1
    <3>2. CASE x # c
      <4>1. conn'[x] = conn[x] /\ owner'[x] = owner[x]
        BY <1>1, <1>7, <3>2
      <4>2. conn[x] = "accepted" =>
               owner[x] \in Loops /\ loop[owner[x]] = "adding" /\ taking[owner[x]] = x
        BY DEF IInv, ThreadsOK
      <4>3. conn[x] = "accepted" => owner[x] # d
        BY <1>2, <3>2, <4>2
      <4> QED
        BY <1>6, <1>7, <4>1, <4>2, <4>3 DEF IInv, ThreadsOK
    <3> QED
      BY <3>1, <3>2
  <2> QED
    BY <1>6, <2>1, <2>2, <2>3, <2>4 DEF ThreadsOK
<1>13. \A e : MainIn(e)' <=> MainIn(e)
  BY <1>1 DEF MainIn
<1>14. ListsOwned'
  BY <1>1, <1>2, <1>7, <1>13, OwnedKept
<1>15. /\ Held(d)' = Held(d) \cup {c} /\ c \notin Held(d)
       /\ \A e \in Loops : e # d => Held(e)' = Held(e)
       /\ c \in At({"live", "finished"}, d)'
       /\ \A e \in Loops : e # d => At({"live", "finished"}, e)' = At({"live", "finished"}, e)
  BY <1>1, <1>2, <1>7 DEF Held, At
<1>16. Cardinality(Held(d)') = Cardinality(Held(d)) + 1
  <2>1. IsFiniteSet(Held(d))
    BY <1>4, CountFacts
  <2> QED
    BY <1>15, <2>1, FS_AddElement
<1>17. Counters'
  <2> SUFFICES ASSUME NEW e \in Loops, ~raced \/ Fetching(e)' PROVE Exact(e)'
    BY <1>1, <1>6 DEF Counters
  <2>1. CASE e = d
    <3>1. connections'[d] = Cardinality(Held(d)') - 1 /\ Cardinality(Held(d)') # 0
      BY <1>1, <1>3, <1>4, <1>16
    <3> QED
      BY <1>1, <1>2, <1>3, <1>7, <1>13, <2>1, <3>1, ExactKept
  <2>2. CASE e # d
    <3>1. Fetching(e)' <=> Fetching(e)
      BY <1>1, <1>6, <1>7, <2>2 DEF Fetching
    <3>2. Exact(e) /\ loop'[e] = loop[e]
      BY <1>6, <1>7, <2>2, <3>1 DEF IInv, Counters
    <3>3. connections'[e] = IF loop'[e] # "counting" THEN Cardinality(Held(e)')
                             ELSE IF Cardinality(Held(e)') = 0 THEN UnsignedMax
                             ELSE Cardinality(Held(e)') - 1
      BY <1>1, <1>15, <2>2, <3>2 DEF Exact
    <3> QED
      BY <1>1, <1>2, <1>7, <1>13, <3>2, <3>3, ExactKept
  <2> QED
    BY <2>1, <2>2
<1>18. Complete'
  <2>1. \A e : Listed(e)' = Listed(e)
    BY <1>1, SameLists
  <2>2. \A x \in Clients : Listed(owner[x])' = Listed(owner[x])
    BY <1>1 DEF Listed
  <2> QED
    BY <1>1, <1>7, <2>2 DEF IInv, Complete
<1>19. Room'
  <2>1. ASSUME NEW e \in Loops
        PROVE  /\ Cardinality(Held(e)') <= LimitOf(e)
               /\ Fetching(e)' => Cardinality(Held(e)') < LimitOf(e)
    <3>1. CASE e = d
      <4>1. ~Fetching(d)'
        BY <1>7 DEF Fetching
      <4> QED
        BY <1>3, <1>4, <1>16, <3>1, <4>1
    <3>2. CASE e # d
      <4>1. Fetching(e)' <=> Fetching(e)
        BY <1>1, <1>6, <1>7, <3>2 DEF Fetching
      <4> QED
        BY <1>15, <3>2, <4>1 DEF IInv, Room
    <3> QED
      BY <3>1, <3>2
  <2> QED
    BY <1>6, <1>7, <2>1 DEF IInv, Room
<1>20. Uncounted'
  BY <1>1, <1>6, <1>7, <1>15 DEF IInv, Uncounted
<1>21. \A e \in AllLoops : AtMostOne(e)' <=> AtMostOne(e)
  <2>1. \A e \in AllLoops : Unanswered(e)' = Unanswered(e)
    BY <1>1, <1>2, <1>7 DEF Unanswered
  <2> QED
    BY <2>1 DEF AtMostOne
<1>22. Before' = Before /\ Before \subseteq Loops /\ OwnedBy(Before)' = OwnedBy(Before)
  BY <1>1, <1>6 DEF Before, OwnedBy
<1>23. Drained'
  BY <1>1, <1>6, <1>21, <1>22 DEF IInv, Drained
<1>24. Joined'
  <2>1. ASSUME NEW e \in Before, Over(e) PROVE Over(e)'
    <3>1. e # d /\ loop'[e] = loop[e]
      BY <1>1, <1>6, <1>7, <1>22, <2>1 DEF Over
    <3> QED
      BY <1>1, <1>2, <1>7, <2>1, <3>1 DEF Over
  <2>2. main = "closing" => loop'[visiting] = "ended"
    BY <1>1, <1>6, <1>7 DEF IInv, Joined, Stages
  <2> QED
    BY <1>1, <1>22, <2>1, <2>2 DEF IInv, Joined
<1>25. NothingLeft'
  BY <1>1, <1>6 DEF IInv, NothingLeft
<1> QED
  BY <1>9, <1>10, <1>11, <1>12, <1>14, <1>17, <1>18, <1>19, <1>20, <1>23, <1>24, <1>25 DEF IInv

LEMMA CountConnectionInv ==
    ASSUME IInv, NEW d \in Loops, CountConnection(d)
    PROVE  IInv'
<1>1. /\ loop[d] = "counting" /\ loop' = [loop EXCEPT ![d] = "cleaning"]
      /\ raced' = (raced \/ MainIn(d))
      /\ \/ connections' = [connections EXCEPT ![d] = (@ + 1) % (UnsignedMax + 1)]
         \/ MainIn(d) /\ connections' = connections
      /\ UNCHANGED <<threads, main, visiting, seen, poll_listen, taking, cleanup, pos, mutex,
                     socket_fd, listening, wpipe, shutdown, conn, owner, dropped>>
  BY DEF CountConnection, mainvars, flags, served
<1>2. Loops \subseteq AllLoops /\ Loops' = Loops /\ \A e : LimitOf(e)' = LimitOf(e)
  BY <1>1, LoopNumbers, SameThreads DEF IInv
<1>3. /\ loop'[d] = "cleaning" /\ \A e \in AllLoops : e # d => loop'[e] = loop[e]
      /\ \A e \in AllLoops : e # d => connections'[e] = connections[e]
  BY <1>1, <1>2 DEF IInv, LoopType, ListType
<1>4. connections[d] \in 0..UnsignedMax /\ connections[d] + 1 \in Int
  BY <1>2, ServerAssumption DEF IInv, ListType
<1>5. (connections[d] + 1) % (UnsignedMax + 1) \in 0..UnsignedMax
  BY <1>4, Wrapped
<1>6. raced => raced'
  BY <1>1
<1>7. MainIn(d) => ~listening
  BY DEF MainIn, IInv, Stages
<1>8. MainType' /\ FlagType' /\ LoopType' /\ ListType' /\ ConnType'
  <2>1. MainType' /\ ConnType'
    BY <1>1 DEF IInv, MainType, ConnType
  <2>2. FlagType'
    <3>1. raced' \in BOOLEAN
      BY <1>1
    <3> QED
      BY <1>1, <3>1 DEF IInv, FlagType
  <2>3. LoopType'
    BY <1>1, <1>2 DEF IInv, LoopType
  <2>4. ListType'
    <3>1. connections' \in [AllLoops -> 0..UnsignedMax]
      BY <1>1, <1>5 DEF IInv, ListType
    <3> QED
      BY <1>1, <3>1 DEF IInv, ListType
  <2> QED
    BY <2>1, <2>2, <2>3, <2>4
<1>9. Stages'
  BY <1>1, <1>2, <1>7, SameConnections DEF IInv, Stages
<1>10. Blank'
  BY <1>1, <1>2 DEF IInv, Blank
<1>11. pos[d] = None
  BY <1>1, LoopPos
<1>12. ThreadsOK'
  <2>1. \A e \in AllLoops \ Loops' : loop'[e] = "off"
    BY <1>2, <1>3 DEF IInv, ThreadsOK
  <2>2. \A e \in AllLoops : pos'[e] # None => loop'[e] = "cleaning"
    BY <1>1, <1>2, <1>3 DEF IInv, ThreadsOK
  <2>3. \A e \in Loops' : loop'[e] = "adding" =>
           taking'[e] \in Clients /\ conn'[taking'[e]] = "accepted" /\ owner'[taking'[e]] = e
    BY <1>1, <1>2, <1>3 DEF IInv, ThreadsOK
  <2>4. \A c \in Clients :
          /\ conn'[c] \in {"accepted", "live", "finished", "cleanup"} => owner'[c] \in Loops'
          /\ conn'[c] = "accepted" => loop'[owner'[c]] = "adding" /\ taking'[owner'[c]] = c
    BY <1>1, <1>2, <1>3 DEF IInv, ThreadsOK
  <2> QED
    BY <2>1, <2>2, <2>3, <2>4 DEF ThreadsOK
<1>13. \A e : MainIn(e)' <=> MainIn(e)
  BY <1>1 DEF MainIn
<1>14. ListsOwned'
  BY <1>1, <1>13, SameOwned DEF IInv
<1>15. \A e : Held(e)' = Held(e)
  BY <1>1, SameConnections
<1>16. Counters'
  <2> SUFFICES ASSUME NEW e \in Loops, ~raced' \/ Fetching(e)' PROVE Exact(e)'
    BY <1>1, <1>2 DEF Counters
  <2>1. CASE e = d
    <3>1. ~raced /\ ~MainIn(d)
      BY <1>1, <1>3, <2>1 DEF Fetching
    <3>2. Exact(d) /\ connections' = [connections EXCEPT ![d] = (@ + 1) % (UnsignedMax + 1)]
      BY <1>1, <3>1 DEF IInv, Counters
    <3>3. connections[d] = IF Cardinality(Held(d)) = 0 THEN UnsignedMax
                           ELSE Cardinality(Held(d)) - 1
      BY <1>1, <3>2 DEF Exact
    <3>4. Cardinality(Held(d)) \in Nat /\ Cardinality(Held(d)) < UnsignedMax /\ UnsignedMax \in Nat
      BY HeldFacts, ServerAssumption
    <3>5. connections'[d] = (connections[d] + 1) % (UnsignedMax + 1)
      BY <1>2, <3>2 DEF IInv, ListType
    <3>6. connections'[d] = Cardinality(Held(d))
      <4>1. CASE Cardinality(Held(d)) = 0
        <5>1. connections[d] + 1 = UnsignedMax + 1
          BY <3>3, <4>1
        <5> QED
          BY <1>4, <3>5, <4>1, <5>1, Wrapped
      <4>2. CASE Cardinality(Held(d)) # 0
        <5>1. connections[d] + 1 = Cardinality(Held(d)) /\ connections[d] + 1 \in 0..UnsignedMax
          BY <3>3, <3>4, <4>2
        <5> QED
          BY <1>4, <3>5, <5>1, Wrapped
      <4> QED
        BY <4>1, <4>2
    <3> QED
      BY <1>1, <1>3, <1>13, <1>15, <2>1, <3>2, <3>6, ExactKept
  <2>2. CASE e # d
    <3>1. Fetching(e)' <=> Fetching(e)
      BY <1>1, <1>2, <1>3, <2>2 DEF Fetching
    <3>2. Exact(e) /\ loop'[e] = loop[e]
      BY <1>2, <1>3, <1>6, <2>2, <3>1 DEF IInv, Counters
    <3>3. connections'[e] = IF loop'[e] # "counting" THEN Cardinality(Held(e)')
                             ELSE IF Cardinality(Held(e)') = 0 THEN UnsignedMax
                             ELSE Cardinality(Held(e)') - 1
      BY <1>2, <1>3, <1>15, <2>2, <3>2 DEF Exact
    <3> QED
      BY <1>1, <1>13, <3>2, <3>3, ExactKept
  <2> QED
    BY <2>1, <2>2
<1>17. Complete'
  <2>1. \A x \in Clients : Listed(owner[x])' = Listed(owner[x])
    BY <1>1 DEF Listed
  <2> QED
    BY <1>1, <1>6, <2>1 DEF IInv, Complete
<1>18. Room'
  <2>1. \A e \in Loops : Fetching(e)' => Fetching(e)
    BY <1>1, <1>2, <1>3 DEF Fetching
  <2> QED
    BY <1>1, <1>2, <1>15, <2>1 DEF IInv, Room
<1>19. Uncounted'
  <2>1. \A e \in Loops : At({"live", "finished"}, e)' = At({"live", "finished"}, e)
    BY <1>1, SameConnections
  <2> QED
    BY <1>1, <1>2, <1>3, <2>1 DEF IInv, Uncounted
<1>20. \A e : AtMostOne(e)' <=> AtMostOne(e)
  BY <1>1, SameUnanswered
<1>21. Before' = Before /\ Before \subseteq Loops /\ OwnedBy(Before)' = OwnedBy(Before)
  BY <1>1, <1>2 DEF Before, OwnedBy
<1>22. Drained'
  BY <1>1, <1>2, <1>6, <1>20, <1>21 DEF IInv, Drained
<1>23. Joined'
  <2>1. ASSUME NEW e \in Before, Over(e) PROVE Over(e)'
    <3>1. e # d /\ loop'[e] = loop[e]
      BY <1>1, <1>2, <1>3, <1>21, <2>1 DEF Over
    <3> QED
      BY <1>1, <1>6, <2>1, <3>1 DEF Over
  <2>2. main = "closing" => loop'[visiting] = "ended"
    BY <1>1, <1>2, <1>3 DEF IInv, Joined, Stages
  <2> QED
    BY <1>1, <1>21, <2>1, <2>2 DEF IInv, Joined
<1>24. NothingLeft'
  BY <1>1, <1>2 DEF IInv, NothingLeft
<1> QED
  BY <1>8, <1>9, <1>10, <1>12, <1>14, <1>16, <1>17, <1>18, <1>19, <1>22, <1>23, <1>24 DEF IInv

-----------------------------------------------------------------------------
(* A connection ends *)

\* A connection is put into the list, by the worker that serves it or by its
\* own thread.
LEMMA MoveToCleanupInv ==
    ASSUME IInv, Up, NEW d \in Loops, NEW c \in Clients, owner[c] = d,
           MoveToCleanup(c, d),
           \/ conn[c] = "finished" /\ dropped' = dropped
           \/ conn[c] = "live" /\ shutdown /\ threads = 0 /\ dropped' = dropped \cup {c},
           threads > 0 => loop[d] = "handling",
           UNCHANGED <<threads, main, visiting, seen, loop, poll_listen, taking, connections, pos,
                       mutex, socket_fd, listening, wpipe, shutdown, owner>>
    PROVE  IInv'
<1>1. /\ conn' = [conn EXCEPT ![c] = "cleanup"]
      /\ raced' = (raced \/ MainIn(d))
      /\ \/ cleanup' = [cleanup EXCEPT ![d] = <<c>> \o @]
         \/ MainIn(d) /\ cleanup' = cleanup
  BY DEF MoveToCleanup
<1>2. /\ Loops \subseteq AllLoops /\ Loops' = Loops /\ \A e : LimitOf(e)' = LimitOf(e)
      /\ threads \in Nat
  BY LoopNumbers, SameThreads DEF IInv
<1>3. conn'[c] = "cleanup" /\ \A x \in Clients : x # c => conn'[x] = conn[x]
  BY <1>1 DEF IInv, ConnType
<1>4. /\ raced => raced'
      /\ MainIn(d) => ~listening
  BY <1>1 DEF MainIn, IInv, Stages
<1>5. cleanup[d] \in Seq(Clients) /\ Once(cleanup[d]) /\ c \notin Listed(d)
  BY <1>2 DEF IInv, ListType, ListsOwned
<1>6. DOMAIN cleanup' = AllLoops /\ \A e \in AllLoops : e # d => cleanup'[e] = cleanup[e]
  BY <1>1, <1>2 DEF IInv, ListType
<1>7. /\ cleanup'[d] \in Seq(Clients) /\ Once(cleanup'[d])
      /\ Listed(d)' \subseteq Listed(d) \cup {c} /\ Listed(d) \subseteq Listed(d)'
      /\ ~raced' => c \in Listed(d)'
  <2>1. /\ <<c>> \o cleanup[d] \in Seq(Clients) /\ Once(<<c>> \o cleanup[d])
        /\ {(<<c>> \o cleanup[d])[i] : i \in DOMAIN (<<c>> \o cleanup[d])} = Listed(d) \cup {c}
    BY <1>5, PutFacts DEF Listed
  <2>2. CASE cleanup' = [cleanup EXCEPT ![d] = <<c>> \o @]
    <3>1. cleanup'[d] = <<c>> \o cleanup[d]
      BY <1>2, <2>2 DEF IInv, ListType
    <3>2. Listed(d)' = Listed(d) \cup {c}
      BY <2>1, <3>1 DEF Listed
    <3> QED
      BY <2>1, <3>1, <3>2
  <2>3. CASE MainIn(d) /\ cleanup' = cleanup
    BY <1>1, <1>5, <2>3, SameLists
  <2> QED
    BY <1>1, <2>2, <2>3
<1>8. \A e \in AllLoops : e # d => Listed(e)' = Listed(e)
  BY <1>6 DEF Listed
<1>9. MainType' /\ FlagType' /\ LoopType' /\ ListType' /\ ConnType'
  <2>1. MainType' /\ LoopType'
    BY DEF IInv, MainType, LoopType
  <2>2. FlagType'
    <3>1. raced' \in BOOLEAN
      BY <1>1
    <3> QED
      BY <3>1 DEF IInv, FlagType
  <2>3. ListType'
    BY <1>6, <1>7 DEF IInv, ListType
  <2>4. ConnType'
    BY <1>1 DEF IInv, ConnType
  <2> QED
    BY <2>1, <2>2, <2>3, <2>4
<1>10. Stages'
  <2>1. Queued' \subseteq Queued
    BY <1>3 DEF Queued
  <2>2. dropped' # {} => shutdown
    BY DEF IInv, Stages
  <2> QED
    BY <1>1, <1>2, <1>4, <2>1, <2>2 DEF IInv, Stages
<1>11. Blank'
  BY DEF IInv, Blank
<1>12. ThreadsOK'
  <2>1. \A e \in AllLoops \ Loops' : loop'[e] = "off"
    BY <1>2 DEF IInv, ThreadsOK
  <2>2. \A e \in AllLoops : pos'[e] # None => loop'[e] = "cleaning"
    BY DEF IInv, ThreadsOK
  <2>3. \A e \in Loops' : loop'[e] = "adding" =>
           taking'[e] \in Clients /\ conn'[taking'[e]] = "accepted" /\ owner'[taking'[e]] = e
    BY <1>2, <1>3 DEF IInv, ThreadsOK
  <2>4. ASSUME NEW x \in Clients
        PROVE  /\ conn'[x] \in {"accepted", "live", "finished", "cleanup"} => owner'[x] \in Loops'
               /\ conn'[x] = "accepted" => loop'[owner'[x]] = "adding" /\ taking'[owner'[x]] = x
    <3>1. CASE x = c
      BY <1>2, <1>3, <3>1
    <3>2. CASE x # c
      <4>1. conn'[x] = conn[x]
        BY <1>3, <3>2
      <4> QED
        BY <1>2, <4>1 DEF IInv, ThreadsOK
    <3> QED
      BY <3>1, <3>2
  <2> QED
    BY <1>2, <2>1, <2>2, <2>3, <2>4 DEF ThreadsOK
<1>13. \A e : MainIn(e)' <=> MainIn(e)
  BY DEF MainIn
<1>14. ASSUME NEW e \in Loops
       PROVE  /\ Listed(e) \subseteq Clients /\ pos[e] \in Clients \cup {None}
              /\ pos[MainThread] \in Clients \cup {None}
              /\ MainIn(e) => pos[MainThread] \in Clients
  <2>1. /\ Listed(e) \subseteq Clients /\ pos[e] \in Clients \cup {None}
        /\ pos[MainThread] \in Clients \cup {None}
    BY <1>2, ListElements DEF IInv
  <2> QED
    BY <2>1 DEF MainIn
<1>15. ListsOwned'
  <2> SUFFICES ASSUME NEW e \in Loops
               PROVE  /\ Once(cleanup'[e])
                      /\ \A x \in Listed(e)' : owner[x] = e /\ conn'[x] \in {"cleanup", "gone"}
                      /\ pos[e] # None => owner[pos[e]] = e /\ conn'[pos[e]] \in {"cleanup", "gone"}
                      /\ MainIn(e) => /\ owner[pos[MainThread]] = e
                                      /\ conn'[pos[MainThread]] \in {"cleanup", "gone"}
    BY <1>2, <1>13 DEF ListsOwned, Once
  <2>1. Once(cleanup'[e])
    BY <1>2, <1>6, <1>7 DEF IInv, ListsOwned
  <2>2. ASSUME NEW x \in Listed(e)' PROVE owner[x] = e /\ conn'[x] \in {"cleanup", "gone"}
    <3>1. CASE x = c
      <4>1. e = d
        BY <1>2, <1>5, <1>8, <1>14, <2>2, <3>1 DEF IInv, ListsOwned
      <4> QED
        BY <1>3, <3>1, <4>1
    <3>2. CASE x # c
      <4>1. x \in Listed(e)
        BY <1>2, <1>7, <1>8, <2>2, <3>2
      <4> QED
        BY <1>3, <1>14, <3>2, <4>1 DEF IInv, ListsOwned
    <3> QED
      BY <3>1, <3>2
  <2>3. pos[e] # None => owner[pos[e]] = e /\ conn'[pos[e]] \in {"cleanup", "gone"}
    BY <1>3, <1>14 DEF IInv, ListsOwned
  <2>4. MainIn(e) => owner[pos[MainThread]] = e /\ conn'[pos[MainThread]] \in {"cleanup", "gone"}
    BY <1>3, <1>14 DEF IInv, ListsOwned
  <2> QED
    BY <2>1, <2>2, <2>3, <2>4
<1>16. \A e : Held(e)' = Held(e)
  BY <1>1, <1>3 DEF Held, At
<1>17. Counters'
  <2> SUFFICES ASSUME NEW e \in Loops, ~raced' \/ Fetching(e)' PROVE Exact(e)'
    BY <1>1, <1>2 DEF Counters
  <2>1. Exact(e)
    BY <1>4 DEF IInv, Counters, Fetching
  <2>2. \A x \in Listed(e)' : conn'[x] = "cleanup"
    BY <1>2, <1>3, <1>7, <1>8, <1>14, <2>1 DEF Exact
  <2>3. pos[e] # None => conn'[pos[e]] = "cleanup"
    BY <1>3, <1>14, <2>1 DEF Exact
  <2>4. MainIn(e) => conn'[pos[MainThread]] = "cleanup"
    BY <1>3, <1>14, <2>1 DEF Exact
  <2> QED
    BY <1>13, <1>16, <2>1, <2>2, <2>3, <2>4 DEF Exact
<1>18. Complete'
  <2> SUFFICES ASSUME ~raced', NEW x \in Clients, conn'[x] = "cleanup"
               PROVE  x \in Listed(owner[x])'
    BY DEF Complete, Listed
  <2>1. CASE x = c
    BY <1>7, <2>1
  <2>2. CASE x # c
    <3>1. owner[x] \in AllLoops
      BY DEF IInv, ConnType
    <3>2. x \in Listed(owner[x])
      BY <1>3, <1>4, <2>2 DEF IInv, Complete
    <3> QED
      BY <1>7, <1>8, <3>1, <3>2
  <2> QED
    BY <2>1, <2>2
<1>19. Room'
  <2>1. \A e \in Loops : Fetching(e)' <=> Fetching(e)
    BY DEF Fetching
  <2> QED
    BY <1>2, <1>3, <1>16, <2>1 DEF IInv, Room
<1>20. Uncounted'
  <2> SUFFICES ASSUME threads > 0, NEW e \in Loops, loop[e] = "counting"
               PROVE  At({"live", "finished"}, e)' # {}
    BY <1>2 DEF Uncounted
  <2>1. e # d
    OBVIOUS
  <2>2. PICK x \in Clients : conn[x] \in {"live", "finished"} /\ owner[x] = e
    BY DEF IInv, Uncounted, At
  <2> QED
    BY <1>3, <2>1, <2>2 DEF At
<1>21. \A e : AtMostOne(e)' <=> AtMostOne(e)
  <2>1. \A e : Unanswered(e)' = Unanswered(e)
    BY <1>3 DEF Unanswered
  <2> QED
    BY <2>1 DEF AtMostOne
<1>22. Before' = Before /\ Before \subseteq Loops /\ OwnedBy(Before)' = OwnedBy(Before)
  BY <1>2 DEF Before, OwnedBy
<1>23. Drained'
  BY <1>2, <1>4, <1>21, <1>22 DEF IInv, Drained
<1>24. Joined'
  <2>1. ASSUME NEW e \in Before, Over(e) PROVE Over(e)'
    BY <1>3, <1>4, <1>22, <2>1 DEF Over
  <2> QED
    BY <1>22, <2>1 DEF IInv, Joined
<1>25. NothingLeft'
  BY DEF Up, NothingLeft
<1> QED
  BY <1>9, <1>10, <1>11, <1>12, <1>15, <1>17, <1>18, <1>19, <1>20, <1>23, <1>24, <1>25 DEF IInv

LEMMA WorkerFinishesInv ==
    ASSUME IInv, Up, NEW d \in Loops, NEW c \in Clients, WorkerFinishes(d, c)
    PROVE  IInv'
<1>1. /\ loop[d] = "handling" /\ conn[c] = "finished" /\ owner[c] = d /\ MoveToCleanup(c, d)
      /\ UNCHANGED <<threads, main, visiting, seen, loop, poll_listen, taking, connections, pos,
                     mutex, socket_fd, listening, wpipe, shutdown, owner, dropped>>
  BY DEF WorkerFinishes, mainvars, loopvars, flags
<1> QED
  BY <1>1, MoveToCleanupInv

LEMMA ConnectionThreadInv ==
    ASSUME IInv, NEW c \in Clients, ConnectionThread(c)
    PROVE  IInv'
<1>1. /\ Up /\ threads = 0 /\ MoveToCleanup(c, 0)
      /\ \/ conn[c] = "finished" /\ dropped' = dropped
         \/ conn[c] = "live" /\ shutdown /\ dropped' = dropped \cup {c}
      /\ UNCHANGED <<threads, main, visiting, seen, loop, poll_listen, taking, connections, pos,
                     mutex, socket_fd, listening, wpipe, shutdown, owner>>
  BY DEF ConnectionThread, mainvars, loopvars, flags
<1>2. Loops = {0}
  BY <1>1 DEF Loops
<1>3. owner[c] = 0
  BY <1>1, <1>2 DEF IInv, ThreadsOK
<1> QED
  BY <1>1, <1>2, <1>3, MoveToCleanupInv

-----------------------------------------------------------------------------
(* MHD_cleanup_connections *)

\* A daemon structure is cleaned up by its own thread, or by main in a round.
Cleans(t, d) ==
    \/ t = d /\ loop[d] = "cleaning"
    \/ t = MainThread /\ main = "counting" /\ visiting = d

LEMMA CleanupTakeInv ==
    ASSUME IInv, NEW d \in Loops, NEW t, Cleans(t, d), CleanupTake(t, d)
    PROVE  IInv'
<1>1. /\ pos[t] = None /\ cleanup[d] # <<>>
      /\ mutex' = IF threads = 0 THEN t ELSE mutex
      /\ pos' = [pos EXCEPT ![t] = Head(cleanup[d])]
      /\ UNCHANGED <<threads, main, visiting, seen, loop, poll_listen, taking, connections,
                     cleanup, raced, socket_fd, listening, wpipe, shutdown, conn, owner, dropped>>
  BY DEF CleanupTake, mainvars, loopvars, flags, served
<1>2. /\ Loops \subseteq AllLoops /\ Loops' = Loops /\ \A e : LimitOf(e)' = LimitOf(e)
      /\ MainThread \notin AllLoops
  BY <1>1, LoopNumbers, SameThreads DEF IInv
<1>3. PICK c \in Clients : c = Head(cleanup[d]) /\ c \in Listed(d)
  <2>1. cleanup[d] \in Seq(Clients) /\ cleanup[d] # <<>>
    BY <1>1, <1>2 DEF IInv, ListType
  <2>2. Len(cleanup[d]) \in Nat \ {0} /\ DOMAIN cleanup[d] = 1..Len(cleanup[d])
    BY <2>1, EmptySeq, LenProperties
  <2>3. 1 \in DOMAIN cleanup[d] /\ Head(cleanup[d]) = cleanup[d][1] /\ cleanup[d][1] \in Clients
    BY <2>1, <2>2, ElementOfSeq
  <2> QED
    BY <2>3 DEF Listed
<1>4. t \in AllLoops \cup {MainThread}
  BY <1>2 DEF Cleans
<1>5. pos'[t] = c /\ \A u \in AllLoops \cup {MainThread} : u # t => pos'[u] = pos[u]
  BY <1>1, <1>3, <1>4 DEF IInv, ListType
<1>6. owner[c] = d /\ conn[c] \in {"cleanup", "gone"}
  BY <1>3 DEF IInv, ListsOwned
<1>7. c # None
  BY <1>3, ServerAssumption
<1>8. MainType' /\ FlagType' /\ LoopType' /\ ListType' /\ ConnType'
  <2>1. mutex' \in {0, MainThread, None}
    <3>1. CASE threads = 0
      <4>1. t \in {0, MainThread}
        BY <3>1 DEF Cleans, Loops
      <4> QED
        BY <1>1, <3>1, <4>1
    <3>2. CASE threads # 0
      BY <1>1, <3>2 DEF IInv, MainType
    <3> QED
      BY <3>1, <3>2
  <2>2. MainType'
    BY <1>1, <2>1 DEF IInv, MainType
  <2>3. FlagType' /\ LoopType' /\ ConnType'
    BY <1>1 DEF IInv, FlagType, LoopType, ConnType
  <2>4. pos' \in [AllLoops \cup {MainThread} -> Clients \cup {None}]
    BY <1>1, <1>3 DEF IInv, ListType
  <2>5. ListType'
    BY <1>1, <2>4 DEF IInv, ListType
  <2> QED
    BY <2>2, <2>3, <2>5
<1>9. pos'[MainThread] # None => pos[MainThread] # None \/ main = "counting"
  BY <1>2, <1>4, <1>5 DEF Cleans
<1>10. Stages'
  BY <1>1, <1>2, <1>9, SameConnections DEF IInv, Stages, Closed
<1>11. Blank'
  BY <1>1, <1>2 DEF IInv, Blank, Cleans
<1>12. ThreadsOK'
  <2>1. \A e \in AllLoops : pos'[e] # None => loop'[e] = "cleaning"
    <3> SUFFICES ASSUME NEW e \in AllLoops, pos'[e] # None PROVE loop[e] = "cleaning"
      BY <1>1
    <3>1. CASE e = t
      BY <1>2, <3>1 DEF Cleans
    <3>2. CASE e # t
      BY <1>5, <3>2 DEF IInv, ThreadsOK
    <3> QED
      BY <3>1, <3>2
  <2> QED
    BY <1>1, <1>2, <2>1 DEF IInv, ThreadsOK
<1>13. \A e : Listed(e)' = Listed(e)
  BY <1>1, SameLists
<1>14. ASSUME NEW e \in Loops
       PROVE  /\ pos'[e] # None =>
                    \/ pos'[e] = pos[e] /\ pos[e] # None
                    \/ pos'[e] \in Listed(e)
              /\ MainIn(e)' =>
                    \/ MainIn(e) /\ pos'[MainThread] = pos[MainThread]
                    \/ pos'[MainThread] \in Listed(e)
  <2>1. CASE t = MainThread
    BY <1>1, <1>2, <1>3, <1>5, <2>1 DEF MainIn, Cleans
  <2>2. CASE t # MainThread
    BY <1>1, <1>2, <1>3, <1>4, <1>5, <2>2 DEF MainIn, Cleans
  <2> QED
    BY <2>1, <2>2
<1>15. ListsOwned'
  <2> SUFFICES ASSUME NEW e \in Loops
               PROVE  /\ pos'[e] # None => owner[pos'[e]] = e /\ conn[pos'[e]] \in {"cleanup", "gone"}
                      /\ MainIn(e)' => /\ owner[pos'[MainThread]] = e
                                       /\ conn[pos'[MainThread]] \in {"cleanup", "gone"}
    BY <1>1, <1>2, <1>13 DEF IInv, ListsOwned
  <2> QED
    BY <1>14 DEF IInv, ListsOwned
<1>16. \A e : Held(e)' = Held(e)
  BY <1>1, SameConnections
<1>17. Counters'
  <2> SUFFICES ASSUME NEW e \in Loops, ~raced \/ Fetching(e)' PROVE Exact(e)'
    BY <1>1, <1>2 DEF Counters
  <2>1. Exact(e)
    BY <1>1 DEF IInv, Counters, Fetching
  <2>2. /\ pos'[e] # None => conn[pos'[e]] = "cleanup"
        /\ MainIn(e)' => conn[pos'[MainThread]] = "cleanup"
    BY <1>14, <2>1 DEF Exact
  <2> QED
    BY <1>1, <1>13, <1>16, <2>1, <2>2 DEF Exact
<1>18. Complete'
  BY <1>1, SameComplete DEF IInv
<1>19. Room'
  <2>1. \A e \in Loops : Fetching(e)' <=> Fetching(e)
    BY <1>1 DEF Fetching
  <2> QED
    BY <1>1, <1>2, <1>16, <2>1 DEF IInv, Room
<1>20. Uncounted'
  <2>1. \A e \in Loops : At({"live", "finished"}, e)' = At({"live", "finished"}, e)
    BY <1>1, SameConnections
  <2> QED
    BY <1>1, <1>2, <2>1 DEF IInv, Uncounted
<1>21. Drained'
  BY <1>1, SameDrained DEF IInv
<1>22. Joined'
  BY <1>1, SameJoined DEF IInv, Joined
<1>23. NothingLeft'
  BY <1>1 DEF IInv, NothingLeft
<1> QED
  BY <1>8, <1>10, <1>11, <1>12, <1>15, <1>17, <1>18, <1>19, <1>20, <1>21, <1>22, <1>23 DEF IInv

LEMMA CleanupDisposeInv ==
    ASSUME IInv, NEW d \in Loops, NEW t, Cleans(t, d), CleanupDispose(t, d)
    PROVE  IInv'
<1>1. /\ pos[t] # None
      /\ pos' = [pos EXCEPT ![t] = None]
      /\ raced' = (raced \/ Others(t, d))
      /\ conn' = [conn EXCEPT ![pos[t]] = "gone"]
      /\ cleanup' = [cleanup EXCEPT ![d] = Unlinked(@, pos[t])]
      /\ \/ connections' = [connections EXCEPT ![d] = Decremented(@)]
         \/ Others(t, d) /\ connections' = connections
      /\ main' = main \/ main' = "aborted"
      /\ UNCHANGED <<threads, visiting, seen, loop, poll_listen, taking, mutex,
                     socket_fd, listening, wpipe, shutdown, owner, dropped>>
  BY DEF CleanupDispose, loopvars, flags
<1>2. /\ Loops \subseteq AllLoops /\ Loops' = Loops /\ \A e : LimitOf(e)' = LimitOf(e)
      /\ MainThread \notin AllLoops
  BY <1>1, LoopNumbers, SameThreads DEF IInv
<1>3. t \in AllLoops \cup {MainThread}
  BY <1>2 DEF Cleans
<1>4. t = MainThread => MainIn(d)
  BY <1>1, <1>2 DEF Cleans, MainIn
<1>5. PICK c \in Clients : c = pos[t] /\ owner[c] = d /\ conn[c] \in {"cleanup", "gone"}
  <2>1. pos[t] \in Clients
    BY <1>1, <1>3 DEF IInv, ListType
  <2> QED
    BY <1>1, <1>2, <1>4, <2>1 DEF IInv, ListsOwned, Cleans
<1>6. pos'[t] = None /\ \A u \in AllLoops \cup {MainThread} : u # t => pos'[u] = pos[u]
  BY <1>1, <1>3 DEF IInv, ListType
<1>7. conn'[c] = "gone" /\ \A x \in Clients : x # c => conn'[x] = conn[x]
  BY <1>1, <1>5 DEF IInv, ConnType
<1>8. /\ cleanup'[d] \in Seq(Clients) /\ Once(cleanup'[d])
      /\ Listed(d)' = Listed(d) \ {c}
      /\ DOMAIN cleanup' = AllLoops
      /\ \A e \in AllLoops : e # d => cleanup'[e] = cleanup[e]
  <2>1. cleanup[d] \in Seq(Clients) /\ Once(cleanup[d]) /\ DOMAIN cleanup = AllLoops
    BY <1>2 DEF IInv, ListType, ListsOwned
  <2>2. cleanup'[d] = Unlinked(cleanup[d], c)
    BY <1>1, <1>2, <1>5, <2>1
  <2>3. /\ Unlinked(cleanup[d], c) \in Seq(Clients) /\ Once(Unlinked(cleanup[d], c))
        /\ {Unlinked(cleanup[d], c)[i] : i \in DOMAIN Unlinked(cleanup[d], c)}
              = {cleanup[d][i] : i \in DOMAIN cleanup[d]} \ {c}
    BY <2>1, UnlinkedFacts
  <2>4. Listed(d)' = Listed(d) \ {c}
    BY <2>2, <2>3 DEF Listed
  <2> QED
    BY <1>1, <1>2, <2>1, <2>2, <2>3, <2>4
<1>9. \A e \in AllLoops : e # d => Listed(e)' = Listed(e)
  BY <1>8 DEF Listed
<1>10. /\ raced => raced'
       /\ raced' => raced \/ ~listening
  BY <1>1, <1>4 DEF Others, MainIn, IInv, Stages
<1>11. \A e \in Loops : MainIn(e)' => MainIn(e) /\ pos'[MainThread] = pos[MainThread]
  BY <1>1, <1>3, <1>6 DEF MainIn
<1>12. \A e \in AllLoops : pos'[e] # None => pos'[e] = pos[e]
  BY <1>3, <1>6
<1>13. pos'[MainThread] # None => pos[MainThread] # None
  BY <1>3, <1>6
<1>14. MainType' /\ FlagType' /\ LoopType' /\ ListType' /\ ConnType'
  <2>1. MainType' /\ LoopType'
    BY <1>1 DEF IInv, MainType, LoopType
  <2>2. FlagType'
    <3>1. raced' \in BOOLEAN
      BY <1>1
    <3> QED
      BY <1>1, <3>1 DEF IInv, FlagType
  <2>3. connections' \in [AllLoops -> 0..UnsignedMax]
    <3>1. connections[d] \in 0..UnsignedMax
      BY <1>2 DEF IInv, ListType
    <3>2. Decremented(connections[d]) \in 0..UnsignedMax
      BY <3>1, DecrementedFacts
    <3> QED
      BY <1>1, <3>2 DEF IInv, ListType
  <2>4. pos' \in [AllLoops \cup {MainThread} -> Clients \cup {None}]
    BY <1>1 DEF IInv, ListType
  <2>5. \A e \in AllLoops : cleanup'[e] \in Seq(Clients)
    BY <1>8 DEF IInv, ListType
  <2>6. ListType'
    BY <1>8, <2>3, <2>4, <2>5 DEF ListType, AllLoops
  <2>7. ConnType'
    BY <1>1 DEF IInv, ConnType
  <2> QED
    BY <2>1, <2>2, <2>6, <2>7
<1>15. Stages'
  <2>1. Queued' \subseteq Queued
    BY <1>7 DEF Queued
  <2> QED
    BY <1>1, <1>2, <1>10, <1>13, <2>1 DEF IInv, Stages, Closed, Quiesced
<1>16. Blank'
  BY <1>1, <1>2 DEF IInv, Blank, Cleans
<1>17. ThreadsOK'
  <2>1. \A e \in AllLoops : pos'[e] # None => loop'[e] = "cleaning"
    BY <1>1, <1>12 DEF IInv, ThreadsOK
  <2>2. \A e \in Loops' : loop'[e] = "adding" =>
           taking'[e] \in Clients /\ conn'[taking'[e]] = "accepted" /\ owner'[taking'[e]] = e
    BY <1>1, <1>2, <1>5, <1>7 DEF IInv, ThreadsOK
  <2>3. ASSUME NEW x \in Clients
        PROVE  /\ conn'[x] \in {"accepted", "live", "finished", "cleanup"} => owner'[x] \in Loops'
               /\ conn'[x] = "accepted" => loop'[owner'[x]] = "adding" /\ taking'[owner'[x]] = x
    <3>1. CASE x = c
      BY <1>7, <3>1
    <3>2. CASE x # c
      <4>1. conn'[x] = conn[x]
        BY <1>7, <3>2
      <4> QED
        BY <1>1, <1>2, <4>1 DEF IInv, ThreadsOK
    <3> QED
      BY <3>1, <3>2
  <2> QED
    BY <1>1, <1>2, <2>1, <2>2, <2>3 DEF IInv, ThreadsOK
<1>18. ASSUME NEW e \in Loops
       PROVE  /\ Listed(e) \subseteq Clients /\ pos[e] \in Clients \cup {None}
              /\ MainIn(e) => pos[MainThread] \in Clients
  <2>1. /\ Listed(e) \subseteq Clients /\ pos[e] \in Clients \cup {None}
        /\ pos[MainThread] \in Clients \cup {None}
    BY <1>2, ListElements DEF IInv
  <2> QED
    BY <2>1 DEF MainIn
<1>19. \A x \in Clients : conn[x] \in {"cleanup", "gone"} => conn'[x] \in {"cleanup", "gone"}
  BY <1>7
<1>20. ListsOwned'
  <2> SUFFICES ASSUME NEW e \in Loops
               PROVE  /\ Once(cleanup'[e])
                      /\ \A x \in Listed(e)' : owner[x] = e /\ conn'[x] \in {"cleanup", "gone"}
                      /\ pos'[e] # None => owner[pos'[e]] = e /\ conn'[pos'[e]] \in {"cleanup", "gone"}
                      /\ MainIn(e)' => /\ owner[pos'[MainThread]] = e
                                       /\ conn'[pos'[MainThread]] \in {"cleanup", "gone"}
    BY <1>1, <1>2 DEF ListsOwned, Once
  <2>1. Once(cleanup'[e])
    BY <1>2, <1>8 DEF IInv, ListsOwned
  <2>2. ASSUME NEW x \in Listed(e)' PROVE owner[x] = e /\ conn'[x] \in {"cleanup", "gone"}
    <3>1. x \in Listed(e)
      BY <1>2, <1>8, <1>9
    <3> QED
      BY <1>18, <1>19, <3>1 DEF IInv, ListsOwned
  <2>3. pos'[e] # None => owner[pos'[e]] = e /\ conn'[pos'[e]] \in {"cleanup", "gone"}
    BY <1>2, <1>12, <1>18, <1>19 DEF IInv, ListsOwned
  <2>4. MainIn(e)' =>
           owner[pos'[MainThread]] = e /\ conn'[pos'[MainThread]] \in {"cleanup", "gone"}
    BY <1>11, <1>18, <1>19 DEF IInv, ListsOwned
  <2> QED
    BY <2>1, <2>2, <2>3, <2>4
<1>21. /\ Held(d)' = Held(d) \ {c}
       /\ \A e \in Loops : e # d => Held(e)' = Held(e)
       /\ \A e \in Loops : At({"live", "finished"}, e)' = At({"live", "finished"}, e)
  BY <1>1, <1>5, <1>7 DEF Held, At
<1>22. Counters'
  <2> SUFFICES ASSUME NEW e \in Loops, ~raced' \/ Fetching(e)' PROVE Exact(e)'
    BY <1>1, <1>2 DEF Counters
  <2>1. Fetching(e)' <=> Fetching(e)
    BY <1>1 DEF Fetching
  <2>2. Exact(e)
    BY <1>10, <2>1 DEF IInv, Counters
  <2>3. CASE e = d
    <3>1. ~Others(t, d)
      <4>1. CASE ~raced'
        BY <1>1, <4>1
      <4>2. CASE Fetching(d)
        <5>1. t = MainThread
          BY <4>2 DEF Fetching, Cleans
        <5>2. pos[d] = None
          BY <4>2, LoopPos DEF Fetching
        <5> QED
          BY <5>1, <5>2 DEF Others
      <4> QED
        BY <2>1, <2>3, <4>1, <4>2
    <3>2. conn[c] = "cleanup" /\ connections' = [connections EXCEPT ![d] = Decremented(@)]
      BY <1>1, <1>4, <1>5, <2>2, <2>3, <3>1 DEF Cleans, Exact
    <3>3. c \in Held(d) /\ Held(d) \in SUBSET Clients
      BY <1>5, <3>2 DEF Held, At
    <3>4. /\ Cardinality(Held(d)') = Cardinality(Held(d)) - 1
          /\ Cardinality(Held(d)) \in Nat /\ Cardinality(Held(d)) # 0
          /\ Cardinality(Held(d)) < UnsignedMax /\ UnsignedMax \in Nat
      <4>1. IsFiniteSet(Held(d)) /\ Cardinality(Held(d)) \in Nat /\ Cardinality(Held(d)) < UnsignedMax
            /\ (Cardinality(Held(d)) = 0 <=> Held(d) = {})
        BY <3>3, CountFacts
      <4>2. Cardinality(Held(d) \ {c}) = Cardinality(Held(d)) - 1
        BY <3>3, <4>1, FS_RemoveElement
      <4> QED
        BY <1>21, <3>3, <4>1, <4>2, ServerAssumption
    <3>5. connections'[d] = Decremented(connections[d]) /\ connections[d] \in 0..UnsignedMax
      BY <1>2, <3>2 DEF IInv, ListType
    <3>6. connections'[d] = IF loop[d] # "counting" THEN Cardinality(Held(d)')
                            ELSE IF Cardinality(Held(d)') = 0 THEN UnsignedMax
                            ELSE Cardinality(Held(d)') - 1
      <4>1. CASE loop[d] # "counting"
        <5>1. connections[d] = Cardinality(Held(d))
          BY <2>2, <2>3, <4>1 DEF Exact
        <5> QED
          BY <3>4, <3>5, <4>1, <5>1, DecrementedFacts
      <4>2. CASE loop[d] = "counting"
        <5>1. connections[d] = Cardinality(Held(d)) - 1
          BY <2>2, <2>3, <3>4, <4>2 DEF Exact
        <5>2. CASE Cardinality(Held(d)) = 1
          <6>1. connections[d] = 0 /\ Cardinality(Held(d)') = 0
            BY <3>4, <5>1, <5>2
          <6> QED
            BY <3>5, <4>2, <6>1, DecrementedFacts
        <5>3. CASE Cardinality(Held(d)) # 1
          <6>1. connections[d] # 0 /\ Cardinality(Held(d)') # 0
            BY <3>4, <5>1, <5>3
          <6>2. connections'[d] = connections[d] - 1
            BY <3>5, <6>1, DecrementedFacts
          <6> QED
            BY <3>4, <4>2, <5>1, <6>1, <6>2
        <5> QED
          BY <5>2, <5>3
      <4> QED
        BY <4>1, <4>2
    <3>7. \A x \in Listed(d)' : conn'[x] = "cleanup"
      BY <1>7, <1>8, <1>18, <2>2, <2>3 DEF Exact
    <3>8. pos'[d] = None /\ ~MainIn(d)'
      <4>1. CASE t = MainThread
        BY <1>1, <1>2, <1>6, <3>1, <4>1 DEF Others, MainIn
      <4>2. CASE t # MainThread
        <5>1. t = d /\ ~MainIn(d)
          BY <3>1, <4>2 DEF Others, Cleans
        <5> QED
          BY <1>6, <1>11, <5>1
      <4> QED
        BY <4>1, <4>2
    <3> QED
      BY <1>1, <2>3, <3>6, <3>7, <3>8 DEF Exact
  <2>4. CASE e # d
    <3>1. /\ Listed(e)' = Listed(e) /\ Held(e)' = Held(e)
          /\ connections'[e] = connections[e]
      BY <1>1, <1>2, <1>9, <1>21, <2>4 DEF IInv, ListType
    <3>2. \A x \in Listed(e) : x \in Clients /\ x # c
      BY <1>5, <1>18, <2>4 DEF IInv, ListsOwned
    <3>3. pos'[e] # None => pos'[e] = pos[e] /\ pos[e] \in Clients /\ pos[e] # c
      BY <1>2, <1>5, <1>12, <1>18, <2>4 DEF IInv, ListsOwned
    <3>4. MainIn(e)' => /\ MainIn(e) /\ pos'[MainThread] = pos[MainThread]
                        /\ pos[MainThread] \in Clients /\ pos[MainThread] # c
      BY <1>5, <1>11, <1>18, <2>4 DEF IInv, ListsOwned
    <3>5. \A x \in Listed(e)' : conn'[x] = "cleanup"
      BY <1>7, <2>2, <3>1, <3>2 DEF Exact
    <3>6. pos'[e] # None => conn'[pos'[e]] = "cleanup"
      BY <1>7, <2>2, <3>3 DEF Exact
    <3>7. MainIn(e)' => conn'[pos'[MainThread]] = "cleanup"
      BY <1>7, <2>2, <3>4 DEF Exact
    <3> QED
      BY <1>1, <2>2, <3>1, <3>5, <3>6, <3>7 DEF Exact
  <2> QED
    BY <2>3, <2>4
<1>23. Complete'
  <2> SUFFICES ASSUME ~raced', NEW x \in Clients, conn'[x] = "cleanup"
               PROVE  x \in Listed(owner[x])'
    BY <1>1 DEF Complete, Listed
  <2>1. x # c /\ owner[x] \in AllLoops
    BY <1>7 DEF IInv, ConnType
  <2>2. PICK e \in AllLoops : e = owner[x] /\ x \in Listed(e)
    BY <1>7, <1>10, <2>1 DEF IInv, Complete
  <2>3. x \in Listed(e)'
    BY <1>8, <1>9, <2>1, <2>2
  <2> QED
    BY <1>1, <2>2, <2>3 DEF Listed
<1>24. Room'
  <2>1. ASSUME NEW e \in Loops
        PROVE  /\ Cardinality(Held(e)') <= Cardinality(Held(e))
               /\ Cardinality(Held(e)') \in Nat /\ Cardinality(Held(e)) \in Nat
               /\ Fetching(e)' <=> Fetching(e)
    <3>1. Held(e)' \subseteq Held(e)
      BY <1>21
    <3>2. Held(e) \in SUBSET Clients /\ Held(e)' \in SUBSET Clients
      BY <3>1, HeldFacts
    <3>3. IsFiniteSet(Held(e)) /\ Cardinality(Held(e)) \in Nat /\ Cardinality(Held(e)') \in Nat
      BY <3>2, CountFacts
    <3>4. Cardinality(Held(e)') <= Cardinality(Held(e))
      BY <3>1, <3>3, FS_Subset
    <3> QED
      BY <1>1, <3>3, <3>4 DEF Fetching
  <2>2. \A e \in Loops : LimitOf(e) \in Nat
    BY LimitType DEF IInv
  <2>3. \A e \in Loops : /\ Cardinality(Held(e)') <= LimitOf(e)
                         /\ Fetching(e)' => Cardinality(Held(e)') < LimitOf(e)
    BY <2>1, <2>2 DEF IInv, Room
  <2> QED
    BY <1>2, <1>7, <2>3 DEF IInv, Room
<1>25. Uncounted'
  BY <1>1, <1>2, <1>21 DEF IInv, Uncounted
<1>26. \A e : AtMostOne(e)' <=> AtMostOne(e)
  <2>1. \A e : Unanswered(e)' = Unanswered(e)
    BY <1>1, <1>5, <1>7 DEF Unanswered
  <2> QED
    BY <2>1 DEF AtMostOne
<1>27. Before' = Before /\ Before \subseteq Loops /\ OwnedBy(Before)' = OwnedBy(Before)
  BY <1>1, <1>2 DEF Before, OwnedBy
<1>28. Drained'
  BY <1>1, <1>2, <1>10, <1>26, <1>27 DEF IInv, Drained
<1>29. Joined'
  <2>1. ASSUME NEW e \in Before, Over(e) PROVE Over(e)'
    BY <1>1, <1>7, <1>10, <2>1 DEF Over
  <2> QED
    BY <1>1, <1>27, <2>1 DEF IInv, Joined
<1>30. NothingLeft'
  BY <1>1, <1>2 DEF IInv, NothingLeft, Cleans
<1> QED
  BY <1>14, <1>15, <1>16, <1>17, <1>20, <1>22, <1>23, <1>24, <1>25, <1>28, <1>29, <1>30 DEF IInv

LEMMA LoopCleansInv ==
    ASSUME IInv, NEW d \in Loops, LoopCleans(d)
    PROVE  IInv'
<1>1. Cleans(d, d)
  BY DEF LoopCleans, Cleans
<1> QED
  BY <1>1, CleanupTakeInv, CleanupDisposeInv DEF LoopCleans

LEMMA MainCleansInv ==
    ASSUME IInv, MainCleans
    PROVE  IInv'
<1>1. PICK d \in Loops : d = visiting
  BY DEF MainCleans, IInv, Stages
<1>2. Cleans(MainThread, d)
  BY <1>1 DEF MainCleans, Cleans
<1>3. CleanupTake(MainThread, d) \/ CleanupDispose(MainThread, d)
  BY <1>1 DEF MainCleans
<1> QED
  BY <1>2, <1>3, CleanupTakeInv, CleanupDisposeInv

LEMMA PollerInv ==
    ASSUME IInv, NEW d \in Loops, Poller(d)
    PROVE  IInv'
BY PollBeginsInv, LoopEndsInv, PollReturnsInv, HandlersDoneInv, WorkerFinishesInv,
   AcceptBeginsInv, AcceptInv, AddConnectionInv, CountConnectionInv, LoopCleansInv,
   LoopCleanedInv DEF Poller

-----------------------------------------------------------------------------
(* The clients *)

\* A connection goes on where no thread has to do with it: it connects, or is
\* at its end.
LEMMA ClientGoesOn ==
    ASSUME IInv, Up, NEW c \in Clients, NEW x, conn' = [conn EXCEPT ![c] = x],
           \/ conn[c] = "none" /\ x = "queued" /\ listening
           \/ conn[c] = "live" /\ x = "finished",
           UNCHANGED <<threads, main, visiting, seen, loop, poll_listen, taking, connections,
                       cleanup, pos, mutex, raced, socket_fd, listening, wpipe, shutdown,
                       owner, dropped>>
    PROVE  IInv'
<1>1. Loops \subseteq AllLoops /\ Loops' = Loops /\ \A e : LimitOf(e)' = LimitOf(e)
  BY LoopNumbers, SameThreads DEF IInv
<1>2. conn'[c] = x /\ \A y \in Clients : y # c => conn'[y] = conn[y]
  BY DEF IInv, ConnType
<1>3. MainType' /\ FlagType' /\ LoopType' /\ ListType' /\ ConnType'
  <2>1. MainType' /\ FlagType'
    BY DEF IInv, MainType, FlagType
  <2>2. LoopType' /\ ListType'
    BY DEF IInv, LoopType, ListType
  <2>3. ConnType'
    BY DEF IInv, ConnType
  <2> QED
    BY <2>1, <2>2, <2>3
<1>4. Stages'
  <2>1. Queued' # {} => Queued # {} \/ listening
    BY <1>2 DEF Queued
  <2> QED
    BY <1>1, <2>1 DEF IInv, Stages
<1>5. Blank'
  BY DEF IInv, Blank
<1>6. ThreadsOK'
  <2>1. \A e \in Loops' : loop'[e] = "adding" =>
           taking'[e] \in Clients /\ conn'[taking'[e]] = "accepted" /\ owner'[taking'[e]] = e
    BY <1>1, <1>2 DEF IInv, ThreadsOK
  <2>2. ASSUME NEW y \in Clients
        PROVE  /\ conn'[y] \in {"accepted", "live", "finished", "cleanup"} => owner'[y] \in Loops'
               /\ conn'[y] = "accepted" => loop'[owner'[y]] = "adding" /\ taking'[owner'[y]] = y
    BY <1>1, <1>2 DEF IInv, ThreadsOK
  <2> QED
    BY <1>1, <2>1, <2>2 DEF IInv, ThreadsOK
<1>7. \A e : MainIn(e)' <=> MainIn(e)
  BY DEF MainIn
<1>8. ListsOwned'
  BY <1>2, <1>7, OwnedKept
<1>9. /\ \A e : Held(e)' = Held(e)
      /\ \A e : At({"live", "finished"}, e)' = At({"live", "finished"}, e)
  BY <1>2 DEF Held, At
<1>10. Counters'
  <2> SUFFICES ASSUME NEW e \in Loops, ~raced \/ Fetching(e)' PROVE Exact(e)'
    BY <1>1 DEF Counters
  <2>1. Exact(e)
    BY DEF IInv, Counters, Fetching
  <2>2. connections'[e] = IF loop'[e] # "counting" THEN Cardinality(Held(e)')
                          ELSE IF Cardinality(Held(e)') = 0 THEN UnsignedMax
                          ELSE Cardinality(Held(e)') - 1
    BY <1>9, <2>1 DEF Exact
  <2> QED
    BY <1>2, <1>7, <2>1, <2>2, ExactKept
<1>11. Complete'
  <2>1. \A y \in Clients : Listed(owner[y])' = Listed(owner[y])
    BY DEF Listed
  <2> QED
    BY <1>2, <2>1 DEF IInv, Complete
<1>12. Room'
  <2>1. \A e \in Loops : Fetching(e)' <=> Fetching(e)
    BY DEF Fetching
  <2> QED
    BY <1>1, <1>2, <1>9, <2>1 DEF IInv, Room
<1>13. Uncounted'
  BY <1>1, <1>9 DEF IInv, Uncounted
<1>14. \A e : AtMostOne(e) => AtMostOne(e)'
  <2>1. \A e : Unanswered(e)' \subseteq Unanswered(e)
    BY <1>2 DEF Unanswered
  <2> QED
    BY <2>1 DEF AtMostOne
<1>15. Before' = Before /\ Before \subseteq Loops /\ OwnedBy(Before)' = OwnedBy(Before)
  BY <1>1 DEF Before, OwnedBy
<1>16. Drained'
  BY <1>1, <1>14, <1>15 DEF IInv, Drained
<1>17. Joined'
  <2>1. ASSUME NEW e \in Before, Over(e) PROVE Over(e)'
    BY <1>2, <2>1 DEF Over
  <2> QED
    BY <1>15, <2>1 DEF IInv, Joined
<1>18. NothingLeft'
  BY DEF Up, NothingLeft
<1> QED
  BY <1>3, <1>4, <1>5, <1>6, <1>8, <1>10, <1>11, <1>12, <1>13, <1>16, <1>17, <1>18 DEF IInv

LEMMA ConnectInv ==
    ASSUME IInv, NEW c \in Clients, Connect(c)
    PROVE  IInv'
<1>1. /\ Up /\ conn[c] = "none" /\ listening /\ conn' = [conn EXCEPT ![c] = "queued"]
      /\ UNCHANGED <<threads, main, visiting, seen, loop, poll_listen, taking, connections,
                     cleanup, pos, mutex, raced, socket_fd, listening, wpipe, shutdown,
                     owner, dropped>>
  BY DEF Connect, mainvars, loopvars, lists, flags
<1> QED
  BY <1>1, ClientGoesOn

LEMMA FinishInv ==
    ASSUME IInv, NEW c \in Clients, Finish(c)
    PROVE  IInv'
<1>1. /\ Up /\ conn[c] = "live" /\ conn' = [conn EXCEPT ![c] = "finished"]
      /\ UNCHANGED <<threads, main, visiting, seen, loop, poll_listen, taking, connections,
                     cleanup, pos, mutex, raced, socket_fd, listening, wpipe, shutdown,
                     owner, dropped>>
  BY DEF Finish, mainvars, loopvars, lists, flags
<1> QED
  BY <1>1, ClientGoesOn

-----------------------------------------------------------------------------
(* The server starts and stops *)

LEMMA StartInv ==
    ASSUME IInv, Start
    PROVE  IInv'
<1>1. /\ main = "begin"
      /\ UNCHANGED <<threads, visiting, seen, poll_listen, taking, connections, cleanup, pos, mutex,
                     raced, wpipe, shutdown, conn, owner, dropped>>
  BY DEF Start, lists, served
<1>2. /\ ~listening /\ ~shutdown /\ ~raced
      /\ \A d \in AllLoops :
            loop[d] = "off" /\ connections[d] = 0 /\ cleanup[d] = <<>> /\ pos[d] = None
      /\ pos[MainThread] = None
      /\ \A c \in Clients : conn[c] = "none"
  BY <1>1 DEF IInv, Blank
<1>3. CASE main' = "returned" /\ UNCHANGED <<socket_fd, listening, loop>>
  <2>1. MainType' /\ FlagType'
    BY <1>1, <1>3 DEF IInv, MainType, FlagType
  <2>2. Stages'
    BY <1>1, <1>2, <1>3, SameConnections DEF IInv, Stages, Closed, Quiesced
  <2>3. Drained' /\ Joined' /\ NothingLeft'
    BY <1>1, <1>2, <1>3 DEF Drained, Joined, NothingLeft
  <2> QED
    BY <1>1, <1>2, <1>3, <2>1, <2>2, <2>3, MainGoesOn
<1>4. CASE /\ main' = "announce" /\ socket_fd' = TRUE /\ listening' = TRUE
           /\ loop' = [d \in AllLoops |-> IF d \in Loops THEN "top" ELSE "off"]
  <2>1. Loops \subseteq AllLoops /\ Loops' = Loops /\ \A e : LimitOf(e)' = LimitOf(e)
    BY <1>1, LoopNumbers, SameThreads DEF IInv
  <2>2. MainType' /\ FlagType' /\ LoopType' /\ ListType' /\ ConnType'
    BY <1>1, <1>4 DEF IInv, MainType, FlagType, LoopType, ListType, ConnType
  <2>3. Stages'
    BY <1>1, <1>2, <1>4, <2>1 DEF IInv, Stages, Closed, Quiesced
  <2>4. Blank'
    BY <1>4 DEF Blank
  <2>5. ThreadsOK'
    BY <1>1, <1>2, <1>4, <2>1 DEF ThreadsOK
  <2>6. /\ \A e \in Loops : Listed(e)' = {} /\ ~MainIn(e)' /\ pos'[e] = None /\ loop'[e] = "top"
        /\ \A e \in Loops : cleanup'[e] = <<>> /\ connections'[e] = 0
    BY <1>1, <1>2, <1>4, <2>1 DEF Listed, MainIn
  <2>7. \A e \in Loops : Held(e)' = {} /\ Cardinality(Held(e)') = 0
    <3>1. \A e \in Loops : Held(e)' = {}
      BY <1>1, <1>2 DEF Held, At
    <3> QED
      BY <3>1, FS_EmptySet
  <2>8. ListsOwned'
    BY <2>1, <2>6 DEF ListsOwned, Once
  <2>9. Counters'
    BY <2>1, <2>6, <2>7 DEF Counters, Exact
  <2>10. Complete' /\ Uncounted'
    BY <1>1, <1>2, <2>1, <2>6 DEF Complete, Uncounted
  <2>11. Room'
    <3>1. \A e \in Loops : LimitOf(e) \in Nat /\ ~Fetching(e)'
      BY <2>6, LimitType DEF IInv, Fetching
    <3> QED
      BY <1>1, <1>2, <2>1, <2>7, <3>1 DEF Room
  <2>12. Drained' /\ Joined' /\ NothingLeft'
    BY <1>1, <1>2, <1>4 DEF Drained, Joined, NothingLeft
  <2> QED
    BY <2>2, <2>3, <2>4, <2>5, <2>8, <2>9, <2>10, <2>11, <2>12 DEF IInv
<1> QED
  BY <1>3, <1>4 DEF Start

LEMMA CloseListeningInv ==
    ASSUME IInv, CloseListening
    PROVE  IInv'
<1>1. /\ main = "close" /\ main' = "counting" /\ visiting' = FirstLoop /\ seen' = 0
      /\ listening' = FALSE
      /\ conn' = [c \in Clients |-> IF c \in Queued THEN "reset" ELSE conn[c]]
      /\ UNCHANGED <<threads, loop, poll_listen, taking, connections, cleanup, pos, mutex, raced,
                     socket_fd, wpipe, shutdown, owner, dropped>>
  BY DEF CloseListening, loopvars, lists
<1>2. Before' = {} /\ visiting' \in Loops' /\ visiting' \in AllLoops'
  BY <1>1, NothingBefore DEF IInv
<1>3. pos[MainThread] = None /\ ~shutdown
  BY <1>1 DEF IInv, Stages
<1>4. Loops \subseteq AllLoops /\ Loops' = Loops /\ \A e : LimitOf(e)' = LimitOf(e)
  BY <1>1, LoopNumbers, SameThreads DEF IInv
<1>5. \A c \in Clients : conn'[c] = IF conn[c] = "queued" THEN "reset" ELSE conn[c]
  BY <1>1 DEF Queued
<1>6. MainType' /\ FlagType' /\ LoopType' /\ ListType' /\ ConnType'
  <2>1. MainType'
    BY <1>1, <1>2, ServerAssumption DEF IInv, MainType
  <2>2. FlagType' /\ LoopType' /\ ListType'
    BY <1>1 DEF IInv, FlagType, LoopType, ListType
  <2>3. ConnType'
    BY <1>1 DEF IInv, ConnType
  <2> QED
    BY <2>1, <2>2, <2>3
<1>7. Stages'
  <2>1. Queued' = {}
    BY <1>5 DEF Queued
  <2> QED
    BY <1>1, <1>2, <1>3, <2>1 DEF IInv, Stages, Closed, Quiesced
<1>8. Blank'
  BY <1>1 DEF Blank
<1>9. ThreadsOK'
  <2>1. \A e \in Loops' : loop'[e] = "adding" =>
           taking'[e] \in Clients /\ conn'[taking'[e]] = "accepted" /\ owner'[taking'[e]] = e
    BY <1>1, <1>4, <1>5 DEF IInv, ThreadsOK
  <2>2. ASSUME NEW x \in Clients
        PROVE  /\ conn'[x] \in {"accepted", "live", "finished", "cleanup"} => owner'[x] \in Loops'
               /\ conn'[x] = "accepted" => loop'[owner'[x]] = "adding" /\ taking'[owner'[x]] = x
    BY <1>1, <1>4, <1>5 DEF IInv, ThreadsOK
  <2> QED
    BY <1>1, <1>4, <2>1, <2>2 DEF IInv, ThreadsOK
<1>10. \A e : ~MainIn(e)'
  BY <1>1, <1>3 DEF MainIn
<1>11. ListsOwned'
  BY <1>1, <1>5, <1>10, OwnedKept
<1>12. /\ \A e : Held(e)' = Held(e)
       /\ \A e : At({"live", "finished"}, e)' = At({"live", "finished"}, e)
  BY <1>1, <1>5 DEF Held, At
<1>13. Counters'
  <2> SUFFICES ASSUME NEW e \in Loops, ~raced \/ Fetching(e)' PROVE Exact(e)'
    BY <1>1, <1>4 DEF Counters
  <2>1. Exact(e)
    BY <1>1 DEF IInv, Counters, Fetching
  <2>2. connections'[e] = IF loop'[e] # "counting" THEN Cardinality(Held(e)')
                          ELSE IF Cardinality(Held(e)') = 0 THEN UnsignedMax
                          ELSE Cardinality(Held(e)') - 1
    BY <1>1, <1>12, <2>1 DEF Exact
  <2> QED
    BY <1>1, <1>5, <1>10, <2>1, <2>2, ExactKept
<1>14. Complete'
  <2>1. \A x \in Clients : Listed(owner[x])' = Listed(owner[x])
    BY <1>1 DEF Listed
  <2> QED
    BY <1>1, <1>5, <2>1 DEF IInv, Complete
<1>15. Room'
  <2>1. \A e \in Loops : Fetching(e)' <=> Fetching(e)
    BY <1>1 DEF Fetching
  <2> QED
    BY <1>4, <1>5, <1>12, <2>1 DEF IInv, Room
<1>16. Uncounted'
  BY <1>1, <1>4, <1>12 DEF IInv, Uncounted
<1>17. Drained'
  BY <1>1, <1>3, RoundBegins
<1>18. Joined' /\ NothingLeft'
  BY <1>1 DEF Joined, NothingLeft
<1> QED
  BY <1>6, <1>7, <1>8, <1>9, <1>11, <1>13, <1>14, <1>15, <1>16, <1>17, <1>18 DEF IInv

LEMMA CloseAllInv ==
    ASSUME IInv, CloseAll
    PROVE  IInv'
<1>1. PICK v \in Loops : v = visiting /\ loop[v] = "ended"
  BY DEF CloseAll, IInv, Stages, Joined
<1> DEFINE live == At({"live", "finished"}, v)
           listed == live \cup Listed(v)
<1>2. /\ main = "closing"
      /\ dropped' = dropped \cup At({"live"}, v)
      /\ conn' = [c \in Clients |-> IF c \in listed THEN "gone" ELSE conn[c]]
      /\ connections' = [connections EXCEPT ![v] =
            (@ + UnsignedMax + 1 - Cardinality(listed)) % (UnsignedMax + 1)]
      /\ cleanup' = [cleanup EXCEPT ![v] = <<>>]
      /\ \/ v # LastLoop /\ visiting' = v + 1 /\ main' = "joining"
         \/ v = LastLoop /\ visiting' = v /\ main' = "returned"
      /\ UNCHANGED <<threads, seen, loop, poll_listen, taking, pos, mutex, raced, owner,
                     socket_fd, listening, wpipe, shutdown>>
  <2>1. listed = At({"live", "finished"}, visiting)
                 \cup {c \in Clients : \E i \in DOMAIN cleanup[visiting] : cleanup[visiting][i] = c}
    <3>1. Listed(v) \subseteq Clients
      BY LoopNumbers, ListElements DEF IInv
    <3>2. Listed(v) = {c \in Clients : \E i \in DOMAIN cleanup[v] : cleanup[v][i] = c}
      BY <3>1 DEF Listed
    <3> QED
      BY <1>1, <3>2
  <2> QED
    BY <1>1, <2>1 DEF CloseAll, loopvars, flags
<1>3. /\ Loops \subseteq AllLoops /\ Loops' = Loops /\ \A e : LimitOf(e)' = LimitOf(e)
      /\ Loops = FirstLoop..LastLoop /\ FirstLoop \in Nat /\ LastLoop \in Nat
  BY <1>2, LoopNumbers, SameThreads DEF IInv
<1>4. /\ Listed(v) \subseteq Clients
      /\ \A c \in Listed(v) : owner[c] = v /\ conn[c] \in {"cleanup", "gone"}
      /\ \A c \in live : c \in Clients /\ owner[c] = v /\ conn[c] \in {"live", "finished"}
      /\ listed \in SUBSET Clients
  BY <1>3, ListElements DEF IInv, ListsOwned, At
<1>5. \A c \in listed : owner[c] = v /\ conn[c] \in {"live", "finished", "cleanup", "gone"}
  BY <1>4
<1>6. \A c \in Clients : owner[c] = v /\ conn[c] \in {"live", "finished"} => c \in listed
  BY DEF At
<1>7. Cardinality(listed) \in Nat
  BY <1>4, CountFacts
<1> HIDE DEF live, listed
<1>8. \A c \in Clients : conn'[c] = IF c \in listed THEN "gone" ELSE conn[c]
  BY <1>2
<1>9. pos[MainThread] = None /\ shutdown /\ ~listening /\ pos[v] = None
  <2>1. pos[v] = None
    BY <1>1, LoopPos
  <2> QED
    BY <1>2, <2>1 DEF IInv, Stages, Closed
<1>10. /\ cleanup'[v] = <<>> /\ \A e \in AllLoops : e # v => cleanup'[e] = cleanup[e]
       /\ \A e \in AllLoops : e # v => connections'[e] = connections[e]
       /\ connections'[v] = (connections[v] + UnsignedMax + 1 - Cardinality(listed))
                               % (UnsignedMax + 1)
       /\ DOMAIN cleanup' = AllLoops
  BY <1>2, <1>3 DEF IInv, ListType
<1>11. Listed(v)' = {} /\ \A e \in AllLoops : e # v => Listed(e)' = Listed(e)
  BY <1>10 DEF Listed
<1>12. visiting' \in Loops
  BY <1>2, <1>3
<1>13. MainType' /\ FlagType' /\ LoopType' /\ ListType' /\ ConnType'
  <2>1. MainType' /\ FlagType' /\ LoopType'
    BY <1>2, <1>3, <1>12 DEF IInv, MainType, FlagType, LoopType
  <2>2. connections' \in [AllLoops -> 0..UnsignedMax]
    <3>1. connections[v] + UnsignedMax + 1 - Cardinality(listed) \in Int
      BY <1>3, <1>7, ServerAssumption DEF IInv, ListType
    <3>2. (connections[v] + UnsignedMax + 1 - Cardinality(listed)) % (UnsignedMax + 1)
             \in 0..UnsignedMax
      BY <3>1, Wrapped
    <3> QED
      BY <1>2, <3>2 DEF IInv, ListType
  <2>3. \A e \in AllLoops : cleanup'[e] \in Seq(Clients)
    <3>1. <<>> \in Seq(Clients)
      BY EmptySeq
    <3> QED
      BY <1>10, <3>1 DEF IInv, ListType
  <2>4. ListType'
    BY <1>2, <1>10, <2>2, <2>3 DEF IInv, ListType
  <2>5. ConnType'
    BY <1>2, <1>8 DEF IInv, ConnType, At
  <2> QED
    BY <2>1, <2>4, <2>5
<1>14. Stages'
  <2>1. Queued' \subseteq Queued
    BY <1>8 DEF Queued
  <2> QED
    BY <1>2, <1>3, <1>9, <1>12, <2>1 DEF IInv, Stages, Closed, Quiesced
<1>15. Blank'
  BY <1>2 DEF Blank
<1>16. ThreadsOK'
  <2>1. ASSUME NEW e \in Loops, loop[e] = "adding"
        PROVE  taking[e] \in Clients /\ conn'[taking[e]] = "accepted" /\ owner[taking[e]] = e
    <3>1. taking[e] \in Clients /\ conn[taking[e]] = "accepted" /\ owner[taking[e]] = e
      BY <2>1 DEF IInv, ThreadsOK
    <3> QED
      BY <1>5, <1>8, <3>1
  <2>2. ASSUME NEW x \in Clients
        PROVE  /\ conn'[x] \in {"accepted", "live", "finished", "cleanup"} => owner[x] \in Loops
               /\ conn'[x] = "accepted" => loop[owner[x]] = "adding" /\ taking[owner[x]] = x
    BY <1>8 DEF IInv, ThreadsOK
  <2>3. \A e \in AllLoops \ Loops' : loop'[e] = "off"
    BY <1>2, <1>3 DEF IInv, ThreadsOK
  <2>4. \A e \in AllLoops : pos'[e] # None => loop'[e] = "cleaning"
    BY <1>2 DEF IInv, ThreadsOK
  <2> QED
    BY <1>2, <1>3, <2>1, <2>2, <2>3, <2>4 DEF ThreadsOK
<1>17. \A e : ~MainIn(e)'
  BY <1>2, <1>9 DEF MainIn
<1>18. ASSUME NEW e \in Loops, e # v
       PROVE  /\ \A x \in Listed(e) : x \in Clients /\ owner[x] = e /\ conn'[x] = conn[x]
              /\ pos[e] # None => pos[e] \in Clients /\ owner[pos[e]] = e /\ conn'[pos[e]] = conn[pos[e]]
  <2>1. Listed(e) \subseteq Clients /\ pos[e] \in Clients \cup {None}
    BY <1>3, ListElements DEF IInv
  <2>2. \A x \in Clients : owner[x] = e => conn'[x] = conn[x]
    BY <1>5, <1>8, <1>18
  <2> QED
    BY <2>1, <2>2 DEF IInv, ListsOwned
<1>19. ListsOwned'
  <2> SUFFICES ASSUME NEW e \in Loops
               PROVE  /\ Once(cleanup'[e])
                      /\ \A x \in Listed(e)' : owner[x] = e /\ conn'[x] \in {"cleanup", "gone"}
                      /\ pos[e] # None => owner[pos[e]] = e /\ conn'[pos[e]] \in {"cleanup", "gone"}
    BY <1>2, <1>3, <1>17 DEF ListsOwned, Once
  <2>1. CASE e = v
    BY <1>9, <1>10, <1>11, <2>1 DEF Once
  <2>2. CASE e # v
    <3>1. cleanup'[e] = cleanup[e] /\ Listed(e)' = Listed(e)
      BY <1>3, <1>10, <1>11, <2>2
    <3> QED
      BY <1>18, <2>2, <3>1 DEF IInv, ListsOwned
  <2> QED
    BY <2>1, <2>2
<1>20. /\ \A e \in Loops : e # v => Held(e)' = Held(e)
       /\ \A e \in Loops : e # v => At({"live", "finished"}, e)' = At({"live", "finished"}, e)
       /\ \A e \in Loops : Held(e)' \subseteq Held(e)
  BY <1>2, <1>5, <1>8 DEF Held, At
<1>21. ASSUME ~raced
       PROVE  /\ Held(v)' = {}
              /\ \A c \in Clients : owner[c] = v => conn'[c] \notin {"accepted", "live", "finished", "cleanup"}
              /\ Cardinality(listed) = Cardinality(Held(v))
  <2>1. ASSUME NEW c \in Clients, owner[c] = v, conn[c] \in {"live", "finished", "cleanup"}
        PROVE  c \in listed
    BY <1>6, <1>21, <2>1 DEF IInv, Complete, listed
  <2>2. ASSUME NEW c \in listed PROVE c \in Held(v)
    <3>1. Exact(v)
      BY <1>21 DEF IInv, Counters
    <3> QED
      BY <1>4, <2>2, <3>1 DEF listed, Exact, Held, At
  <2>3. listed = Held(v)
    BY <2>1, <2>2 DEF Held, At
  <2>4. \A c \in Clients : owner[c] = v => conn[c] # "accepted"
    BY <1>1 DEF IInv, ThreadsOK
  <2>5. \A c \in Clients : owner[c] = v =>
           conn'[c] \notin {"accepted", "live", "finished", "cleanup"}
    BY <1>8, <2>1, <2>4
  <2> QED
    BY <1>2, <2>3, <2>5 DEF Held, At
<1>22. Counters'
  <2> SUFFICES ASSUME NEW e \in Loops, ~raced \/ Fetching(e)' PROVE Exact(e)'
    BY <1>2, <1>3 DEF Counters
  <2>1. Fetching(e)' <=> Fetching(e)
    BY <1>2 DEF Fetching
  <2>2. Exact(e)
    BY <2>1 DEF IInv, Counters
  <2>3. CASE e = v
    <3>1. ~raced
      BY <1>1, <2>1, <2>3 DEF Fetching
    <3>2. Held(v)' = {} /\ Cardinality(listed) = Cardinality(Held(v))
      BY <1>21, <3>1
    <3>3. connections[v] = Cardinality(listed)
      BY <1>1, <2>2, <2>3, <3>2 DEF Exact
    <3>4. connections'[v] = 0
      <4>1. connections[v] + UnsignedMax + 1 - Cardinality(listed) = UnsignedMax + 1
        BY <1>7, <3>3, ServerAssumption
      <4>2. UnsignedMax + 1 \in Int
        BY ServerAssumption
      <4> QED
        BY <1>10, <4>1, <4>2, Wrapped
    <3>5. Cardinality(Held(v)') = 0
      BY <3>2, FS_EmptySet
    <3> QED
      BY <1>1, <1>2, <1>9, <1>11, <1>17, <2>3, <3>4, <3>5 DEF Exact
  <2>4. CASE e # v
    <3>1. connections'[e] = connections[e] /\ Listed(e)' = Listed(e) /\ Held(e)' = Held(e)
      BY <1>3, <1>10, <1>11, <1>20, <2>4
    <3> QED
      BY <1>2, <1>17, <1>18, <2>2, <2>4, <3>1 DEF Exact
  <2> QED
    BY <2>3, <2>4
<1>23. Complete'
  <2> SUFFICES ASSUME ~raced, NEW x \in Clients, conn'[x] = "cleanup"
               PROVE  x \in Listed(owner[x])'
    BY <1>2 DEF Complete, Listed
  <2>1. PICK e \in AllLoops : e = owner[x]
    BY DEF IInv, ConnType
  <2>2. e # v
    BY <1>21, <2>1
  <2>3. x \in Listed(e)
    BY <1>8, <2>1 DEF IInv, Complete
  <2>4. x \in Listed(e)'
    BY <1>11, <2>2, <2>3
  <2> QED
    BY <1>2, <2>1, <2>4 DEF Listed
<1>24. Room'
  <2>1. ASSUME NEW e \in Loops
        PROVE  /\ Cardinality(Held(e)') <= LimitOf(e)
               /\ Fetching(e)' => Cardinality(Held(e)') < LimitOf(e)
    <3>1. Held(e)' \subseteq Held(e) /\ Held(e) \in SUBSET Clients /\ Held(e)' \in SUBSET Clients
      BY <1>20, HeldFacts
    <3>2. IsFiniteSet(Held(e)) /\ Cardinality(Held(e)) \in Nat /\ Cardinality(Held(e)') \in Nat
      BY <3>1, CountFacts
    <3>3. Cardinality(Held(e)') <= Cardinality(Held(e))
      BY <3>1, <3>2, FS_Subset
    <3>4. LimitOf(e) \in Nat
      BY LimitType DEF IInv
    <3>5. Fetching(e)' <=> Fetching(e)
      BY <1>2 DEF Fetching
    <3>6. Cardinality(Held(e)) <= LimitOf(e) /\ (Fetching(e) => Cardinality(Held(e)) < LimitOf(e))
      BY DEF IInv, Room
    <3> QED
      BY <3>2, <3>3, <3>4, <3>5, <3>6
  <2> QED
    BY <1>3, <1>8, <2>1 DEF IInv, Room
<1>25. Uncounted'
  BY <1>1, <1>2, <1>3, <1>20 DEF IInv, Uncounted
<1>26. \A e : AtMostOne(e)' <=> AtMostOne(e)
  <2>1. \A c \in Clients : (conn'[c] \in {"accepted", "live"} \/ c \in dropped')
           <=> (conn[c] \in {"accepted", "live"} \/ c \in dropped)
    BY <1>2, <1>5, <1>6, <1>8 DEF At
  <2>2. \A e : Unanswered(e)' = Unanswered(e)
    BY <1>2, <2>1 DEF Unanswered
  <2> QED
    BY <2>2 DEF AtMostOne
<1>27. Drained'
  BY <1>2, <1>3, <1>9, <1>26 DEF IInv, Drained
<1>28. \A e \in Before \cup {v} : Over(e)'
  <2>1. ASSUME NEW e \in Before PROVE Over(e)'
    <3>1. Over(e)
      BY <1>2 DEF IInv, Joined
    <3> QED
      BY <1>2, <1>8, <3>1 DEF Over
  <2>2. Over(v)'
    BY <1>1, <1>2, <1>21 DEF Over
  <2> QED
    BY <2>1, <2>2
<1>29. Joined'
  <2> SUFFICES ASSUME main' = "joining" PROVE \A e \in Before' : Over(e)'
    BY <1>2 DEF Joined
  <2>1. visiting' = visiting + 1
    BY <1>1, <1>2
  <2>2. Before' \subseteq Before \cup {v}
    BY <1>1, <1>3, <2>1 DEF Before
  <2> QED
    BY <1>28, <2>2
<1>30. NothingLeft'
  <2> SUFFICES ASSUME main' = "returned"
               PROVE  /\ \A d \in AllLoops : loop[d] \in {"off", "ended"}
                      /\ raced \/ \A c \in Clients : conn'[c] \in {"none", "gone", "refused", "reset"}
    BY <1>2 DEF NothingLeft, AllLoops
  <2>1. Loops = Before \cup {v}
    BY <1>1, <1>2, <1>3 DEF Before
  <2>2. \A d \in Loops : Over(d)'
    BY <1>28, <2>1
  <2>3. \A d \in AllLoops : loop[d] \in {"off", "ended"}
    BY <1>2, <2>2 DEF Over, IInv, ThreadsOK
  <2>4. ASSUME ~raced, NEW c \in Clients
        PROVE  conn'[c] \in {"none", "gone", "refused", "reset"}
    <3>1. conn'[c] # "queued"
      BY <1>8, <1>9 DEF IInv, Stages, Queued
    <3>2. conn'[c] \in {"accepted", "live", "finished", "cleanup"} => owner[c] \in Loops
      BY <1>8 DEF IInv, ThreadsOK
    <3>3. conn'[c] \notin {"accepted", "live", "finished", "cleanup"}
      BY <1>2, <2>2, <2>4, <3>2 DEF Over
    <3>4. conn'[c] \in {"none", "queued", "accepted", "live", "finished", "cleanup",
                        "gone", "refused", "reset"}
      BY <1>13 DEF ConnType
    <3> QED
      BY <3>1, <3>3, <3>4
  <2> QED
    BY <2>3, <2>4
<1> QED
  BY <1>13, <1>14, <1>15, <1>16, <1>19, <1>22, <1>23, <1>24, <1>25, <1>27, <1>29, <1>30 DEF IInv

-----------------------------------------------------------------------------
(* The theorems *)

LEMMA InitInv == Init => IInv
<1> SUFFICES ASSUME Init PROVE IInv
  OBVIOUS
<1>1. /\ threads \in ThreadCounts /\ main = "begin" /\ visiting = 0 /\ seen = 0
      /\ loop = [d \in AllLoops |-> "off"]
      /\ poll_listen = [d \in AllLoops |-> FALSE]
      /\ taking = [d \in AllLoops |-> None]
      /\ connections = [d \in AllLoops |-> 0]
      /\ cleanup = [d \in AllLoops |-> <<>>]
      /\ pos = [t \in AllLoops \cup {MainThread} |-> None]
      /\ mutex = None
      /\ socket_fd = FALSE /\ listening = FALSE /\ wpipe = FALSE /\ shutdown = FALSE
      /\ raced = FALSE
      /\ conn = [c \in Clients |-> "none"]
      /\ owner = [c \in Clients |-> 0]
      /\ dropped = {}
  BY DEF Init
<1>2. 0 \in AllLoops /\ UnsignedMax \in Nat
  BY <1>1, ServerAssumption DEF AllLoops
<1>3. MainType
  BY <1>1, <1>2 DEF MainType
<1>4. Loops \subseteq AllLoops /\ MainThread \notin AllLoops
  BY <1>3, LoopNumbers
<1>5. FlagType /\ LoopType /\ ListType /\ ConnType
  <2>1. <<>> \in Seq(Clients)
    BY EmptySeq
  <2> QED
    BY <1>1, <1>2, <2>1 DEF FlagType, LoopType, ListType, ConnType
<1>6. Stages /\ Blank /\ ThreadsOK
  <2>1. pos[MainThread] = None /\ \A d \in AllLoops : pos[d] = None
    BY <1>1
  <2>2. Queued = {}
    BY <1>1 DEF Queued
  <2> QED
    BY <1>1, <1>4, <2>1, <2>2 DEF Stages, Closed, Quiesced, Blank, ThreadsOK
<1>7. /\ \A d \in Loops : Listed(d) = {} /\ ~MainIn(d) /\ pos[d] = None /\ loop[d] = "off"
      /\ \A d \in Loops : cleanup[d] = <<>> /\ connections[d] = 0
  BY <1>1, <1>4 DEF Listed, MainIn
<1>8. \A d \in Loops : Held(d) = {} /\ Cardinality(Held(d)) = 0
  <2>1. \A d \in Loops : Held(d) = {}
    BY <1>1 DEF Held, At
  <2> QED
    BY <2>1, FS_EmptySet
<1>9. ListsOwned
  BY <1>7 DEF ListsOwned, Once
<1>10. Counters
  BY <1>7, <1>8 DEF Counters, Exact
<1>11. Complete /\ Uncounted
  BY <1>1, <1>7 DEF Complete, Uncounted
<1>12. Room
  <2>1. \A d \in Loops : LimitOf(d) \in Nat /\ ~Fetching(d)
    BY <1>3, <1>7, LimitType DEF Fetching
  <2> QED
    BY <1>1, <1>8, <2>1 DEF Room
<1>13. Drained /\ Joined /\ NothingLeft
  BY <1>1 DEF Drained, Joined, NothingLeft
<1> QED
  BY <1>3, <1>5, <1>6, <1>9, <1>10, <1>11, <1>12, <1>13 DEF IInv

\* A restart is a new beginning.
LEMMA BeginAgain == Init' => IInv'
BY InitInv, PTL

LEMMA RestartInv ==
    ASSUME IInv, Restart
    PROVE  IInv'
<1>1. threads' \in ThreadCounts
  BY DEF Restart, IInv, MainType
<1>2. Init'
  BY <1>1 DEF Restart, Init, AllLoops, MainThread
<1> QED
  BY <1>2, BeginAgain

LEMMA StutterInv ==
    ASSUME IInv, UNCHANGED vars
    PROVE  IInv'
<1>1. UNCHANGED <<threads, main, visiting, seen, loop, poll_listen, taking, connections, cleanup,
                  pos, mutex, raced, socket_fd, listening, wpipe, shutdown, conn, owner, dropped>>
  BY DEF vars, mainvars, loopvars, lists, flags, served
<1>2. Loops' = Loops /\ \A e : LimitOf(e)' = LimitOf(e)
  BY <1>1, SameThreads
<1>3. /\ \A e : Held(e)' = Held(e)
      /\ \A e : At({"live", "finished"}, e)' = At({"live", "finished"}, e)
      /\ Queued' = Queued
  BY <1>1, SameConnections
<1>4. MainType' /\ FlagType' /\ LoopType' /\ ListType' /\ ConnType'
  BY <1>1 DEF IInv, MainType, FlagType, LoopType, ListType, ConnType
<1>5. Stages'
  BY <1>1, <1>2, <1>3 DEF IInv, Stages
<1>6. Blank' /\ ThreadsOK'
  BY <1>1, <1>2 DEF IInv, Blank, ThreadsOK
<1>7. \A e : MainIn(e)' <=> MainIn(e)
  BY <1>1 DEF MainIn
<1>8. ListsOwned' /\ Complete'
  BY <1>1, <1>7, SameOwned, SameComplete DEF IInv
<1>9. Counters'
  <2> SUFFICES ASSUME NEW e \in Loops, ~raced \/ Fetching(e)' PROVE Exact(e)'
    BY <1>1, <1>2 DEF Counters
  <2>1. Exact(e)
    BY <1>1 DEF IInv, Counters, Fetching
  <2> QED
    BY <1>1, <1>7, <2>1, SameExact
<1>10. Room' /\ Uncounted'
  <2>1. \A e \in Loops : Fetching(e)' <=> Fetching(e)
    BY <1>1 DEF Fetching
  <2> QED
    BY <1>1, <1>2, <1>3, <2>1 DEF IInv, Room, Uncounted
<1>11. Drained'
  BY <1>1, SameDrained DEF IInv
<1>12. Joined'
  BY <1>1, SameJoined DEF IInv, Joined
<1>13. NothingLeft'
  BY <1>1 DEF IInv, NothingLeft
<1> QED
  BY <1>4, <1>5, <1>6, <1>8, <1>9, <1>10, <1>11, <1>12, <1>13 DEF IInv

\* Every step keeps the invariant.
LEMMA NextInv ==
    ASSUME IInv, [Next]_vars
    PROVE  IInv'
<1>1. CASE MainThreadNext
  BY <1>1, StartInv, BlockSignalsInv, QuiesceInv, CloseListeningInv, MainCleansInv, MainCountsInv,
     SleepOverInv, StopDaemonInv, JoinInv, CloseAllInv DEF MainThreadNext
<1>2. CASE Signal
  BY <1>2, SignalInv
<1>3. CASE Restart
  BY <1>3, RestartInv
<1>4. CASE \E d \in Loops : Poller(d)
  BY <1>4, PollerInv
<1>5. CASE \E c \in Clients : Connect(c) \/ Finish(c) \/ ConnectionThread(c)
  BY <1>5, ConnectInv, FinishInv, ConnectionThreadInv
<1>6. CASE UNCHANGED vars
  BY <1>6, StutterInv
<1> QED
  BY <1>1, <1>2, <1>3, <1>4, <1>5, <1>6 DEF Next

\* The invariant holds throughout.
THEOREM Invariance == Spec => []IInv
BY InitInv, NextInv, PTL DEF Spec

\* Every variable keeps its type.
THEOREM Types == Spec => []TypeOK
BY Invariance, TypeParts, PTL

\* When stop returns every polling thread has ended and every connection is
\* closed: each of the joins was of a thread that had ended, and what was left in
\* its lists was closed after it (close_all_connections).
THEOREM NothingIsLeft == Spec => []NothingLeft
<1>1. IInv => NothingLeft
  BY DEF IInv
<1> QED
  BY <1>1, Invariance, PTL

\* The counter stop waits for follows the connections, until main and a worker
\* were at one list.
THEOREM CountersFollow == Spec => []CountFollows
<1>1. IInv => CountFollows
  BY DEF IInv, Counters, Exact, CountFollows, Held
<1> QED
  BY <1>1, Invariance, PTL

\* stop ends at most one unanswered connection of a polling thread: what was
\* dropped is what the thread had accepted and not counted when the sum was 0.
THEOREM DroppedBounded == Spec => []DroppedBound
<1>1. IInv => DroppedBound
  <2> SUFFICES ASSUME IInv, ~raced, NEW d \in Loops
               PROVE  Cardinality({c \in dropped : owner[c] = d}) <= 1
    BY DEF DroppedBound
  <2> DEFINE D == {c \in dropped : owner[c] = d}
  <2>1. D \in SUBSET Clients /\ D \subseteq Unanswered(d)
    BY DEF IInv, ConnType, Unanswered
  <2>2. \A c, e \in D : c = e
    <3>1. D # {} => shutdown
      BY DEF IInv, Stages
    <3>2. shutdown => AtMostOne(d)
      BY DEF IInv, Drained
    <3> QED
      BY <2>1, <3>1, <3>2 DEF AtMostOne
  <2> HIDE DEF D
  <2>3. CASE D = {}
    <3>1. Cardinality(D) = 0
      BY <2>3, FS_EmptySet
    <3> QED
      BY <3>1 DEF D
  <2>4. CASE D # {}
    <3>1. PICK c : D = {c}
      BY <2>2, <2>4
    <3>2. Cardinality(D) = 1
      BY <3>1, FS_Singleton
    <3> QED
      BY <3>2 DEF D
  <2> QED
    BY <2>3, <2>4
<1> QED
  BY <1>1, Invariance, PTL

-----------------------------------------------------------------------------
(* The limit *)

\* The connections of the first k workers that are served.
Active == {c \in Clients : conn[c] \in {"live", "finished"}}
ActiveUpTo(k) == {c \in Active : owner[c] \in 1..k}

\* What the first k workers may serve together: each its part, and one more
\* each as long as there is something left over.
Share(k) ==
    k * (ConnectionLimit \div threads)
        + (IF k <= ConnectionLimit % threads THEN k ELSE ConnectionLimit % threads)

LEMMA LimitParts ==
    ASSUME MainType, threads # 0
    PROVE  /\ threads \in Nat \ {0}
           /\ ConnectionLimit \div threads \in Nat
           /\ ConnectionLimit % threads \in 0..(threads - 1)
           /\ ConnectionLimit = threads * (ConnectionLimit \div threads) + (ConnectionLimit % threads)
<1>1. threads \in Nat \ {0} /\ ConnectionLimit \in Nat
  BY LoopNumbers, ServerAssumption
<1>2. \A l \in Nat : \A n \in Nat \ {0} : l = n * (l \div n) + (l % n)
  OBVIOUS
<1>3. \A l \in Nat : \A n \in Nat \ {0} : l \div n \in Nat /\ l % n \in 0..(n - 1)
  OBVIOUS
<1> QED
  BY <1>1, <1>2, <1>3

LEMMA ShareGrows ==
    ASSUME MainType, threads # 0, NEW k \in 1..threads
    PROVE  Share(k - 1) + LimitOf(k) = Share(k) /\ Share(k) \in Nat /\ Share(k - 1) \in Nat
<1> DEFINE q == ConnectionLimit \div threads
           r == ConnectionLimit % threads
<1>1. q \in Nat /\ r \in Nat /\ threads \in Nat \ {0} /\ k \in Nat /\ k - 1 \in Nat
  BY LimitParts
<1>2. k * q \in Nat /\ (k - 1) * q \in Nat /\ k * q = (k - 1) * q + q
  BY <1>1
<1>3. LimitOf(k) = q + (IF k <= r THEN 1 ELSE 0)
  BY DEF LimitOf, conns_per_thread, leftover_conns
<1>4. Share(k) = k * q + (IF k <= r THEN k ELSE r)
  BY DEF Share
<1>5. Share(k - 1) = (k - 1) * q + (IF k - 1 <= r THEN k - 1 ELSE r)
  BY DEF Share
<1> HIDE DEF q, r
<1> DEFINE a == k * q
           b == (k - 1) * q
<1>6. a \in Nat /\ b \in Nat /\ a = b + q
  BY <1>2
<1>7. Share(k) = a + (IF k <= r THEN k ELSE r)
  BY <1>4
<1>8. Share(k - 1) = b + (IF k - 1 <= r THEN k - 1 ELSE r)
  BY <1>5
<1> HIDE DEF a, b
<1>9. CASE k <= r
  BY <1>1, <1>3, <1>6, <1>7, <1>8, <1>9
<1>10. CASE ~(k <= r)
  <2>1. r <= k - 1
    BY <1>1, <1>10
  <2>2. Share(k - 1) = b + r
    BY <1>1, <1>8, <2>1
  <2> QED
    BY <1>1, <1>3, <1>6, <1>7, <1>10, <2>2
<1> QED
  BY <1>9, <1>10

\* Together the first k workers do not serve more than their share.
LEMMA ShareHolds ==
    ASSUME IInv, threads # 0
    PROVE  \A k \in 0..threads : Cardinality(ActiveUpTo(k)) <= Share(k)
<1> DEFINE Bad == {k \in 0..threads : ~(Cardinality(ActiveUpTo(k)) <= Share(k))}
<1> SUFFICES ASSUME Bad # {} PROVE FALSE
  OBVIOUS
<1>1. threads \in Nat /\ MainType /\ Loops = 1..threads
  BY LoopNumbers DEF IInv, Loops
<1>2. PICK k \in Bad : \A j \in Bad : k <= j
  <2>1. Bad \in SUBSET Nat
    BY <1>1
  <2> HIDE DEF Bad
  <2> QED
    BY <2>1, LeastExists
<1>3. k \in 0..threads /\ ~(Cardinality(ActiveUpTo(k)) <= Share(k))
  BY <1>2
<1>4. \A j \in 0..threads : j < k => Cardinality(ActiveUpTo(j)) <= Share(j)
  BY <1>1, <1>2
<1> HIDE DEF Bad
<1>5. CASE k = 0
  <2>1. ActiveUpTo(0) = {}
    BY DEF ActiveUpTo
  <2>2. Cardinality(ActiveUpTo(0)) = 0
    BY <2>1, FS_EmptySet
  <2>3. Share(0) = 0
    <3>1. /\ ConnectionLimit \div threads \in Nat
          /\ ConnectionLimit % threads \in 0..(threads - 1)
      BY <1>1, LimitParts
    <3>2. 0 * (ConnectionLimit \div threads) = 0 /\ 0 <= ConnectionLimit % threads
      BY <1>1, <3>1
    <3> QED
      BY <3>2 DEF Share
  <2> QED
    BY <1>3, <1>5, <2>2, <2>3
<1>6. CASE k # 0
  <2>1. k \in 1..threads /\ k - 1 \in 0..threads /\ k - 1 < k /\ k \in Loops
    BY <1>1, <1>3, <1>6
  <2>2. Cardinality(ActiveUpTo(k - 1)) <= Share(k - 1)
    BY <1>4, <2>1
  <2>3. Share(k - 1) + LimitOf(k) = Share(k) /\ Share(k) \in Nat /\ Share(k - 1) \in Nat
    BY <1>1, <2>1, ShareGrows
  <2>4. Cardinality(Held(k)) <= LimitOf(k) /\ LimitOf(k) \in Nat
    BY <1>1, <2>1, LimitType DEF IInv, Room
  <2>5. /\ ActiveUpTo(k) \subseteq ActiveUpTo(k - 1) \cup Held(k)
        /\ ActiveUpTo(k) \in SUBSET Clients /\ ActiveUpTo(k - 1) \in SUBSET Clients
        /\ Held(k) \in SUBSET Clients
    <3>1. \A i \in 1..k : i \in 1..(k - 1) \/ i = k
      BY <2>1
    <3> QED
      BY <3>1 DEF ActiveUpTo, Active, Held, At
  <2>6. /\ IsFiniteSet(ActiveUpTo(k - 1)) /\ IsFiniteSet(Held(k))
        /\ Cardinality(ActiveUpTo(k)) \in Nat /\ Cardinality(ActiveUpTo(k - 1)) \in Nat
        /\ Cardinality(Held(k)) \in Nat
    BY <2>5, CountFacts
  <2>7. /\ Cardinality(ActiveUpTo(k - 1) \cup Held(k)) \in Nat
        /\ Cardinality(ActiveUpTo(k - 1) \cup Held(k))
              <= Cardinality(ActiveUpTo(k - 1)) + Cardinality(Held(k))
    <3>1. ActiveUpTo(k - 1) \cap Held(k) \in SUBSET Clients
      BY <2>5
    <3>2. Cardinality(ActiveUpTo(k - 1) \cap Held(k)) \in Nat
      BY <3>1, CountFacts
    <3>3. Cardinality(ActiveUpTo(k - 1) \cup Held(k))
             = Cardinality(ActiveUpTo(k - 1)) + Cardinality(Held(k))
                 - Cardinality(ActiveUpTo(k - 1) \cap Held(k))
      BY <2>6, FS_Union
    <3>4. Cardinality(ActiveUpTo(k - 1) \cup Held(k)) \in Nat
      <4>1. ActiveUpTo(k - 1) \cup Held(k) \in SUBSET Clients
        BY <2>5
      <4> QED
        BY <4>1, CountFacts
    <3> QED
      BY <2>6, <3>2, <3>3, <3>4
  <2>8. Cardinality(ActiveUpTo(k)) <= Cardinality(ActiveUpTo(k - 1) \cup Held(k))
    <3>1. IsFiniteSet(ActiveUpTo(k - 1) \cup Held(k))
      BY <2>6, FS_Union
    <3> QED
      BY <2>5, <3>1, FS_Subset
  <2> QED
    BY <1>3, <2>2, <2>3, <2>4, <2>6, <2>7, <2>8
<1> QED
  BY <1>5, <1>6

\* Together the workers serve no more than connection_limit, however many they
\* are, and no connection that was accepted is refused: a worker that is going
\* to accept has room for it.
THEOREM LimitIsHonoured == Spec => []LimitHonoured
<1>1. IInv => LimitHonoured
  <2> SUFFICES ASSUME IInv PROVE Cardinality(Active) <= ConnectionLimit
    BY DEF LimitHonoured, Active, IInv, Room
  <2>1. Active \in SUBSET Clients /\ \A c \in Active : owner[c] \in Loops
    BY DEF Active, IInv, ThreadsOK
  <2>2. CASE threads = 0
    <3>1. Loops = {0} /\ LimitOf(0) = ConnectionLimit
      BY <2>2 DEF Loops, LimitOf
    <3>2. Active \subseteq Held(0) /\ Held(0) \in SUBSET Clients
      BY <2>1, <3>1 DEF Active, Held, At
    <3>3. Cardinality(Held(0)) <= ConnectionLimit
      BY <3>1 DEF IInv, Room
    <3>4. /\ IsFiniteSet(Held(0)) /\ Cardinality(Held(0)) \in Nat /\ Cardinality(Active) \in Nat
          /\ ConnectionLimit \in Nat
      BY <2>1, <3>2, CountFacts, ServerAssumption
    <3>5. Cardinality(Active) <= Cardinality(Held(0))
      BY <3>2, <3>4, FS_Subset
    <3> QED
      BY <3>3, <3>4, <3>5
  <2>3. CASE threads # 0
    <3>1. MainType /\ Loops = 1..threads
      BY <2>3 DEF IInv, Loops
    <3>2. ActiveUpTo(threads) = Active
      BY <2>1, <3>1 DEF ActiveUpTo
    <3>3. /\ threads \in Nat \ {0}
          /\ ConnectionLimit % threads \in 0..(threads - 1)
          /\ ConnectionLimit = threads * (ConnectionLimit \div threads) + (ConnectionLimit % threads)
      BY <2>3, <3>1, LimitParts
    <3>4. ~(threads <= ConnectionLimit % threads)
      BY <3>3
    <3>5. Share(threads) = ConnectionLimit
      BY <3>3, <3>4 DEF Share
    <3>6. threads \in 0..threads
      BY <3>3
    <3> QED
      BY <2>3, <3>2, <3>5, <3>6, ShareHolds
  <2> QED
    BY <2>2, <2>3
<1> QED
  BY <1>1, Invariance, PTL
=============================================================================
