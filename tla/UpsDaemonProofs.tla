-------------------------- MODULE UpsDaemonProofs ---------------------------
(***************************************************************************)
(* Proofs about UpsDaemon, for every set of parameters and of clients,     *)
(* every period, and every schedule of threads, restarts and disk faults.  *)
(***************************************************************************)
EXTENDS ReadingCheck, OrderLemmas

-----------------------------------------------------------------------------
(* The inductive invariant *)

\* Update holds the mutex from its first step to its last.
MutexHeld == mux <=> (pc \in {"stamp", "unlock"})

\* An Update is for one of the objects the loop goes through.
UpdatesObject == pc \in {"stamp", "unlock"} => object <= Len(Objects)

\* No value and no time stamp is from the future.
TimesPast ==
    /\ \A p \in Params : out_params[p] <= now
    /\ last_update <= now

\* Outside an Update the time stamp is that of the last one and covers every
\* value; last_update covers them already before the mutex is released.
StampCovers ==
    /\ pc # "unlock" => updated = last_update
    /\ pc # "stamp" => \A p \in Params : out_params[p] <= last_update

\* What a client's check found stays true until it is answered: last_update
\* only grows in one process.
CheckedFresh ==
    \A c \in Clients : http[c].pc = "json" =>
        http[c].now - last_update <= 3 * RequestPeriod

\* The counter of ReadDataFromDevice is behind the cycles that left expired rows
\* only by what the restarts and the failed deletions have cost.
CounterFollows == overdue <= cleaner_count + CleanCycles * setbacks

IInv == /\ TypeOK /\ MutexHeld /\ UpdatesObject /\ TimesPast /\ StampCovers /\ CheckedFresh
        /\ SnapshotConsistent /\ ResponseFresh /\ CounterFollows

-----------------------------------------------------------------------------
(* Facts about operators *)

\* A client's request.
Request == [pc : {"idle", "asked", "check", "json", "data", "unavailable"},
            now : Times, body : [updated : Times, newest : Times]]

\* What GetOutputJson copies: the time stamp, and the newest of the values.
LEMMA OutputFacts ==
    ASSUME TypeOK
    PROVE  /\ GetOutputJson.updated = updated
           /\ GetOutputJson \in [updated : Times, newest : Times]
           /\ \E p \in Params : GetOutputJson.newest = out_params[p]
<1> DEFINE S == {out_params[p] : p \in Params}
<1>1. S \in SUBSET Nat /\ S # {} /\ MaxTime \in Nat /\ \A s \in S : s <= MaxTime
  <2>1. out_params \in [Params -> Times]
    BY DEF TypeOK
  <2>2. MaxTime \in Nat /\ Params # {}
    BY DataAssumption, DaemonAssumption
  <2>3. \A p \in Params : out_params[p] \in Nat /\ out_params[p] <= MaxTime
    BY <2>1, <2>2 DEF Times
  <2> QED
    BY <2>2, <2>3
<1> HIDE DEF S
<1>2. \E n \in S : \A m \in S : n >= m
  BY <1>1, GreatestExists
<1>3. Max(S) \in S
  BY <1>2 DEF Max
<1> USE DEF S
<1>4. PICK p \in Params : Max(S) = out_params[p]
  BY <1>3
<1>5. Max(S) \in Times
  BY <1>4 DEF TypeOK
<1>6. GetOutputJson = [updated |-> updated, newest |-> Max(S)]
  BY DEF GetOutputJson
<1> HIDE DEF S
<1> QED
  BY <1>4, <1>5, <1>6 DEF TypeOK

\* What the clauses about clients need of a step that leaves their requests
\* alone: last_update does not go back.
LEMMA ClientsKept ==
    ASSUME IInv, TypeOK', http' = http, last_update <= last_update'
    PROVE  CheckedFresh' /\ SnapshotConsistent' /\ ResponseFresh'
<1>1. SnapshotConsistent' /\ ResponseFresh'
  BY DEF IInv, SnapshotConsistent, ResponseFresh
<1>2. ASSUME NEW c \in Clients, http'[c].pc = "json"
      PROVE  http'[c].now - last_update' <= 3 * RequestPeriod
  <2>1. http[c].now - last_update <= 3 * RequestPeriod
    BY <1>2 DEF IInv, CheckedFresh
  <2>2. last_update \in Int /\ last_update' \in Int
    BY DaemonAssumption DEF IInv, TypeOK, Times
  <2>3. http[c].now \in Times
    BY DEF IInv, TypeOK
  <2>4. http[c].now \in Int
    BY <2>3, DaemonAssumption DEF Times
  <2>5. http'[c] = http[c]
    OBVIOUS
  <2> QED
    BY <2>1, <2>2, <2>4, <2>5, DataAssumption
<1> QED
  BY <1>1, <1>2 DEF CheckedFresh

\* A step between Updates that leaves the shared data alone.
LEMMA DataKept ==
    ASSUME IInv, UNCHANGED <<now, dataVars>>,
           pc \notin {"stamp", "unlock"}, pc' \notin {"stamp", "unlock"}
    PROVE  MutexHeld' /\ UpdatesObject' /\ TimesPast' /\ StampCovers'
BY DEF IInv, dataVars, MutexHeld, UpdatesObject, TimesPast, StampCovers

-----------------------------------------------------------------------------
(* The invariant holds initially and is preserved by every action *)

\* A process that has just started.
LEMMA InitInv == Init => IInv
<1> SUFFICES ASSUME Init PROVE IInv
  OBVIOUS
<1> USE DEF Init, DBInit, ProcessInit, DataInit
<1>1. TypeOK
  <2>1. 0 \in Times /\ 3 * RequestPeriod + 1 \in Times
    BY DataAssumption, DaemonAssumption DEF Times
  <2>2. NoRequest \in Request
    BY <2>1 DEF NoRequest, Request
  <2>3. mux \in BOOLEAN /\ exists \in BOOLEAN /\ db_ready \in BOOLEAN
    OBVIOUS
  <2>4. object \in 1..Len(Objects) + 1 /\ cleaner_count \in 0..CleanCycles
    BY DaemonAssumption
  <2>5. restarts \in 0..MaxRestarts /\ faults \in 0..MaxFaults
        /\ overdue \in Nat /\ setbacks \in 0..MaxSetbacks + restarts
    BY DaemonAssumption
  <2>6. http \in [Clients -> Request]
    BY <2>2
  <2>7. /\ now \in Times /\ out_params \in [Params -> Times]
        /\ updated \in Times /\ last_update \in Times
    BY <2>1
  <2> QED
    BY <2>1, <2>3, <2>4, <2>5, <2>6, <2>7 DEF TypeOK, Request
<1>2. MutexHeld /\ UpdatesObject /\ TimesPast /\ StampCovers
  BY DataAssumption DEF MutexHeld, UpdatesObject, TimesPast, StampCovers
<1>4. CounterFollows
  BY DaemonAssumption DEF CounterFollows
<1>3. CheckedFresh /\ SnapshotConsistent /\ ResponseFresh
  BY DEF CheckedFresh, SnapshotConsistent, ResponseFresh, NoRequest
<1> QED
  BY <1>1, <1>2, <1>3, <1>4 DEF IInv

\* The modbus thread between two Updates: the loop's bookkeeping.
LEMMA LoopInv ==
    ASSUME IInv, BeginCycle \/ ReadFails \/ ReadHangs \/ EndLoop
    PROVE  IInv'
<1>1. TypeOK'
  <2>1. TypeOK
    BY DEF IInv
  <2>2. CASE BeginCycle
    BY <2>1, <2>2, DaemonAssumption DEF TypeOK, BeginCycle, dataVars, dbVars
  <2>3. CASE ReadFails
    BY <2>1, <2>3, DaemonAssumption DEF TypeOK, ReadFails, dataVars, dbVars
  <2>4. CASE ReadHangs
    BY <2>1, <2>4, DaemonAssumption DEF TypeOK, ReadHangs, dataVars, dbVars
  <2>5. CASE EndLoop
    BY <2>1, <2>5, DaemonAssumption DEF TypeOK, EndLoop, dataVars, dbVars
  <2> QED
    BY <2>2, <2>3, <2>4, <2>5
<1>2. /\ UNCHANGED <<now, dataVars, http>>
      /\ pc \notin {"stamp", "unlock"} /\ pc' \notin {"stamp", "unlock"}
  BY DEF BeginCycle, ReadFails, ReadHangs, EndLoop
<1>3. MutexHeld' /\ UpdatesObject' /\ TimesPast' /\ StampCovers'
  BY <1>2, DataKept
<1>4. CheckedFresh' /\ SnapshotConsistent' /\ ResponseFresh'
  <2>1. http' = http /\ last_update' = last_update
    BY <1>2 DEF dataVars
  <2>2. last_update \in Nat
    BY DaemonAssumption DEF IInv, TypeOK, Times
  <2>3. last_update <= last_update'
    BY <2>1, <2>2
  <2> QED
    BY <1>1, <2>1, <2>3, ClientsKept
<1>5. CounterFollows'
  BY DEF IInv, CounterFollows, BeginCycle, ReadFails, ReadHangs, EndLoop
<1> QED
  BY <1>1, <1>3, <1>4, <1>5 DEF IInv

\* One more setback is worth CleanCycles.
LEMMA OneMore == ASSUME NEW n \in Nat, NEW cycles \in Nat
                 PROVE  cycles * (n + 1) = cycles * n + cycles /\ cycles * n \in Nat
OBVIOUS

\* A cycle and a setback fit under the bound that a setback raises.
LEMMA CleanFits ==
    ASSUME NEW o \in Nat, NEW n \in Nat, NEW c \in Nat, NEW p \in Nat, NEW k \in Nat,
           n <= k, c >= 1, o <= n + p
    PROVE  o + 1 <= c + (p + k)
OBVIOUS

\* What the histories and the counter are after a cycle.
LEMMA CleanFacts ==
    ASSUME IInv, Clean
    PROVE  /\ cleaner_count' \in 0..CleanCycles
           /\ overdue' \in Nat
           /\ setbacks' \in 0..MaxSetbacks + restarts
           /\ CounterFollows'
<1>1. /\ overdue \in Nat /\ setbacks \in Nat /\ setbacks <= MaxSetbacks + restarts
      /\ cleaner_count \in Nat /\ cleaner_count <= CleanCycles /\ restarts \in Nat
      /\ CleanCycles \in Nat \ {0} /\ MaxSetbacks \in Nat
  BY DaemonAssumption DEF IInv, TypeOK
<1>2. overdue <= cleaner_count + CleanCycles * setbacks
  BY DEF IInv, CounterFollows
<1>3. \/ cleaner_count = CleanCycles /\ cleaner_count' = 1
      \/ cleaner_count # CleanCycles /\ cleaner_count' = cleaner_count + 1
  BY DEF Clean
<1>4. \/ overdue' = 0 /\ setbacks' = 0
      \/ /\ cleaner_count # CleanCycles
         /\ overdue' = overdue + 1 /\ setbacks' = setbacks
      \/ /\ setbacks < MaxSetbacks
         /\ overdue' = overdue + 1 /\ setbacks' = setbacks + 1
  <2>1. CASE cleaner_count # CleanCycles
    BY <2>1 DEF Clean, CountOverdue
  <2>2. CASE cleaner_count = CleanCycles
    <3>1. PICK ok \in BOOLEAN : ClearOldRecords(now, ok) /\ CountOverdue(ok)
      BY <2>2 DEF Clean
    <3>2. ok => Expired(rows', now) = {}
      BY <3>1 DEF ClearOldRecords, Expired
    <3> QED
      BY <3>1, <3>2 DEF CountOverdue
  <2> QED
    BY <2>1, <2>2
<1>5. cleaner_count' \in 0..CleanCycles
  BY <1>1, <1>3
<1>6. overdue' \in Nat /\ setbacks' \in 0..MaxSetbacks + restarts
  BY <1>1, <1>4
<1>8. cleaner_count' \in Nat /\ CleanCycles \in Nat /\ overdue \in Nat
  BY <1>1, <1>5
<1>7. overdue' <= cleaner_count' + CleanCycles * setbacks'
  <2>1. CASE overdue' = 0 /\ setbacks' = 0
    <3>1. CleanCycles * 0 = 0
      BY <1>8
    <3>2. CleanCycles * setbacks' = 0
      BY <2>1, <3>1
    <3>3. \A n \in Nat : 0 <= n + 0
      OBVIOUS
    <3>4. 0 <= cleaner_count' + 0
      BY <1>8, <3>3
    <3> QED
      BY <2>1, <3>2, <3>4, Zenon
  <2>2. CASE cleaner_count # CleanCycles /\ overdue' = overdue + 1 /\ setbacks' = setbacks
    <3>1. CleanCycles * setbacks \in Nat
      BY <1>1, OneMore
    <3>2. PICK cost \in Nat : cost = CleanCycles * setbacks
      BY <3>1
    <3>3. overdue <= cleaner_count + cost
      BY <3>2, <1>2
    <3>4. cleaner_count' = cleaner_count + 1
      BY <2>2, <1>3
    <3>5. overdue' <= cleaner_count' + cost
      BY <1>1, <2>2, <3>3, <3>4
    <3>6. CleanCycles * setbacks' = cost
      BY <3>2, <2>2
    <3> QED
      BY <3>5, <3>6, Zenon
  <2>3. CASE overdue' = overdue + 1 /\ setbacks' = setbacks + 1
    <3>1. CleanCycles * setbacks' = CleanCycles * setbacks + CleanCycles /\ CleanCycles * setbacks \in Nat
      BY <2>3, <1>1, OneMore
    <3>2. cleaner_count' \in Nat /\ cleaner_count' >= 1
      BY <1>1, <1>3
    <3>3. PICK cost \in Nat : cost = CleanCycles * setbacks
      BY <3>1
    <3>4. overdue <= cleaner_count + cost
      BY <3>3, <1>2
    <3>5. overdue' <= cleaner_count' + (cost + CleanCycles)
      <4>1. overdue + 1 <= cleaner_count' + (cost + CleanCycles)
        <5>1. cleaner_count \in Nat /\ cleaner_count <= CleanCycles
          BY <1>1
        <5> QED
          BY <5>1, <3>2, <3>4, <1>8, CleanFits
      <4> QED
        BY <2>3, <4>1
    <3>6. CleanCycles * setbacks' = cost + CleanCycles
      BY <3>1, <3>3
    <3> QED
      BY <3>5, <3>6, Zenon
  <2> QED
    BY <1>4, <2>1, <2>2, <2>3
<1> QED
  BY <1>5, <1>6, <1>7 DEF CounterFollows

\* The modbus thread at its database.
LEMMA StoreInv ==
    ASSUME IInv, Create \/ Insert \/ Clean
    PROVE  IInv'
<1>1. TypeOK'
  <2> USE DEF IInv, TypeOK, dataVars, dbVars
  <2>1. CASE Create
    BY <2>1 DEF Create, CreateTable, Reported
  <2>2. CASE Insert
    BY <2>2 DEF Insert, InsertData
  <2>3. CASE Clean
    <3>1. /\ cleaner_count' \in 0..CleanCycles /\ overdue' \in Nat
          /\ setbacks' \in 0..MaxSetbacks + restarts
      BY <2>3, CleanFacts
    <3>2. UNCHANGED <<exists, columns, disk>> /\ rows' \in SUBSET Times
      BY <2>3 DEF Clean, ClearOldRecords
    <3>3. UNCHANGED <<now, dataVars, object, db_ready, result, http, restarts, faults>> /\ pc' = "sleep"
      BY <2>3 DEF Clean
    <3> QED
      BY <3>1, <3>2, <3>3
  <2> QED
    BY <2>1, <2>2, <2>3
<1>2. /\ UNCHANGED <<now, dataVars, http>>
      /\ pc \notin {"stamp", "unlock"} /\ pc' \notin {"stamp", "unlock"}
  BY DEF Create, Insert, Clean
<1>3. MutexHeld' /\ UpdatesObject' /\ TimesPast' /\ StampCovers'
  BY <1>2, DataKept
<1>4. CheckedFresh' /\ SnapshotConsistent' /\ ResponseFresh'
  <2>1. http' = http /\ last_update' = last_update
    BY <1>2 DEF dataVars
  <2>2. last_update \in Nat
    BY DaemonAssumption DEF IInv, TypeOK, Times
  <2>3. last_update <= last_update'
    BY <2>1, <2>2
  <2> QED
    BY <1>1, <2>1, <2>3, ClientsKept
<1>5. CounterFollows'
  <2>1. CASE Create \/ Insert
    BY <2>1 DEF IInv, Create, Insert, CounterFollows
  <2>2. CASE Clean
    BY <2>2, CleanFacts
  <2> QED
    BY <2>1, <2>2
<1> QED
  BY <1>1, <1>3, <1>4, <1>5 DEF IInv

\* A handler's Update, in its three steps.
LEMMA UpdateInv ==
    ASSUME IInv, ReadSucceeds \/ Stamp \/ Unlock
    PROVE  IInv'
<1> USE DEF IInv
<1>1. ReadSucceeds => Objects[object] \in Params
  <2>1. object \in Nat \ {0} /\ Len(Objects) \in Nat
    BY DaemonAssumption DEF TypeOK
  <2> QED
    BY <2>1, DaemonAssumption DEF ReadSucceeds
<1>2. TypeOK'
  <2>1. CASE ReadSucceeds
    BY <1>1, <2>1 DEF TypeOK, ReadSucceeds, UpdateLocks, dbVars
  <2>2. CASE Stamp
    BY <2>2 DEF TypeOK, Stamp, PutTimeStamp, dbVars
  <2>3. CASE Unlock
    <3>1. object' \in 1..Len(Objects) + 1
      BY <2>3, DaemonAssumption DEF TypeOK, Unlock, UpdatesObject
    <3> QED
      BY <2>3, <3>1 DEF TypeOK, Unlock, UpdateUnlocks, dbVars
  <2> QED
    BY <2>1, <2>2, <2>3
<1>3. MutexHeld' /\ UpdatesObject'
  BY DEF MutexHeld, UpdatesObject, ReadSucceeds, UpdateLocks, Stamp, PutTimeStamp, Unlock, UpdateUnlocks
<1>4. now \in Int /\ last_update \in Int /\ last_update <= now /\ now' = now
      /\ \A p \in Params : out_params[p] \in Int /\ out_params[p] <= now
  BY DEF TypeOK, Times, TimesPast, ReadSucceeds, Stamp, Unlock
<1>5. TimesPast' /\ last_update <= last_update'
  <2>1. CASE ReadSucceeds
    BY <1>1, <1>4, <2>1 DEF TypeOK, ReadSucceeds, UpdateLocks, TimesPast
  <2>2. CASE Stamp
    BY <1>4, <2>2 DEF Stamp, PutTimeStamp, TimesPast
  <2>3. CASE Unlock
    BY <1>4, <2>3 DEF Unlock, UpdateUnlocks, TimesPast
  <2> QED
    BY <2>1, <2>2, <2>3
<1>6. StampCovers'
  <2>1. CASE ReadSucceeds
    BY <2>1 DEF ReadSucceeds, UpdateLocks, StampCovers
  <2>2. CASE Stamp
    BY <1>4, <2>2 DEF Stamp, PutTimeStamp, StampCovers
  <2>3. CASE Unlock
    BY <2>3 DEF Unlock, UpdateUnlocks, StampCovers
  <2> QED
    BY <2>1, <2>2, <2>3
<1>7. http' = http
  BY DEF ReadSucceeds, Stamp, Unlock
<1>8. CheckedFresh' /\ SnapshotConsistent' /\ ResponseFresh'
  BY <1>2, <1>5, <1>7, ClientsKept
<1>9. CounterFollows'
  BY DEF CounterFollows, ReadSucceeds, Stamp, Unlock
<1> QED
  BY <1>2, <1>3, <1>5, <1>6, <1>8, <1>9

\* A client's thread changes only the client's request.
LEMMA ClientStep ==
    ASSUME IInv, NEW c \in Clients, NEW r, SetRequest(c, r),
           r \in Request,
           r.pc = "json" => r.now - last_update <= 3 * RequestPeriod,
           r.pc = "data" => /\ r.body.newest <= r.body.updated
                            /\ r.now - r.body.updated <= 3 * RequestPeriod
    PROVE  IInv'
<1> USE DEF IInv
<1>1. UNCHANGED <<now, dataVars, dbVars, pollVars, restarts, faults>>
      /\ http' = [http EXCEPT ![c] = r]
  BY DEF SetRequest
<1>2. TypeOK'
  <2>1. http' \in [Clients -> Request]
    BY <1>1 DEF TypeOK, Request
  <2>2. UNCHANGED <<now, out_params, updated, last_update, mux, exists, columns, rows, disk,
                    pc, object, db_ready, cleaner_count, result, overdue, setbacks, restarts, faults>>
    BY <1>1 DEF dataVars, dbVars, pollVars
  <2> QED
    BY <2>1, <2>2 DEF TypeOK, Request
<1>3. MutexHeld' /\ UpdatesObject' /\ TimesPast' /\ StampCovers' /\ CounterFollows'
  BY <1>1 DEF MutexHeld, UpdatesObject, TimesPast, StampCovers, CounterFollows, dataVars, pollVars
<1>4. \A d \in Clients : http'[d] = IF d = c THEN r ELSE http[d]
  BY <1>1 DEF TypeOK
<1>5. CheckedFresh'
  BY <1>1, <1>4 DEF CheckedFresh, dataVars
<1>6. SnapshotConsistent' /\ ResponseFresh'
  BY <1>4 DEF SnapshotConsistent, ResponseFresh
<1> QED
  BY <1>2, <1>3, <1>5, <1>6

\* A request comes, or its thread goes on with it.
LEMMA ClientInv ==
    ASSUME IInv, NEW c \in Clients, Arrive(c) \/ Answer(c)
    PROVE  IInv'
<1> USE DEF IInv
<1>1. NoRequest \in Request /\ http[c] \in Request /\ now \in Times
  BY DaemonAssumption DEF NoRequest, Request, Times, TypeOK
<1>2. CASE Arrive(c)
  BY <1>1, <1>2, ClientStep DEF Arrive, Request, NoRequest
<1>3. CASE ReadClock(c)
  BY <1>1, <1>3, ClientStep DEF ReadClock, Request, NoRequest
<1>4. CASE Check(c)
  <2> DEFINE r == [http[c] EXCEPT !.pc =
                     IF IsDeviceConnected(http[c].now) THEN "json" ELSE "unavailable"]
  <2>1. SetRequest(c, r) /\ r \in Request
    BY <1>1, <1>4 DEF Check, Request
  <2>2. r.pc # "data" /\ r.now = http[c].now
    BY <1>1 DEF Request
  <2>3. r.pc = "json" => r.now - last_update <= 3 * RequestPeriod
    BY <1>1, <2>2 DEF IsDeviceConnected
  <2> HIDE DEF r
  <2> QED
    BY <2>1, <2>2, <2>3, ClientStep
<1>5. CASE Respond(c)
  <2> DEFINE r == [http[c] EXCEPT !.pc = "data", !.body = GetOutputJson]
  <2>1. /\ GetOutputJson.updated = updated
        /\ GetOutputJson \in [updated : Times, newest : Times]
        /\ \E p \in Params : GetOutputJson.newest = out_params[p]
    BY OutputFacts
  <2>2. SetRequest(c, r) /\ r \in Request
    BY <1>1, <1>5, <2>1 DEF Respond, Request
  <2>3. r.pc = "data" /\ r.now = http[c].now /\ r.body = GetOutputJson
    BY <1>1 DEF Request
  <2>4. updated = last_update /\ \A p \in Params : out_params[p] <= last_update
    BY <1>5 DEF Respond, MutexHeld, StampCovers
  <2>5. r.body.newest <= r.body.updated
    BY <2>1, <2>3, <2>4
  <2>6. r.now - r.body.updated <= 3 * RequestPeriod
    BY <1>5, <2>1, <2>3, <2>4 DEF Respond, CheckedFresh
  <2> HIDE DEF r
  <2> QED
    BY <2>2, <2>3, <2>5, <2>6, ClientStep
<1> QED
  BY <1>2, <1>3, <1>4, <1>5 DEF Answer

\* Time passes, or the disk fills or is freed.
LEMMA OutsideInv ==
    ASSUME IInv, Tick \/ DiskFills \/ DiskFreed
    PROVE  IInv'
<1> USE DEF IInv
<1>1. UNCHANGED <<dataVars, pollVars, http>>
  BY DEF Tick, DiskFills, DiskFreed
<1>2. TypeOK'
  <2>1. UNCHANGED <<out_params, updated, last_update, mux, pc, object, db_ready,
                    cleaner_count, http, result, overdue, setbacks>>
    BY <1>1 DEF dataVars, pollVars
  <2>2. UNCHANGED <<exists, columns, rows>> /\ disk' \in {"ok", "full"}
    BY DEF Tick, DiskFills, DiskFreed, SetDisk, dbVars, TypeOK
  <2>3. now' \in Times /\ restarts' \in 0..MaxRestarts /\ faults' \in 0..MaxFaults
    BY DaemonAssumption DEF Tick, DiskFills, DiskFreed, TypeOK, Times
  <2>4. restarts' = restarts
    BY DEF Tick, DiskFills, DiskFreed
  <2> QED
    BY <2>1, <2>2, <2>3, <2>4 DEF TypeOK
<1>3. MutexHeld' /\ UpdatesObject' /\ StampCovers' /\ CounterFollows'
  BY <1>1 DEF MutexHeld, UpdatesObject, StampCovers, CounterFollows, dataVars, pollVars
<1>4. now \in Int /\ last_update \in Int /\ (now' = now \/ now' = now + 1)
      /\ \A p \in Params : out_params[p] \in Int
  BY DEF TypeOK, Times, Tick, DiskFills, DiskFreed
<1>5. TimesPast'
  BY <1>1, <1>4 DEF TimesPast, dataVars
<1>6. CheckedFresh' /\ SnapshotConsistent' /\ ResponseFresh'
  BY <1>1, <1>2, <1>4, ClientsKept DEF dataVars
<1> QED
  BY <1>2, <1>3, <1>5, <1>6

\* The process dies and is started again.
LEMMA RestartInv ==
    ASSUME IInv, Restart
    PROVE  IInv'
<1> USE DEF IInv, Restart
<1>1. TypeOK'
  <2>1. 0 \in Times /\ NoRequest \in Request
    BY DaemonAssumption DEF Times, NoRequest, Request
  <2>2. http' \in [Clients -> Request]
    BY <2>1
  <2>3. restarts' \in 0..MaxRestarts
    BY DaemonAssumption DEF TypeOK
  <2>4. object' \in 1..Len(Objects) + 1 /\ cleaner_count' \in 0..CleanCycles
    BY DaemonAssumption
  <2>7. overdue' \in Nat /\ setbacks' \in 0..MaxSetbacks + restarts'
    BY DaemonAssumption DEF TypeOK
  <2>5. mux' \in BOOLEAN /\ db_ready' \in BOOLEAN
    OBVIOUS
  <2>6. /\ out_params' \in [Params -> Times] /\ updated' \in Times /\ last_update' \in Times
    BY <2>1
  <2> QED
    BY <2>2, <2>3, <2>4, <2>5, <2>6, <2>7 DEF TypeOK, Request, dbVars
<1>2. MutexHeld' /\ UpdatesObject' /\ TimesPast' /\ StampCovers'
  BY DEF TypeOK, Times, MutexHeld, UpdatesObject, TimesPast, StampCovers
<1>4. CounterFollows'
  <2>1. /\ overdue' = overdue /\ setbacks' = setbacks + 1 /\ cleaner_count' = 0
        /\ overdue \in Nat /\ setbacks \in Nat /\ CleanCycles \in Nat
        /\ cleaner_count \in Nat /\ cleaner_count <= CleanCycles
        /\ overdue <= cleaner_count + CleanCycles * setbacks
    BY DaemonAssumption DEF TypeOK, CounterFollows
  <2>2. CleanCycles * setbacks' = CleanCycles * setbacks + CleanCycles /\ CleanCycles * setbacks \in Nat
    BY <2>1, OneMore
  <2> QED
    BY <2>1, <2>2 DEF CounterFollows
<1>3. CheckedFresh' /\ SnapshotConsistent' /\ ResponseFresh'
  BY DEF CheckedFresh, SnapshotConsistent, ResponseFresh, NoRequest
<1> QED
  BY <1>1, <1>2, <1>3, <1>4

\* No step changes anything.
LEMMA StutterInv ==
    ASSUME IInv, UNCHANGED vars
    PROVE  IInv'
BY DEF vars, dataVars, dbVars, pollVars, IInv, TypeOK, MutexHeld, UpdatesObject, TimesPast, StampCovers,
       CheckedFresh, SnapshotConsistent, ResponseFresh, CounterFollows

LEMMA NextInv == IInv /\ [Next]_vars => IInv'
<1> SUFFICES ASSUME IInv, [Next]_vars PROVE IInv'
  OBVIOUS
<1>1. CASE PollThread
  BY <1>1, LoopInv, StoreInv, UpdateInv, StutterInv DEF PollThread, KeepsHanging
<1>2. CASE \E c \in Clients : Arrive(c) \/ Answer(c)
  BY <1>2, ClientInv
<1>3. CASE Tick \/ DiskFills \/ DiskFreed
  BY <1>3, OutsideInv
<1>4. CASE Restart
  BY <1>4, RestartInv
<1>5. CASE UNCHANGED vars
  BY <1>5, StutterInv
<1> QED
  BY <1>1, <1>2, <1>3, <1>4, <1>5 DEF Next

-----------------------------------------------------------------------------
(* What follows *)

\* The invariant holds in every reachable state.
THEOREM Invariance == Spec => []IInv
<1>1. Init => IInv
  BY InitInv
<1>2. IInv /\ [Next]_vars => IInv'
  BY NextInv
<1> QED
  BY <1>1, <1>2, PTL DEF Spec

\* The variables keep their types: the loop of ReadDataFromDevice stays within
\* the configured objects, and its counter of cycles within its limit.
THEOREM Types == Spec => []TypeOK
<1>1. IInv => TypeOK
  BY DEF IInv
<1> QED
  BY <1>1, Invariance, PTL

\* GetOutputJson never shows an Update in progress: the time stamp of a
\* response is not older than any value beside it, whatever the HTTP threads
\* and the modbus thread do in between.
THEOREM SnapshotsConsistent == Spec => []SnapshotConsistent
<1>1. IInv => SnapshotConsistent
  BY DEF IInv
<1> QED
  BY <1>1, Invariance, PTL

\* is_device_connected reads last_update without the mutex and before the copy,
\* and still no response with data is staler than it promises.
THEOREM ResponsesFresh == Spec => []ResponseFresh
<1>1. IInv => ResponseFresh
  BY DEF IInv
<1> QED
  BY <1>1, Invariance, PTL

\* Old records go in time, in any process and across restarts: a row past its
\* storage time outlives at most CleanCycles stored cycles, and CleanCycles more
\* for each restart, which forgets the counter, and for each deletion that
\* fails, after which ReadDataFromDevice counts again from the start.
THEOREM KeepsRetention == Spec => []RetentionKept
<1>1. ASSUME IInv PROVE RetentionKept
  <2>1. /\ overdue \in Nat /\ setbacks \in Nat /\ CleanCycles \in Nat
        /\ cleaner_count \in Nat /\ cleaner_count <= CleanCycles
        /\ overdue <= cleaner_count + CleanCycles * setbacks
    BY <1>1, DaemonAssumption DEF IInv, TypeOK, CounterFollows
  <2>2. CleanCycles * (setbacks + 1) = CleanCycles * setbacks + CleanCycles /\ CleanCycles * setbacks \in Nat
    BY <2>1, OneMore
  <2>3. 1 + setbacks = setbacks + 1
    BY <2>1
  <2> QED
    BY <2>1, <2>2, <2>3 DEF RetentionKept
<1> QED
  BY <1>1, Invariance, PTL

-----------------------------------------------------------------------------
(* What the handlers make of a register *)

\* A register is sent as two bytes that make it up again.
LEMMA RegisterBytes ==
    ASSUME NEW word \in Int, 0 <= word, word <= 65535
    PROVE  /\ Register(word)[1] \in Int /\ 0 <= Register(word)[1] /\ Register(word)[1] <= 255
           /\ Register(word)[2] \in Int /\ 0 <= Register(word)[2] /\ Register(word)[2] <= 255
           /\ word = 256 * Register(word)[1] + Register(word)[2]
<1>1. (word \div 256) \in 0..255
  OBVIOUS
<1>2. (word % 256) \in 0..255
  OBVIOUS
<1>3. word = 256 * (word \div 256) + (word % 256)
  OBVIOUS
<1>4. Register(word)[1] = (word \div 256) /\ Register(word)[2] = (word % 256)
  BY DEF Register
<1> QED
  BY <1>1, <1>2, <1>3, <1>4

\* The registers, as a range.
LEMMA WordsSpan == ASSUME NEW top, top = 65535 PROVE Words = 0..top
BY DEF Words

\* What a register may hold.
LEMMA WordRange == ASSUME NEW word \in Words PROVE word \in Int /\ 0 <= word /\ word <= 65535
<1>1. PICK top \in Int : top = 65535
  OBVIOUS
<1> QED
  BY <1>1, WordsSpan

\* What a measured value may be.
LEMMA ValueRange == \A value \in Values : value \in Int /\ -32768 <= value /\ value <= 32767
<1> DEFINE least == -32768
<1>1. least \in Int
  OBVIOUS
<1>2. Values = least..32767
  BY DEF Values
<1> HIDE DEF least
<1>3. \A value \in Values : value \in Int /\ least <= value /\ value <= 32767
  BY <1>1, <1>2
<1> QED
  BY <1>3 DEF least

\* A value in two's complement.
LEMMA Wrapped ==
    ASSUME NEW value \in Int, -32768 <= value, value <= 32767
    PROVE  value % 65536 = IF value < 0 THEN value + 65536 ELSE value
<1>1. ASSUME value >= 0 PROVE value % 65536 = value
  BY <1>1
<1>2. ASSUME value < 0 PROVE value % 65536 = value + 65536
  BY <1>2
<1> QED
  BY <1>1, <1>2

\* The two bytes of a loaded word are those that were loaded.
LEMMA Swapped ==
    ASSUME NEW low \in Int, NEW high \in Int, 0 <= low, low <= 255, 0 <= high, high <= 255
    PROVE  (high + 256 * low) % 256 = high /\ (high + 256 * low) \div 256 = low
<1>1. (high + 256 * low) % 256 = high
  OBVIOUS
<1>2. (high + 256 * low) \div 256 = low
  OBVIOUS
<1> QED
  BY <1>1, <1>2

\* The bits the handlers read are those of the register with their weights: bit i
\* of the low byte weighs 2^i, bit 3 of the high byte 2^11.
LEMMA LowBits ==
    ASSUME NEW word \in Int, 0 <= word, word <= 65535
    PROVE  /\ Bit(Register(word)[2], 0) <=> Carries(word, 1)
           /\ Bit(Register(word)[2], 1) <=> Carries(word, 2)
           /\ Bit(Register(word)[2], 2) <=> Carries(word, 4)
           /\ Bit(Register(word)[2], 3) <=> Carries(word, 8)
           /\ Bit(Register(word)[2], 4) <=> Carries(word, 16)
           /\ Bit(Register(word)[2], 5) <=> Carries(word, 32)
           /\ Bit(Register(word)[2], 6) <=> Carries(word, 64)
           /\ Bit(Register(word)[2], 7) <=> Carries(word, 128)
           /\ Bit(Register(word)[1], 3) <=> Carries(word, 2048)
<1> DEFINE low == Register(word)[2]
           high == Register(word)[1]
<1>1. low \in Int /\ 0 <= low /\ low <= 255 /\ high \in Int /\ 0 <= high /\ high <= 255 /\ word = 256 * high + low
  BY RegisterBytes
<1> HIDE DEF low, high
<1>2. /\ Weight[0 + 1] = 1 /\ Weight[1 + 1] = 2 /\ Weight[2 + 1] = 4 /\ Weight[3 + 1] = 8
      /\ Weight[4 + 1] = 16 /\ Weight[5 + 1] = 32 /\ Weight[6 + 1] = 64 /\ Weight[7 + 1] = 128
  BY DEF Weight
<1>3. (low \div 1) % 2 = (word \div 1) % 2
  BY <1>1
<1>4. (low \div 2) % 2 = (word \div 2) % 2
  BY <1>1
<1>5. (low \div 4) % 2 = (word \div 4) % 2
  BY <1>1
<1>6. (low \div 8) % 2 = (word \div 8) % 2
  BY <1>1
<1>7. (low \div 16) % 2 = (word \div 16) % 2
  BY <1>1
<1>8. (low \div 32) % 2 = (word \div 32) % 2
  BY <1>1
<1>9. (low \div 64) % 2 = (word \div 64) % 2
  BY <1>1
<1>10. (low \div 128) % 2 = (word \div 128) % 2
  BY <1>1
<1>11. (high \div 8) % 2 = (word \div 2048) % 2
  BY <1>1
<1> QED
  BY <1>2, <1>3, <1>4, <1>5, <1>6, <1>7, <1>8, <1>9, <1>10, <1>11 DEF Bit, Carries, low, high

\* Loading and swapping the bytes gives back the value, negative or not.
LEMMA ValuesAre == ValuesDecoded
<1> SUFFICES ASSUME NEW value \in Values
             PROVE  SmartHandlerAnalog(Register(value % 65536)) = value
  BY DEF ValuesDecoded
<1>a. value \in Int /\ -32768 <= value /\ value <= 32767
  BY ValueRange
<1> DEFINE word == value % 65536
<1>1. word = IF value < 0 THEN value + 65536 ELSE value
  BY <1>a, Wrapped
<1>b. word \in Int /\ 0 <= word /\ word <= 65535
  BY <1>a, <1>1
<1> HIDE DEF word
<1> DEFINE low == Register(word)[2]
           high == Register(word)[1]
<1>2. low \in Int /\ 0 <= low /\ low <= 255 /\ high \in Int /\ 0 <= high /\ high <= 255 /\ word = 256 * high + low
  BY <1>b, RegisterBytes
<1>3. SmartHandlerAnalog(Register(word)) = Signed16(bswap16(high + 256 * low))
  BY DEF SmartHandlerAnalog, Loaded
<1> HIDE DEF low, high
<1>4. (high + 256 * low) % 256 = high /\ (high + 256 * low) \div 256 = low
  BY <1>2, Swapped
<1>5. bswap16(high + 256 * low) = word
  BY <1>2, <1>4 DEF bswap16
<1>6. Signed16(word) = value
  BY <1>1, <1>a DEF Signed16
<1> QED
  BY <1>3, <1>5, <1>6 DEF word

\* A flag is published when its bit is set, whatever the other bits are.
LEMMA FlagsAre == FlagsDecoded
<1> SUFFICES ASSUME NEW word \in Words
             PROVE  /\ SmartHandlerFaultStatus(Register(word)) = Conditions(word, FaultWeights)
                    /\ SmartHandlerSystemStatus(Register(word)) = Conditions(word, SystemWeights)
                    /\ SmartHandlerChargingStatus(Register(word)) = Conditions(word, ChargingWeights)
  BY DEF FlagsDecoded
<1>a. word \in Int /\ 0 <= word /\ word <= 65535
  BY WordRange
<1> DEFINE low == Register(word)[2]
           high == Register(word)[1]
<1>0. /\ Bit(low, 0) <=> Carries(word, 1)
      /\ Bit(low, 1) <=> Carries(word, 2)
      /\ Bit(low, 2) <=> Carries(word, 4)
      /\ Bit(low, 3) <=> Carries(word, 8)
      /\ Bit(low, 4) <=> Carries(word, 16)
      /\ Bit(low, 5) <=> Carries(word, 32)
      /\ Bit(low, 6) <=> Carries(word, 64)
      /\ Bit(low, 7) <=> Carries(word, 128)
      /\ Bit(high, 3) <=> Carries(word, 2048)
  BY <1>a, LowBits
<1> HIDE DEF low, high
<1>2. \A weights : Conditions(word, weights) = {name \in DOMAIN weights : Carries(word, weights[name])}
  BY DEF Conditions
<1>3. Flags(low, [OTP |-> 1, OVP |-> 2, OLP |-> 3, SHORT |-> 4, AC_FAIL |-> 5, OP_OFF |-> 6, HI_TEMP |-> 7])
        = Conditions(word, FaultWeights)
  <2> DEFINE places == [OTP |-> 1, OVP |-> 2, OLP |-> 3, SHORT |-> 4, AC_FAIL |-> 5, OP_OFF |-> 6, HI_TEMP |-> 7]
  <2>1. DOMAIN places = DOMAIN FaultWeights
    BY DEF FaultWeights
  <2>2. \A name \in DOMAIN places : Bit(low, places[name]) <=> Carries(word, FaultWeights[name])
    BY <1>0 DEF FaultWeights
  <2> HIDE DEF places
  <2>3. Flags(low, places) = {name \in DOMAIN places : Bit(low, places[name])}
    BY DEF Flags
  <2>4. Flags(low, places) = Conditions(word, FaultWeights)
    BY <2>1, <2>2, <2>3, <1>2
  <2> QED
    BY <2>4 DEF places
<1>4. Flags(low, [DC_OK |-> 1, INITIAL_STATE |-> 5, EEPER |-> 6, CHG_UPS |-> 7])
        = Conditions(word, SystemWeights)
  <2> DEFINE places == [DC_OK |-> 1, INITIAL_STATE |-> 5, EEPER |-> 6, CHG_UPS |-> 7]
  <2>1. DOMAIN places = DOMAIN SystemWeights
    BY DEF SystemWeights
  <2>2. \A name \in DOMAIN places : Bit(low, places[name]) <=> Carries(word, SystemWeights[name])
    BY <1>0 DEF SystemWeights
  <2> HIDE DEF places
  <2>3. Flags(low, places) = {name \in DOMAIN places : Bit(low, places[name])}
    BY DEF Flags
  <2>4. Flags(low, places) = Conditions(word, SystemWeights)
    BY <2>1, <2>2, <2>3, <1>2
  <2> QED
    BY <2>4 DEF places
<1>5. Flags(low, [FULLM |-> 0, CCM |-> 1, CVM |-> 2, DCM |-> 7]) \cup Flags(high, [BTNC |-> 3])
        = Conditions(word, ChargingWeights)
  <2> DEFINE lows == [FULLM |-> 0, CCM |-> 1, CVM |-> 2, DCM |-> 7]
             highs == [BTNC |-> 3]
  <2>1. DOMAIN lows \cup DOMAIN highs = DOMAIN ChargingWeights
    BY DEF ChargingWeights
  <2>2. \A name \in DOMAIN lows : Bit(low, lows[name]) <=> Carries(word, ChargingWeights[name])
    BY <1>0 DEF ChargingWeights
  <2>3. \A name \in DOMAIN highs : Bit(high, highs[name]) <=> Carries(word, ChargingWeights[name])
    BY <1>0 DEF ChargingWeights
  <2> HIDE DEF lows, highs
  <2>4. Flags(low, lows) = {name \in DOMAIN lows : Bit(low, lows[name])}
    BY DEF Flags
  <2>5. Flags(high, highs) = {name \in DOMAIN highs : Bit(high, highs[name])}
    BY DEF Flags
  <2>6. Flags(low, lows) \cup Flags(high, highs) = Conditions(word, ChargingWeights)
    BY <2>1, <2>2, <2>3, <2>4, <2>5, <1>2
  <2> QED
    BY <2>6 DEF lows, highs
<1> QED
  BY <1>3, <1>4, <1>5 DEF SmartHandlerFaultStatus, SmartHandlerSystemStatus, SmartHandlerChargingStatus, low, high

\* What UpsDaemon takes for granted: every reading HandledData holds, a value or a
\* set of flags, means what the device sent.
THEOREM ReadingsAreDecoded == Spec => []ReadingsDecoded
<1>1. ReadingsDecoded
  BY ValuesAre, FlagsAre DEF ReadingsDecoded
<1> QED
  BY <1>1, PTL
=============================================================================
