----------------------------- MODULE UpsDaemon ------------------------------
(***************************************************************************)
(* The running daemon: the modbus thread (main.cpp) polls the device,      *)
(* publishes what it read (HandledData) and stores it (DBManager), while   *)
(* HTTP threads answer requests (ups_service) and systemd restarts the     *)
(* process when it dies. How a poll comes by its answers is the subject of *)
(* ModbusPoll, how it comes by its sockets of TdsComPort; here each object *)
(* is read or not.                                                         *)
(***************************************************************************)
EXTENDS HandledData, DBManager, Sequences

CONSTANTS
    Objects,        \* the polled parameters, in the order of the configuration
    Clients,        \* HTTP threads with a request for "/data" or "/"
    CleanCycles,    \* 50: cycles after which old records are cleared
    MaxTime,        \* bound on the clock
    MaxRestarts,    \* bound on the crashes
    MaxFaults,      \* bound on how often the disk stops working
    MaxSetbacks     \* bound on the deletions that fail while old records stay

ASSUME DaemonAssumption ==
    /\ Objects \in Seq(Params)
    /\ CleanCycles \in Nat \ {0}
    /\ MaxTime \in Nat /\ MaxTime > 3 * RequestPeriod
    /\ MaxRestarts \in Nat
    /\ MaxFaults \in Nat
    /\ MaxSetbacks \in Nat

VARIABLES
    pc,             \* what the modbus thread does next
    object,         \* the object the loop of ReadDataFromDevice has reached
    db_ready,
    cleaner_count,  \* the static counter of ReadDataFromDevice
    http,           \* each client's request
    restarts,       \* restarts so far
    faults,         \* disk faults so far
    result,         \* history: of the last InsertData of this process
    overdue,        \* history: stored cycles that left expired rows, since one left none
    setbacks        \* history: restarts and failed deletions since then

pollVars == <<pc, object, db_ready, cleaner_count, result, overdue, setbacks>>
vars == <<now, dataVars, dbVars, pollVars, http, restarts, faults>>

NoRequest == [pc |-> "idle", now |-> 0, body |-> [updated |-> 0, newest |-> 0]]

ProcessInit ==
    /\ DataInit
    /\ pc = "sleep"
    /\ object = 1
    /\ db_ready = FALSE
    /\ cleaner_count = 0
    /\ http = [c \in Clients |-> NoRequest]
    /\ result = "none"
    /\ overdue = 0
    /\ setbacks = 0

\* The clock reads a time long after the epoch: last_update = 0 is not recent.
Init == now = 3 * RequestPeriod + 1 /\ restarts = 0 /\ faults = 0 /\ DBInit /\ ProcessInit

-----------------------------------------------------------------------------
(* The modbus thread *)

\* open_com_port succeeds. (When it fails the thread goes back to sleep.)
BeginCycle ==
    /\ pc = "sleep"
    /\ pc' = "poll"
    /\ object' = 1
    /\ UNCHANGED <<now, dataVars, dbVars, db_ready, cleaner_count, result,
                   overdue, setbacks, http, restarts, faults>>

\* The request or its answer fails: the loop goes on with the next object.
ReadFails ==
    /\ pc = "poll"
    /\ object <= Len(Objects)
    /\ object' = object + 1
    /\ UNCHANGED <<now, dataVars, dbVars, pc, db_ready, cleaner_count, result,
                   overdue, setbacks, http, restarts, faults>>

\* The gateway closed the connection: modbus_exchange never returns.
ReadHangs ==
    /\ pc = "poll"
    /\ object <= Len(Objects)
    /\ pc' = "hung"
    /\ UNCHANGED <<now, dataVars, dbVars, object, db_ready, cleaner_count,
                   result, overdue, setbacks, http, restarts, faults>>

KeepsHanging == pc = "hung" /\ UNCHANGED vars

\* A handler calls Update.
ReadSucceeds ==
    /\ pc = "poll"
    /\ object <= Len(Objects)
    /\ UpdateLocks(Objects[object])
    /\ pc' = "stamp"
    /\ UNCHANGED <<now, dbVars, object, db_ready, cleaner_count, result,
                   overdue, setbacks, http, restarts, faults>>

Stamp ==
    /\ pc = "stamp"
    /\ PutTimeStamp
    /\ pc' = "unlock"
    /\ UNCHANGED <<now, dbVars, object, db_ready, cleaner_count, result,
                   overdue, setbacks, http, restarts, faults>>

Unlock ==
    /\ pc = "unlock"
    /\ UpdateUnlocks
    /\ pc' = "poll"
    /\ object' = object + 1
    /\ UNCHANGED <<now, dbVars, db_ready, cleaner_count, result, overdue,
                   setbacks, http, restarts, faults>>

EndLoop ==
    /\ pc = "poll"
    /\ object > Len(Objects)
    /\ pc' = IF db_ready THEN "insert" ELSE "create"
    /\ UNCHANGED <<now, dataVars, dbVars, object, db_ready, cleaner_count,
                   result, overdue, setbacks, http, restarts, faults>>

Create ==
    /\ pc = "create"
    /\ \E ok \in BOOLEAN :
          /\ CreateTable(Reported, ok)
          /\ db_ready' = ok
          /\ pc' = IF ok THEN "insert" ELSE "sleep"
    /\ UNCHANGED <<now, dataVars, object, cleaner_count, result, overdue,
                   setbacks, http, restarts, faults>>

Insert ==
    /\ pc = "insert"
    /\ \E ok \in BOOLEAN :
          /\ InsertData(Reported, now, ok)
          /\ result' = IF ok THEN "inserted" ELSE "refused"
    /\ pc' = "clean"
    /\ UNCHANGED <<now, dataVars, object, db_ready, cleaner_count, overdue, setbacks,
                   http, restarts, faults>>

\* History: the cycle has ended, and its deletion, if any, was done or not.
CountOverdue(done) ==
    \/ /\ Expired(rows', now) = {}
       /\ overdue' = 0
       /\ setbacks' = 0
    \/ /\ Expired(rows', now) # {}
       /\ overdue' = overdue + 1
       /\ \/ done /\ setbacks' = setbacks
          \/ ~done /\ setbacks < MaxSetbacks /\ setbacks' = setbacks + 1

\* Mutant: the counter is not reset.
Clean_NoReset ==
    /\ pc = "clean"
    /\ pc' = "sleep"
    /\ \/ /\ cleaner_count = CleanCycles
          /\ \E ok \in BOOLEAN : ClearOldRecords(now, ok) /\ CountOverdue(ok)
       \/ /\ cleaner_count # CleanCycles
          /\ UNCHANGED dbVars /\ CountOverdue(TRUE)
    /\ cleaner_count' = IF cleaner_count <= CleanCycles THEN cleaner_count + 1
                                                         ELSE cleaner_count
    /\ UNCHANGED <<now, dataVars, object, db_ready, result, http, restarts, faults>>

\* Every CleanCycles-th time, whether or not the rows were inserted. That the
\* deletion failed is ignored: the counter starts again.
Clean ==
    /\ pc = "clean"
    /\ pc' = "sleep"
    /\ \/ /\ cleaner_count = CleanCycles
          /\ \E ok \in BOOLEAN : ClearOldRecords(now, ok) /\ CountOverdue(ok)
          /\ cleaner_count' = 1
       \/ /\ cleaner_count # CleanCycles
          /\ UNCHANGED dbVars /\ CountOverdue(TRUE)
          /\ cleaner_count' = cleaner_count + 1
    /\ UNCHANGED <<now, dataVars, object, db_ready, result, http, restarts, faults>>

PollThread == \/ BeginCycle \/ ReadFails \/ ReadHangs \/ KeepsHanging
              \/ ReadSucceeds \/ Stamp \/ Unlock \/ EndLoop \/ Create \/ Insert \/ Clean

-----------------------------------------------------------------------------
(* The HTTP threads: ups_service::handle *)

SetRequest(c, r) ==
    /\ http' = [http EXCEPT ![c] = r]
    /\ UNCHANGED <<now, dataVars, dbVars, pollVars, restarts, faults>>

Arrive(c) ==
    /\ http[c].pc \in {"idle", "data", "unavailable"}
    /\ SetRequest(c, [NoRequest EXCEPT !.pc = "asked"])

\* is_device_connected reads the clock ...
ReadClock(c) ==
    /\ http[c].pc = "asked"
    /\ SetRequest(c, [NoRequest EXCEPT !.pc = "check", !.now = now])

\* Mutant: the check is left out.
Check_Skipped(c) ==
    /\ http[c].pc = "check"
    /\ SetRequest(c, [http[c] EXCEPT !.pc = "json"])

\* ... and then last_update, without the mutex.
Check(c) ==
    /\ http[c].pc = "check"
    /\ SetRequest(c, [http[c] EXCEPT !.pc =
                        IF IsDeviceConnected(http[c].now) THEN "json" ELSE "unavailable"])

\* Mutant: the values are copied without the mutex.
Respond_NoLock(c) ==
    /\ http[c].pc = "json"
    /\ SetRequest(c, [http[c] EXCEPT !.pc = "data", !.body = GetOutputJson])

\* respond(GetOutputJson()): the copy is made while Update is not at work.
Respond(c) ==
    /\ http[c].pc = "json"
    /\ ~mux
    /\ SetRequest(c, [http[c] EXCEPT !.pc = "data", !.body = GetOutputJson])

Answer(c) == ReadClock(c) \/ Check(c) \/ Respond(c)

-----------------------------------------------------------------------------
(* The clock, SQLite's disk and systemd *)

Tick ==
    /\ now < MaxTime
    /\ now' = now + 1
    /\ UNCHANGED <<dataVars, dbVars, pollVars, http, restarts, faults>>

DiskFills ==
    /\ faults < MaxFaults
    /\ faults' = faults + 1
    /\ SetDisk("full")
    /\ UNCHANGED <<now, dataVars, pollVars, http, restarts>>

DiskFreed == SetDisk("ok") /\ UNCHANGED <<now, dataVars, pollVars, http, restarts, faults>>

\* The process dies at any point and systemd starts it again: what was in
\* memory is lost, the database is as the last statement left it.
Restart ==
    /\ restarts < MaxRestarts
    /\ restarts' = restarts + 1
    /\ out_params' = [p \in Params |-> 0]
    /\ updated' = 0
    /\ last_update' = 0
    /\ mux' = FALSE
    /\ pc' = "sleep"
    /\ object' = 1
    /\ db_ready' = FALSE
    /\ cleaner_count' = 0
    /\ http' = [c \in Clients |-> NoRequest]
    /\ result' = "none"
    /\ setbacks' = setbacks + 1
    /\ UNCHANGED <<now, dbVars, faults, overdue>>

Next == PollThread \/ (\E c \in Clients : Arrive(c) \/ Answer(c)) \/ Tick \/ DiskFills \/ DiskFreed \/ Restart

\* Every thread runs. A waiting HTTP thread gets the mutex in the end, because
\* the modbus thread holds it for the moment of an Update only and then waits
\* for the network.
Spec == /\ Init /\ [][Next]_vars
        /\ WF_vars(PollThread)
        /\ \A c \in Clients : SF_vars(Answer(c))

-----------------------------------------------------------------------------
(* Properties *)

Times == 0..MaxTime

TypeOK ==
    /\ now \in Times
    /\ out_params \in [Params -> Times]
    /\ updated \in Times
    /\ last_update \in Times
    /\ mux \in BOOLEAN
    /\ exists \in BOOLEAN
    /\ columns \in SUBSET Params
    /\ rows \in SUBSET Times
    /\ disk \in {"ok", "full"}
    /\ pc \in {"sleep", "poll", "stamp", "unlock", "create", "insert", "clean", "hung"}
    /\ object \in 1..Len(Objects) + 1
    /\ db_ready \in BOOLEAN
    /\ cleaner_count \in 0..CleanCycles
    /\ http \in [Clients -> [pc : {"idle", "asked", "check", "json", "data", "unavailable"},
                             now : Times, body : [updated : Times, newest : Times]]]
    /\ restarts \in 0..MaxRestarts
    /\ faults \in 0..MaxFaults
    /\ result \in {"none", "inserted", "refused"}
    /\ overdue \in Nat
    /\ setbacks \in 0..MaxSetbacks + restarts

\* The time stamp in a response is not older than any value beside it: a
\* response never shows an Update in progress.
SnapshotConsistent ==
    \A c \in Clients : http[c].pc = "data" => http[c].body.newest <= http[c].body.updated

\* A response with data carries an Update at most three periods older than the
\* moment its request was checked, although the check and the copy are apart.
ResponseFresh ==
    \A c \in Clients : http[c].pc = "data" =>
        http[c].now - http[c].body.updated <= 3 * RequestPeriod

\* A row that has outlived its storage time is deleted before it has been seen
\* by more than CleanCycles stored cycles, and CleanCycles more for every
\* deletion that failed and every restart: nothing else keeps old records.
RetentionKept == overdue <= CleanCycles * (1 + setbacks)

\* Every request is answered, also while the modbus thread hangs.
RequestsAnswered ==
    \A c \in Clients : http[c].pc = "asked" ~> http[c].pc \in {"idle", "data", "unavailable"}

\* With a working disk and a thread that reaches the database again and again,
\* rows stop coming only when a reported parameter has no column, or nothing
\* was ever read: restarts and failed statements alone do not stop them.
RowsStopOnlyForColumns ==
    <>[](disk = "ok") /\ []<>(pc \in {"create", "insert"})
        => []<>(result = "inserted") \/ <>[](Reported = {} \/ ~ Reported \subseteq columns)

\* The queries in sqlite_notes.txt select columns by parameter name: a table in
\* use has a column for every parameter the daemon has reported.
ColumnsComplete == pc = "insert" => Reported \subseteq columns
=============================================================================
