# UPS-monitoring: TLA+ models and proofs

This directory models the daemon of this repository, which polls a MEAN WELL
DRS power supply over Modbus RTU through a tDS-715 Ethernet/RS-485 gateway,
keeps the values in memory, stores them in SQLite and serves them over HTTP.
TLC checks the models on small instances, TLAPS proves the main theorems for
every value of the constants. `PROJECT.json` lists the components, the runs,
the lines each definition stands for, the hazards and the theorems.

Run `tlc -config poll.cfg MCModbusPoll` (and likewise for the other rows of
the table of runs) and `tlapm ModbusPollProofs.tla` (and likewise for the other
modules of section 4).

## 1. The system

One process, started and restarted by systemd (`ups.service`), with three kinds
of threads: `main` starts the server and waits for a signal, one *modbus thread*
polls the device for ever, and the *HTTP threads* of libmicrohttpd serve requests.

| component | state | operations | interacts with |
|---|---|---|---|
| `main.cpp` | global objects `mm`, `out_data_holder` (static) | start, modbus thread's loop, wait for a signal, stop | starts all threads, detaches the modbus thread |
| `ModbusManager` | list of objects, `trans_counter`, `db_ready`, static `cleaner_count` | `ReadDataFromDevice` (one cycle), `RequestAndAnswer` (3 attempts), `OneRequestAndAnswer`, `CreateModBusADU` | TdsComPort, ModbusObject, DBManager, HandledData |
| `ModbusObject` | last `answer`, its smart handler | `data_handling`: check address, function, length, CRC; hand the registers on | called by ModbusManager, calls a SmartHandler |
| `SmartHandler*` | last registers, a static `Data` | decode status bits or an analog value, publish | `HandledData::Update` |
| `TdsComPort` | `control_socket`, `data_socket` | `open_com_port`, `setting_appl`, `modbus_exchange`, `close_com_port` | the gateway; the process' descriptor table |
| `HandledData` | `out_params`, `last_update`, a mutex | `Update`, `is_device_connected`, `GetOutputJson`, `GetOutParams` | written by the modbus thread, read by HTTP threads and by the database code |
| `DBManager` | the SQLite table (survives restarts) | `CreateTable`, `InsertData`, `ClearOldRecords` | called by the modbus thread once per cycle |
| `ups_service` | none | `handle`: `/`, `/data` and three constant pages | HandledData |
| `rest_server` | daemon, one request object per connection, log | request life cycle, body limit, generated responses, start and stop | libmicrohttpd's callbacks, ups_service |
| builders and generators | the text built so far | escaping, nesting, `current`/`consume` | rest_server's generated responses (unused by ups_service) |
| `crc`, `utils` | none | CRC-16, printing | ModbusManager, ModbusObject |
| libmicrohttpd (vendored) | per polling thread: lists of open and closed connections, their counter, flags, a pipe | poll loop, accept, clean-up, quiesce, stop | rest_server's callbacks; called by `main` |
| vendored: nlohmann json, sqlite3.h | | | |

What is hard in it, and what makes each part correct:

* **Matching answers to requests.** Serial Modbus frames carry no transaction id.
  A request that times out leaves its answer in the stream, where the next one
  finds it; several objects share function code and length. Correct: a value
  belongs to the object it is published under, or at least is not further off
  than the failures explain; a good answer is never thrown away.
* **Ending a cycle.** The thread must survive lost answers, resets, closed
  connections. Correct: every cycle ends and the next one begins.
* **Descriptors.** The two sockets are plain integers, reused between attempts and
  cycles, in a table shared with the HTTP server and SQLite. Correct: requests go
  over own sockets, nothing leaks without bound, nobody else's descriptor is closed.
* **Shared values.** The HTTP threads look at `last_update` without the mutex and at
  the values with it, in two steps. Correct: a response is consistent and fresh.
* **The table.** Its columns are chosen once; statements fail; the process restarts.
  Correct: rows keep coming, old ones go.
* **Generated responses** (rest_server). An offset into data that is discarded later is
  kept between callbacks, and a builder goes on writing after what is gone. Correct: the client gets the generator's bytes,
  in order, once, to the end, and they are the document.
* **Request bodies** (rest_server). A counter runs down over any number of pieces, values come in
  several calls and may come again. Correct: the limit is exact, the service sees the whole upload or
  nothing of it, the request object is deleted once.
* **Shutdown** (rest_server, libmicrohttpd): signals against threads, a drain loop without a timeout that
  reads and cleans the polling threads' lists from `main`. Correct: requests under way are answered,
  nothing is left running, stop ends, one list is worked on by one thread at a time.
* **Bytes.** The frame check, bit fields and signed registers, UTF-8. Correct: what is published is what
  the device sent; no character is cut.

## 2. Modules

| module | models | proofs |
|---|---|---|
| `ModbusPoll` | one polling cycle on an open connection: ModbusManager's object loop and retries, `modbus_exchange`, `data_handling`; the gateway, the line and the device | `ModbusPollProofs` |
| `PollCycle` | what a polling cycle promises (abstract); `ModbusPoll` implements it | in `ModbusPollProofs` |
| `Crc` | calc_crc16 and the check of an answer, bit by bit (pure operators) | in `CrcProofs` |
| `FrameCheck` | what `ModbusPoll` takes for granted of `Crc` | `CrcProofs` |
| `SmartHandler` | what the four handlers read out of a register (pure operators) | in `UpsDaemonProofs` |
| `TdsComPort` | opening and closing the two sockets in the shared descriptor table, cycle after cycle | `TdsComPortProofs` |
| `HandledData` | the shared values, as operators over its variables | |
| `DBManager` | the SQLite table, as operators over its variables | |
| `UpsDaemon` | composes `HandledData` and `DBManager`: the modbus thread's cycle, HTTP threads, clock, disk faults, restarts | `UpsDaemonProofs` |
| `ReadingCheck` | what `UpsDaemon` takes for granted of `SmartHandler` | in `UpsDaemonProofs` |
| `RestRequest` | one HTTP request in rest_server: headers, upload in pieces, checks, answer, end | `RestRequestProofs` |
| `RestText` | valid_utf8, and log_append_pair's cut of a long value (pure operators) | in `RestRequestProofs` |
| `TextCheck` | what `RestRequest` takes for granted of `RestText` | in `RestRequestProofs` |
| `ServerLifecycle` | `main`, rest_server's start, wait and stop, libmicrohttpd's threads and connection lists, signals, restarts | `ServerLifecycleProofs` |
| `ByteStream` | what a generated response promises its client (abstract) | in `GeneratorStreamProofs` |
| `GeneratorStream` | rest_server's `generator_callback` against any generator; implements `ByteStream` | `GeneratorStreamProofs` |
| `JsonBuilder`, `XmlBuilder` | every call of the two builders (pure operators on a record of their members) | in `GeneratorStreamProofs` |
| `DocumentStream` | composes them with `GeneratorStream`: documents written call by call while they are being sent | in `GeneratorStreamProofs` |
| `MCModbusPoll`, `MCUpsDaemon`, `MCRestRequest`, `MCDocumentStream` | constants for TLC; texts for `TextCheck`, documents for `DocumentStream` and what they mean | |

`ModbusPoll`, `TdsComPort` and `UpsDaemon` split one thread by subject. Each leaves to
the others what it does not talk about: `UpsDaemon` takes a read to succeed, fail or
hang, which is what `ModbusPoll` establishes of it (`ReadHangs` is `ReadEof`), and
a cycle to begin on an open port; `ModbusPoll` begins each cycle on fresh
connections, which is `TdsComPort`'s `ExchangeOnOwnSockets`; `TdsComPort` takes the
exchange as one step that leaves the sockets alone. The three state machines that take something for granted of pure
operators do so by abstraction: a frame passes the check or not, a value is the time it was read, a byte belongs to a
valid character or not. `FrameCheck`, `ReadingCheck` and `TextCheck` join each with its operators and state what the abstraction rests on.

Operators whose comment begins with *Mutant* are faulty variants of the definition
after them. No specification uses them; they show, one per property, that the
property notices a plausible bug.

### ModbusPoll

The stream of the data connection is abstracted to counts. Frame *k* of the stream
occupies the bytes `Start(k)+1 .. frames[k].end`; `delivered` bytes have reached the
receive buffer, `taken` have been returned by `read()`, and `mo.answer` holds the bytes
`cleared+1 .. taken`: appending (TdsComPort.cpp:339), clearing (ModbusManager.cpp:238,
ModbusObject.cpp:73,100) and the length tests are exact. What a byte *is* matters only
where the code looks: `ByteIs` gives the byte the exception test reads at offset 7
(fixed for the three header bytes, open for data and CRC), `Passes` the checks of
`data_handling`.

| code | action |
|---|---|
| `ReadDataFromDevice`, open, first object | `OpenPort` |
| object with action "idle" | `SkipIdle` |
| `OneRequestAndAnswer`: clear, create the ADU, write | `Write`, `WriteFails`, `WriteKills` (SIGPIPE) |
| one turn of the read loop | `ReadBytes`, `ReadError` (timeout, reset), `ReadEof` |
| retry, or give the object up | `FailAttempt`, part of the failing actions |
| `data_handling` | `HandleAnswer` |
| end of the loop, `close_com_port` | `ClosePort` |
| `Restart=always` | `Restart` |

The environment is external: the device answers requests in the order they were
written, each at most once (`DeviceAnswers`: registers, a 5-byte exception, or a
garbled frame), a request or answer may be lost (`LineLoses`), bytes arrive in segments
after any delay (`Deliver`), the gateway may close or reset the connection. Assumed of
it: an unanswered request dies with its connection; the CRC rejects every run of bytes
that is not one whole frame (`GarbledRejected` checks it for garbled frames); Linux reports a reset once as ECONNRESET, raises SIGPIPE on
the next write, and reads end-of-file (0) for ever after a close. `given`, `failed` and the
`lag` in `given` are history: which request a published value answered, how many
requests ago, and how many attempts had failed on this connection.

### PollCycle, Crc

`PollCycle` has four things left of `ModbusPoll`: whose turn it is, its attempts, the cycle's failures, and the
last value with the number of requests it is behind. `ImplementsCycle` (at the end of `ModbusPoll`) maps them; the
exchange of bytes is a stutter. A byte and a CRC in `Crc` are the sets of their 1-bits, so that `^` is the
symmetric difference; `Round`, `AddByte` and `calc_crc16` are the three levels of the code, `CrcMatches` the last check of
`data_handling`. `Crc16` is the CRC of all bytes, which the device sends; `calc_crc16` takes their number as a `uint8_t`
(crc.cpp:4) and counts 256 of them as 0, so the two agree on contents of at most 255 bytes. The errors of the line (`Errors`) are the ones a CRC is chosen for: any one or two wrong bits, and any
number of them within a burst. The other side, `Framed` and `Garble`, is the device and the line.

### SmartHandler

`update` and `handle` of each handler as a function of the two bytes of a register, in the order they arrive. A flag's text is
its truth value, and a measured value is the signed number before its coefficient. The reference
is the device's register: a number sent with the high byte first, and the bits' weights as the comments of `SmartHandler.cpp` list
them (`Conditions`), on every value of the register, reserved bits included.

### TdsComPort

`table` is the process' descriptor table, `socket()` takes the lowest free number,
`control_socket` and `data_socket` start as 0 (a global object: the number of stdin, which
the first unsuccessful cycle closes). Every call of `open_com_port` is a step, because the
rest of the process opens and closes descriptors in between; a failing call returns with
its sockets open (`OpenFails`). `setting_appl` succeeds or not; its pattern matching is
left out. `foreign` records that a descriptor of another owner was closed.

### HandledData, DBManager, UpsDaemon

A value is the time it was read. `Update` is three steps (take the mutex and store the
value; set `last_update`; store "Updated" and release), because `is_device_connected` reads
`last_update` without the mutex, and a client's request is three (read the clock; read
`last_update` and decide; copy under the mutex). The table keeps its columns and the rowids (insertion
times) of its rows; statements fail on a full disk, when a parameter has no column, or when
there is no parameter at all (", )" is a syntax error). `Create`, `Insert` and `Clean` are the last
lines of `ReadDataFromDevice`, in their order. `Restart` loses memory at any step and keeps
the table. The result of `ClearOldRecords` is ignored: the counter starts again after a deletion that failed
(a full disk), as it does in a new process. `result`, `overdue` and `setbacks` are history; the last two count the stored cycles that
found expired rows since there were none, and the failed deletions and restarts among them.

### RestRequest

One connection of libmicrohttpd, from the first call of `handle_request` to `request_completed`. Connections share
constants and the log only, so one stands for all. The client chooses the method, the content type, the
arguments in the URL, the upload and how it is cut; it may leave at any time.

| code | action |
|---|---|
| `handle_request`, first call; constructor | `NewRequest` |
| `process_request_body` | `AppendBody`, `PostBody`, `DropBody` (too large), `PostFails` |
| `handle`, in the order of its checks | `MethodNotAllowed`, `UnsupportedEncoding`, `RequestTooLarge`, `InvalidUtf8`, `CallService` |
| `connection.cpp`: the upload is complete, or a trailer has to come | part of `NewRequest` and the pieces; `TrailerCame`, `TrailerRefused` (libmicrohttpd answers 400 itself) |
| the response is sent: `request_completed`, then `MHD_connection_close` | `ReplySent` |
| `MHD_connection_close`: a handler fails, the client leaves, a time-out, the end of the daemon | `Close`, in `PostFails`, `CallService` (the service fails), `ClientGone` |
| poll reports a hangup after the handlers (daemon.cpp:918); `MHD_CONNECTION_CLOSED` is cleaned up | `Hangup` (closes again), `Cleanup` |

`connection` holds what decides over the request's end: `client_aware`, which each call of `handle_request` sets (`Called`), and
`client_context`, which `request_completed` leaves pointing to what it has deleted. `request_completed` is called from two places, each of which tests and
clears `client_aware` (`FootersSent`, `MHD_connection_close`); after a response the second follows the first, and a connection may be closed twice.
`made` and `freed` are history. `ReplySent` always closes, as every response of rest_server says "Connection: close".

A byte of the upload is its position, so that a lost, repeated or moved byte shows. `PostIterator` is
`post_iterator`; the post processor in between (vendored) may keep any of the last bytes for later
(`pending`: a possible boundary, an unfinished escape). When it is closed, at the start of `handle`, it delivers the rest of
the value in progress, as it ends in a well-formed upload (`WellFormed`); of an upload that is cut off in the middle of an escape
or a boundary ("cut", postprocessor.cpp:1176-1189) it may lose what it cannot complete. That a byte is part of an invalid UTF-8 sequence is a property of the byte; the keys in
`InvalidKeys` are invalid, too. The limit is
a variable, so that one run covers a server with and without one; the daemon sets none.

`RestText` translates `valid_utf8`, which `RestRequest` takes as a property of bytes, and `log_append_pair`, over texts as
sequences of byte values. The reference in `TextCheck` has no state and no loop: a text is cut before each byte that does not
continue a character, and is valid if every piece is a character (`Whole`).

### ServerLifecycle

The daemon structures are numbered: 0 is the master's, `1..threads` the workers'. With `threads = 0` (libmicrohttpd's
THREAD_PER_CONNECTION) the master's thread accepts and each connection has a thread; with a pool the workers do all.
`threads` is a variable that never changes, so that one run covers both. A polling thread steps through
`loop`: its poll set (`PollBegins`), poll (`PollReturns`), the connections' handlers (`WorkerFinishes`,
`HandlersDone`), accept in three steps (reading the descriptor, accepting, adding) and counting, and the
clean-up (`CleanupTake`, `CleanupDispose`, `CleanupOver`).

| code | action |
|---|---|
| `main`, `rest_server::start` | `Start` (also failing: the port is taken) |
| `wait_until_signalled` | `BlockSignals`; `Signal` wakes `main` in sigwait and kills the process anywhere else |
| `stop`: `MHD_quiesce_daemon`, close, the drain loop | `Quiesce`, `CloseListening`, `MainCleans`, `MainCounts`, `SleepOver` |
| `MHD_stop_daemon` | `StopDaemon`, `Join`, `CloseAll` |
| `Restart=always` | `Restart` |

With a pool, `main` and a worker may be inside `MHD_cleanup_connections` for one list. What such a race does is a choice among what the
build can produce: a decrement or a list entry lost, an element freed twice with or without an abort. `raced`
records it; `CountFollows`, `DroppedBound` and `StopEnds` speak of executions without it, and the run `server_cleanup` shows that it happens. `CleanupDispose`
unlinks an element together with freeing it, while the code unlinks it right after reading the head (daemon.cpp:1899) and then works on it: the model gives two threads longer to meet at one element
than the code does, but the outcomes are those the code has in its shorter window, and all are marked as `raced`. With
`threads = 0` the mutex is taken, so that no two threads are at one list; but `connections++` (daemon.cpp:1497) takes no lock there either, and races with the decrement
that `main` makes under the mutex. `CountConnection` is `raced` then, too. `dropped` is history too. What a connection does between
its first byte and its end is `RestRequest`'s; here it is `live` until it is `finished`.

### ByteStream, GeneratorStream

`ByteStream` produces bytes, hands them over in order, and ends once the last is handed over. `GeneratorStream`
is `generator_callback`: `Call` takes the room `max` in libmicrohttpd's buffer, `Generate` is one turn of
the loop, `EndOfStream` and `Copy` are the two ways out; `Copy` includes `consume`. A byte is its
number: the generator holds the bytes `consumed+1 .. generated`, and `last` is the number of the last
byte copied. `generate()` is external: it adds at least one byte or says that it is done (calls that add nothing change nothing here, and a generator
that adds nothing for ever would hold the thread; `DocumentStream` has such calls, as many as its documents).
`RequestCompleted` is a client that leaves. The daemon's own service answers with whole strings, so this
part of the server is for services that stream.

### JsonBuilder, XmlBuilder, DocumentStream

A builder is a record of the class's members, a call a function from record to record; characters are single
elements of the text, and so are numbers, constants, names and XML entities (nothing in the code looks inside one). Much of a
call's text is written by the next call: the quote that ends a string, the comma, the end of a start tag, the indentation.
In `DocumentStream` a service makes one call in each `generate()` (`GenerateDocument`, which is `Generate` with
the bytes the call adds; or `GenerateNothing`, when an empty text or piece of a string adds none and the loop asks again), and `CopyDocument` is `Copy` with `consume`, which takes the text sent away from the
builder. `received` is the client's text, and `InMemory` the builder after each call when nothing is taken away from it. The text taken
away matters to the layout only: after a colon that is gone an indented value begins on a new line instead of behind a space, and `finish` adds no line end
to a text that is gone. So texts are compared without their indentation (`Bare`). The document `Anything` leaves the generator as open as it is in `GeneratorStream`.

## 3. Runs

| run | module, instance | shows |
|---|---|---|
| `poll` | `MCModbusPoll`: 3 objects, two polled with equal function code and length, one idle; 2 attempts; segments end after 2 or 4 bytes or at a frame's end; the CRC of four answers against every error of one or two bits (of 56, all of the frame) and every burst of up to seven | all safety of a cycle, that it ends unless the gateway closes, that it implements `PollCycle` |
| `poll_shift` (violation) | the same, whole frames | a late answer is published under another object's name |
| `poll_eof` (violation) | the same | a closed connection holds the cycle for ever |
| `sockets` | `TdsComPort`: 7 descriptors, 2 other users, 3 attempts, 4 commands | own sockets, bounded leaks, polling resumes |
| `sockets_close` (violation) | 6 descriptors, 1 other user | a stale number of another owner is closed |
| `monitor` | `MCUpsDaemon`: 1 object, 1 client, clock from 4 to 9, period 1, 1 restart; all 65536 registers, as a number and as flags | consistent, fresh, answered responses; registers decoded as the device means them |
| `database` | 2 objects, no client, clock from 4 to 7, rows kept for 1, clearing every 2 cycles, 1 disk fault, up to 2 failed deletions, 1 restart | only failed deletions and restarts keep expired rows longer; rows stop only for missing columns |
| `db_columns` (violation) | 2 objects, no fault, no restart | one failed read in the first cycle leaves a column out for good |
| `server` | `ServerLifecycle`: 3 clients, a limit of 2 connections, one thread per connection, 1 worker, 2 workers | the limit, the counter, few drops, nothing left, stop ends |
| `server_cleanup` (violation) | the same with 1 worker, as shipped | two threads at one list of closed connections |
| `request` | `MCRestRequest`: no limit and a limit of 2, uploads of up to 4 bytes, complete or cut off, 3 keys, one of them invalid, none or one in the URL, 3 methods; texts of up to 4 bytes out of 8 kinds, and of up to 4 characters | exact limit, whole uploads, last values, deleted exactly once, an answer; whole characters |
| `generator` | `MCDocumentStream`: minimum 3, buffers of 1, 2 and 5, any generator with batches of up to 16 and 20 bytes; 14 JSON and 8 XML documents, indented or not | bytes in order, bounded, to the end; calls return; implements `ByteStream`; documents arrive, as they would be built in memory |

Properties, in words:

* `LagBoundedByFailures`: a published value is at most as many requests old as attempts
  failed on the connection. `OwnRegisterUnlessFailed`: without a failed attempt it is the object's own.
* `GoodAnswerNotRejected`: an attempt whose answer arrives in step with its request is
  only given up when `read()` waited in vain for the rest of it.
* `CycleEndsUnlessClosed`, and `CycleEnds` without the exception (violated).
* `ImplementsCycle`: objects are asked in order, each at most `REQUEST_ATTEMPTS` times and whatever happened to the
  ones before; each gets at most one value.
* `GarbledRejected`: the frame check; it is what `Passes` takes for granted. `ReadingsDecoded`: the handlers.
* `ExchangeOnOwnSockets`, `LeakBounded`, `PollsAgain`: see the comments in `TdsComPort`.
* `SnapshotConsistent`: no response shows half an update. `ResponseFresh`: though check and copy
  are apart, the data served is at most three periods older than the moment of the check.
  `RequestsAnswered`: also while the modbus thread hangs.
* `RetentionKept`: expired rows are seen by at most as many stored cycles as lie between two clearings, and as many more for each deletion that failed and
  each restart. The "more" is needed: the counter of cycles (ModbusManager.cpp:179) is in memory, so one restart already keeps expired rows for another round with a working disk, and a
  service restarted more often than every 50 stored cycles never deletes, against "save last month only" (DBManager.h:41). Cheap remedies: delete at the start, or in each cycle. `RowsStopOnlyForColumns`, `ColumnsComplete` (violated): rows keep coming.
* `LimitExact`, `HandedWhole`, `FreedOnce`, `RequestsEnd`: a request and its upload. `FreedOnce` says three things: deleted at most once, not before libmicrohttpd's last call with it, and not
  forgotten. `CharactersWhole`: an argument passes
  iff it consists of whole characters, and the log cuts none.
* `LimitHonoured`: the connection limit holds for all workers together, and nobody accepts a connection it would have
  to close for the limit. `CountFollows`: the counter, with its moment below 0 (a connection may
  be over before it is counted). `DroppedBound`: stop may drop the one connection per thread that is not
  counted yet, no other. `NothingLeft`, `StopEnds`: the end. `CleanupExclusive` (violated): one thread at a list.
* `BytesInOrder`, `UnsentBounded`, `CallReturns`, `ImplementsStream`: a generated response. `StreamedAsBuilt`: what a client that
  stays has received is, but for indentation, what the same calls write in memory. `JsonArrives`, `XmlArrives`: it is the text of
  the document, which is defined on the document's tree, not on the calls.

**Bounds.** Two polled objects with the same function code and length are what a shift
needs, and as alike as two objects can be; two attempts show a retry and a last
attempt, and the third is another retry. The segments end inside the
header, inside the data and at the end of a frame, also across two frames. One answer fills less
than the 256 bytes of `buff`, as in the shipped configuration. Seven descriptors
let leaks reach the end of the table; two other users allow a close and an open
between two steps. The clock starts at 4, when `last_update = 0` counts as stale as it does in the daemon, and
five more periods let data grow stale (after 3) and be read anew. The daemon clears after 50 cycles; 2 exercises the counter's first and later
rounds, which differ (0 to 50, then 1 to 50). Until 7 a row written at 4 expires (at 6) and is seen by several rounds of cycles, which take no
time by themselves; two deletions may fail for one fault, as each is a round of its own. `MaxTime`, `MaxRestarts`, `MaxFaults`, `MaxSetbacks`,
`MaxOther`, `MaxBytes` bound the counters. Buffers below, around and above the minimum and batches that are
not their multiples let copies end anywhere in the data; 20 bytes are several rounds of most. The documents nest two deep, with none, one or two
items, strings in pieces, names and texts with each kind of escape, so that each call meets each mode and each call may find the text before it gone. Uploads of
4 bytes with a limit of 2 fit, are one byte too long, and go on after a piece that did not fit; they hold two values
of one key, or of two, with a byte each. The third key is the invalid one. `UnsignedMax` is 7: nothing the code does depends on more. Three clients with a limit of 2 reach the limit, wait for
a place, and with two workers (a place each) one worker can be full while the other accepts; a limit not divided would let three in. The shipped
configuration has one worker and a limit of 3. Seven bits in a row, and 56 bits of a frame, cross every boundary of bytes;
8 kinds of bytes are all the cases `valid_utf8` has, at the borders of their ranges.

**Fairness.** `WF(Exchange)`, `WF(PollThread)`: the modbus thread is never blocked for ever,
because SO_RCVTIMEO bounds each `read()`, the kernel bounds `connect()` and `sleep()` ends; the one
call that spins, reading end-of-file, *is* a step. `WF(Restart)` in `ModbusPoll`: systemd's `Restart=always`.
`SF(Answer)` in `UpsDaemon`: an HTTP thread waits for a mutex that is held only for the moment of
an `Update`, between which the modbus thread waits for the network. `WF(Handle)`: libmicrohttpd makes the final call without waiting
for the client. In `ServerLifecycle`, `WF` of `main` and of each thread: they are
scheduled; a thread that has nothing to do is in poll and not enabled. Clients, signals and systemd owe nothing there, and that
connections end is an assumption inside `StopEnds`, because the daemon sets no timeout. `WF(GeneratorCallback)`: an HTTP thread inside the callback
runs; that libmicrohttpd calls again is not assumed. Nothing is assumed of the gateway, the
device, the line, the disk, the clients or the clock. `PollsAgain` has its assumption on the gateway
inside the property.

### What the violations mean

1. `poll_shift`: a timeout does not drop the answer, which the next object with the same
   function code and length takes (`READ_VIN` gets the value of `READ_VOUT`). Cheap remedies: empty the
   stream, or reopen, after a timeout.
2. `poll_eof`: `if (read == 0)` compares the function's address; `rc` is meant.
3. `sockets_close`: `close_com_port` does not forget the numbers it closed.
4. `db_columns`: the columns are those of the first stored cycle; each later row that
   names another parameter is refused as a whole.
5. `server_cleanup`: with a pool the clean-up of closed connections takes no lock, and `stop` calls it from
   `main` for the workers' lists. The window is short, and only open while the daemon stops. Cheap remedy: let `stop`
   count without cleaning, or take the mutex always.

## 4. Proofs

`ModbusPollProofs`, from `PollAssumption` (the constants have their types):

* `TypeCorrect`: `Spec => []TypeOK`.
* `LagBounded`, `OwnRegister`: the two safety properties of matching, for any number of objects,
  any function codes and lengths, any attempts and segments.
* `GoodAnswerKept`: `FieldsFit` implies `Spec => GoodAnswerNotRejected`. `FieldsFit` says that the slave
  id is at most 127 and the function code and register count fit a byte, and that answers are shorter than
  11 bytes. The shipped configuration (one register per object) satisfies it. With three registers the answer *is*
  11 bytes and one of its data bytes may look like the exception marker; with more, its
  first 11 bytes may.

The argument. Frames are answers in request order, so what has to be shown is that the thread is
never further behind than its failures. `Accepted` = requests written, less failed ones, less the one in progress, is
a lower bound on the answers consumed. The inductive invariant `IInv` says that each frame not yet
read answers a request after those (`Unread`): accepting a frame makes one request accepted and moves the
frame out of the unread ones, giving one up makes it failed. So an accepted frame's request is later than `Len(asked) - failed - 1`,
hence the lag is at most `failed`; with no failure it is 0, and the last request is the current
object's (`LastAsked`). The rest of `IInv` supports this: frames are ordered on the stream and among the requests (`FramesOrdered`)
and have the length of their kind (`FramesSized`), requests are what `CreateModBusADU` makes (`AskedFormed`),
the read loop runs exactly while the answer is short (`AnswerProgress`). Neither `LagBoundedByFailures` nor
`OwnRegisterUnlessFailed` is inductive alone: nothing in them ties the frames under way to the requests.
One lemma per action (`WriteInv`, `ReadBytesInv`, ...) proves a conjunct each; `NextInv` puts them together.

`GeneratorStreamProofs`, from `GeneratorAssumption` (sizes and batches are at least 1):

* `TypeCorrect`, `InOrder`, `Bounded`: the three invariants of the run, for all sizes.
* `Refinement`: `Spec => ImplementsStream`.

`BytesInOrder` is not inductive: what the next copy sends depends on the offset. The invariant adds
`SentCounted` (what was sent is what was discarded plus what the offset skips), `MaxPositive` (a copy
moves at least a byte, so it is a step of the stream) and `DoneComplete` (for `Finish`). `CopyFacts` states
what both branches of the copy have in common, and both the invariance and the refinement rest on it.

The same module, also from `DocumentAssumption` (a document is a sequence of calls of one builder, with nothing after `finish`):

* `AsBuilt`: `DocumentSpec => []StreamedAsBuilt`, for any calls of either builder in any order, any strings, and any way in which sending and
  discarding cut the text under way.
* `JsonArrived`, `XmlArrived`: `BuiltAsMeant` implies `DocumentSpec => []JsonArrives` (`XmlArrives`). `BuiltAsMeant` says that the calls
  write in memory what the document means, and has nothing to do with sending. It holds of the documents of the run `generator`: there each one is
  received, and both `StreamedAsBuilt` and `JsonArrives` or `XmlArrives` hold then.

The invariant (`Content`) compares the generator's builder with the one `InMemory` that has seen as many calls. The two are `Twins`: same mode, same
stack, and, put after what was taken away, texts that are `Alike`, that is the same without indentation, and with or without an end after which a space is
indentation (`Ends`). One lemma per call shows that it keeps twins; all that is added is added to both (`AlikeConcat`), except indentation, which
may differ and leaves no trace (`Unseen`). A call may look at the end of the text (`AfterKey`); if it finds a colon in its own text, the whole text ends in it (`EndsWith`).
`Begins` records that what was sent and not discarded remains the beginning of the text; without it a call might change bytes the offset already skips. `consume`
moves the sent part over (`ConsumedTwins`). `finish` closes with a fold, whose row of builders exists by `FoldExists` (`CloseRowExists`), and ends a
line at most, so only the texts are still compared after it (`SameBare`).

`RestRequestProofs`, from `RequestAssumption` (the limit is less than the greatest unsigned, so that the
counter does not start at 0):

* `LimitIsExact`: `Spec => []LimitExact`. The invariant is `Counted`: until the request is handled the counter is 0 and
  more than the limit has come, or it is the limit plus one less what has come; `Phases` says that the final call comes after
  the whole upload. `TakeInv` is the step for a piece, taken or dropped.
* `DeletedOnce`: `Spec => []FreedOnce`. The invariant is `Known` (`ConnectionInvariance`): while libmicrohttpd may call with it,
  a request is the one made and not yet deleted, and the connection is aware of its client; at the end it is not aware, and all that was made is deleted. If `client_aware` were not cleared at either place, the next close would delete again (the two
  mutants of the run). `CloseOnce` is about the two places.

* `ServiceSeesWhole`: `Spec => []HandedWhole`, for every limit, upload, division into pieces and post
  processor that keeps bytes back. `Types`: `Spec => []TypeOK`.
* `ArgumentsWhole`: `Spec => []CharactersWhole`, also from `TextAssumption`: for any texts of bytes, of any length.

`HandedWhole` says what the service gets in terms of the whole upload, while a step knows only what has been delivered
before. The invariant `Kept` connects them: of the bytes taken, the last `Len(pending)` wait in the post processor, and
`params` and `unsupported` are what the ones before them mean (`IsForm`: per key, the bytes since the last start of a value, behind the
URL's argument if no value came). `DeliverForm` shows that delivering some more keeps this true. `post_iterator` is
applied with a fold of the community modules. `FoldSteps` describes a fold
as a row of intermediate values, whose existence follows from there being no least length without one
(`IterExists`), and `FoldForm` uses the same argument for the row's last value.

`ArgumentsWhole` joins two views of a text. `valid_utf8` is a machine that counts down the bytes a character still needs; written as a recursive function
on positions, it exists and is unique (`SetInduction`, from the end of the text), and its value at a position is `Good`, which says
without recursion that every byte from there on is in its place (`GoodGoesOn`, `ValidIsGood`). The reference is by cuts
(`CharacterStands`, `WholeIsBlock`): both describe a `Block`, in which each leading byte has exactly its continuations behind it.
Blocks can be joined and divided where a character begins (`BlocksJoin`, `BlockParts`), which gives the part up to a zero byte and the log's
left part, dots and right part (`CutBlock`): `log_append_pair` moves its two cuts to where characters begin.

`CrcProofs`, from `FrameAssumption` (contents are at most 255 bytes; two wrong bits are less than 56 apart, a burst is at most 16 wide):

* `FrameCheckReliable`: `Spec => []GarbledRejected`, for all contents of at most 255 bytes (`FrameAssumption`), which is what `calc_crc16` can count; a Modbus answer
  has at most 253 before its CRC.
* `OddErrorsFound`: in a frame with such a content, any odd number of wrong bits is rejected, wherever they are.

Within that length the code's check is the test for a frame that carries its own CRC (`Correct`, by `ShortFrames`); the rest is about that. A CRC is linear (`RoundLinear`, `EightLinear`): what a sent and a received frame differ in goes through the rounds by itself, and the frame is accepted iff nothing of it is
left after the last round (`MatchRow`, `ErrorRow`; a CRC over a frame with its own CRC is 0, `Residue`). The proof takes the bits still to come as standing above the register's, so that a
round is the same for all of them, and an error is found if it belongs to a set that rounds never lead out of and that does not contain the empty error
(`Caught`). Three such sets do: `Narrow` (the wrong bits stay within 16), `Pairs` (two bits, or what the lower one has become after *k* rounds and the upper
one, or a register that is not 0), `OddRegisters` (the polynomial with the bit it is added for has an even number of bits, so
a round keeps parity). For `Pairs` it has to be known that in 55 rounds a single bit does not become a single bit again, which
`OrbitNotOneBit` computes round by round. That is where the 56 of the assumption comes from: it is the length of the frames of the shipped configuration, not the
limit of the polynomial.

`UpsDaemonProofs`, from `DaemonAssumption`, `DataAssumption` and `RetentionAssumption`:

* `SnapshotsConsistent`, `ResponsesFresh`, `KeepsRetention`, `Types`: the three safety properties of the composed daemon, for any
  number of objects, clients and parameters, any period and any clearing interval.
* `ReadingsAreDecoded`: `Spec => []ReadingsDecoded`. A register's two bytes, loaded in the wrong order and swapped, are its value again
  (`RegisterBytes`, `Swapped`), the sign comes back from the upper half of the range (`Wrapped`), and a bit of a byte is the
  bit of that weight, or of 256 times that weight, of the register (`LowBits`).

A client checks `last_update` without the mutex and copies under it. Between the two the modbus thread may be anywhere in
`Update`. The invariant says what holds *inside* `Update`: the stamp and `last_update` are written before the mutex is
released (`StampCovers`), nothing is from the future (`TimesPast`), and a client that has passed the check keeps it passed, since
`last_update` only grows in one process (`CheckedFresh`). Without `StampCovers` a copy could be newer or older than its stamp. `RetentionKept` rests on
`CounterFollows`: the cycles that have found expired rows are at most as many as `cleaner_count` and one round for each setback. A successful deletion leaves no expired row, so it sets both back to 0; a failed one starts
the counter again and counts as a setback, as a restart does (`CleanFacts`, whose arithmetic is `CleanFits`).

`TdsComPortProofs`, from `PortAssumption`:

* `ExchangesOnOwnSockets`, `LeaksBounded`, `Types`.

Both properties hold as long as nobody else's descriptor has been closed (the run `sockets_close` shows that it happens). Neither is inductive:
that an exchange uses own sockets needs that they were own in each step since `socket()` returned them
(`SocketsOwned`), and the bound on leaks at the end of a cycle needs one for each failed attempt within it, which counts the socket in
use separately (`LeaksCounted`), and the order of the two `close` calls (`ClosedInTurn`). The lowest free descriptor is a `CHOOSE`; `OrderLemmas` says that it exists.

`ServerLifecycleProofs`, from `ServerAssumption` (finitely many clients, fewer than an unsigned counts; a limit of at least 1):

* `LimitIsHonoured`, `CountersFollow`, `DroppedBounded`, `NothingIsLeft`, `Types`: the five safety properties of the run `server`, for any number
  of workers and clients and any limit.

The invariant, which TLC checks on the constants of the run, has a conjunct per subject:

* `Stages`, `Blank`, `ThreadsOK`: how far `main` has come shows in the flags, nothing exists before the start, a thread has what its
  step needs, an accepted connection is in the hands of exactly one thread.
* `ListsOwned`, `Counters`, `Complete`: a list holds connections of its own daemon structure at their end, none twice; the counter is exact (`Exact`); every connection at
  its end is in its list. After a race `Exact` and `Complete` may be lost. But a race needs `main` in the clean-up, so the listening socket is closed, and a thread on its way to `accept` is
  not cleaning: so the counters of the threads that are `Fetching` stay exact even then, and that is what the limit needs.
* `Room`: who is on the way to `accept` holds less than its limit. This bridges the distance between the test in the poll set and the
  connection, three steps later, and makes the refusal in `internal_add_connection` unreachable. `LimitIsHonoured` adds up the workers' limits
  (`ShareHolds`: the first *k* workers serve at most *k* times the quotient, and the remainder or *k* more).
* `Uncounted`, `Drained`: `stop`'s sum is not a snapshot; the counters are read one after the other, and a worker's may be
  one below what it has. `Drained` keeps, during a round, that a sum of 0 so far means at most one unanswered connection in each daemon structure passed (nothing new
  can come, for the socket is closed), and that the sum cannot wrap around to 0, because it is at most the number of connections passed (`RoundGoesOn`). With a
  pool the counter is never below 0, as a worker counts before it handles what it accepted (`Uncounted`).
* `Joined`: what was joined has ended, and its connections are closed; at the last join this is `NothingLeft`.

One lemma per action (`AcceptInv`, `CleanupDisposeInv`, `CloseAllInv`, ...); steps that leave connections alone share `LoopGoesOn` and `MainGoesOn`. `UnlinkedFacts` and `PutFacts` are about
the list with an element less or more.

`CycleImplemented` in `ModbusPollProofs`: `Spec => ImplementsCycle`, from `PollAssumption`: every step of a polling cycle is a step of `PollCycle` or a stutter.
It needs the inductive invariant `IInv` of the module and one more, `TurnKept`: while an attempt is under way, the object asked is one that is switched on
(`TurnNext`); `StepMaps` then maps each action.

`OrderLemmas`: a set of naturals that is not empty has a least member, and a greatest one if it is bounded; hence what `Min` and `Max` return. It takes
the place of induction in the other modules: a statement about all *n* is proved by assuming a least *n* for which it fails, or by
`SetInduction`, which speaks of a set of numbers where the library's theorem speaks of an operator. `FoldExists` shows in this way that the recursive function behind the community
modules' folds exists, without which nothing could be said of `calc_crc16`.

Only model-checked: all of liveness (`CycleEndsUnlessClosed`, `PollsAgain`, `RequestsAnswered`, `RowsStopOnlyForColumns`, `CallReturns`,
`RequestsEnd`, `StopEnds`: fairness and ENABLED are out of the prover's reach); and `BuiltAsMeant`, by way of `JsonArrives` and
`XmlArrives`: what a document's tree means is defined by recursion on the tree, and the calls that write it, too.

## 5. Not modelled, and why

Most lines of the repository are vendored: `njson.hpp` and `sqlite3.h` are two thirds of it, and most of the rest is libmicrohttpd
(request parsing, authentication, memory pools, the select, epoll and Windows variants). They are libraries
with tests of their own, and the daemon uses a small part of them; of libmicrohttpd the models hold what the daemon's threads
do and the callbacks rest_server gets. Hence the small share of lines in the map. Of the daemon's own code:

* Time within a cycle: a cycle may take any time. So a slow device (ten objects, three attempts, three
  seconds each) against the 45 s after which data counts as unavailable is not a property here.
* The modbus thread after `main` has returned (it is detached, and its global objects are destroyed under it): undefined behaviour
  until the process ends, with nothing in the code that bounds it.
* `rest_server::start`'s second try without poll, and failures inside `MHD_start_daemon` after threads exist. A failed
  `malloc`, `pthread_create` or pipe.
* `CreateModBusADU`'s size check (8 bytes always fit), `printf`, the constant HTTP pages, a coefficient's multiplication.
* A failed `socket()` of the HTTP server or SQLite; `setsockopt` failures (they fail like `connect`).
* A clock that is set back; `days_of_storage` of 24856 and more (32-bit overflow in DBManager.cpp:357).
* Documents the builders do not write as what they are: a control character without a short form becomes `u00XX` without the
  backslash (json_builder.cpp:38), an ampersand becomes `&apos;` in XML (xml_builder.cpp:37), and `finish` does not end a string that is the whole
  JSON document (json_builder.h:160). The operators do the same; the runs' documents leave them out. ups_service does not use the builders.
* `http_value_compare`, the responses' headers, the format of a log line beyond its values.
* `send_to_loop`, `simple_modbus_exchange`, `calc_crc16_fly`, the unused parts of DBManager: debugging or dead code.

## 6. Plan

Done: all modules of section 2; every invariant the passing runs check is a theorem (`JsonArrives` and `XmlArrives` for documents that are built as meant), and
both refinements are. What is left:

1. What `UpsDaemon` takes for granted of `HandledData` and `DBManager`, as abstract specifications of their own.
