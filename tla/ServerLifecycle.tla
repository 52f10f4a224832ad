--------------------------- MODULE ServerLifecycle ---------------------------
(***************************************************************************)
(* The HTTP server's threads from start to stop: main with                 *)
(* rest_server::start, wait_until_signalled and stop, and libmicrohttpd's  *)
(* polling threads. With `threads' > 0 a pool of workers shares the        *)
(* listening socket and each worker has a daemon structure of its own;     *)
(* with 0 one thread accepts, and every connection gets a thread. Both     *)
(* poll with poll(). What a request does is RestRequest's matter: here a   *)
(* connection is served until it is finished.                              *)
(***************************************************************************)
EXTENDS Integers, FiniteSets, Sequences

CONSTANTS
    Clients,            \* the connections clients make, each once
    ThreadCounts,       \* what Config.json may give as "threads"
    ConnectionLimit,    \* "connection_limit" of Config.json
    UnsignedMax,        \* greatest value of an unsigned
    None                \* no connection, and nobody

ASSUME ServerAssumption ==
    /\ IsFiniteSet(Clients)
    /\ ThreadCounts \subseteq Nat
    /\ ConnectionLimit \in Nat \ {0}
    /\ UnsignedMax \in Nat
    /\ Cardinality(Clients) < UnsignedMax
    /\ None \notin Clients

VARIABLES
    threads,        \* the configured number
    main,           \* what the main thread does next
    visiting,       \* the daemon structure main is at
    seen,           \* connections get_daemon_info has added up so far
    loop,           \* what each polling thread does next
    poll_listen,    \* its poll set has the listening socket; then: it is readable
    taking,         \* the connection it has just accepted
    connections,    \* daemon->connections
    cleanup,        \* the list from daemon->cleanup_head
    pos,            \* the element of it that a thread is disposing of
    mutex,          \* who holds cleanup_connection_mutex
    socket_fd,      \* daemon->socket_fd is not MHD_INVALID_SOCKET
    listening,      \* the listening socket is open
    wpipe,          \* a byte is in the control pipe, which nobody empties
    shutdown,       \* daemon->shutdown
    conn,           \* where each connection is
    owner,          \* the daemon structure that serves it
    raced,          \* history: a list or counter was accessed without exclusion
    dropped         \* history: connections ended by the shutdown

mainvars == <<main, visiting, seen>>
loopvars == <<loop, poll_listen, taking>>
lists == <<connections, cleanup, pos, mutex, raced>>
flags == <<socket_fd, listening, wpipe, shutdown>>
served == <<conn, owner, dropped>>
vars == <<threads, mainvars, loopvars, lists, flags, served>>

\* main among the threads, which are known by their daemon structures.
MainThread == 0 - 1

\* Every polling thread has a daemon structure: 0 is the master's.
Loops == IF threads = 0 THEN {0} ELSE 1..threads
AllLoops == UNION {{0} \cup 1..n : n \in ThreadCounts}

\* Mutant: every worker may serve as many as the whole server.
LimitOf_NotDivided(d) == ConnectionLimit

conns_per_thread == ConnectionLimit \div threads
leftover_conns == ConnectionLimit % threads

\* The limit is divided evenly, the first workers get what is left over.
LimitOf(d) ==
    IF threads = 0 THEN ConnectionLimit
    ELSE conns_per_thread + (IF d <= leftover_conns THEN 1 ELSE 0)

\* Mutant: it is signed.
Decremented_Signed(n) == n - 1

\* daemon->connections is an unsigned.
Decremented(n) == (n + UnsignedMax) % (UnsignedMax + 1)

Up == main \notin {"killed", "aborted", "returned"}
At(states, d) == {c \in Clients : conn[c] \in states /\ owner[c] = d}
Queued == {c \in Clients : conn[c] = "queued"}

\* main is inside MHD_cleanup_connections for d, between head and removal.
MainIn(d) == pos[MainThread] # None /\ visiting = d
Others(t, d) == IF t = MainThread THEN pos[d] # None ELSE MainIn(d)

-----------------------------------------------------------------------------
(* MHD_cleanup_connections(d), called by d's own thread (t = d) and, from  *)
(* MHD_get_daemon_info, by main. It locks with one thread per connection   *)
(* only.                                                                   *)

MayEnter(t) == threads = 0 => mutex \in {None, t}

\* pos = daemon->cleanup_head
CleanupTake(t, d) ==
    /\ pos[t] = None
    /\ cleanup[d] # <<>>
    /\ MayEnter(t)
    /\ mutex' = IF threads = 0 THEN t ELSE mutex
    /\ pos' = [pos EXCEPT ![t] = Head(cleanup[d])]
    /\ UNCHANGED <<threads, mainvars, loopvars, connections, cleanup, raced, flags, served>>

\* DLL_remove: the list without the element.
Unlinked(list, c) ==
    LET at == {i \in DOMAIN list : list[i] = c}
    IN  IF at = {} THEN list
        ELSE LET i == CHOOSE i \in at : TRUE
             IN  SubSeq(list, 1, i - 1) \o SubSeq(list, i + 1, Len(list))

\* Mutant: the counter is not lowered.
CleanupDispose_KeepsCount(t, d) ==
    /\ pos[t] # None
    /\ pos' = [pos EXCEPT ![t] = None]
    /\ conn' = [conn EXCEPT ![pos[t]] = "gone"]
    /\ cleanup' = [cleanup EXCEPT ![d] = Unlinked(@, pos[t])]
    /\ UNCHANGED <<threads, mainvars, loopvars, connections, mutex, raced, flags, owner, dropped>>

\* The element is unlinked, closed and freed, and the counter lowered. The code
\* unlinks it right after reading the head, before it closes it: the two threads may
\* meet at one element for longer here than there, but they may there, too. While
\* another thread is at the same list this is a data race: the decrement may
\* be lost, and freeing what the other has freed may end the process.
CleanupDispose(t, d) ==
    /\ pos[t] # None
    /\ pos' = [pos EXCEPT ![t] = None]
    /\ raced' = (raced \/ Others(t, d))
    /\ conn' = [conn EXCEPT ![pos[t]] = "gone"]
    /\ cleanup' = [cleanup EXCEPT ![d] = Unlinked(@, pos[t])]
    /\ \/ connections' = [connections EXCEPT ![d] = Decremented(@)]
       \/ Others(t, d) /\ connections' = connections
    /\ \/ main' = main
       \/ conn[pos[t]] = "gone" /\ main' = "aborted"
    /\ UNCHANGED <<threads, visiting, seen, loopvars, mutex, flags, owner, dropped>>

CleanupOver(t, d) ==
    /\ pos[t] = None
    /\ cleanup[d] = <<>>
    /\ MayEnter(t)
    /\ mutex' = IF mutex = t THEN None ELSE mutex

\* cleanup_connection puts a connection at the head of the list. In a pool
\* main may be removing the head at this moment: the new one may get lost.
MoveToCleanup(c, d) ==
    /\ conn' = [conn EXCEPT ![c] = "cleanup"]
    /\ raced' = (raced \/ MainIn(d))
    /\ \/ cleanup' = [cleanup EXCEPT ![d] = <<c>> \o @]
       \/ MainIn(d) /\ cleanup' = cleanup

-----------------------------------------------------------------------------
(* MHD_select_thread of the daemon structure d *)

\* Mutant: the listening socket is polled at the connection limit, too.
PollBegins_AtLimit(d) ==
    /\ loop[d] = "top"
    /\ ~shutdown
    /\ loop' = [loop EXCEPT ![d] = "polling"]
    /\ poll_listen' = [poll_listen EXCEPT ![d] = socket_fd]
    /\ UNCHANGED <<threads, mainvars, taking, lists, flags, served>>

\* The poll set: the listening socket only below the limit.
PollBegins(d) ==
    /\ loop[d] = "top"
    /\ ~shutdown
    /\ loop' = [loop EXCEPT ![d] = "polling"]
    /\ poll_listen' = [poll_listen EXCEPT ![d] =
            /\ socket_fd
            /\ IF threads = 0 THEN connections[d] # LimitOf(d)
               ELSE connections[d] < LimitOf(d)]
    /\ UNCHANGED <<threads, mainvars, taking, lists, flags, served>>

LoopEnds(d) ==
    /\ loop[d] = "top"
    /\ shutdown
    /\ loop' = [loop EXCEPT ![d] = "ended"]
    /\ UNCHANGED <<threads, mainvars, poll_listen, taking, lists, flags, served>>

\* poll() has no timeout, but for 5 ms when a master is at its limit.
PollReturns(d) ==
    /\ loop[d] = "polling"
    /\ \/ wpipe
       \/ poll_listen[d] /\ Queued # {}
       \/ threads > 0 /\ At({"finished"}, d) # {}
       \/ threads = 0 /\ connections[d] = LimitOf(d)
    /\ loop' = [loop EXCEPT ![d] = IF shutdown THEN "cleaning" ELSE "handling"]
    /\ poll_listen' = [poll_listen EXCEPT ![d] = @ /\ Queued # {}]
    /\ UNCHANGED <<threads, mainvars, taking, lists, flags, served>>

\* A worker's handlers find a connection at its end ...
WorkerFinishes(d, c) ==
    /\ threads > 0
    /\ loop[d] = "handling"
    /\ conn[c] = "finished" /\ owner[c] = d
    /\ MoveToCleanup(c, d)
    /\ UNCHANGED <<threads, mainvars, loopvars, connections, pos, mutex, flags, owner, dropped>>

\* ... and the listening socket comes last.
HandlersDone(d) ==
    /\ loop[d] = "handling"
    /\ threads > 0 => At({"finished"}, d) = {}
    /\ loop' = [loop EXCEPT ![d] = IF poll_listen[d] THEN "accept" ELSE "cleaning"]
    /\ poll_listen' = [poll_listen EXCEPT ![d] = FALSE]
    /\ UNCHANGED <<threads, mainvars, taking, lists, flags, served>>

\* MHD_accept_connection reads the descriptor ...
AcceptBegins(d) ==
    /\ loop[d] = "accept"
    /\ loop' = [loop EXCEPT ![d] = IF socket_fd THEN "accepting" ELSE "cleaning"]
    /\ UNCHANGED <<threads, mainvars, poll_listen, taking, lists, flags, served>>

\* ... and calls accept: another worker may have been faster, and the
\* descriptor may be closed by now.
Accept(d) ==
    /\ loop[d] = "accepting"
    /\ \/ \E c \in Queued :
            /\ listening
            /\ conn' = [conn EXCEPT ![c] = "accepted"]
            /\ owner' = [owner EXCEPT ![c] = d]
            /\ taking' = [taking EXCEPT ![d] = c]
            /\ loop' = [loop EXCEPT ![d] = "adding"]
       \/ /\ Queued = {} \/ ~listening
          /\ loop' = [loop EXCEPT ![d] = "cleaning"]
          /\ UNCHANGED <<conn, owner, taking>>
    /\ UNCHANGED <<threads, mainvars, poll_listen, lists, flags, dropped>>

\* internal_add_connection: refused at the limit, else put into the list of
\* connections and, without a pool, given a thread ...
AddConnection(d) ==
    /\ loop[d] = "adding"
    /\ IF connections[d] = LimitOf(d)
         THEN /\ conn' = [conn EXCEPT ![taking[d]] = "refused"]
              /\ loop' = [loop EXCEPT ![d] = "cleaning"]
         ELSE /\ threads = 0 => mutex = None
              /\ conn' = [conn EXCEPT ![taking[d]] = "live"]
              /\ loop' = [loop EXCEPT ![d] = "counting"]
    /\ taking' = [taking EXCEPT ![d] = None]
    /\ UNCHANGED <<threads, mainvars, poll_listen, lists, flags, owner, dropped>>

\* ... and counted, outside of any lock.
CountConnection(d) ==
    /\ loop[d] = "counting"
    /\ loop' = [loop EXCEPT ![d] = "cleaning"]
    /\ raced' = (raced \/ MainIn(d))
    /\ \/ connections' = [connections EXCEPT ![d] = (@ + 1) % (UnsignedMax + 1)]
       \/ MainIn(d) /\ connections' = connections
    /\ UNCHANGED <<threads, mainvars, poll_listen, taking, cleanup, pos, mutex, flags, served>>

LoopCleans(d) ==
    /\ loop[d] = "cleaning"
    /\ CleanupTake(d, d) \/ CleanupDispose(d, d)

LoopCleaned(d) ==
    /\ loop[d] = "cleaning"
    /\ CleanupOver(d, d)
    /\ loop' = [loop EXCEPT ![d] = "top"]
    /\ UNCHANGED <<threads, mainvars, poll_listen, taking, connections, cleanup, pos,
                   raced, flags, served>>

Poller(d) ==
    /\ Up
    /\ \/ PollBegins(d) \/ LoopEnds(d) \/ PollReturns(d) \/ HandlersDone(d)
       \/ \E c \in Clients : WorkerFinishes(d, c)
       \/ AcceptBegins(d) \/ Accept(d) \/ AddConnection(d) \/ CountConnection(d)
       \/ LoopCleans(d) \/ LoopCleaned(d)

\* A connection's own thread: at its end, or when it finds `shutdown' set (at the
\* latest when close_all_connections has shut its socket down), it puts the
\* connection into the cleanup list.
ConnectionThread(c) ==
    /\ Up
    /\ threads = 0
    /\ \/ conn[c] = "finished" /\ dropped' = dropped
       \/ conn[c] = "live" /\ shutdown /\ dropped' = dropped \cup {c}
    /\ mutex = None
    /\ MoveToCleanup(c, 0)
    /\ UNCHANGED <<threads, mainvars, loopvars, connections, pos, mutex, flags, owner>>

\* A connection's request is answered, or its client goes away.
Finish(c) ==
    /\ Up
    /\ conn[c] = "live"
    /\ conn' = [conn EXCEPT ![c] = "finished"]
    /\ UNCHANGED <<threads, mainvars, loopvars, lists, flags, owner, dropped>>

\* A client connects and sends its request.
Connect(c) ==
    /\ Up
    /\ listening
    /\ conn[c] = "none"
    /\ conn' = [conn EXCEPT ![c] = "queued"]
    /\ UNCHANGED <<threads, mainvars, loopvars, lists, flags, owner, dropped>>

-----------------------------------------------------------------------------
(* The main thread *)

FirstLoop == IF threads = 0 THEN 0 ELSE 1
LastLoop == threads

\* A process is new: nothing runs, nothing is connected.
Init ==
    /\ threads \in ThreadCounts
    /\ main = "begin"
    /\ visiting = 0
    /\ seen = 0
    /\ loop = [d \in AllLoops |-> "off"]
    /\ poll_listen = [d \in AllLoops |-> FALSE]
    /\ taking = [d \in AllLoops |-> None]
    /\ connections = [d \in AllLoops |-> 0]
    /\ cleanup = [d \in AllLoops |-> <<>>]
    /\ pos = [t \in AllLoops \cup {MainThread} |-> None]
    /\ mutex = None
    /\ socket_fd = FALSE
    /\ listening = FALSE
    /\ wpipe = FALSE
    /\ shutdown = FALSE
    /\ conn = [c \in Clients |-> "none"]
    /\ owner = [c \in Clients |-> 0]
    /\ raced = FALSE
    /\ dropped = {}

\* systemd starts the service again however it ended (Restart=always).
Restart ==
    /\ ~Up
    /\ threads' = threads
    /\ main' = "begin"
    /\ visiting' = 0
    /\ seen' = 0
    /\ loop' = [d \in AllLoops |-> "off"]
    /\ poll_listen' = [d \in AllLoops |-> FALSE]
    /\ taking' = [d \in AllLoops |-> None]
    /\ connections' = [d \in AllLoops |-> 0]
    /\ cleanup' = [d \in AllLoops |-> <<>>]
    /\ pos' = [t \in AllLoops \cup {MainThread} |-> None]
    /\ mutex' = None
    /\ socket_fd' = FALSE
    /\ listening' = FALSE
    /\ wpipe' = FALSE
    /\ shutdown' = FALSE
    /\ conn' = [c \in Clients |-> "none"]
    /\ owner' = [c \in Clients |-> 0]
    /\ raced' = FALSE
    /\ dropped' = {}

\* rest_server::start: the port may be taken, then main returns 1.
Start ==
    /\ main = "begin"
    /\ \/ /\ main' = "announce"
          /\ socket_fd' = TRUE
          /\ listening' = TRUE
          /\ loop' = [d \in AllLoops |-> IF d \in Loops THEN "top" ELSE "off"]
       \/ /\ main' = "returned"
          /\ UNCHANGED <<socket_fd, listening, loop>>
    /\ UNCHANGED <<threads, visiting, seen, poll_listen, taking, lists, wpipe, shutdown, served>>

\* wait_until_signalled blocks SIGINT and SIGUSR1 in this thread alone.
BlockSignals ==
    /\ main = "announce"
    /\ main' = "sigwait"
    /\ UNCHANGED <<threads, visiting, seen, loopvars, lists, flags, served>>

\* SIGINT or SIGUSR1: another thread, which does not block it, takes it when
\* main is not in sigwait, and its default action ends the process.
Signal ==
    /\ Up
    /\ main' = IF main = "sigwait" THEN "quiesce" ELSE "killed"
    /\ UNCHANGED <<threads, visiting, seen, loopvars, lists, flags, served>>

\* MHD_quiesce_daemon.
Quiesce ==
    /\ main = "quiesce"
    /\ main' = "close"
    /\ socket_fd' = FALSE
    /\ wpipe' = TRUE
    /\ UNCHANGED <<threads, visiting, seen, loopvars, lists, listening, shutdown, served>>

\* stop closes the listening socket: who was not accepted is reset.
CloseListening ==
    /\ main = "close"
    /\ main' = "counting"
    /\ visiting' = FirstLoop
    /\ seen' = 0
    /\ listening' = FALSE
    /\ conn' = [c \in Clients |-> IF c \in Queued THEN "reset" ELSE conn[c]]
    /\ UNCHANGED <<threads, loopvars, lists, socket_fd, wpipe, shutdown, owner, dropped>>

\* MHD_get_daemon_info cleans up each daemon structure ...
MainCleans ==
    /\ main = "counting"
    /\ CleanupTake(MainThread, visiting) \/ CleanupDispose(MainThread, visiting)

\* Mutant: stop does not wait for the connections.
MainCounts_DoesNotWait ==
    /\ main = "counting"
    /\ CleanupOver(MainThread, visiting)
    /\ main' = "shutdown"
    /\ UNCHANGED <<threads, visiting, seen, loopvars, connections, cleanup, pos, raced,
                   flags, served>>

\* ... and adds up their counters; stop waits until the sum is 0.
MainCounts ==
    /\ main = "counting"
    /\ CleanupOver(MainThread, visiting)
    /\ seen' = (seen + connections[visiting]) % (UnsignedMax + 1)
    /\ \/ visiting # LastLoop /\ visiting' = visiting + 1 /\ main' = main
       \/ visiting = LastLoop /\ visiting' = visiting
          /\ main' = IF seen' = 0 THEN "shutdown" ELSE "sleep"
    /\ UNCHANGED <<threads, loopvars, connections, cleanup, pos, raced, flags, served>>

SleepOver ==
    /\ main = "sleep"
    /\ main' = "counting"
    /\ visiting' = FirstLoop
    /\ seen' = 0
    /\ UNCHANGED <<threads, loopvars, lists, flags, served>>

\* Mutant: the threads are not told to stop.
StopDaemon_NoFlag ==
    /\ main = "shutdown"
    /\ main' = "joining"
    /\ visiting' = FirstLoop
    /\ UNCHANGED <<threads, seen, loopvars, lists, flags, served>>

\* MHD_stop_daemon tells every thread to end ...
StopDaemon ==
    /\ main = "shutdown"
    /\ main' = "joining"
    /\ visiting' = FirstLoop
    /\ shutdown' = TRUE
    /\ wpipe' = TRUE
    /\ UNCHANGED <<threads, seen, loopvars, lists, socket_fd, listening, served>>

\* Mutant: MHD_stop_daemon does not wait for the thread.
Join_DoesNotWait ==
    /\ main = "joining"
    /\ main' = "closing"
    /\ UNCHANGED <<threads, visiting, seen, loopvars, lists, flags, served>>

\* ... joins the polling threads one by one ...
Join ==
    /\ main = "joining"
    /\ loop[visiting] = "ended"
    /\ main' = "closing"
    /\ UNCHANGED <<threads, visiting, seen, loopvars, lists, flags, served>>

\* ... and after each closes what is left: close_all_connections joins the
\* connections' own threads, or ends the connections of a worker itself.
CloseAll ==
    /\ main = "closing"
    /\ LET live == At({"live", "finished"}, visiting)
           listed == live \cup {c \in Clients : \E i \in DOMAIN cleanup[visiting] :
                                                   cleanup[visiting][i] = c}
       IN  /\ threads = 0 => live = {}
           /\ dropped' = dropped \cup At({"live"}, visiting)
           /\ conn' = [c \in Clients |-> IF c \in listed THEN "gone" ELSE conn[c]]
           /\ connections' = [connections EXCEPT ![visiting] =
                 (@ + UnsignedMax + 1 - Cardinality(listed)) % (UnsignedMax + 1)]
    /\ cleanup' = [cleanup EXCEPT ![visiting] = <<>>]
    /\ \/ visiting # LastLoop /\ visiting' = visiting + 1 /\ main' = "joining"
       \/ visiting = LastLoop /\ visiting' = visiting /\ main' = "returned"
    /\ UNCHANGED <<threads, seen, loopvars, pos, mutex, raced, flags, owner>>

MainThreadNext ==
    \/ Start \/ BlockSignals \/ Quiesce \/ CloseListening \/ MainCleans \/ MainCounts
    \/ SleepOver \/ StopDaemon \/ Join \/ CloseAll

Next ==
    \/ MainThreadNext \/ Signal \/ Restart
    \/ \E d \in Loops : Poller(d)
    \/ \E c \in Clients : Connect(c) \/ Finish(c) \/ ConnectionThread(c)

\* Threads are scheduled. Clients, signals and systemd owe nothing.
Fairness ==
    /\ WF_vars(MainThreadNext)
    /\ \A d \in AllLoops : WF_vars(d \in Loops /\ Poller(d))
    /\ \A c \in Clients : WF_vars(ConnectionThread(c))

Spec == Init /\ [][Next]_vars /\ Fairness

-----------------------------------------------------------------------------
(* Properties *)

TypeOK ==
    /\ threads \in ThreadCounts
    /\ main \in {"begin", "announce", "sigwait", "quiesce", "close", "counting", "sleep",
                 "shutdown", "joining", "closing", "returned", "killed", "aborted"}
    /\ visiting \in AllLoops
    /\ seen \in 0..UnsignedMax
    /\ loop \in [AllLoops -> {"off", "top", "polling", "handling", "accept", "accepting",
                              "adding", "counting", "cleaning", "ended"}]
    /\ poll_listen \in [AllLoops -> BOOLEAN]
    /\ taking \in [AllLoops -> Clients \cup {None}]
    /\ connections \in [AllLoops -> 0..UnsignedMax]
    /\ DOMAIN cleanup = AllLoops
    /\ \A d \in AllLoops : cleanup[d] \in Seq(Clients)
    /\ pos \in [AllLoops \cup {MainThread} -> Clients \cup {None}]
    /\ mutex \in {0, MainThread, None}
    /\ {socket_fd, listening, wpipe, shutdown, raced} \subseteq BOOLEAN
    /\ conn \in [Clients -> {"none", "queued", "accepted", "live", "finished", "cleanup",
                             "gone", "refused", "reset"}]
    /\ owner \in [Clients -> AllLoops]
    /\ dropped \subseteq Clients

\* Config.json's connection_limit holds for the server as a whole, however
\* many workers share it, and a connection that was accepted is never closed
\* unserved for it: the listening socket is only polled below the limit
\* (daemon.cpp:2417, "Do not accept when at connection limit").
LimitHonoured ==
    /\ Cardinality({c \in Clients : conn[c] \in {"live", "finished"}}) <= ConnectionLimit
    /\ \A c \in Clients : conn[c] # "refused"

\* The counter stop waits for is the number of connections not yet freed, less
\* the one that is served but not yet counted.
CountFollows ==
    raced \/ \A d \in Loops :
        LET held == Cardinality(At({"live", "finished", "cleanup"}, d))
        IN  connections[d] = IF loop[d] # "counting" THEN held
                             ELSE IF held = 0 THEN UnsignedMax ELSE held - 1

\* "wait for current requests to be handled" (rest_server.cpp:419): stop ends
\* at most one unanswered connection per polling thread, the one it had
\* accepted and not yet counted.
DroppedBound ==
    raced \/ \A d \in Loops : Cardinality({c \in dropped : owner[c] = d}) <= 1

\* When stop returns, and with it main destroys the server and the service, no
\* thread is left that could call them and every connection has been closed.
NothingLeft ==
    main = "returned" =>
        /\ \A d \in AllLoops : loop[d] \in {"off", "ended"}
        /\ raced \/ \A c \in Clients : conn[c] \in {"none", "gone", "refused", "reset"}

\* If every connection ends some time, stop returns, unless a second signal
\* kills the process.
StopEnds ==
    (\A c \in Clients : []<>(conn[c] # "live"))
        => (main = "quiesce" ~> main \in {"returned", "killed"} \/ raced)

\* "Mutex for (modifying) access to the "cleanup" connection DLL"
\* (internal.h:1093): two threads never dispose of elements of one list at a time.
CleanupExclusive ==
    \A d \in Loops : ~(MainIn(d) /\ pos[d] # None)
=============================================================================
