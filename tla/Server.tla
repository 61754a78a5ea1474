------------------------------- MODULE Server -------------------------------
(***************************************************************************)
(* The threads of the coordinator daemon and its claimants: run() and      *)
(* stop() of src/ipc/server.cpp, one worker per connection, on the Unix    *)
(* sockets of src/ipc/endpoint.cpp, with the main thread and the stopper   *)
(* thread of tools/nafd.cpp and the clients of src/ipc/client.cpp.         *)
(*                                                                         *)
(* One connection stands for one run of a client.  What the engine         *)
(* decides is the matter of Engine; here a request is answered.  A client  *)
(* may stop talking at any moment, or disappear within a frame.  A thread  *)
(* steps between two accesses to what it shares with another thread; what  *)
(* it does under workers_mutex_ is one step, except that stop() keeps the  *)
(* mutex while it waits for the workers.                                   *)
(***************************************************************************)
EXTENDS Naturals, Sequences, FiniteSets

CONSTANTS
    Connections,        \* 1 .. n: numbered in the order of their arrival
    MaxConnections,     \* ServerConfig::max_connections
    SessionCapacity,    \* EngineConfig::session_capacity
    None

ASSUME ServerAssumption ==
    /\ Connections \subseteq Nat
    /\ MaxConnections \in Nat /\ SessionCapacity \in Nat
    /\ None \notin Connections

\* The threads that call stop(): run() itself when it ends, and the stopper.
Threads == {"runner", "stopper"}

VARIABLES
    alive,      \* the process
    stopping,   \* stopping_
    listener,   \* "unbound", "open", "closed" (closed_ is set)
    backlog,    \* connections that accept() has not returned yet
    pc,         \* where each of Threads is
    lock,       \* the thread that holds workers_mutex_ while it joins
    held,       \* the connection that run() has accepted and not placed
    snapshot,   \* the streams that each call of stop() closes
    workers,    \* workers_
    worker,     \* where the worker thread of a connection is
    stream,     \* the server's end: "none", "open", "closed"
    sessions,   \* the connections whose session is live in the engine
    farewell,   \* those whose client has said Bye
    client,     \* the client's end: "away", "present", "gone"
    waiting,    \* the clients that wait in read_message()
    inbox       \* what the client has sent and the worker not read

runVars == <<alive, stopping, listener, backlog, pc, lock, held, snapshot>>
workerVars == <<workers, worker, stream, sessions, farewell>>
clientVars == <<client, waiting, inbox>>
serverVars == <<runVars, workerVars, clientVars>>

ServerInit ==
    /\ alive = TRUE
    /\ stopping = FALSE /\ listener = "unbound" /\ backlog = << >>
    /\ pc = [t \in Threads |-> IF t = "runner" THEN "start" ELSE "idle"]
    /\ lock = None /\ held = None /\ snapshot = [t \in Threads |-> {}]
    /\ workers = {}
    /\ worker = [c \in Connections |-> "none"]
    /\ stream = [c \in Connections |-> "none"]
    /\ sessions = {} /\ farewell = {}
    /\ client = [c \in Connections |-> "away"]
    /\ waiting = {}
    /\ inbox = [c \in Connections |-> << >>]

At(t, from, to) == alive /\ pc[t] = from /\ pc' = [pc EXCEPT ![t] = to]

Moves(c, from, to) == alive /\ worker[c] = from /\ worker' = [worker EXCEPT ![c] = to]

-----------------------------------------------------------------------------
(* Writing to a connection.  write() on a socket whose other end is gone
   raises SIGPIPE.  nafd inherits what happens then: the default ends the
   process; where it is ignored, the write fails. *)

Delivered(c) == stream[c] = "open" /\ client[c] = "present"

\* write_message() returning, with whatever result: a client that waits gets it.
Writes(c) ==
    /\ waiting' = IF Delivered(c) THEN waiting \ {c} ELSE waiting
    /\ UNCHANGED <<client, inbox>>

\* What reap_finished() leaves of workers_.
Unfinished == {c \in workers : worker[c] # "done"}

\* Faulty: the bound is off by one.
FullLate == Cardinality(Unfinished) > MaxConnections

\* workers_.size() against max_connections, behind reap_finished()
Full == Cardinality(Unfinished) >= MaxConnections

Writing(c) ==
    \/ worker[c] \in {"refuse", "welcome", "reply", "error"}
    \/ pc["runner"] = "add" /\ held = c /\ lock = None /\ Full

\* The process ends, and all it had is gone.
ProcessEnds ==
    /\ alive' = FALSE
    /\ pc' = [t \in Threads |-> "done"]
    /\ stopping' = TRUE /\ listener' = "closed" /\ backlog' = << >>
    /\ lock' = None /\ held' = None /\ snapshot' = [t \in Threads |-> {}]
    /\ workers' = {} /\ sessions' = {} /\ farewell' = {}
    /\ worker' = [c \in Connections |-> "none"]
    /\ stream' = [c \in Connections |-> "closed"]
    /\ inbox' = [c \in Connections |-> << >>]
    /\ UNCHANGED <<client, waiting>>

\* A write that finds the connection gone, or closed by stop() meanwhile.
WriteKills(c) ==
    /\ alive
    /\ Writing(c) /\ ~Delivered(c)
    /\ ProcessEnds

-----------------------------------------------------------------------------
(* The thread that starts the server and runs it *)

\* start() and bind_transport(): recovery or the socket may fail, and nafd exits.
Start ==
    \/ /\ At("runner", "start", "enter")
       /\ listener' = "open"
       /\ UNCHANGED <<alive, stopping, backlog, lock, held, snapshot, workerVars, clientVars>>
    \/ /\ alive /\ pc["runner"] = "start"
       /\ ProcessEnds

\* The beginning of run(): when a stop() that came first has ended, and reset
\* running_, run() returns at once.
Enter ==
    /\ At("runner", "enter", IF pc["stopper"] = "done" THEN "done" ELSE "loop")
    /\ UNCHANGED <<alive, stopping, listener, backlog, lock, held, snapshot,
                   workerVars, clientVars>>

\* The condition of the loop in run(); behind the loop, run() calls stop().
Loop ==
    /\ At("runner", "loop", IF stopping THEN "flag" ELSE "accept")
    /\ UNCHANGED <<alive, stopping, listener, backlog, lock, held, snapshot,
                   workerVars, clientVars>>

\* accept(2) returns a connection.
Accept ==
    /\ At("runner", "accept", "got")
    /\ listener = "open" /\ backlog # << >>
    /\ held' = Head(backlog) /\ backlog' = Tail(backlog)
    /\ UNCHANGED <<alive, stopping, listener, lock, snapshot, workerVars, clientVars>>

\* SocketListener::accept() behind accept(2): it looks at closed_ once more.
Accepted ==
    /\ \/ /\ listener = "open"
          /\ At("runner", "got", "add")
          /\ stream' = [stream EXCEPT ![held] = "open"]
          /\ UNCHANGED <<backlog, held>>
       \/ /\ listener = "closed"
          /\ At("runner", "got", "flag")
          /\ stream' = [c \in Connections |->
                           IF c = held \/ \E i \in DOMAIN backlog : backlog[i] = c
                              THEN "closed" ELSE stream[c]]
          /\ backlog' = << >>
          /\ held' = None
    /\ UNCHANGED <<alive, stopping, listener, lock, snapshot,
                   workers, worker, sessions, farewell, clientVars>>

\* accept(2) fails because the listener was shut down, and its descriptor is
\* closed with all that waits on it.
AcceptWoken ==
    /\ listener = "closed"
    /\ At("runner", "accept", "flag")
    /\ stream' = [c \in Connections |->
                     IF \E i \in DOMAIN backlog : backlog[i] = c THEN "closed" ELSE stream[c]]
    /\ backlog' = << >>
    /\ UNCHANGED <<alive, stopping, listener, lock, held, snapshot,
                   workers, worker, sessions, farewell, clientVars>>

\* Faulty: run() returns the error at once.
AcceptFailsReturns ==
    /\ listener = "open"
    /\ At("runner", "accept", "done")
    /\ UNCHANGED <<alive, stopping, listener, backlog, lock, held, snapshot,
                   workerVars, clientVars>>

\* accept(2) fails for a reason of its own: run() ends the server.
AcceptFails ==
    /\ listener = "open"
    /\ At("runner", "accept", "flag")
    /\ UNCHANGED <<alive, stopping, listener, backlog, lock, held, snapshot,
                   workerVars, clientVars>>

\* The rest of the loop's body: reap_finished(), then a worker or Busy.
AddWorker ==
    /\ lock = None
    /\ At("runner", "add", "loop")
    /\ \/ /\ Full
          /\ Writes(held)
          /\ stream' = [stream EXCEPT ![held] = "closed"]
          /\ workers' = Unfinished
          /\ UNCHANGED worker
       \/ /\ ~Full
          /\ workers' = Unfinished \cup {held}
          /\ worker' = [worker EXCEPT ![held] = "hello"]
          /\ UNCHANGED <<stream, clientVars>>
    /\ held' = None
    /\ UNCHANGED <<alive, stopping, listener, backlog, lock, snapshot,
                   sessions, farewell>>

-----------------------------------------------------------------------------
(* stop(), in either thread *)

\* A signal or the watchdog, or main() behind run(), sets g_stop.
StopRequested ==
    /\ pc["runner"] # "start"
    /\ At("stopper", "idle", "flag")
    /\ UNCHANGED <<alive, stopping, listener, backlog, lock, held, snapshot,
                   workerVars, clientVars>>

SetStopping(t) ==
    /\ At(t, "flag", "listener")
    /\ stopping' = TRUE
    /\ UNCHANGED <<alive, listener, backlog, lock, held, snapshot, workerVars, clientVars>>

CloseListener(t) ==
    /\ At(t, "listener", "collect")
    /\ listener' = "closed"
    /\ UNCHANGED <<alive, stopping, backlog, lock, held, snapshot, workerVars, clientVars>>

CollectStreams(t) ==
    /\ lock = None
    /\ At(t, "collect", "close")
    /\ snapshot' = [snapshot EXCEPT ![t] = workers]
    /\ UNCHANGED <<alive, stopping, listener, backlog, lock, held, workerVars, clientVars>>

\* Faulty: only the listener is closed.
CloseStreamsNot(t) ==
    /\ At(t, "close", "lock")
    /\ snapshot' = [snapshot EXCEPT ![t] = {}]
    /\ UNCHANGED <<alive, stopping, listener, backlog, lock, held, workerVars, clientVars>>

CloseStreams(t) ==
    /\ At(t, "close", "lock")
    /\ stream' = [c \in Connections |-> IF c \in snapshot[t] THEN "closed" ELSE stream[c]]
    /\ snapshot' = [snapshot EXCEPT ![t] = {}]
    /\ UNCHANGED <<alive, stopping, listener, backlog, lock, held,
                   workers, worker, sessions, farewell, clientVars>>

LockWorkers(t) ==
    /\ lock = None
    /\ At(t, "lock", "join")
    /\ lock' = t
    /\ UNCHANGED <<alive, stopping, listener, backlog, held, snapshot,
                   workerVars, clientVars>>

\* join_all() has joined every worker.
Joined(t) ==
    /\ At(t, "join", "done")
    /\ \A c \in workers : worker[c] = "done"
    /\ workers' = {}
    /\ lock' = None
    /\ UNCHANGED <<alive, stopping, listener, backlog, held, snapshot,
                   worker, stream, sessions, farewell, clientVars>>

\* main() returns once run() has returned and the stopper is joined.
Exit ==
    /\ alive /\ \A t \in Threads : pc[t] = "done"
    /\ ProcessEnds

-----------------------------------------------------------------------------
(* A worker: serve() and handle_connection() *)

\* read_message() returns because there is nothing left to read.
Ended(c) == stream[c] = "closed" \/ (client[c] = "gone" /\ inbox[c] = << >>)

\* read_message() returns what the client has sent.
Reads(c, kind) ==
    /\ stream[c] = "open" /\ inbox[c] # << >>
    /\ kind = Head(inbox[c])
    /\ inbox' = [inbox EXCEPT ![c] = Tail(inbox[c])]
    /\ UNCHANGED <<client, waiting>>

\* The first message: a Hello that serve() accepts, one that it does not, one
\* above max_frame, which it drops without an answer, or none.
ReadHello(c) ==
    /\ \/ Ended(c) /\ Moves(c, "hello", "close") /\ UNCHANGED clientVars
       \/ Reads(c, "Hello") /\ Moves(c, "hello", "register")
       \/ \E kind \in {"Hello", "Request", "Bye"} :
             Reads(c, kind) /\ (Moves(c, "hello", "error") \/ Moves(c, "hello", "close"))
    /\ UNCHANGED <<runVars, workers, stream, sessions, farewell>>

\* register_session()
Register(c) ==
    /\ \/ /\ Cardinality(sessions) < SessionCapacity
          /\ Moves(c, "register", "welcome")
          /\ sessions' = sessions \cup {c}
       \/ /\ Cardinality(sessions) >= SessionCapacity
          /\ Moves(c, "register", "refuse")
          /\ UNCHANGED sessions
    /\ UNCHANGED <<runVars, workers, stream, farewell, clientVars>>

\* A Welcome that says no, or an error: the worker then leaves.
Refuse(c) ==
    /\ Writes(c)
    /\ \/ Moves(c, "refuse", "close")
       \/ Moves(c, "error", "leave")
    /\ UNCHANGED <<runVars, workers, stream, sessions, farewell>>

\* Faulty: a Welcome that cannot be written ends the worker at once.
WelcomeKeeps(c) ==
    /\ Writes(c)
    /\ Moves(c, "welcome", IF Delivered(c) THEN "check" ELSE "close")
    /\ UNCHANGED <<runVars, workers, stream, sessions, farewell>>

\* Faulty: the session is opened, and its client not told.
WelcomeUnsent(c) ==
    /\ Moves(c, "welcome", "check")
    /\ UNCHANGED <<runVars, workers, stream, sessions, farewell, clientVars>>

Welcome(c) ==
    /\ Writes(c)
    /\ Moves(c, "welcome", IF Delivered(c) THEN "check" ELSE "leave")
    /\ UNCHANGED <<runVars, workers, stream, sessions, farewell>>

\* The condition of the loop in handle_connection()
CheckStopping(c) ==
    /\ Moves(c, "check", IF stopping THEN "leave" ELSE "read")
    /\ UNCHANGED <<runVars, workers, stream, sessions, farewell, clientVars>>

\* Faulty: nothing read is taken for nothing to read yet.
ReadRequestDeaf(c) ==
    /\ \/ stopping /\ Ended(c) /\ Moves(c, "read", "leave") /\ UNCHANGED <<farewell, clientVars>>
       \/ Reads(c, "Request") /\ Moves(c, "read", "reply") /\ UNCHANGED farewell
       \/ Reads(c, "Hello") /\ Moves(c, "read", "error") /\ UNCHANGED farewell
       \/ Reads(c, "Bye") /\ Moves(c, "read", "close") /\ farewell' = farewell \cup {c}
    /\ UNCHANGED <<runVars, workers, stream, sessions>>

\* The body of that loop up to the answer.  The stream may end within a frame
\* and a request may be above max_frame, which are errors, too.  Bye clears registered: the session is not retired.
ReadRequest(c) ==
    /\ \/ Ended(c) /\ Moves(c, "read", "leave") /\ UNCHANGED <<farewell, clientVars>>
       \/ Ended(c) /\ ~stopping /\ Moves(c, "read", "error") /\ UNCHANGED <<farewell, clientVars>>
       \/ Reads(c, "Request") /\ Moves(c, "read", "reply") /\ UNCHANGED farewell
       \/ /\ Reads(c, "Hello") \/ Reads(c, "Request")
          /\ Moves(c, "read", "error") /\ UNCHANGED farewell
       \/ Reads(c, "Bye") /\ Moves(c, "read", "close") /\ farewell' = farewell \cup {c}
    /\ UNCHANGED <<runVars, workers, stream, sessions>>

\* The answer to a request.  When it cannot be written, because the client is
\* gone or the answer is above max_frame, the worker leaves, or reads on if the
\* answer was an error.
Reply(c) ==
    /\ \/ Writes(c) /\ Moves(c, "reply", "check")
       \/ UNCHANGED clientVars /\ Moves(c, "reply", "leave")
    /\ UNCHANGED <<runVars, workers, stream, sessions, farewell>>

\* The end of serve(): a session that is still registered is retired, the
\* stream is closed, and the thread sets done.
Finish(c) ==
    /\ \/ Moves(c, "leave", "done") /\ sessions' = sessions \ {c}
       \/ Moves(c, "close", "done") /\ UNCHANGED sessions
    /\ stream' = [stream EXCEPT ![c] = "closed"]
    /\ inbox' = [inbox EXCEPT ![c] = << >>]
    /\ UNCHANGED <<runVars, workers, farewell, client, waiting>>

-----------------------------------------------------------------------------
(* A client *)

\* connect_endpoint()
Connect(c) ==
    /\ alive /\ listener = "open" /\ client[c] = "away"
    /\ \A d \in 1 .. c - 1 : client[d] # "away"
    /\ client' = [client EXCEPT ![c] = "present"]
    /\ backlog' = Append(backlog, c)
    /\ UNCHANGED <<alive, stopping, listener, pc, lock, held, snapshot, workerVars,
                   waiting, inbox>>

\* On a connection that the server has closed, everything fails at once.
Connected(c) == alive /\ client[c] = "present" /\ stream[c] # "closed"

\* request(): it writes and waits.
Request(c) ==
    /\ Connected(c) /\ c \notin waiting
    /\ waiting' = waiting \cup {c}
    /\ \E kind \in {"Hello", "Request"} : inbox' = [inbox EXCEPT ![c] = Append(inbox[c], kind)]
    /\ UNCHANGED <<runVars, workerVars, client>>

\* close(): Bye, and the end of the stream.
SayBye(c) ==
    /\ Connected(c) /\ c \notin waiting
    /\ client' = [client EXCEPT ![c] = "gone"]
    /\ inbox' = [inbox EXCEPT ![c] = Append(inbox[c], "Bye")]
    /\ UNCHANGED <<runVars, workerVars, waiting>>

\* The client's process ends.
Vanish(c) ==
    /\ Connected(c)
    /\ client' = [client EXCEPT ![c] = "gone"]
    /\ waiting' = waiting \ {c}
    /\ UNCHANGED <<runVars, workerVars, inbox>>

-----------------------------------------------------------------------------
Stop(t) ==
    \/ SetStopping(t) \/ CloseListener(t) \/ CollectStreams(t) \/ CloseStreams(t)
    \/ LockWorkers(t) \/ Joined(t)

\* What the threads do without being asked
Main ==
    \/ Start \/ Enter \/ Loop \/ Accept \/ Accepted \/ AcceptWoken \/ AddWorker
    \/ Stop("runner") \/ Exit

Stopper == Stop("stopper") \/ (pc["runner"] = "done" /\ StopRequested)

Serve(c) ==
    \/ ReadHello(c) \/ Register(c) \/ Refuse(c) \/ Welcome(c) \/ CheckStopping(c)
    \/ ReadRequest(c) \/ Reply(c) \/ Finish(c)

ServerNext ==
    \/ Main \/ Stopper
    \/ AcceptFails \/ StopRequested
    \/ \E c \in Connections : Serve(c) \/ WriteKills(c)
    \/ \E c \in Connections : Connect(c) \/ Request(c) \/ SayBye(c) \/ Vanish(c)

\* Every thread of the server runs when it can.  Nobody makes a client talk,
\* an accept or a write fail, or a signal arrive; behind run(), main() sets
\* g_stop itself.
ServerSpec ==
    /\ ServerInit /\ [][ServerNext]_serverVars
    /\ WF_serverVars(Main)
    /\ WF_serverVars(Stopper)
    /\ \A c \in Connections : WF_serverVars(Serve(c))

-----------------------------------------------------------------------------
(* Correctness *)

Running(c) == worker[c] \notin {"none", "done"}

\* A session that is live in the engine belongs to a worker that will retire
\* it, on every way out of serve(): a refused, broken, stopped or unexpected
\* exchange.  The one exception is the client that says Bye, whose session
\* stays until the coordinator ends.
SessionsServed ==
    \A c \in sessions : worker[c] \in {"welcome", "check", "read", "reply", "error", "leave"} \/ c \in farewell

\* When run() has returned nothing of the server runs any more, whichever
\* thread called stop() and whatever was being accepted: no worker can touch
\* the engine that the caller is about to destroy, and no stream stays open.
RunLeavesNothing ==
    pc["runner"] = "done" /\ alive =>
       /\ \A c \in Connections : ~Running(c) /\ stream[c] # "open"
       /\ workers = {}

\* No more than max_connections workers run at a time, finished workers that
\* have not been joined included, also while stop() and run() both change the
\* list.
WorkersBounded ==
    /\ Cardinality(workers) <= MaxConnections
    /\ \A c \in Connections : Running(c) => c \in workers

\* stop() joins a worker that it has not woken: the worker was added between
\* the two sections of stop() that take the mutex, and its client is silent.
JoinsUnwoken ==
    /\ lock # None
    /\ \E c \in workers : worker[c] = "hello" /\ stream[c] = "open" /\ inbox[c] = << >>

Ends == ~alive

\* "shutdown cannot deadlock against the work it is waiting for" (server.hpp):
\* once stop() has been called, the coordinator ends, whatever the clients do.
ShutdownEnds == stopping ~> Ends

\* What the code does guarantee: the coordinator ends, or one of its calls of
\* stop() waits for a connection that was being accepted when it was called.
ShutdownEndsOrJoins == stopping ~> (Ends \/ []JoinsUnwoken)

\* Clients that are gone do not keep their sessions, unless they have said Bye:
\* again and again there is a moment at which all of them are retired.
LostClientsRetired ==
    []<>(\A c \in Connections : client[c] = "gone" => c \notin sessions \/ c \in farewell)

\* A client that has sent a request is answered, or its stream ends: it does
\* not wait forever, not even when the server stops, refuses it or fails.
NobodyWaitsForever ==
    \A c \in Connections :
       c \in waiting ~> (c \notin waiting \/ stream[c] = "closed" \/ Ends \/ []JoinsUnwoken)
=============================================================================
