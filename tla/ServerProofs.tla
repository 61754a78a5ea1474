---------------------------- MODULE ServerProofs ----------------------------
(***************************************************************************)
(* Workers, streams and sessions of the server, for any number of          *)
(* connections and any bound on them.                                      *)
(***************************************************************************)
EXTENDS Server, FiniteSetTheorems, SequenceTheorems, TLAPS

-----------------------------------------------------------------------------
(* The invariant *)

RunSteps == {"start", "enter", "loop", "accept", "got", "add", "idle", "flag", "listener",
             "collect", "close", "lock", "join", "done"}

\* Where run() has no worker yet, or none any more.
Resting == {"start", "enter", "done"}

WorkerSteps == {"none", "hello", "register", "refuse", "welcome", "check", "read", "reply",
                "error", "leave", "close", "done"}

ServerTypes ==
    /\ alive \in BOOLEAN
    /\ pc \in [Threads -> RunSteps]
    /\ backlog \in Seq(Connections)
    /\ held \in Connections \cup {None}
    /\ workers \subseteq Connections
    /\ worker \in [Connections -> WorkerSteps]
    /\ stream \in [Connections -> {"none", "open", "closed"}]
    /\ client \in [Connections -> {"away", "present", "gone"}]
    /\ sessions \subseteq Connections

\* A connection without a worker that waits for one.
Unserved(c) == worker[c] = "none" /\ client[c] # "away"

\* Every connection is in one place: it has not arrived, is in the backlog, is
\* in the hands of run(), or has a worker.
Placement ==
    /\ held # None <=> pc["runner"] \in {"got", "add"}
    /\ held # None => Unserved(held)
    /\ \A i \in 1 .. Len(backlog) :
          /\ Unserved(backlog[i]) /\ backlog[i] # held
          /\ \A j \in 1 .. Len(backlog) : backlog[i] = backlog[j] => i = j
    /\ \A c \in Connections : client[c] = "away" => worker[c] = "none"

\* SessionsServed, with the steps at which a session can be live at all.
SessionsPlaced ==
    \A c \in sessions :
       \/ worker[c] \in {"welcome", "check", "read", "reply", "error", "leave"}
       \/ c \in farewell /\ worker[c] \in {"close", "done"}

WorkersListed ==
    /\ IsFiniteSet(workers) /\ Cardinality(workers) <= MaxConnections
    /\ \A c \in Connections : Running(c) => c \in workers

\* An open stream is being placed or has a running worker.
StreamsOwned == \A c \in Connections : stream[c] = "open" => held = c \/ Running(c)

\* Before run() begins there is no worker, and when it has returned none is left.
JoinedAll == pc["runner"] \in Resting /\ alive => workers = {}

ServerInv ==
    ServerTypes /\ Placement /\ SessionsPlaced /\ WorkersListed /\ StreamsOwned /\ JoinedAll

-----------------------------------------------------------------------------
(* Steps of several actions *)

LEMMA InitServerInv == ServerInit => ServerInv
<1> SUFFICES ASSUME ServerInit PROVE ServerInv
  OBVIOUS
<1>1. backlog \in Seq(Connections) /\ Len(backlog) = 0
  BY EmptySeq DEF ServerInit
<1>2. ServerTypes
  BY <1>1 DEF ServerInit, ServerTypes, RunSteps, WorkerSteps, Threads
<1>3. WorkersListed
  BY FS_EmptySet, ServerAssumption DEF ServerInit, WorkersListed, Running
<1>4. Placement
  BY <1>1 DEF ServerInit, Placement, Threads
<1> QED
  BY <1>2, <1>3, <1>4 DEF ServerInit, ServerInv, SessionsPlaced, StreamsOwned, JoinedAll, Resting, Threads

(* The end of the process leaves nothing. *)
LEMMA EndKeepsInv ==
    ASSUME ServerInv, ProcessEnds
    PROVE  ServerInv'
<1>1. (backlog \in Seq(Connections))' /\ Len(backlog') = 0
  BY EmptySeq DEF ProcessEnds
<1>2. ServerTypes'
  BY <1>1 DEF ServerInv, ProcessEnds, ServerTypes, RunSteps, WorkerSteps, Threads
<1>3. WorkersListed'
  BY FS_EmptySet, ServerAssumption DEF ProcessEnds, WorkersListed, Running
<1>4. Placement'
  BY <1>1 DEF ProcessEnds, Placement, Threads
<1> QED
  BY <1>2, <1>3, <1>4 DEF ProcessEnds, ServerInv, SessionsPlaced, StreamsOwned, JoinedAll, Resting, Threads

(* A thread moves, not to where run() holds a connection or rests, while connections may be closed. *)
LEMMA MoveKeepsInv ==
    ASSUME ServerInv, NEW t \in Threads, NEW to \in RunSteps \ {"got", "add"},
           to \in Resting => pc["runner"] \in Resting,
           pc[t] \notin {"got", "add"} \/ held' = None, pc' = [pc EXCEPT ![t] = to],
           t = "stopper" => held' = held,
           backlog' \in {backlog, << >>},
           stream' \in [Connections -> {"none", "open", "closed"}],
           \A c \in Connections : stream'[c] = "open" => stream[c] = "open",
           held' = held \/ (held' = None /\ (held # None => stream'[held] # "open")),
           UNCHANGED <<alive, workers, worker, sessions, farewell, client>>
    PROVE  ServerInv'
<1>1. Len(<< >>) = 0 /\ << >> \in Seq(Connections)
  BY EmptySeq
<1>2. ServerTypes'
  BY <1>1 DEF ServerInv, ServerTypes, Threads
<1>3. held' # None <=> pc'["runner"] \in {"got", "add"}
  BY DEF ServerInv, ServerTypes, Placement, Threads
<1>4. Placement'
  <2>1. CASE backlog' = backlog
    BY <1>3, <2>1, ServerAssumption DEF ServerInv, ServerTypes, Placement, Unserved
  <2>2. CASE backlog' = << >>
    BY <1>1, <1>3, <2>2 DEF ServerInv, ServerTypes, Placement, Unserved
  <2> QED
    BY <2>1, <2>2
<1>5. SessionsPlaced'
  BY DEF ServerInv, SessionsPlaced
<1>6. WorkersListed'
  BY DEF ServerInv, WorkersListed, Running
<1>7. StreamsOwned'
  BY DEF ServerInv, StreamsOwned, Running
<1>8. JoinedAll'
  BY DEF ServerInv, ServerTypes, JoinedAll, Resting, Threads
<1> QED
  BY <1>2, <1>4, <1>5, <1>6, <1>7, <1>8 DEF ServerInv

(* A worker moves. *)
LEMMA WorkerKeepsInv ==
    ASSUME ServerInv, NEW c \in Connections, NEW to \in WorkerSteps \ {"none"},
           worker[c] \notin {"none", "done"},
           worker' = [worker EXCEPT ![c] = to],
           stream' = IF to = "done" THEN [stream EXCEPT ![c] = "closed"] ELSE stream,
           sessions' \subseteq sessions \cup {c}, farewell \subseteq farewell',
           c \in sessions' =>
              \/ to \in {"welcome", "check", "read", "reply", "error", "leave"}
              \/ c \in farewell' /\ to \in {"close", "done"},
           UNCHANGED <<alive, pc, backlog, held, workers, client>>
    PROVE  ServerInv'
<1>1. ServerTypes'
  BY DEF ServerInv, ServerTypes
<1>2. Placement'
  <2>1. worker[c] # "none" /\ client[c] # "away"
    BY DEF ServerInv, Placement
  <2>2. held # c /\ \A i \in 1 .. Len(backlog) : backlog[i] # c /\ backlog[i] \in Connections
    <3>1. \A i \in 1 .. Len(backlog) : backlog[i] \in Connections
      BY DEF ServerInv, ServerTypes
    <3> QED
      BY <2>1, <3>1, ServerAssumption DEF ServerInv, Placement, Unserved
  <2> QED
    BY <2>1, <2>2 DEF ServerInv, ServerTypes, Placement, Unserved
<1>3. SessionsPlaced'
  BY DEF ServerInv, ServerTypes, SessionsPlaced
<1>4. WorkersListed'
  BY DEF ServerInv, ServerTypes, WorkersListed, Running
<1>5. StreamsOwned'
  BY DEF ServerInv, ServerTypes, StreamsOwned, Running
<1>6. JoinedAll'
  BY DEF ServerInv, JoinedAll
<1> QED
  BY <1>1, <1>2, <1>3, <1>4, <1>5, <1>6 DEF ServerInv

(* A client does something on its connection. *)
LEMMA ClientKeepsInv ==
    ASSUME ServerInv, NEW c \in Connections, client[c] = "present",
           NEW to \in {"present", "gone"}, client' = [client EXCEPT ![c] = to],
           UNCHANGED <<runVars, workerVars>>
    PROVE  ServerInv'
<1> USE DEF runVars, workerVars
<1>1. ServerTypes'
  BY DEF ServerInv, ServerTypes
<1>2. \A d \in Connections : client'[d] = "away" <=> client[d] = "away"
  BY DEF ServerInv, ServerTypes
<1>3. Placement'
  <2>1. \A i \in 1 .. Len(backlog) : backlog[i] \in Connections
    BY DEF ServerInv, ServerTypes
  <2>2. held \in Connections \cup {None}
    BY DEF ServerInv, ServerTypes
  <2> QED
    BY <1>2, <2>1, <2>2 DEF ServerInv, Placement, Unserved
<1> QED
  BY <1>1, <1>3 DEF ServerInv, SessionsPlaced, WorkersListed, StreamsOwned, JoinedAll, Resting, Running

-----------------------------------------------------------------------------
(* Steps that place a connection *)

LEMMA ConnectKeepsInv ==
    ASSUME ServerInv, NEW c \in Connections, Connect(c)
    PROVE  ServerInv'
<1> USE DEF workerVars
<1> DEFINE n == Len(backlog)
<1>0. backlog \in Seq(Connections) /\ n \in Nat
  BY LenProperties DEF ServerInv, ServerTypes
<1>1. /\ backlog' \in Seq(Connections) /\ Len(backlog') = n + 1
      /\ \A i \in 1 .. n : backlog'[i] = backlog[i] /\ backlog[i] \in Connections
      /\ backlog'[n + 1] = c
  BY <1>0, AppendProperties, ElementOfSeq DEF Connect
<1>2. /\ client[c] = "away" /\ client' = [client EXCEPT ![c] = "present"]
      /\ UNCHANGED <<alive, pc, held, workers, worker, stream, sessions, farewell>>
  BY DEF Connect
<1>3. ServerTypes'
  BY <1>1, <1>2 DEF ServerInv, ServerTypes
<1>4. /\ worker[c] = "none" /\ held # c
      /\ \A i \in 1 .. n : backlog[i] # c
  BY <1>2, ServerAssumption DEF ServerInv, Placement, Unserved
<1>5. \A i \in 1 .. n + 1 : i \in 1 .. n \/ i = n + 1
  BY <1>0
<1>6. \A d \in Connections : Unserved(d) => Unserved(d)'
  BY <1>2 DEF ServerInv, ServerTypes, Unserved
<1>7. Unserved(c)'
  BY <1>2, <1>4 DEF ServerInv, ServerTypes, Unserved
<1>8. Placement'
  <2>1. held' # None => Unserved(held)'
    BY <1>2, <1>6 DEF ServerInv, ServerTypes, Placement, Unserved
  <2>2. \A i \in 1 .. n + 1 : Unserved(backlog[i])' /\ backlog'[i] # held'
    BY <1>1, <1>2, <1>4, <1>5, <1>6, <1>7 DEF ServerInv, Placement, Unserved
  <2>3. \A i, j \in 1 .. n + 1 : backlog'[i] = backlog'[j] => i = j
    <3>1. \A i, j \in 1 .. n : backlog'[i] = backlog'[j] => i = j
      BY <1>1 DEF ServerInv, Placement
    <3> QED
      BY <1>1, <1>4, <1>5, <3>1
  <2>4. \A d \in Connections : client'[d] = "away" => worker'[d] = "none"
    BY <1>2, <1>4 DEF ServerInv, ServerTypes, Placement
  <2> QED
    BY <1>1, <1>2, <2>1, <2>2, <2>3, <2>4 DEF ServerInv, Placement
<1> QED
  BY <1>2, <1>3, <1>8
     DEF ServerInv, SessionsPlaced, WorkersListed, StreamsOwned, JoinedAll, Resting, Running

LEMMA AcceptKeepsInv ==
    ASSUME ServerInv, Accept
    PROVE  ServerInv'
<1> USE DEF workerVars, clientVars
<1> DEFINE n == Len(backlog)
<1>0. backlog \in Seq(Connections) /\ n \in Nat /\ backlog # << >>
  BY LenProperties DEF ServerInv, ServerTypes, Accept
<1>1. /\ backlog' \in Seq(Connections) /\ Len(backlog') = n - 1 /\ n >= 1
      /\ \A i \in 1 .. n - 1 : backlog'[i] = backlog[i + 1]
      /\ held' = backlog[1] /\ held' \in Connections
  BY <1>0, HeadTailProperties DEF Accept
<1>2. /\ pc["runner"] = "accept" /\ pc' = [pc EXCEPT !["runner"] = "got"]
      /\ UNCHANGED <<alive, workers, worker, stream, sessions, farewell, client>>
  BY DEF Accept, At
<1>3. ServerTypes'
  BY <1>1, <1>2 DEF ServerInv, ServerTypes, RunSteps, Threads
<1>4. held = None /\ Unserved(held)' /\ held' # None
  BY <1>1, <1>2, ServerAssumption DEF ServerInv, Placement, Unserved
<1>5. \A i \in 1 .. n - 1 : i + 1 \in 1 .. n /\ 1 \in 1 .. n /\ i + 1 # 1
  BY <1>0
<1>6. \A i \in 1 .. n - 1 : Unserved(backlog[i])' /\ backlog'[i] # held'
  <2>1. \A i \in 1 .. n : Unserved(backlog[i]) /\ (backlog[i] = backlog[1] => i = 1)
    <3>1. 1 \in 1 .. n
      BY <1>0, <1>1
    <3> QED
      BY <3>1 DEF ServerInv, Placement
  <2>2. \A i \in 1 .. n - 1 : Unserved(backlog[i + 1]) /\ backlog[i + 1] # backlog[1]
    BY <1>5, <2>1
  <2> QED
    BY <1>1, <1>2, <2>2 DEF Unserved
<1>7. \A i, j \in 1 .. n - 1 : backlog'[i] = backlog'[j] => i = j
  <2>1. \A i, j \in 1 .. n - 1 : i + 1 = j + 1 => i = j
    BY <1>0
  <2> QED
    BY <1>1, <1>5, <2>1 DEF ServerInv, Placement
<1>8. Placement'
  BY <1>1, <1>2, <1>4, <1>6, <1>7 DEF ServerInv, ServerTypes, Placement, Threads
<1>9. StreamsOwned'
  BY <1>2, <1>4, ServerAssumption DEF ServerInv, StreamsOwned, Running
<1>10. JoinedAll'
  BY <1>2 DEF ServerInv, ServerTypes, JoinedAll, Resting, Threads
<1> QED
  BY <1>2, <1>3, <1>8, <1>9, <1>10 DEF ServerInv, SessionsPlaced, WorkersListed, Running

(* accept() hands the connection out, or gives it up. *)
LEMMA AcceptedKeepsInv ==
    ASSUME ServerInv, Accepted
    PROVE  ServerInv'
<1> USE DEF clientVars
<1>0. UNCHANGED <<alive, workers, worker, sessions, farewell, client>> /\ pc["runner"] = "got"
  BY DEF Accepted, At
<1>1. held \in Connections
  BY <1>0 DEF ServerInv, ServerTypes, Placement
<1>2. CASE /\ pc' = [pc EXCEPT !["runner"] = "add"]
           /\ stream' = [stream EXCEPT ![held] = "open"]
           /\ UNCHANGED <<backlog, held>>
  <2>1. ServerTypes'
    BY <1>0, <1>2 DEF ServerInv, ServerTypes, RunSteps, Threads
  <2>2. Placement'
    BY <1>0, <1>2 DEF ServerInv, ServerTypes, Placement, Unserved, Threads
  <2>3. StreamsOwned'
    BY <1>0, <1>1, <1>2 DEF ServerInv, ServerTypes, StreamsOwned, Running
  <2>4. JoinedAll'
    BY <1>0, <1>2 DEF ServerInv, ServerTypes, JoinedAll, Resting, Threads
  <2> QED
    BY <1>0, <2>1, <2>2, <2>3, <2>4 DEF ServerInv, SessionsPlaced, WorkersListed, Running
<1>3. CASE /\ pc' = [pc EXCEPT !["runner"] = "flag"]
           /\ stream' = [c \in Connections |->
                            IF c = held \/ \E i \in DOMAIN backlog : backlog[i] = c
                               THEN "closed" ELSE stream[c]]
           /\ backlog' = << >> /\ held' = None
  <2>1. /\ stream' \in [Connections -> {"none", "open", "closed"}]
        /\ \A c \in Connections : stream'[c] = "open" => stream[c] = "open"
        /\ stream'[held] # "open"
    BY <1>1, <1>3 DEF ServerInv, ServerTypes
  <2>2. "runner" \in Threads /\ "flag" \in RunSteps \ ({"got", "add"} \cup Resting) /\ "runner" # "stopper"
    BY DEF Threads, RunSteps, Resting
  <2> QED
    BY <1>0, <1>3, <2>1, <2>2, MoveKeepsInv
<1> QED
  BY <1>2, <1>3 DEF Accepted, At

LEMMA AddWorkerKeepsInv ==
    ASSUME ServerInv, AddWorker
    PROVE  ServerInv'
<1> USE DEF clientVars
<1> DEFINE running == {c \in workers : worker[c] # "done"}
<1>0. /\ pc["runner"] = "add" /\ pc' = [pc EXCEPT !["runner"] = "loop"] /\ held' = None
      /\ UNCHANGED <<alive, backlog, sessions, farewell, client>>
  BY DEF AddWorker, At, Writes
<1>1. held \in Connections /\ Unserved(held)
  BY <1>0 DEF ServerInv, ServerTypes, Placement
<1>2. /\ IsFiniteSet(running) /\ Cardinality(running) \in Nat
      /\ Cardinality(running) <= Cardinality(workers) /\ Cardinality(workers) \in Nat
  BY FS_Subset, FS_CardinalityType DEF ServerInv, WorkersListed
<1>a. \A i \in 1 .. Len(backlog) : backlog[i] \in Connections /\ backlog[i] # held
  BY DEF ServerInv, ServerTypes, Placement
<1>b. JoinedAll'
  BY <1>0 DEF ServerInv, ServerTypes, JoinedAll, Resting, Threads
<1>c. held' # None <=> pc'["runner"] \in {"got", "add"}
  BY <1>0 DEF ServerInv, ServerTypes, Threads
<1>3. CASE /\ stream' = [stream EXCEPT ![held] = "closed"]
           /\ workers' = running /\ UNCHANGED worker
  <2>1. ServerTypes'
    BY <1>0, <1>3 DEF ServerInv, ServerTypes, RunSteps, Threads
  <2>2. Placement'
    BY <1>0, <1>3, <1>a, <1>c, ServerAssumption DEF ServerInv, Placement, Unserved
  <2>3. SessionsPlaced'
    BY <1>0, <1>3 DEF ServerInv, SessionsPlaced
  <2>4. WorkersListed'
    <3>1. Cardinality(running) <= MaxConnections
      BY <1>2, ServerAssumption DEF ServerInv, WorkersListed
    <3>2. \A c \in Connections : worker[c] \notin {"none", "done"} => c \in running
      BY DEF ServerInv, WorkersListed, Running
    <3> HIDE DEF running
    <3> QED
      BY <1>2, <1>3, <3>1, <3>2 DEF WorkersListed, Running
  <2>5. StreamsOwned'
    BY <1>0, <1>1, <1>3 DEF ServerInv, ServerTypes, StreamsOwned, Running
  <2> QED
    BY <2>1, <2>2, <2>3, <2>4, <2>5, <1>b DEF ServerInv
<1>4. CASE /\ ~Full /\ workers' = running \cup {held}
           /\ worker' = [worker EXCEPT ![held] = "hello"] /\ UNCHANGED stream
  <2>1. ServerTypes'
    BY <1>0, <1>1, <1>4 DEF ServerInv, ServerTypes, RunSteps, WorkerSteps, Threads
  <2>2. Placement'
    BY <1>0, <1>1, <1>4, <1>a, <1>c, ServerAssumption DEF ServerInv, ServerTypes, Placement, Unserved
  <2>3. SessionsPlaced'
    BY <1>0, <1>1, <1>4 DEF ServerInv, ServerTypes, SessionsPlaced, Unserved
  <2>4. WorkersListed'
    <3>1. Cardinality(running) < MaxConnections
      BY <1>2, <1>4, ServerAssumption DEF Full, Unfinished
    <3>2. \A c \in Connections : worker[c] \notin {"none", "done"} => c \in running
      BY DEF ServerInv, WorkersListed, Running
    <3> HIDE DEF running
    <3>3. /\ IsFiniteSet(running \cup {held})
          /\ \/ Cardinality(running \cup {held}) = Cardinality(running)
             \/ Cardinality(running \cup {held}) = Cardinality(running) + 1
      BY <1>2, FS_AddElement
    <3>4. Cardinality(running \cup {held}) <= MaxConnections
      BY <1>2, <3>1, <3>3, ServerAssumption
    <3>5. \A c \in Connections : worker'[c] \notin {"none", "done"} => c \in running \cup {held}
      BY <1>4, <3>2 DEF ServerInv, ServerTypes
    <3> QED
      BY <1>4, <3>3, <3>4, <3>5 DEF WorkersListed, Running
  <2>5. StreamsOwned'
    BY <1>0, <1>1, <1>4 DEF ServerInv, ServerTypes, StreamsOwned, Running
  <2> QED
    BY <2>1, <2>2, <2>3, <2>4, <2>5, <1>b DEF ServerInv
<1> QED
  BY <1>3, <1>4 DEF AddWorker, Unfinished

-----------------------------------------------------------------------------
(* Every step *)

(* run() and stop() *)
LEMMA ThreadKeepsInv ==
    ASSUME ServerInv, Main \/ Stopper \/ AcceptFails \/ StopRequested
    PROVE  ServerInv'
<1> USE DEF workerVars, clientVars
<1>a. "runner" \in Threads /\ "stopper" \in Threads /\ "runner" # "stopper"
  BY DEF Threads
<1>b. \A c \in Connections : stream[c] = "open" => stream[c] = "open"
  OBVIOUS
<1>c. stream \in [Connections -> {"none", "open", "closed"}]
  BY DEF ServerInv, ServerTypes
<1> DEFINE Quiet == UNCHANGED <<alive, backlog, held, workers, worker, stream, sessions, farewell, client>>
           Steps(t, from, to) == pc[t] = from /\ pc' = [pc EXCEPT ![t] = to]
<1>1. ASSUME Quiet, NEW t \in Threads, NEW from \in RunSteps \ {"got", "add"},
             NEW to \in RunSteps \ {"got", "add"},
             to \in Resting => pc["runner"] \in Resting, Steps(t, from, to)
      PROVE  ServerInv'
  <2>1. pc[t] \notin {"got", "add"} /\ pc' = [pc EXCEPT ![t] = to]
    BY <1>1
  <2>2. stream' = stream /\ held' = held /\ backlog' = backlog
    BY <1>1
  <2>3. UNCHANGED <<alive, workers, worker, sessions, farewell, client>>
    BY <1>1
  <2> QED
    BY <1>1, <1>c, <2>1, <2>2, <2>3, MoveKeepsInv
<1>2. CASE Start
  <2>1. CASE Quiet /\ Steps("runner", "start", "enter")
    BY <1>1, <1>a, <2>1 DEF RunSteps, Resting
  <2> QED
    BY <1>2, <2>1, EndKeepsInv DEF Start, At
<1>3. CASE Enter \/ Loop \/ AcceptFails
  <2>1. /\ Quiet
        /\ \/ Steps("runner", "enter", "loop") \/ Steps("runner", "enter", "done")
           \/ Steps("runner", "loop", "flag") \/ Steps("runner", "loop", "accept")
           \/ Steps("runner", "accept", "flag")
    BY <1>3 DEF Enter, Loop, AcceptFails, At
  <2> QED
    BY <1>1, <1>a, <2>1 DEF RunSteps, Resting
<1>4. CASE StopRequested
  <2>1. Quiet /\ Steps("stopper", "idle", "flag")
    BY <1>4 DEF StopRequested, At
  <2> QED
    BY <1>1, <1>a, <2>1 DEF RunSteps, Resting
<1>5. ASSUME NEW t \in Threads, SetStopping(t) \/ CloseListener(t) \/ CollectStreams(t) \/ LockWorkers(t)
      PROVE  ServerInv'
  <2>1. /\ Quiet
        /\ \/ Steps(t, "flag", "listener") \/ Steps(t, "listener", "collect")
           \/ Steps(t, "collect", "close") \/ Steps(t, "lock", "join")
    BY <1>5 DEF SetStopping, CloseListener, CollectStreams, LockWorkers, At
  <2> QED
    BY <1>1, <2>1 DEF RunSteps, Resting
<1>6. ASSUME NEW t \in Threads, CloseStreams(t)
      PROVE  ServerInv'
  <2>1. /\ pc[t] \notin {"got", "add"} /\ pc' = [pc EXCEPT ![t] = "lock"]
        /\ "lock" \in RunSteps \ ({"got", "add"} \cup Resting)
        /\ backlog' = backlog /\ held' = held
        /\ UNCHANGED <<alive, workers, worker, sessions, farewell, client>>
    BY <1>6 DEF CloseStreams, At, RunSteps, Resting
  <2>2. stream' = [c \in Connections |-> IF c \in snapshot[t] THEN "closed" ELSE stream[c]]
    BY <1>6 DEF CloseStreams
  <2>3. /\ stream' \in [Connections -> {"none", "open", "closed"}]
        /\ \A c \in Connections : stream'[c] = "open" => stream[c] = "open"
    BY <1>c, <2>2
  <2> QED
    BY <2>1, <2>3, MoveKeepsInv
<1>7. CASE AcceptWoken
  <2>1. /\ pc["runner"] \notin {"got", "add"} /\ pc' = [pc EXCEPT !["runner"] = "flag"]
        /\ "flag" \in RunSteps \ ({"got", "add"} \cup Resting)
        /\ backlog' = << >> /\ held' = held
        /\ UNCHANGED <<alive, workers, worker, sessions, farewell, client>>
    BY <1>7 DEF AcceptWoken, At, RunSteps, Resting
  <2>2. stream' = [c \in Connections |->
                      IF \E i \in DOMAIN backlog : backlog[i] = c THEN "closed" ELSE stream[c]]
    BY <1>7 DEF AcceptWoken
  <2>3. /\ stream' \in [Connections -> {"none", "open", "closed"}]
        /\ \A c \in Connections : stream'[c] = "open" => stream[c] = "open"
    BY <1>c, <2>2
  <2> QED
    BY <1>a, <2>1, <2>3, MoveKeepsInv
<1>8. ASSUME NEW t \in Threads, Joined(t)
      PROVE  ServerInv'
  <2>1. /\ pc[t] = "join" /\ pc' = [pc EXCEPT ![t] = "done"] /\ workers' = {}
        /\ \A c \in workers : worker[c] = "done"
        /\ UNCHANGED <<alive, backlog, held, worker, stream, sessions, farewell, client>>
    BY <1>8 DEF Joined, At
  <2>2. ServerTypes'
    BY <2>1 DEF ServerInv, ServerTypes, RunSteps, Threads
  <2>3. Placement'
    BY <2>1 DEF ServerInv, ServerTypes, Placement, Unserved, Threads
  <2>4. WorkersListed'
    <3>1. IsFiniteSet({}) /\ Cardinality({}) = 0 /\ 0 <= MaxConnections
      BY FS_EmptySet, ServerAssumption
    <3>2. \A c \in Connections : worker[c] \in {"none", "done"}
      BY <2>1 DEF ServerInv, WorkersListed, Running
    <3> QED
      BY <2>1, <3>1, <3>2 DEF WorkersListed, Running
  <2> QED
    BY <2>1, <2>2, <2>3, <2>4 DEF ServerInv, SessionsPlaced, StreamsOwned, JoinedAll, Resting, Running
<1>9. CASE Exit
  BY <1>9, EndKeepsInv DEF Exit
<1>10. ASSUME NEW t \in Threads, Stop(t)
       PROVE  ServerInv'
  BY <1>5, <1>6, <1>8, <1>10 DEF Stop
<1> QED
  BY <1>2, <1>3, <1>4, <1>7, <1>9, <1>10, <1>a, AcceptKeepsInv, AcceptedKeepsInv, AddWorkerKeepsInv
     DEF Main, Stopper

(* serve() *)
LEMMA ServeKeepsInv ==
    ASSUME ServerInv, NEW c \in Connections, Serve(c)
    PROVE  ServerInv'
<1> USE DEF runVars, clientVars
<1>a. c \in sessions =>
         \/ worker[c] \in {"welcome", "check", "read", "reply", "error", "leave"}
         \/ c \in farewell /\ worker[c] \in {"close", "done"}
  BY DEF ServerInv, SessionsPlaced
<1> DEFINE Goes(to) ==
       /\ worker[c] \notin {"none", "done"} /\ worker' = [worker EXCEPT ![c] = to]
       /\ UNCHANGED <<alive, pc, backlog, held, workers, client>>
<1>b. ASSUME NEW to \in WorkerSteps \ {"none", "done"}, Goes(to), UNCHANGED <<stream, sessions>>,
             farewell \subseteq farewell',
             c \in sessions => \/ to \in {"welcome", "check", "read", "reply", "error", "leave"}
                               \/ c \in farewell' /\ to = "close"
      PROVE  ServerInv'
  <2>1. /\ worker[c] \notin {"none", "done"} /\ worker' = [worker EXCEPT ![c] = to]
        /\ UNCHANGED <<alive, pc, backlog, held, workers, client>>
    BY <1>b
  <2>2. stream' = IF to = "done" THEN [stream EXCEPT ![c] = "closed"] ELSE stream
    BY <1>b
  <2>3. sessions' \subseteq sessions \cup {c}
    BY <1>b
  <2>4. c \in sessions' => \/ to \in {"welcome", "check", "read", "reply", "error", "leave"}
                           \/ c \in farewell' /\ to \in {"close", "done"}
    BY <1>b
  <2> QED
    BY <1>b, <2>1, <2>2, <2>3, <2>4, WorkerKeepsInv
<1>1. CASE ReadHello(c)
  <2>1. /\ worker[c] = "hello"
        /\ Goes("close") \/ Goes("register") \/ Goes("error")
        /\ UNCHANGED <<stream, sessions, farewell>>
    BY <1>1 DEF ReadHello, Moves, Reads
  <2>2. c \notin sessions
    BY <1>1, <1>a DEF ReadHello, Moves
  <2> QED
    BY <1>b, <2>1, <2>2 DEF WorkerSteps
<1>2. CASE Register(c)
  <2>1. c \notin sessions
    BY <1>2, <1>a DEF Register, Moves
  <2>2. CASE Goes("refuse") /\ UNCHANGED sessions
    BY <1>2, <1>b, <2>1, <2>2 DEF WorkerSteps, Register
  <2>3. CASE Goes("welcome") /\ sessions' = sessions \cup {c}
    <3>1. /\ "welcome" \in WorkerSteps \ {"none"}
          /\ stream' = IF "welcome" = "done" THEN [stream EXCEPT ![c] = "closed"] ELSE stream
          /\ sessions' \subseteq sessions \cup {c} /\ farewell \subseteq farewell'
      BY <1>2, <2>3 DEF Register, WorkerSteps
    <3>2. /\ worker[c] \notin {"none", "done"} /\ worker' = [worker EXCEPT ![c] = "welcome"]
          /\ UNCHANGED <<alive, pc, backlog, held, workers, client>>
      BY <2>3
    <3> QED
      BY <3>1, <3>2, WorkerKeepsInv
  <2> QED
    BY <1>2, <2>2, <2>3 DEF Register, Moves
<1>3. CASE Refuse(c)
  <2>1. UNCHANGED <<stream, sessions, farewell>>
    BY <1>3 DEF Refuse
  <2>2. CASE worker[c] = "refuse" /\ Goes("close")
    BY <1>a, <1>b, <2>1, <2>2 DEF WorkerSteps
  <2>3. CASE worker[c] = "error" /\ Goes("leave")
    BY <1>b, <2>1, <2>3 DEF WorkerSteps
  <2> QED
    BY <1>3, <2>2, <2>3 DEF Refuse, Moves, Writes
<1>4. CASE Welcome(c) \/ CheckStopping(c) \/ Reply(c)
  <2>1. /\ Goes("check") \/ Goes("leave") \/ Goes("read")
        /\ UNCHANGED <<stream, sessions, farewell>>
    BY <1>4 DEF Welcome, CheckStopping, Reply, Moves, Writes
  <2> QED
    BY <1>b, <2>1 DEF WorkerSteps
<1>5. CASE ReadRequest(c)
  <2>1. UNCHANGED <<stream, sessions>> /\ farewell \subseteq farewell'
    BY <1>5 DEF ReadRequest
  <2>2. \/ Goes("leave") \/ Goes("error") \/ Goes("reply")
        \/ Goes("close") /\ c \in farewell'
    BY <1>5 DEF ReadRequest, Moves, Reads
  <2> QED
    BY <1>b, <2>1, <2>2 DEF WorkerSteps
<1>6. CASE Finish(c)
  <2>1. /\ Goes("done") /\ stream' = [stream EXCEPT ![c] = "closed"]
        /\ farewell' = farewell /\ sessions' \subseteq sessions
        /\ worker[c] = "close" \/ c \notin sessions'
    BY <1>6 DEF Finish, Moves
  <2>2. c \in sessions' => c \in farewell'
    BY <1>a, <2>1
  <2>3. /\ worker[c] \notin {"none", "done"} /\ worker' = [worker EXCEPT ![c] = "done"]
        /\ UNCHANGED <<alive, pc, backlog, held, workers, client>>
        /\ stream' = IF "done" = "done" THEN [stream EXCEPT ![c] = "closed"] ELSE stream
        /\ sessions' \subseteq sessions \cup {c} /\ farewell \subseteq farewell'
        /\ "done" \in WorkerSteps \ {"none"}
    BY <2>1 DEF WorkerSteps
  <2> QED
    BY <2>2, <2>3, WorkerKeepsInv
<1> QED
  BY <1>1, <1>2, <1>3, <1>4, <1>5, <1>6 DEF Serve

LEMMA NextServerInv == ServerInv /\ [ServerNext]_serverVars => ServerInv'
<1> SUFFICES ASSUME ServerInv, [ServerNext]_serverVars PROVE ServerInv'
  OBVIOUS
<1>1. CASE Main \/ Stopper \/ AcceptFails \/ StopRequested
  BY <1>1, ThreadKeepsInv
<1>2. ASSUME NEW c \in Connections, Serve(c) \/ WriteKills(c)
      PROVE  ServerInv'
  BY <1>2, ServeKeepsInv, EndKeepsInv DEF WriteKills
<1>3. ASSUME NEW c \in Connections, Request(c) \/ SayBye(c) \/ Vanish(c)
      PROVE  ServerInv'
  <2>1. /\ client[c] = "present" /\ UNCHANGED <<runVars, workerVars>>
        /\ \/ client' = [client EXCEPT ![c] = "gone"]
           \/ client' = [client EXCEPT ![c] = "present"]
    BY <1>3 DEF Request, SayBye, Vanish, Connected, ServerInv, ServerTypes
  <2> QED
    BY <2>1, ClientKeepsInv
<1>4. CASE UNCHANGED serverVars
  BY <1>4 DEF serverVars, runVars, workerVars, clientVars, ServerInv, ServerTypes, Placement,
              Unserved, SessionsPlaced, WorkersListed, StreamsOwned, JoinedAll, Resting, Running
<1> QED
  BY <1>1, <1>2, <1>3, <1>4, ConnectKeepsInv DEF ServerNext

LEMMA ServerInvariant == ServerSpec => []ServerInv
BY InitServerInv, NextServerInv, PTL DEF ServerSpec

(* For any number of connections and any bound on them: no more than
   max_connections workers run, whatever accepts, ends and is joined when. *)
THEOREM ServerWorkersBounded == ServerSpec => []WorkersBounded
<1>1. ServerInv => WorkersBounded
  BY DEF ServerInv, WorkersListed, WorkersBounded
<1> QED
  BY <1>1, ServerInvariant, PTL

(* For any number of connections: every way out of serve() retires the session,
   except behind a Bye. *)
THEOREM ServerSessionsServed == ServerSpec => []SessionsServed
<1>1. ServerInv => SessionsServed
  BY DEF ServerInv, SessionsPlaced, SessionsServed
<1> QED
  BY <1>1, ServerInvariant, PTL

(* For any number of connections: when run() has returned no worker runs and no
   stream is open, whichever of its threads has called stop(). *)
THEOREM ServerRunLeavesNothing == ServerSpec => []RunLeavesNothing
<1>1. ServerInv => RunLeavesNothing
  <2>1. SUFFICES ASSUME ServerInv, pc["runner"] = "done", alive
                 PROVE  /\ \A c \in Connections : ~Running(c) /\ stream[c] # "open"
                        /\ workers = {}
    BY DEF RunLeavesNothing
  <2>2. workers = {} /\ held = None
    BY <2>1 DEF ServerInv, JoinedAll, Resting, Placement
  <2>3. \A c \in Connections : ~Running(c)
    BY <2>1, <2>2 DEF ServerInv, WorkersListed
  <2> QED
    BY <2>1, <2>2, <2>3, ServerAssumption DEF ServerInv, StreamsOwned
<1> QED
  BY <1>1, ServerInvariant, PTL
=============================================================================
