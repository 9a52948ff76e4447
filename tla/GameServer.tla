------------------------------ MODULE GameServer ------------------------------
(***************************************************************************)
(* The process around the workers: main (src/main.cpp), GameServer's       *)
(* start, stop, wait_for_shutdown and destructor, and the worker threads'  *)
(* Worker::init and Worker::run (src/server/server.cpp).                   *)
(*                                                                         *)
(* What a worker does once it is in its event loop is module Worker; here  *)
(* it is in the loop with an accept coroutine ("accepting") or without     *)
(* ("idle": init gave up, run() entered the loop all the same).            *)
(***************************************************************************)
EXTENDS Integers

CONSTANTS
  WorkerCount,    \* GameServer(worker_count)
  MaxAddresses    \* bound: the addresses getaddrinfo finds for a host

ASSUME GameServerAssumption ==
  WorkerCount \in Nat \ {0} /\ MaxAddresses \in Nat

VARIABLES
  caller,     \* where the thread that owns the GameServer is
  running,    \* running_
  shutdown,   \* shutdown_requested
  worker,     \* where each worker thread is; "none" before it is created
  made,       \* what Worker::init has set up in each thread
  addresses,  \* those bind has not tried yet in each thread
  sockets     \* open sockets of each thread that no client is behind

vars == <<caller, running, shutdown, worker, made, addresses, sockets>>

Workers == 1 .. WorkerCount

(* Worker::init sets up the ring and the buffers, binds a socket to the     *)
(* first address it can, listens, and then spawns accept_clients.           *)
AfterStage == [ring |-> "buffers", buffers |-> "resolve"]
Stages == {"ring", "buffers", "resolve", "open", "bind", "listen"}
Everything == {"ring", "buffers", "listener"}

Moves(w, from, to) == worker[w] = from /\ worker' = [worker EXCEPT ![w] = to]

-----------------------------------------------------------------------------
(* Variants of definitions below, as a slip in the code would make them.    *)

WarnsOnly(w) == Moves(w, worker[w], IF worker[w] \in DOMAIN AfterStage
                                    THEN AfterStage[worker[w]] ELSE "spawn")
StartsOver(w) == Moves(w, worker[w], "ring")
AlwaysOver(w) == TRUE
LeavesOpen(w) == UNCHANGED sockets

-----------------------------------------------------------------------------
(* A worker thread.                                                         *)

(* `return` from init after a failed stage. worker_thread_func calls run()  *)
(* whatever became of init.                                                 *)
GivesUp(w) == Moves(w, worker[w], "idle")

(* queueInit or registerBufRing succeeds.                                   *)
StageDone(w) ==
  /\ worker[w] \in DOMAIN AfterStage
  /\ made' = [made EXCEPT ![w] = @ \cup {worker[w]}]
  /\ Moves(w, worker[w], AfterStage[worker[w]])
  /\ UNCHANGED <<caller, running, shutdown, addresses, sockets>>

(* One of them fails, or getaddrinfo does.                                  *)
StageFails(w) ==
  /\ worker[w] \in DOMAIN AfterStage \cup {"resolve"}
  /\ GivesUp(w)
  /\ UNCHANGED <<caller, running, shutdown, made, addresses, sockets>>

Resolves(w) ==
  /\ Moves(w, "resolve", "open")
  /\ \E n \in 0 .. MaxAddresses : addresses' = [addresses EXCEPT ![w] = n]
  /\ UNCHANGED <<caller, running, shutdown, made, sockets>>

OpensSocket(w) ==
  /\ addresses[w] > 0
  /\ Moves(w, "open", "bind")
  /\ sockets' = [sockets EXCEPT ![w] = @ + 1]
  /\ UNCHANGED <<caller, running, shutdown, made, addresses>>

NextAddress(w) == addresses' = [addresses EXCEPT ![w] = @ - 1]

(* close, by hand in bind or by ~file of the socket_server that bind made.  *)
Closes(w) == sockets' = [sockets EXCEPT ![w] = @ - 1]

SocketFails(w) ==
  /\ addresses[w] > 0
  /\ Moves(w, "open", "open")
  /\ NextAddress(w)
  /\ UNCHANGED <<caller, running, shutdown, made, sockets>>

(* Both options are set and the address can be had: SO_REUSEPORT lets all   *)
(* workers have it.                                                         *)
Binds(w) ==
  /\ Moves(w, "bind", "listen")
  /\ UNCHANGED <<caller, running, shutdown, made, addresses, sockets>>

BindFails(w) ==
  /\ Moves(w, "bind", "open")
  /\ Closes(w)
  /\ NextAddress(w)
  /\ UNCHANGED <<caller, running, shutdown, made>>

OutOfAddresses(w) ==
  /\ worker[w] = "open"
  /\ addresses[w] = 0
  /\ GivesUp(w)
  /\ UNCHANGED <<caller, running, shutdown, made, addresses, sockets>>

Listens(w) ==
  /\ Moves(w, "listen", "spawn")
  /\ made' = [made EXCEPT ![w] = @ \cup {"listener"}]
  /\ UNCHANGED <<caller, running, shutdown, addresses, sockets>>

ListenFails(w) ==
  /\ worker[w] = "listen"
  /\ GivesUp(w)
  /\ Closes(w)
  /\ UNCHANGED <<caller, running, shutdown, made, addresses>>

(* accept_clients runs up to its first co_await; then run() enters the loop.*)
SpawnsAccept(w) ==
  /\ Moves(w, "spawn", "accepting")
  /\ UNCHANGED <<caller, running, shutdown, made, addresses, sockets>>

(* eventLoop submits to a ring that queueInit never set up: its pointers    *)
(* are null and the whole process faults.                                   *)
LoopFaults(w) ==
  /\ worker[w] = "idle"
  /\ "ring" \notin made[w]
  /\ caller' = "killed"
  /\ worker' = [v \in Workers |-> "killed"]
  /\ UNCHANGED <<running, shutdown, made, addresses, sockets>>

WorkerStep(w) ==
  \/ StageDone(w) \/ StageFails(w)
  \/ Resolves(w) \/ OpensSocket(w) \/ SocketFails(w) \/ Binds(w) \/ BindFails(w)
  \/ OutOfAddresses(w) \/ Listens(w) \/ ListenFails(w)
  \/ SpawnsAccept(w) \/ LoopFaults(w)

-----------------------------------------------------------------------------
(* The thread that owns the GameServer.                                     *)

Start ==
  /\ caller = "begin"
  /\ ~running
  /\ running' = TRUE
  /\ caller' = "starting"
  /\ UNCHANGED <<shutdown, worker, made, addresses, sockets>>

(* worker_threads_.emplace_back; start returns true after the last.         *)
CreateThread(w) ==
  /\ caller = "starting"
  /\ worker[w] = "none"
  /\ \A v \in 1 .. w - 1 : worker[v] # "none"
  /\ worker' = [worker EXCEPT ![w] = "ring"]
  /\ caller' = IF w = WorkerCount THEN "serving" ELSE caller
  /\ UNCHANGED <<running, shutdown, made, addresses, sockets>>

(* The thread cannot be created: the exception leaves start, and on its way *)
(* to main's handler ~GameServer calls stop.                                *)
CreateFails ==
  /\ caller = "starting"
  /\ caller' = "stopping"
  /\ UNCHANGED <<running, shutdown, worker, made, addresses, sockets>>

(* SIGINT or SIGTERM.                                                       *)
Signal ==
  /\ ~shutdown
  /\ caller # "killed"
  /\ shutdown' = TRUE
  /\ UNCHANGED <<caller, running, worker, made, addresses, sockets>>

(* main polls the flag while it sleeps, and then calls stop.                *)
SeesShutdown ==
  /\ caller = "serving"
  /\ shutdown
  /\ caller' = "stopping"
  /\ UNCHANGED <<running, shutdown, worker, made, addresses, sockets>>

(* The README's program calls wait_for_shutdown instead, which joins every  *)
(* thread and does not touch running_.                                      *)
WaitsForShutdown ==
  /\ caller = "serving"
  /\ caller' = "waiting"
  /\ UNCHANGED <<running, shutdown, worker, made, addresses, sockets>>

(* stop returns at once when the server is not running.                     *)
Stop ==
  /\ caller = "stopping"
  /\ running' = FALSE
  /\ caller' = IF running THEN "joining" ELSE "exited"
  /\ UNCHANGED <<shutdown, worker, made, addresses, sockets>>

(* thread.join() returns when worker_thread_func has; eventLoop's loop has  *)
(* no exit, so only a thread that was never created needs no waiting for.   *)
Over(w) == worker[w] = "none"

(* The last join has returned; main goes on, and destroys the GameServer.   *)
AllJoined ==
  /\ caller \in {"joining", "waiting"}
  /\ \A w \in Workers : Over(w)
  /\ caller' = "exited"
  /\ UNCHANGED <<running, shutdown, worker, made, addresses, sockets>>

CallerStep ==
  \/ Start \/ \E w \in Workers : CreateThread(w)
  \/ SeesShutdown \/ Stop \/ AllJoined

-----------------------------------------------------------------------------
Init ==
  /\ caller = "begin"
  /\ running = FALSE
  /\ shutdown = FALSE
  /\ worker = [w \in Workers |-> "none"]
  /\ made = [w \in Workers |-> {}]
  /\ addresses = [w \in Workers |-> 0]
  /\ sockets = [w \in Workers |-> 0]

Next ==
  \/ CallerStep \/ CreateFails \/ WaitsForShutdown \/ Signal
  \/ \E w \in Workers : WorkerStep(w)

Spec == Init /\ [][Next]_vars

(* The operating system runs every thread that can run. Nobody has to send  *)
(* a signal, and nothing has to fail.                                       *)
Fairness ==
  /\ WF_vars(CallerStep)
  /\ \A w \in Workers : WF_vars(WorkerStep(w))

FairSpec == Spec /\ Fairness

-----------------------------------------------------------------------------
(* The threads' places, and the order in which init sets things up: never   *)
(* buffers without a ring to register them with, nor a listening socket     *)
(* without buffers.                                                         *)
TypeOK ==
  /\ caller \in {"begin", "starting", "serving", "waiting",
                 "stopping", "joining", "exited", "killed"}
  /\ {running, shutdown} \subseteq BOOLEAN
  /\ worker \in [Workers -> Stages \cup
                          {"none", "spawn", "accepting", "idle", "killed"}]
  /\ made \in [Workers -> {{}, {"ring"}, {"ring", "buffers"}, Everything}]
  /\ addresses \in [Workers -> 0 .. MaxAddresses]
  /\ sockets \in [Workers -> Nat]

(* A worker accepts clients only with all it needs to serve them: the early *)
(* returns of Worker::init leave none half set up with an accept coroutine. *)
AcceptsWithEverything ==
  \A w \in Workers : worker[w] \in {"spawn", "accepting"} => made[w] = Everything

(* A worker keeps one socket if it gets as far as to accept on it, and none *)
(* if it gives up: whichever addresses bind could not have and whether or   *)
(* not listen succeeds, every socket it opened on the way is closed again.  *)
HasSocket == {"bind", "listen", "spawn", "accepting"}
SocketOnlyToAccept ==
  \A w \in Workers :
    worker[w] # "killed" => sockets[w] = IF worker[w] \in HasSocket THEN 1 ELSE 0

(* Once start has returned true, or has thrown with a thread already        *)
(* created, nobody gets past the joins: not main after a signal, not the    *)
(* destructor on the way to main's handler, not wait_for_shutdown.          *)
Created == \E w \in Workers : worker[w] # "none"
NeverEnds == [](Created \/ caller = "serving" => [](caller # "exited"))

(* Every worker thread gets to its event loop, with or without an accept    *)
(* coroutine, unless the process faults.                                    *)
WorkersSettle ==
  \A w \in Workers :
    worker[w] # "none" ~> worker[w] \in {"accepting", "idle", "killed"}

-----------------------------------------------------------------------------
(* What the repository says of itself and the code does not do.             *)

(* "Press Ctrl+C to stop": after the signal main ends.                      *)
StopsOnSignal ==
  caller = "serving" /\ shutdown ~> caller \in {"exited", "waiting", "killed"}
=============================================================================
