-------------------------- MODULE GameServerProofs --------------------------
(***************************************************************************)
(* Proofs about module GameServer, for any number of workers: what init    *)
(* has set up when a worker accepts, which sockets stay open, that the     *)
(* GameServer outlives its threads, and so that it is never gone once it   *)
(* has served.                                                             *)
(*                                                                         *)
(* The properties need each other's help: what a worker has made follows   *)
(* from where it is (MadeSoFar), and stop joins the threads because the    *)
(* server runs whenever it is reached (RunsWhile).                         *)
(***************************************************************************)
EXTENDS GameServer, TLAPS

USE GameServerAssumption

MadeSoFar ==
  \A w \in Workers :
    /\ worker[w] \in {"none", "ring"} => made[w] = {}
    /\ worker[w] = "buffers" => made[w] = {"ring"}
    /\ worker[w] \in {"resolve", "open", "bind", "listen"} => made[w] = {"ring", "buffers"}
    /\ worker[w] \in {"spawn", "accepting"} => made[w] = Everything

RunsWhile == caller \in {"starting", "serving", "waiting", "stopping"} => running

NoneYet == caller = "begin" => \A w \in Workers : worker[w] = "none"

(* A socket is bound to an address that is not given up yet.                *)
HasAddress == \A w \in Workers : worker[w] = "bind" => addresses[w] > 0

(* Nobody gets past the joins before the threads are over.                  *)
JoinedBeforeExit == caller = "exited" => \A w \in Workers : worker[w] = "none"

Inv == TypeOK /\ MadeSoFar /\ HasAddress /\ SocketOnlyToAccept /\ RunsWhile /\ NoneYet /\ JoinedBeforeExit

-----------------------------------------------------------------------------
(* The stages before a socket, looked up.                                   *)
LEMMA AfterStageValues ==
  /\ DOMAIN AfterStage = {"ring", "buffers"}
  /\ AfterStage["ring"] = "buffers"
  /\ AfterStage["buffers"] = "resolve"
  BY DEF AfterStage

LEMMA InitInv == Init => Inv
<1> SUFFICES ASSUME Init PROVE Inv
  OBVIOUS
<1>1. TypeOK
  <2>1. {running, shutdown} \subseteq BOOLEAN
    BY DEF Init
  <2>2. addresses \in [Workers -> 0 .. MaxAddresses] /\ sockets \in [Workers -> Nat]
    BY DEF Init
  <2> QED BY <2>1, <2>2 DEF Init, TypeOK, Stages
<1>2. MadeSoFar /\ HasAddress /\ SocketOnlyToAccept
  BY DEF Init, MadeSoFar, HasAddress, SocketOnlyToAccept, HasSocket
<1>3. RunsWhile /\ NoneYet /\ JoinedBeforeExit
  BY DEF Init, RunsWhile, NoneYet, JoinedBeforeExit
<1> QED BY <1>1, <1>2, <1>3 DEF Inv

(* What a worker's move does to the conditions on its place, given what it  *)
(* has made and which socket it has afterwards.                             *)
Places == Stages \cup {"none", "spawn", "accepting", "idle", "killed"}

LEMMA MoveKeeps ==
  ASSUME Inv, NEW w \in Workers, NEW from, NEW to \in Places \ {"none"}, from # "none",
         Moves(w, from, to), UNCHANGED <<caller, running, shutdown>>,
         made' \in [Workers -> {{}, {"ring"}, {"ring", "buffers"}, Everything}],
         addresses' \in [Workers -> 0 .. MaxAddresses],
         sockets' \in [Workers -> Nat],
         \A v \in Workers \ {w} : /\ made'[v] = made[v] /\ sockets'[v] = sockets[v]
                                 /\ addresses'[v] = addresses[v],
         to = "bind" => addresses'[w] > 0,
         to = "ring" => made'[w] = {},
         to = "buffers" => made'[w] = {"ring"},
         to \in {"resolve", "open", "bind", "listen"} => made'[w] = {"ring", "buffers"},
         to \in {"spawn", "accepting"} => made'[w] = Everything,
         to # "killed" => sockets'[w] = IF to \in HasSocket THEN 1 ELSE 0
  PROVE  Inv'
<1>1. worker \in [Workers -> Places] /\ worker' = [worker EXCEPT ![w] = to] /\ worker[w] = from
  BY DEF Inv, TypeOK, Moves, Places
<1>2. TypeOK'
  BY <1>1 DEF Inv, TypeOK, Places
<1>3. worker'[w] = to /\ \A v \in Workers \ {w} : worker'[v] = worker[v]
  BY <1>1
<1>4. MadeSoFar' /\ HasAddress'
  BY <1>3 DEF Inv, MadeSoFar, HasAddress
<1>5. SocketOnlyToAccept'
  BY <1>3 DEF Inv, SocketOnlyToAccept
<1>6. (RunsWhile /\ NoneYet /\ JoinedBeforeExit)'
  BY <1>1, <1>3 DEF Inv, RunsWhile, NoneYet, JoinedBeforeExit
<1> QED BY <1>2, <1>4, <1>5, <1>6 DEF Inv

(* A worker's steps.                                                        *)
LEMMA WorkerPreserves ==
  ASSUME Inv, NEW w \in Workers, WorkerStep(w) PROVE Inv'
<1>0. /\ TypeOK
      /\ worker[w] \in Places /\ made[w] \in {{}, {"ring"}, {"ring", "buffers"}, Everything}
      /\ addresses[w] \in 0 .. MaxAddresses /\ sockets[w] \in Nat
  BY DEF Inv, TypeOK, Places
<1>1. /\ worker[w] = "ring" => made[w] = {}
      /\ worker[w] = "buffers" => made[w] = {"ring"}
      /\ worker[w] \in {"resolve", "open", "bind", "listen"} => made[w] = {"ring", "buffers"}
      /\ worker[w] = "spawn" => made[w] = Everything
      /\ worker[w] # "killed" => sockets[w] = IF worker[w] \in HasSocket THEN 1 ELSE 0
  BY DEF Inv, MadeSoFar, SocketOnlyToAccept
<1>2. CASE StageDone(w)
  <2>1. made' = [made EXCEPT ![w] = @ \cup {worker[w]}] /\ worker[w] \in {"ring", "buffers"}
    BY <1>2, AfterStageValues DEF StageDone
  <2>2. made[w] \cup {worker[w]} \in {{"ring"}, {"ring", "buffers"}}
    BY <1>1, <2>1
  <2>3. made' \in [Workers -> {{}, {"ring"}, {"ring", "buffers"}, Everything}]
    BY <1>0, <2>1, <2>2 DEF TypeOK
  <2>4. \A v \in Workers \ {w} : made'[v] = made[v]
    BY <1>0, <2>1 DEF TypeOK
  <2>5. made'[w] = made[w] \cup {worker[w]}
    BY <1>0, <2>1 DEF TypeOK
  <2>6. AfterStage[worker[w]] = IF worker[w] = "ring" THEN "buffers" ELSE "resolve"
    BY <2>1, AfterStageValues
  <2>7. Moves(w, worker[w], AfterStage[worker[w]])
        /\ UNCHANGED <<caller, running, shutdown, addresses, sockets>>
    BY <1>2 DEF StageDone
  <2>8. CASE worker[w] = "ring"
    <3>1. Moves(w, "ring", "buffers") /\ made'[w] = {"ring"} /\ sockets[w] = 0
      BY <1>1, <2>5, <2>6, <2>7, <2>8 DEF HasSocket
    <3> QED BY <1>0, <2>3, <2>4, <2>7, <3>1, MoveKeeps DEF TypeOK, Places, Stages, HasSocket
  <2>9. CASE worker[w] = "buffers"
    <3>1. Moves(w, "buffers", "resolve") /\ made'[w] = {"ring", "buffers"} /\ sockets[w] = 0
      BY <1>1, <2>5, <2>6, <2>7, <2>9 DEF HasSocket
    <3> QED BY <1>0, <2>3, <2>4, <2>7, <3>1, MoveKeeps DEF TypeOK, Places, Stages, HasSocket
  <2> QED BY <2>1, <2>8, <2>9
<1>3. CASE StageFails(w)
  <2>1. worker[w] \in {"ring", "buffers", "resolve"} /\ Moves(w, worker[w], "idle")
        /\ UNCHANGED <<caller, running, shutdown, made, addresses, sockets>>
    BY <1>3, AfterStageValues DEF StageFails, GivesUp
  <2>2. sockets[w] = 0
    BY <1>1, <2>1 DEF HasSocket
  <2> QED BY <1>0, <2>1, <2>2, MoveKeeps DEF TypeOK, Places, HasSocket
<1>4. CASE Resolves(w)
  <2>1. Moves(w, "resolve", "open") /\ worker[w] = "resolve"
        /\ UNCHANGED <<caller, running, shutdown, made, sockets>>
    BY <1>4 DEF Resolves, Moves
  <2>2. addresses' \in [Workers -> 0 .. MaxAddresses]
        /\ \A v \in Workers \ {w} : addresses'[v] = addresses[v]
    BY <1>0, <1>4 DEF Resolves, TypeOK
  <2>3. sockets[w] = 0 /\ made[w] = {"ring", "buffers"}
    BY <1>1, <2>1 DEF HasSocket
  <2> QED BY <1>0, <2>1, <2>2, <2>3, MoveKeeps DEF TypeOK, Places, Stages, HasSocket
<1>5. CASE OpensSocket(w)
  <2>1. Moves(w, "open", "bind") /\ worker[w] = "open" /\ addresses[w] > 0
        /\ UNCHANGED <<caller, running, shutdown, made, addresses>>
        /\ sockets' = [sockets EXCEPT ![w] = @ + 1]
    BY <1>5 DEF OpensSocket, Moves
  <2>2. sockets[w] = 0 /\ made[w] = {"ring", "buffers"}
    BY <1>1, <2>1 DEF HasSocket
  <2>3. sockets' \in [Workers -> Nat] /\ sockets'[w] = 1
        /\ \A v \in Workers \ {w} : sockets'[v] = sockets[v]
    BY <1>0, <2>1, <2>2 DEF TypeOK
  <2> QED BY <1>0, <2>1, <2>2, <2>3, MoveKeeps DEF TypeOK, Places, Stages, HasSocket
<1>6. ASSUME addresses[w] > 0, NextAddress(w)
      PROVE  /\ addresses' \in [Workers -> 0 .. MaxAddresses]
             /\ \A v \in Workers \ {w} : addresses'[v] = addresses[v]
  BY <1>0, <1>6 DEF NextAddress, TypeOK
<1>7. ASSUME sockets[w] = 1, Closes(w)
      PROVE  /\ sockets' \in [Workers -> Nat] /\ sockets'[w] = 0
             /\ \A v \in Workers \ {w} : sockets'[v] = sockets[v]
  BY <1>0, <1>7 DEF Closes, TypeOK
<1>8. CASE SocketFails(w)
  <2>1. Moves(w, "open", "open") /\ worker[w] = "open"
        /\ UNCHANGED <<caller, running, shutdown, made, sockets>>
    BY <1>8 DEF SocketFails, Moves
  <2>2. /\ addresses' \in [Workers -> 0 .. MaxAddresses]
        /\ \A v \in Workers \ {w} : addresses'[v] = addresses[v]
    BY <1>6, <1>8 DEF SocketFails
  <2>3. sockets[w] = 0 /\ made[w] = {"ring", "buffers"}
    BY <1>1, <2>1 DEF HasSocket
  <2> QED BY <1>0, <2>1, <2>2, <2>3, MoveKeeps DEF TypeOK, Places, Stages, HasSocket
<1>9. CASE Binds(w)
  <2>1. Moves(w, "bind", "listen") /\ worker[w] = "bind"
        /\ UNCHANGED <<caller, running, shutdown, made, addresses, sockets>>
    BY <1>9 DEF Binds, Moves
  <2>2. sockets[w] = 1 /\ made[w] = {"ring", "buffers"}
    BY <1>1, <2>1 DEF HasSocket
  <2> QED BY <1>0, <2>1, <2>2, MoveKeeps DEF TypeOK, Places, Stages, HasSocket
<1>10. CASE BindFails(w)
  <2>1. Moves(w, "bind", "open") /\ worker[w] = "bind" /\ Closes(w) /\ NextAddress(w)
        /\ UNCHANGED <<caller, running, shutdown, made>>
    BY <1>10 DEF BindFails, Moves
  <2>2. sockets[w] = 1 /\ made[w] = {"ring", "buffers"}
    BY <1>1, <2>1 DEF HasSocket
  <2>3. addresses[w] > 0
    BY <2>1 DEF Inv, HasAddress
  <2> QED BY <1>0, <1>6, <1>7, <2>1, <2>2, <2>3, MoveKeeps DEF TypeOK, Places, Stages, HasSocket
<1>11. CASE OutOfAddresses(w)
  <2>1. Moves(w, "open", "idle") /\ worker[w] = "open"
        /\ UNCHANGED <<caller, running, shutdown, made, addresses, sockets>>
    BY <1>11 DEF OutOfAddresses, GivesUp, Moves
  <2>2. sockets[w] = 0
    BY <1>1, <2>1 DEF HasSocket
  <2> QED BY <1>0, <2>1, <2>2, MoveKeeps DEF TypeOK, Places, HasSocket
<1>12. CASE Listens(w)
  <2>1. Moves(w, "listen", "spawn") /\ worker[w] = "listen"
        /\ made' = [made EXCEPT ![w] = @ \cup {"listener"}]
        /\ UNCHANGED <<caller, running, shutdown, addresses, sockets>>
    BY <1>12 DEF Listens, Moves
  <2>2. sockets[w] = 1 /\ made[w] \cup {"listener"} = Everything
    BY <1>1, <2>1 DEF HasSocket, Everything
  <2>3. made' \in [Workers -> {{}, {"ring"}, {"ring", "buffers"}, Everything}]
        /\ made'[w] = Everything /\ \A v \in Workers \ {w} : made'[v] = made[v]
    BY <1>0, <2>1, <2>2 DEF TypeOK
  <2> QED BY <1>0, <2>1, <2>2, <2>3, MoveKeeps DEF TypeOK, Places, HasSocket
<1>13. CASE ListenFails(w)
  <2>1. Moves(w, "listen", "idle") /\ worker[w] = "listen" /\ Closes(w)
        /\ UNCHANGED <<caller, running, shutdown, made, addresses>>
    BY <1>13 DEF ListenFails, GivesUp, Moves
  <2>2. sockets[w] = 1
    BY <1>1, <2>1 DEF HasSocket
  <2> QED BY <1>0, <1>7, <2>1, <2>2, MoveKeeps DEF TypeOK, Places, HasSocket
<1>14. CASE SpawnsAccept(w)
  <2>1. Moves(w, "spawn", "accepting") /\ worker[w] = "spawn"
        /\ UNCHANGED <<caller, running, shutdown, made, addresses, sockets>>
    BY <1>14 DEF SpawnsAccept, Moves
  <2>2. sockets[w] = 1 /\ made[w] = Everything
    BY <1>1, <2>1 DEF HasSocket
  <2> QED BY <1>0, <2>1, <2>2, MoveKeeps DEF TypeOK, Places, HasSocket
<1>15. CASE LoopFaults(w)
  <2>1. TypeOK'
    BY <1>0, <1>15 DEF LoopFaults, TypeOK
  <2> QED BY <2>1, <1>15 DEF LoopFaults, Inv, MadeSoFar, HasAddress, SocketOnlyToAccept,
                             RunsWhile, NoneYet, JoinedBeforeExit
<1> QED
  BY <1>2, <1>3, <1>4, <1>5, <1>8, <1>9, <1>10, <1>11, <1>12, <1>13, <1>14, <1>15
     DEF WorkerStep

(* The steps of the thread that owns the GameServer, and signals.           *)
LEMMA CallerPreserves ==
  ASSUME Inv, CallerStep \/ CreateFails \/ WaitsForShutdown \/ Signal PROVE Inv'
<1>0. TypeOK
  BY DEF Inv
<1>1. ASSUME NEW w \in Workers, CreateThread(w) PROVE Inv'
  <2>1. worker' = [worker EXCEPT ![w] = "ring"] /\ worker[w] = "none" /\ caller = "starting"
        /\ caller' \in {"starting", "serving"}
        /\ UNCHANGED <<running, shutdown, made, addresses, sockets>>
    BY <1>0, <1>1 DEF CreateThread
  <2>2. worker'[w] = "ring" /\ \A v \in Workers \ {w} : worker'[v] = worker[v]
    BY <1>0, <2>1 DEF TypeOK
  <2>3. TypeOK'
    BY <1>0, <2>1 DEF TypeOK, Stages
  <2>4. MadeSoFar' /\ HasAddress'
    BY <2>1, <2>2 DEF Inv, MadeSoFar, HasAddress
  <2>5. SocketOnlyToAccept'
    BY <2>1, <2>2 DEF Inv, SocketOnlyToAccept, HasSocket
  <2> QED BY <2>1, <2>3, <2>4, <2>5 DEF Inv, RunsWhile, NoneYet, JoinedBeforeExit
<1>2. CASE Start \/ SeesShutdown \/ CreateFails \/ WaitsForShutdown \/ Signal
  <2>1. TypeOK'
    BY <1>0, <1>2 DEF Start, SeesShutdown, CreateFails, WaitsForShutdown, Signal, TypeOK
  <2>2. (MadeSoFar /\ HasAddress /\ SocketOnlyToAccept)'
    BY <1>2 DEF Inv, Start, SeesShutdown, CreateFails, WaitsForShutdown, Signal,
                MadeSoFar, HasAddress, SocketOnlyToAccept
  <2>3. (RunsWhile /\ NoneYet /\ JoinedBeforeExit)'
    BY <1>2 DEF Inv, Start, SeesShutdown, CreateFails, WaitsForShutdown, Signal,
                RunsWhile, NoneYet, JoinedBeforeExit
  <2> QED BY <2>1, <2>2, <2>3 DEF Inv
<1>3. CASE Stop \/ AllJoined
  <2>1. TypeOK'
    BY <1>0, <1>3 DEF Stop, AllJoined, TypeOK
  <2>2. (MadeSoFar /\ HasAddress /\ SocketOnlyToAccept)'
    BY <1>3 DEF Inv, Stop, AllJoined, MadeSoFar, HasAddress, SocketOnlyToAccept
  <2>3. (RunsWhile /\ NoneYet /\ JoinedBeforeExit)'
    BY <1>3 DEF Inv, Stop, AllJoined, Over, RunsWhile, NoneYet, JoinedBeforeExit
  <2> QED BY <2>1, <2>2, <2>3 DEF Inv
<1> QED BY <1>1, <1>2, <1>3 DEF CallerStep

-----------------------------------------------------------------------------
(* The invariant holds in every reachable state.                            *)
THEOREM Invariance == Spec => []Inv
<1>1. Inv /\ UNCHANGED vars => Inv'
  BY DEF Inv, vars, TypeOK, MadeSoFar, HasAddress, SocketOnlyToAccept,
         RunsWhile, NoneYet, JoinedBeforeExit
<1>2. Inv /\ [Next]_vars => Inv'
  BY <1>1, WorkerPreserves, CallerPreserves DEF Next
<1> QED BY InitInv, <1>2, PTL DEF Spec

(* Every variable has its type, and init never leaves a worker with buffers *)
(* but no ring, or a listener but no buffers.                               *)
THEOREM GameServerTypeCorrect == Spec => []TypeOK
<1>1. Inv => TypeOK
  BY DEF Inv
<1> QED BY Invariance, <1>1, PTL

(* No worker accepts clients without ring, buffers and listener.            *)
THEOREM AcceptersAreComplete == Spec => []AcceptsWithEverything
<1>1. Inv => AcceptsWithEverything
  BY DEF Inv, MadeSoFar, AcceptsWithEverything
<1> QED BY Invariance, <1>1, PTL

(* No socket stays open that its worker does not accept on.                 *)
THEOREM SocketsNotLeaked == Spec => []SocketOnlyToAccept
<1>1. Inv => SocketOnlyToAccept
  BY DEF Inv
<1> QED BY Invariance, <1>1, PTL

-----------------------------------------------------------------------------
(* A thread that was created is never over: it gives up, accepts or is      *)
(* killed with the process, and eventLoop's loop has no exit.               *)
LEMMA CreatedStays == Inv /\ Created /\ [Next]_vars => Created'
<1> SUFFICES ASSUME Inv, Created, [Next]_vars PROVE Created'
  OBVIOUS
<1>1. PICK w \in Workers : worker[w] # "none"
  BY DEF Created
<1>2. DOMAIN worker = Workers
  BY DEF Inv, TypeOK
<1> SUFFICES worker'[w] # "none"
  BY <1>1 DEF Created
<1>3. ASSUME NEW v \in Workers, NEW to, to # "none", worker' = [worker EXCEPT ![v] = to]
      PROVE  worker'[w] # "none"
  BY <1>1, <1>2, <1>3
<1>4. CASE UNCHANGED worker
  BY <1>1, <1>4
<1>5. ASSUME NEW v \in Workers, WorkerStep(v) PROVE worker'[w] # "none"
  <2>1. CASE StageDone(v)
    <3>1. AfterStage[worker[v]] \in {"buffers", "resolve"}
      BY <2>1, AfterStageValues DEF StageDone
    <3>2. worker' = [worker EXCEPT ![v] = AfterStage[worker[v]]]
      BY <2>1 DEF StageDone, Moves
    <3> QED BY <1>3, <3>1, <3>2
  <2>2. CASE StageFails(v) \/ OutOfAddresses(v) \/ ListenFails(v)
    <3>1. worker' = [worker EXCEPT ![v] = "idle"]
      BY <2>2 DEF StageFails, OutOfAddresses, ListenFails, GivesUp, Moves
    <3> QED BY <1>3, <3>1
  <2>3. CASE \/ Resolves(v) \/ OpensSocket(v) \/ SocketFails(v) \/ Binds(v) \/ BindFails(v)
             \/ Listens(v) \/ SpawnsAccept(v)
    BY <1>3, <2>3 DEF Resolves, OpensSocket, SocketFails, Binds, BindFails, Listens,
                      SpawnsAccept, Moves
  <2>4. CASE LoopFaults(v)
    BY <2>4 DEF LoopFaults
  <2> QED BY <1>5, <2>1, <2>2, <2>3, <2>4 DEF WorkerStep
<1>6. ASSUME NEW v \in Workers, CreateThread(v) PROVE worker'[w] # "none"
  BY <1>3, <1>6 DEF CreateThread
<1>7. CASE \/ Start \/ SeesShutdown \/ Stop \/ AllJoined
           \/ CreateFails \/ WaitsForShutdown \/ Signal \/ UNCHANGED vars
  BY <1>4, <1>7 DEF Start, SeesShutdown, Stop, AllJoined, CreateFails, WaitsForShutdown,
                    Signal, vars
<1> QED BY <1>5, <1>6, <1>7 DEF Next, CallerStep

(* start returns true only after it has created the last thread.            *)
ServesThreads == caller = "serving" => Created

LEMMA ServingCreated == Inv /\ ServesThreads /\ [Next]_vars => ServesThreads'
<1> SUFFICES ASSUME Inv, [Next]_vars, caller = "serving" => Created, caller' = "serving"
             PROVE  Created'
  BY DEF ServesThreads
<1>1. CASE caller = "serving"
  BY <1>1, CreatedStays
<1>2. CASE caller # "serving"
  <2>1. \A v \in Workers : WorkerStep(v) => caller' = caller \/ caller' = "killed"
    BY DEF WorkerStep, StageDone, StageFails, Resolves, OpensSocket, SocketFails, Binds,
           BindFails, OutOfAddresses, Listens, ListenFails, SpawnsAccept, LoopFaults
  <2>2. PICK v \in Workers : CreateThread(v)
    BY <1>2, <2>1 DEF Next, CallerStep, Start, SeesShutdown, Stop, AllJoined, CreateFails,
                      WaitsForShutdown, Signal, vars
  <2>3. worker'[v] = "ring"
    BY <2>2 DEF CreateThread, Inv, TypeOK
  <2> QED BY <2>3 DEF Created
<1> QED BY <1>1, <1>2

(* Once a thread has been created the program does not come to its end,     *)
(* with or without Ctrl+C, and no more when start throws before the last of *)
(* them: neither stop nor wait_for_shutdown ever returns (src/main.cpp says *)
(* "Press Ctrl+C to stop", and reports a "Server error").                   *)
THEOREM ServesForGood == Spec => NeverEnds
<1>1. Init => ServesThreads
  BY DEF Init, ServesThreads
<1>2. Spec => []ServesThreads
  BY <1>1, Invariance, ServingCreated, PTL DEF Spec
<1>3. Created /\ JoinedBeforeExit => caller # "exited"
  BY DEF Created, JoinedBeforeExit
<1>4. Spec => [](Created => [](caller # "exited"))
  <2>1. Inv => JoinedBeforeExit
    BY DEF Inv
  <2> QED BY Invariance, CreatedStays, <1>3, <2>1, PTL DEF Spec
<1>5. ServesThreads => (caller = "serving" => Created)
  BY DEF ServesThreads
<1> QED BY <1>2, <1>4, <1>5, PTL DEF NeverEnds
=============================================================================
