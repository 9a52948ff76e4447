-------------------------------- MODULE Worker --------------------------------
(***************************************************************************)
(* One worker thread of the game server after a successful Worker::init:   *)
(* its ring (module EventLoop), the accept coroutine                       *)
(* (Worker::accept_clients), one chain of coroutines per client            *)
(* (the spawn lambda -> HandleClientSession -> HandleSession), the buffers *)
(* on offer to the kernel, the sockets, and the clients at the other end.  *)
(*                                                                         *)
(* A client is a member of Conns.  The same name stands for its accepted   *)
(* descriptor, its session and the recv awaiter of its session coroutine;  *)
(* Listener stands for the accept guard.                                   *)
(***************************************************************************)
EXTENDS Integers, Sequences, FiniteSets, Functions

CONSTANTS
  Conns,      \* the clients that may connect to this worker
  Listener,   \* the accept guard's sqe_data
  SqSize,     \* IO_URING_QUEUE_SIZE
  CqSize,     \* entries of the completion ring (the kernel takes twice SqSize)
  NumBufs,    \* BUF_RING_SIZE, the buffers registered with the kernel
  MaxFds,     \* accepted descriptors the process limit leaves room for
  MaxSends    \* bound on the messages of each client

ASSUME ConnsAssumption ==
  /\ IsFiniteSet(Conns)
  /\ Listener \notin Conns
  /\ Conns \cap {"data", "eof", "error"} = {}
ASSUME SizesAssumption ==
  /\ SqSize \in Nat \ {0}
  /\ {CqSize, NumBufs, MaxFds} \subseteq Nat
  /\ MaxSends \in [Conns -> Nat]

VARIABLES
  sq, armed, cq, loop, submitted, waiting,   \* the ring, see EventLoop
  fresh,      \* recvs submitted whose first attempt the kernel still owes
  backlog,    \* clients in the listening socket's accept queue
  peer,       \* each client's side: "away", "up", "fin" or "rst"
  sent,       \* messages each client has sent
  unread,     \* messages in each client's receive queue on the server
  open,       \* accepted descriptors that are open
  offered,    \* buffers in the provided-buffer ring
  sessions,   \* SessionManager::sessions_, the part of this worker
  connected,  \* sessions whose connected_ flag is set
  handlers,   \* clients whose HandleClientSession frame (and spawn lambda) lives
  received,   \* recvs that came back with data, over all sessions
  handed      \* of those, the ones whose data reached OnRecvData

ringVars == <<sq, armed, cq, loop, submitted, waiting>>
netVars == <<backlog, peer, sent, unread>>
appVars == <<sessions, connected, handlers, received, handed>>
vars == <<ringVars, fresh, netVars, open, offered, appVars>>

Results == Conns \cup {"data", "eof", "error"}

Ring == INSTANCE EventLoop
          WITH Recvs <- Conns, MaxCq <- 2 * Cardinality(Conns) + 1

-----------------------------------------------------------------------------
(* Variants of definitions below, as a slip in the code would make them;    *)
(* each shows that some property would notice.                              *)

UsedAwaiter == [buffer_id |-> 0, buffer_size |-> 1]
ForgetsToRemove(c) == /\ connected' = connected \ {c}
                      /\ UNCHANGED sessions
LaunchesTwice(c) == /\ sq' = Ring!Push(Ring!Push(sq, c), c)
                    /\ waiting' = waiting \cup {c}
                    /\ handlers' = handlers \cup {c}
LaunchesNone(c) == UNCHANGED <<sq, waiting, handlers>>
RegisteredOneMore == NumBufs + 1
AsksAgain(c) ==
  /\ sq' = IF Listener \in armed THEN Ring!Push(sq, c)
                                 ELSE Ring!Push(Ring!Push(sq, c), Listener)
  /\ waiting' = waiting \cup {c}
  /\ handlers' = handlers \cup {c}

-----------------------------------------------------------------------------
(* The clients and the network.                                             *)

Connect(c) ==
  /\ peer[c] = "away"
  /\ peer' = [peer EXCEPT ![c] = "up"]
  /\ backlog' = backlog \cup {c}
  /\ UNCHANGED <<ringVars, fresh, sent, unread, open, offered, appVars>>

SendMessage(c) ==
  /\ peer[c] = "up"
  /\ sent[c] < MaxSends[c]
  /\ sent' = [sent EXCEPT ![c] = @ + 1]
  /\ unread' = [unread EXCEPT ![c] = @ + 1]
  /\ UNCHANGED <<ringVars, fresh, backlog, peer, open, offered, appVars>>

(* The client closes its socket, or the connection is reset.                *)
Leave(c) ==
  /\ peer[c] = "up"
  /\ \E how \in {"fin", "rst"} : peer' = [peer EXCEPT ![c] = how]
  /\ UNCHANGED <<ringVars, fresh, backlog, sent, unread, open, offered, appVars>>

Client(c) == Connect(c) \/ SendMessage(c) \/ Leave(c)

-----------------------------------------------------------------------------
(* The kernel.                                                              *)

(* The multishot accept posts one completion per connection.  It goes on    *)
(* (IORING_CQE_F_MORE) as long as the completion ring has room.             *)
KernelAccepts(c) ==
  /\ c \in backlog
  /\ Cardinality(open) < MaxFds
  /\ Ring!Complete(Listener, c, Len(cq) < CqSize)
  /\ backlog' = backlog \ {c}
  /\ open' = open \cup {c}
  /\ UNCHANGED <<fresh, peer, sent, unread, offered, appVars>>

(* No descriptor is left: the connection stays in the accept queue and the  *)
(* multishot request ends with -EMFILE.                                     *)
KernelAcceptFails ==
  /\ backlog # {}
  /\ Cardinality(open) >= MaxFds
  /\ Ring!Complete(Listener, "error", FALSE)
  /\ UNCHANGED <<fresh, netVars, open, offered, appVars>>

Ready(c) == unread[c] > 0 \/ peer[c] \in {"fin", "rst"}

KernelRecv(c, r) ==
  /\ Ring!Complete(c, r, FALSE)
  /\ fresh' = fresh \ {c}
  /\ UNCHANGED <<backlog, peer, sent, open, appVars>>

(* Queued bytes come first, as many as are there or as fit one buffer.      *)
KernelRecvData(c) ==
  /\ offered > 0
  /\ \E n \in 1 .. unread[c] : unread' = [unread EXCEPT ![c] = @ - n]
  /\ offered' = offered - 1
  /\ KernelRecv(c, "data")

(* End of file or a reset takes no buffer.                                  *)
KernelRecvEnd(c) ==
  /\ offered > 0
  /\ unread[c] = 0
  /\ peer[c] \in {"fin", "rst"}
  /\ UNCHANGED <<unread, offered>>
  /\ KernelRecv(c, IF peer[c] = "fin" THEN "eof" ELSE "error")

(* A buffer is selected before the socket is read: with none on offer an    *)
(* attempt ends in -ENOBUFS, whether or not there is anything to read.      *)
KernelRecvNoBuffer(c) ==
  /\ offered = 0
  /\ c \in fresh \/ Ready(c)
  /\ UNCHANGED <<unread, offered>>
  /\ KernelRecv(c, "error")

(* Nothing to read yet: the kernel polls the socket.                        *)
KernelRecvParks(c) ==
  /\ c \in fresh
  /\ offered > 0
  /\ ~Ready(c)
  /\ fresh' = fresh \ {c}
  /\ UNCHANGED <<ringVars, netVars, open, offered, appVars>>

KernelStep(c) ==
  \/ KernelAccepts(c)
  \/ KernelRecvData(c)
  \/ KernelRecvEnd(c)
  \/ KernelRecvNoBuffer(c)
  \/ KernelRecvParks(c)

-----------------------------------------------------------------------------
(* The event loop.                                                          *)

outside == <<netVars, open, offered, appVars>>

Submit ==
  /\ Ring!Submit
  /\ fresh' = Range(sq) \ {Listener}
  /\ UNCHANGED outside

(* io_uring_enter attempts every new request before it waits.               *)
WaitReturns == fresh = {} /\ Ring!WaitReturns /\ UNCHANGED <<fresh, outside>>
WaitInterrupted ==
  fresh = {} /\ Ring!WaitInterrupted /\ UNCHANGED <<fresh, outside>>
DrainDone == Ring!DrainDone /\ UNCHANGED <<fresh, outside>>

-----------------------------------------------------------------------------
(* The coroutines that eventLoop resumes.                                   *)

AddSession(c) == sessions' = sessions \cup {c}
RemoveSession(c) == sessions' = sessions \ {c}
OnConnected(c) == connected' = connected \cup {c}
OnDisconnected(c) == connected' = connected \ {c}

(* GameSession is destroyed, and its socket_client closes the descriptor,   *)
(* with the last shared_ptr: the entry of sessions_, the parameter of       *)
(* HandleSession (its frame is alive while its recv is awaited), the local  *)
(* of HandleClientSession.                                                  *)
Referenced(c) == c \in sessions \/ c \in waiting \/ c \in handlers

(* HandleClientSession suspends on the task HandleSession returned, and the *)
(* spawn lambda on the task HandleClientSession returned: await_suspend     *)
(* leaves no word to resume them, they are never resumed.                   *)
CallersSuspend(c) == handlers' = handlers \cup {c}

(* The three coroutines start eagerly, one calling the next; the innermost  *)
(* suspends in recv(), and then the callers on their tasks.                 *)
Launches(c) == Ring!Starts(c) /\ CallersSuspend(c)

(* accept() returned a client: accept_clients spawns HandleClientSession,   *)
(* which adds the session, finds it again and runs HandleSession up to its  *)
(* first recv(), with OnConnected on the way.                               *)
StartSession(c) ==
  /\ Ring!SeeHead(Listener)
  /\ Head(cq).res = c
  /\ AddSession(c)
  /\ OnConnected(c)
  /\ Launches(c)
  /\ UNCHANGED <<fresh, netVars, open, offered, received, handed>>

(* accept() returned null: accept_clients warns and awaits the same guard.  *)
AcceptNull ==
  /\ Ring!SeeHead(Listener)
  /\ Head(cq).res = "error"
  /\ Ring!Stays
  /\ UNCHANGED <<fresh, outside>>

(* HandleSession asks for buffer id and size not of the awaiter that was    *)
(* resumed but of a new one, which has never been awaited.                  *)
AskedAwaiter == [buffer_id |-> 0, buffer_size |-> 0]

(* With a size the data goes to OnRecvData and the buffer back to the ring; *)
(* without, neither happens.  Either way the loop calls recv() again: the   *)
(* session pointer and the descriptor never stop being valid.               *)
ReceiveData(c) ==
  /\ Ring!SeeHead(c)
  /\ Head(cq).res = "data"
  /\ Ring!Rearms(c)
  /\ received' = received + 1
  /\ IF AskedAwaiter.buffer_size > 0
       THEN handed' = handed + 1 /\ offered' = offered + 1
       ELSE UNCHANGED <<handed, offered>>
  /\ UNCHANGED <<fresh, netVars, open, sessions, connected, handlers>>

Disconnects(c) == OnDisconnected(c) /\ RemoveSession(c)

(* recv() returned 0 or an error: the loop is left, HandleSession's frame   *)
(* is freed when it ends, and nobody resumes HandleClientSession.           *)
EndSession(c) ==
  /\ Ring!SeeHead(c)
  /\ Head(cq).res \in {"eof", "error"}
  /\ Disconnects(c)
  /\ Ring!Ends(c)
  /\ UNCHANGED <<fresh, netVars, offered, handlers, received, handed>>
  /\ open' = IF Referenced(c)' THEN open ELSE open \ {c}

Coroutine(c) == StartSession(c) \/ ReceiveData(c) \/ EndSession(c)

-----------------------------------------------------------------------------
(* registerBufRing puts every buffer on offer once.                         *)
Registered == NumBufs

Init ==
  /\ Ring!Init
  /\ fresh = {}
  /\ backlog = {}
  /\ peer = [c \in Conns |-> "away"]
  /\ sent = [c \in Conns |-> 0]
  /\ unread = [c \in Conns |-> 0]
  /\ open = {}
  /\ offered = Registered
  /\ sessions = {}
  /\ connected = {}
  /\ handlers = {}
  /\ received = 0
  /\ handed = 0

Thread == Submit \/ WaitReturns \/ DrainDone \/ AcceptNull
            \/ \E c \in Conns : Coroutine(c)

Next ==
  \/ Thread
  \/ WaitInterrupted
  \/ KernelAcceptFails
  \/ \E c \in Conns : Client(c) \/ KernelStep(c)

Spec == Init /\ [][Next]_vars

(* The thread runs whenever it can, the kernel makes progress on every      *)
(* request; clients and signals owe nothing.                                *)
Fairness ==
  /\ WF_vars(Thread)
  /\ WF_vars(KernelAcceptFails)
  /\ \A c \in Conns : WF_vars(KernelStep(c))

FairSpec == Spec /\ Fairness

-----------------------------------------------------------------------------
TypeOK ==
  /\ Ring!TypeOK
  /\ fresh \in SUBSET Conns
  /\ backlog \in SUBSET Conns
  /\ peer \in [Conns -> {"away", "up", "fin", "rst"}]
  /\ {sent, unread} \subseteq [Conns -> Nat]
  /\ \A c \in Conns : sent[c] <= MaxSends[c] /\ unread[c] <= MaxSends[c]
  /\ {open, sessions, connected, handlers} \subseteq SUBSET Conns
  /\ offered \in 0 .. NumBufs
  /\ {received, handed} \subseteq Nat

(* The session table, the connected_ flags and the suspended session        *)
(* coroutines agree whenever the thread is between two coroutines: no       *)
(* registered session without a coroutine to serve it, none served that     *)
(* SessionManager does not know.                                            *)
TableMatchesCoroutines ==
  /\ sessions = waiting \ {Listener}
  /\ connected = sessions

AcceptPending(c) == \E i \in DOMAIN cq : cq[i].op = Listener /\ cq[i].res = c

(* No accepted connection is forgotten and none is handled twice: an open   *)
(* descriptor is on its way in a completion or belongs to a handler.        *)
AcceptedOnce ==
  /\ open = handlers \cup {c \in Conns : AcceptPending(c)}
  /\ \A c \in handlers : ~AcceptPending(c)

DataPending == Cardinality({i \in DOMAIN cq : cq[i].res = "data"})

(* Every buffer the kernel filled is one receive, and none comes back: over *)
(* its life the worker can receive NumBufs times and no more.               *)
ReceiveBudget == offered + DataPending + received = NumBufs

(* The coroutines keep to what EventLoop assumes of a resumed coroutine.    *)
ImplementsRing == Ring!Spec

(* The multishot accept request will never complete again.                  *)
AcceptLost == Listener \notin armed /\ Listener \notin Range(sq)

(* A client in the accept queue gets a session, unless the loop is wedged   *)
(* or the accept request ended before its turn.                             *)
ServedOrStuck ==
  \A c \in Conns :
    c \in backlog ~> \/ c \in handlers
                     \/ Ring!Wedged
                     \/ c \in backlog /\ AcceptLost

(* A multishot accept that has ended, for want of a descriptor or of a      *)
(* completion entry, is awaited again and again but never made again: who   *)
(* is in the accept queue then, or comes to it later, stays there.          *)
AcceptLostForGood ==
  [][AcceptLost => AcceptLost' /\ backlog \subseteq backlog']_vars

(* A client that left is noticed and its session removed, unless the loop   *)
(* is wedged.                                                               *)
DepartureNoticed ==
  \A c \in Conns :
    c \in sessions /\ peer[c] \in {"fin", "rst"}
      ~> c \notin sessions \/ Ring!Wedged

(* A completed recv is seen by the loop, unless the loop is wedged: the     *)
(* zero return is the only way eventLoop leaves a completion behind.        *)
RingSeen == Ring!SeenOrWedged

-----------------------------------------------------------------------------
(* What the repository says of itself and the code does not do.             *)

(* The server echoes: what a session receives is handed to OnRecvData, the  *)
(* only code that answers a client.                                         *)
ReceivedIsHandedOver == handed = received
=============================================================================
