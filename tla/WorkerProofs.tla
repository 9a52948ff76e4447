------------------------------ MODULE WorkerProofs ------------------------------
(***************************************************************************)
(* What holds of a worker for any number of clients, buffers, descriptors  *)
(* and queue entries.                                                      *)
(***************************************************************************)
EXTENDS Worker, FiniteSetTheorems, TLAPS

(* The coroutines of the server do to the ring only what EventLoop allows a *)
(* resumed coroutine: the kernel's steps complete requests, the thread's    *)
(* steps are the loop's, and the rest leaves the ring alone.                *)
LEMMA StepImplementsRing == [Next]_vars => [Ring!Next]_(Ring!ringVars)
  <1> SUFFICES ASSUME [Next]_vars PROVE Ring!Next \/ UNCHANGED ringVars
    BY DEF ringVars, Ring!ringVars
  <1>1. ASSUME NEW o \in Ring!Ops, NEW r \in Results, NEW more \in BOOLEAN,
               Ring!Complete(o, r, more)
        PROVE  Ring!Next
    BY <1>1 DEF Ring!Next, Ring!Kernel
  <1>2. Listener \in Ring!Ops /\ \A c \in Conns : c \in Ring!Ops /\ c \in Results
    BY DEF Ring!Ops, Results
  <1>3. ASSUME NEW c \in Conns, Client(c) PROVE UNCHANGED ringVars
    BY <1>3 DEF Client, Connect, SendMessage, Leave
  <1>4. ASSUME NEW c \in Conns, KernelStep(c)
        PROVE  Ring!Next \/ UNCHANGED ringVars
    <2>1. CASE KernelAccepts(c)
      <3>1. (Len(cq) < CqSize) \in BOOLEAN
        OBVIOUS
      <3> QED BY <1>1, <1>2, <2>1, <3>1 DEF KernelAccepts
    <2>2. ASSUME NEW r \in {"data", "eof", "error"}, KernelRecv(c, r)
          PROVE  Ring!Next
      BY <1>1, <1>2, <2>2 DEF KernelRecv, Results
    <2>3. CASE KernelRecvData(c) \/ KernelRecvEnd(c) \/ KernelRecvNoBuffer(c)
      BY <2>2, <2>3 DEF KernelRecvData, KernelRecvEnd, KernelRecvNoBuffer
    <2>4. CASE KernelRecvParks(c)
      BY <2>4 DEF KernelRecvParks
    <2> QED BY <1>4, <2>1, <2>3, <2>4 DEF KernelStep
  <1>5. CASE KernelAcceptFails
    BY <1>1, <1>2, <1>5 DEF KernelAcceptFails, Results
  <1>6. CASE Submit \/ WaitReturns \/ WaitInterrupted \/ DrainDone
    BY <1>6 DEF Submit, WaitReturns, WaitInterrupted, DrainDone, Ring!Next, Ring!Thread
  <1>7. ASSUME NEW o \in Ring!Ops, Ring!Resume(o) PROVE Ring!Next
    BY <1>7 DEF Ring!Next, Ring!Thread
  <1>8. CASE AcceptNull
    BY <1>2, <1>7, <1>8 DEF AcceptNull, Ring!Resume
  <1>9. ASSUME NEW c \in Conns, Coroutine(c) PROVE Ring!Next
    <2>1. CASE StartSession(c)
      BY <1>2, <1>7, <2>1 DEF StartSession, Launches, Ring!Resume
    <2>2. CASE ReceiveData(c)
      BY <1>2, <1>7, <2>2 DEF ReceiveData, Ring!Resume
    <2>3. CASE EndSession(c)
      BY <1>2, <1>7, <2>3 DEF EndSession, Ring!Resume
    <2> QED BY <1>9, <2>1, <2>2, <2>3 DEF Coroutine
  <1>10. CASE UNCHANGED vars
    BY <1>10 DEF vars
  <1> QED BY <1>3, <1>4, <1>5, <1>6, <1>8, <1>9, <1>10 DEF Next, Thread

(* The worker implements EventLoop: what is proved of a ring whose          *)
(* coroutines do anything at all holds for the server's coroutines.         *)
THEOREM Refinement == Spec => ImplementsRing
  <1>1. Init => Ring!Init
    BY DEF Init
  <1> QED BY <1>1, StepImplementsRing, PTL DEF Spec, ImplementsRing, Ring!Spec

-----------------------------------------------------------------------------
(* The theorems of EventLoopProofs, about the worker's own ring.            *)
RingProofs == INSTANCE EventLoopProofs
                WITH Recvs <- Conns, MaxCq <- 2 * Cardinality(Conns) + 1

LEMMA RingAssumptions ==
  /\ Listener \notin Conns
  /\ SqSize \in Nat \ {0}
  /\ 2 * Cardinality(Conns) + 1 \in Nat
  <1>1. Cardinality(Conns) \in Nat
    BY ConnsAssumption, FS_CardinalityType
  <1> QED BY <1>1, ConnsAssumption, SizesAssumption

LEMMA RingInitAgrees == Ring!Init => RingProofs!Init
  BY DEF Ring!Init, RingProofs!Init

LEMMA RingNextAgrees ==
  [Ring!Next]_(Ring!ringVars) => [RingProofs!Next]_(RingProofs!ringVars)
  BY DEF Ring!Next, RingProofs!Next, Ring!ringVars, RingProofs!ringVars,
    Ring!Kernel, RingProofs!Kernel, Ring!Thread, RingProofs!Thread,
    Ring!Complete, RingProofs!Complete, Ring!Submit, RingProofs!Submit,
    Ring!WaitReturns, RingProofs!WaitReturns, Ring!WaitInterrupted,
    RingProofs!WaitInterrupted, Ring!DrainDone, RingProofs!DrainDone,
    Ring!Resume, RingProofs!Resume, Ring!SeeHead, RingProofs!SeeHead,
    Ring!Rearms, RingProofs!Rearms, Ring!Ends, RingProofs!Ends,
    Ring!Starts, RingProofs!Starts, Ring!Stays, RingProofs!Stays,
    Ring!Ops, RingProofs!Ops, Ring!Push, RingProofs!Push, Ring!Seen,
    RingProofs!Seen, Ring!Returns, RingProofs!Returns, Ring!Consumed,
    RingProofs!Consumed, Ring!EINTR, RingProofs!EINTR, Ring!Range, RingProofs!Range

LEMMA RingResumeAgrees == RingProofs!NoDanglingResume => Ring!NoDanglingResume
  BY DEF RingProofs!NoDanglingResume, Ring!NoDanglingResume, Ring!Outstanding,
    RingProofs!Outstanding, Ring!Ops, RingProofs!Ops, Ring!InCq, RingProofs!InCq,
    Ring!InSq, RingProofs!InSq, Ring!Range, RingProofs!Range

(* The event loop of a worker never resumes a freed session coroutine:      *)
(* whatever the clients, the kernel and the signals do, a descriptor,       *)
(* buffer or queue entry short or not.                                      *)
THEOREM NoFreedSessionResumed == Spec => []Ring!NoDanglingResume
  <1>1. Init => RingProofs!Init
    BY RingInitAgrees DEF Init
  <1>2. [Next]_vars => [RingProofs!Next]_(RingProofs!ringVars)
    BY StepImplementsRing, RingNextAgrees
  <1>3. RingProofs!Spec => []RingProofs!NoDanglingResume
    BY RingAssumptions, RingProofs!NoFreedFrameResumed DEF RingProofs!ListenerAssumption
  <1> QED BY <1>1, <1>2, <1>3, RingResumeAgrees, PTL DEF Spec, RingProofs!Spec

LEMMA RingWakeupAgrees == RingProofs!NoLostWakeup => Ring!NoLostWakeup
  BY DEF RingProofs!NoLostWakeup, Ring!NoLostWakeup, Ring!Outstanding,
    RingProofs!Outstanding, Ring!InCq, RingProofs!InCq, Ring!InSq,
    RingProofs!InSq, Ring!Range, RingProofs!Range

(* With no more clients than queue entries, a suspended session always has  *)
(* its recv in the ring: beyond that io_uring_get_sqe may return null and   *)
(* the session wait for ever.                                               *)
THEOREM NoSessionForgotten ==
  ASSUME Cardinality(Conns) <= SqSize
  PROVE  Spec => []Ring!NoLostWakeup
  <1>1. Init => RingProofs!Init
    BY RingInitAgrees DEF Init
  <1>2. [Next]_vars => [RingProofs!Next]_(RingProofs!ringVars)
    BY StepImplementsRing, RingNextAgrees
  <1>3. RingProofs!Spec => []RingProofs!NoLostWakeup
    <2>1. IsFiniteSet(Conns)
      BY ConnsAssumption
    <2>2. RingProofs!IsFiniteSet(Conns)
      BY <2>1 DEF IsFiniteSet, RingProofs!IsFiniteSet
    <2>3. RingProofs!Cardinality(Conns) <= SqSize
      BY DEF Cardinality, RingProofs!Cardinality
    <2> QED BY <2>2, <2>3, RingAssumptions, RingProofs!WakeupsKept
            DEF RingProofs!ListenerAssumption
  <1> QED BY <1>1, <1>2, <1>3, RingWakeupAgrees, PTL DEF Spec, RingProofs!Spec

LEMMA RingTypesAgree == RingProofs!TypeOK => Ring!TypeOK
  BY DEF RingProofs!TypeOK, Ring!TypeOK, RingProofs!CQE, Ring!CQE,
    RingProofs!Ops, Ring!Ops

LEMMA RingTypeCorrect == Spec => []Ring!TypeOK
  <1>1. Init => RingProofs!Init
    BY RingInitAgrees DEF Init
  <1>2. [Next]_vars => [RingProofs!Next]_(RingProofs!ringVars)
    BY StepImplementsRing, RingNextAgrees
  <1>3. RingProofs!Spec => []RingProofs!TypeOK
    BY RingAssumptions, RingProofs!TypeCorrect DEF RingProofs!ListenerAssumption
  <1> QED BY <1>1, <1>2, <1>3, RingTypesAgree, PTL DEF Spec, RingProofs!Spec

-----------------------------------------------------------------------------
(* The types.  A receive queue holds no more than its client has sent.      *)
WorkerTypes ==
  /\ fresh \in SUBSET Conns
  /\ backlog \in SUBSET Conns
  /\ peer \in [Conns -> {"away", "up", "fin", "rst"}]
  /\ sent \in [Conns -> Nat]
  /\ unread \in [Conns -> Nat]
  /\ \A c \in Conns : unread[c] <= sent[c] /\ sent[c] <= MaxSends[c]
  /\ {open, sessions, connected, handlers} \subseteq SUBSET Conns
  /\ offered \in 0 .. NumBufs
  /\ received \in Nat /\ handed \in Nat

LEMMA WorkerTypesNext == Ring!TypeOK /\ WorkerTypes /\ [Next]_vars => WorkerTypes'
  <1> SUFFICES ASSUME Ring!TypeOK, WorkerTypes, [Next]_vars PROVE WorkerTypes'
    OBVIOUS
  <1> USE SizesAssumption, ConnsAssumption
  <1>1. ASSUME NEW c \in Conns, Client(c) PROVE WorkerTypes'
    BY <1>1 DEF Client, Connect, SendMessage, Leave, WorkerTypes, ringVars, appVars
  <1>2. ASSUME NEW c \in Conns, KernelStep(c) PROVE WorkerTypes'
    <2>1. CASE KernelAccepts(c)
      BY <2>1 DEF KernelAccepts, WorkerTypes, appVars
    <2>2. CASE KernelRecvData(c)
      BY <2>2 DEF KernelRecvData, KernelRecv, WorkerTypes, appVars
    <2>3. CASE KernelRecvEnd(c) \/ KernelRecvNoBuffer(c)
      BY <2>3 DEF KernelRecvEnd, KernelRecvNoBuffer, KernelRecv, WorkerTypes, appVars
    <2>4. CASE KernelRecvParks(c)
      BY <2>4 DEF KernelRecvParks, WorkerTypes, netVars, appVars
    <2> QED BY <1>2, <2>1, <2>2, <2>3, <2>4 DEF KernelStep
  <1>3. CASE Submit
    BY <1>3 DEF Submit, Ring!TypeOK, Ring!Ops, WorkerTypes, outside, netVars,
      appVars, Range
  <1>4. CASE \/ WaitReturns \/ WaitInterrupted \/ DrainDone \/ AcceptNull
             \/ KernelAcceptFails \/ UNCHANGED vars
    BY <1>4 DEF WaitReturns, WaitInterrupted, DrainDone, AcceptNull,
      KernelAcceptFails, WorkerTypes, outside, netVars, appVars, vars
  <1>5. ASSUME NEW c \in Conns, Coroutine(c) PROVE WorkerTypes'
    <2>1. CASE StartSession(c)
      BY <2>1 DEF StartSession, AddSession, OnConnected, Launches, CallersSuspend,
        WorkerTypes, netVars
    <2>2. CASE ReceiveData(c)
      BY <2>2 DEF ReceiveData, AskedAwaiter, WorkerTypes, netVars
    <2>3. CASE EndSession(c)
      BY <2>3 DEF EndSession, Disconnects, OnDisconnected, RemoveSession,
        WorkerTypes, netVars
    <2> QED BY <1>5, <2>1, <2>2, <2>3 DEF Coroutine
  <1> QED BY <1>1, <1>2, <1>3, <1>4, <1>5 DEF Next, Thread

(* The worker's sets, counters and queues have their types: in particular   *)
(* no more buffers are on offer than were registered.                       *)
THEOREM WorkerTypeCorrect == Spec => []TypeOK
  <1>1. Init => WorkerTypes
    BY SizesAssumption DEF Init, WorkerTypes, Registered
  <1>2. Ring!TypeOK /\ WorkerTypes => TypeOK
    BY SizesAssumption DEF WorkerTypes, TypeOK
  <1> QED BY <1>1, <1>2, WorkerTypesNext, RingTypeCorrect, PTL DEF Spec

-----------------------------------------------------------------------------
(* The session table.                                                       *)

(* A session is registered exactly while its coroutine is suspended on a    *)
(* recv.                                                                    *)
THEOREM TableCorrect == Spec => []TableMatchesCoroutines
  <1> USE ConnsAssumption
  <1>1. Init => TableMatchesCoroutines
    BY DEF Init, Ring!Init, TableMatchesCoroutines
  <1>2. ASSUME TableMatchesCoroutines, [Next]_vars
        PROVE  TableMatchesCoroutines'
    <2>1. ASSUME NEW c \in Conns, StartSession(c) PROVE TableMatchesCoroutines'
      BY <1>2, <2>1 DEF StartSession, AddSession, OnConnected, Launches,
        Ring!Starts, TableMatchesCoroutines
    <2>2. ASSUME NEW c \in Conns, EndSession(c) PROVE TableMatchesCoroutines'
      BY <1>2, <2>2 DEF EndSession, Disconnects, OnDisconnected, RemoveSession,
        Ring!Ends, TableMatchesCoroutines
    <2>3. ASSUME NEW c \in Conns, ReceiveData(c) PROVE TableMatchesCoroutines'
      BY <1>2, <2>3 DEF ReceiveData, Ring!Rearms, TableMatchesCoroutines
    <2>4. ASSUME UNCHANGED <<sessions, connected, waiting>>
          PROVE  TableMatchesCoroutines'
      BY <1>2, <2>4 DEF TableMatchesCoroutines
    <2>5. CASE Submit \/ WaitReturns \/ WaitInterrupted \/ DrainDone \/ AcceptNull
      BY <2>4, <2>5 DEF Submit, WaitReturns, WaitInterrupted, DrainDone, AcceptNull,
        Ring!Submit, Ring!WaitReturns, Ring!WaitInterrupted, Ring!DrainDone,
        Ring!Stays, outside, appVars
    <2>6. ASSUME NEW c \in Conns, Client(c) \/ KernelStep(c)
          PROVE  TableMatchesCoroutines'
      BY <2>4, <2>6 DEF Client, Connect, SendMessage, Leave, KernelStep,
        KernelAccepts, KernelRecvData, KernelRecvEnd, KernelRecvNoBuffer,
        KernelRecvParks, KernelRecv, Ring!Complete, appVars, ringVars
    <2>7. CASE KernelAcceptFails
      BY <2>4, <2>7 DEF KernelAcceptFails, Ring!Complete, appVars
    <2>8. CASE UNCHANGED vars
      BY <2>4, <2>8 DEF vars, ringVars, appVars
    <2> QED BY <1>2, <2>1, <2>2, <2>3, <2>5, <2>6, <2>7, <2>8
            DEF Next, Thread, Coroutine
  <1> QED BY <1>1, <1>2, PTL DEF Spec

-----------------------------------------------------------------------------
(* Accepted connections.                                                    *)

(* The completions that carry a client carry different clients.             *)
AcceptsDistinct ==
  \A i, j \in DOMAIN cq :
    /\ cq[i].op = Listener /\ cq[j].op = Listener
    /\ cq[i].res = cq[j].res /\ cq[i].res \in Conns
    => i = j

(* A client is in the accept queue before its descriptor exists, and in     *)
(* neither before it connected.                                             *)
QueuedOrOpen ==
  /\ peer \in [Conns -> {"away", "up", "fin", "rst"}]
  /\ backlog \cap open = {}
  /\ \A c \in Conns : peer[c] = "away" => c \notin backlog \cup open

(* A suspended session was started by its handler, which never goes away:   *)
(* so a session that ends leaves its descriptor open.                       *)
ServedByHandler == /\ waiting \cap Conns \subseteq handlers
                   /\ handlers \subseteq Conns

AcceptInv ==
  /\ cq \in Seq(Ring!CQE)
  /\ AcceptsDistinct
  /\ QueuedOrOpen
  /\ ServedByHandler
  /\ AcceptedOnce

(* The elements of a non-empty sequence are its head and those of its tail. *)
LEMMA TailElements ==
  ASSUME NEW S, NEW s \in Seq(S), s # <<>>
  PROVE  /\ Tail(s) \in Seq(S)
         /\ Head(s) = s[1] /\ 1 \in DOMAIN s
         /\ \A i \in DOMAIN Tail(s) : /\ i + 1 \in DOMAIN s
                                      /\ i + 1 # 1
                                      /\ Tail(s)[i] = s[i + 1]
         /\ \A i, j \in DOMAIN Tail(s) : i + 1 = j + 1 => i = j
         /\ \A i \in DOMAIN s :
              i = 1 \/ (i - 1 \in DOMAIN Tail(s) /\ Tail(s)[i - 1] = s[i])
  OBVIOUS

(* Seeing the head completion takes the client it carries, and no other,    *)
(* off those that wait for their handler.                                   *)
LEMMA SeeAccept ==
  ASSUME AcceptInv, NEW o \in Conns \cup {Listener}, Ring!SeeHead(o)
  PROVE  /\ cq' \in Seq(Ring!CQE)
         /\ AcceptsDistinct'
         /\ \A c \in Conns : AcceptPending(c)' <=>
              AcceptPending(c) /\ ~(o = Listener /\ Head(cq).res = c)
  <1>1. /\ cq \in Seq(Ring!CQE) /\ cq # <<>> /\ cq' = Tail(cq)
        /\ Head(cq).op = o
    BY DEF AcceptInv, Ring!SeeHead, Ring!Seen
  <1>2. /\ cq' \in Seq(Ring!CQE)
        /\ Head(cq) = cq[1] /\ 1 \in DOMAIN cq
        /\ \A i \in DOMAIN cq' : /\ i + 1 \in DOMAIN cq
                                 /\ i + 1 # 1
                                 /\ cq'[i] = cq[i + 1]
        /\ \A i, j \in DOMAIN cq' : i + 1 = j + 1 => i = j
        /\ \A i \in DOMAIN cq : i = 1 \/ (i - 1 \in DOMAIN cq' /\ cq'[i - 1] = cq[i])
    BY <1>1, TailElements
  <1>3. AcceptsDistinct'
    <2>1. SUFFICES ASSUME NEW i \in DOMAIN cq', NEW j \in DOMAIN cq',
                          cq'[i].op = Listener, cq'[j].op = Listener,
                          cq'[i].res = cq'[j].res, cq'[i].res \in Conns
                   PROVE  i = j
      BY DEF AcceptsDistinct
    <2>2. /\ i + 1 \in DOMAIN cq /\ cq[i + 1] = cq'[i]
          /\ j + 1 \in DOMAIN cq /\ cq[j + 1] = cq'[j]
      BY <1>2
    <2>3. i + 1 = j + 1
      BY <2>1, <2>2 DEF AcceptInv, AcceptsDistinct
    <2> QED BY <1>2, <2>3
  <1>4. ASSUME NEW c \in Conns
        PROVE  AcceptPending(c)' <=>
                 AcceptPending(c) /\ ~(o = Listener /\ Head(cq).res = c)
    <2>1. AcceptPending(c)' => AcceptPending(c)
      BY <1>2 DEF AcceptPending
    <2>2. o = Listener /\ Head(cq).res = c => ~AcceptPending(c)'
      BY <1>1, <1>2 DEF AcceptPending, AcceptInv, AcceptsDistinct
    <2>3. AcceptPending(c) /\ ~(o = Listener /\ Head(cq).res = c)
            => AcceptPending(c)'
      <3>1. SUFFICES ASSUME NEW i \in DOMAIN cq,
                            cq[i].op = Listener, cq[i].res = c,
                            ~(o = Listener /\ Head(cq).res = c)
                     PROVE  AcceptPending(c)'
        BY DEF AcceptPending
      <3>2. i # 1
        BY <1>1, <1>2, <3>1
      <3> QED BY <1>2, <3>1, <3>2 DEF AcceptPending
    <2> QED BY <2>1, <2>2, <2>3
  <1> QED BY <1>2, <1>3, <1>4

(* A new completion adds the client it carries, if it is an accept's.       *)
LEMMA CompleteAccept ==
  ASSUME AcceptInv, NEW o \in Conns \cup {Listener}, NEW r \in Results,
         NEW more \in BOOLEAN, Ring!Complete(o, r, more)
  PROVE  /\ cq' \in Seq(Ring!CQE)
         /\ \A c \in Conns : AcceptPending(c)' <=>
              AcceptPending(c) \/ (o = Listener /\ r = c)
         /\ (o = Listener /\ r \in Conns => ~AcceptPending(r))
              => AcceptsDistinct'
  <1> DEFINE e == [op |-> o, res |-> r, more |-> more]
  <1>1. e \in Ring!CQE /\ e.op = o /\ e.res = r
    BY DEF Ring!CQE, Ring!Ops
  <1>2. cq \in Seq(Ring!CQE) /\ cq' = Append(cq, e)
    BY DEF AcceptInv, Ring!Complete
  <1> HIDE DEF e
  <1>3. /\ cq' \in Seq(Ring!CQE)
        /\ DOMAIN cq' = DOMAIN cq \cup {Len(cq) + 1}
        /\ Len(cq) + 1 \notin DOMAIN cq
        /\ \A i \in DOMAIN cq : cq'[i] = cq[i]
        /\ cq'[Len(cq) + 1] = e
    BY <1>1, <1>2
  <1>4. \A c \in Conns : AcceptPending(c)' <=>
          AcceptPending(c) \/ (o = Listener /\ r = c)
    BY <1>1, <1>3 DEF AcceptPending
  <1>5. (o = Listener /\ r \in Conns => ~AcceptPending(r)) => AcceptsDistinct'
    BY <1>1, <1>3 DEF AcceptPending, AcceptInv, AcceptsDistinct
  <1> QED BY <1>3, <1>4, <1>5

LEMMA AcceptInvInit == Init => AcceptInv
  <1> SUFFICES ASSUME Init PROVE AcceptInv
    OBVIOUS
  <1>1. cq = <<>> /\ waiting = {Listener}
    BY DEF Init, Ring!Init
  <1>2. cq \in Seq(Ring!CQE) /\ AcceptsDistinct /\ \A c \in Conns : ~AcceptPending(c)
    BY <1>1 DEF AcceptsDistinct, AcceptPending
  <1>3. QueuedOrOpen
    BY DEF Init, QueuedOrOpen
  <1>4. ServedByHandler
    BY <1>1, ConnsAssumption DEF Init, ServedByHandler
  <1>5. AcceptedOnce
    BY <1>2 DEF Init, AcceptedOnce
  <1> QED BY <1>2, <1>3, <1>4, <1>5 DEF AcceptInv

LEMMA AcceptInvNext ==
  ASSUME AcceptInv, Ring!NoDanglingResume, [Next]_vars
  PROVE  AcceptInv'
  <1> USE ConnsAssumption
  <1>1. ASSUME UNCHANGED <<cq, open, handlers, waiting, backlog, peer>>
        PROVE  AcceptInv'
    BY <1>1 DEF AcceptInv, AcceptsDistinct, QueuedOrOpen, ServedByHandler,
      AcceptedOnce, AcceptPending
  <1>2. ASSUME NEW c \in Conns, Client(c) PROVE AcceptInv'
    <2>1. UNCHANGED <<cq, open, handlers, waiting>>
      BY <1>2 DEF Client, Connect, SendMessage, Leave, ringVars, appVars
    <2>2. QueuedOrOpen'
      BY <1>2 DEF Client, Connect, SendMessage, Leave, AcceptInv, QueuedOrOpen
    <2> QED BY <2>1, <2>2 DEF AcceptInv, AcceptsDistinct, ServedByHandler,
              AcceptedOnce, AcceptPending
  <1>3. ASSUME NEW c \in Conns, KernelAccepts(c) PROVE AcceptInv'
    <2>1. c \in backlog /\ c \notin open /\ peer[c] # "away"
      BY <1>3 DEF KernelAccepts, AcceptInv, QueuedOrOpen
    <2>2. ~AcceptPending(c) /\ c \notin handlers
      BY <2>1 DEF AcceptInv, AcceptedOnce
    <2>3. Ring!Complete(Listener, c, Len(cq) < CqSize) /\ c \in Results
          /\ (Len(cq) < CqSize) \in BOOLEAN
      BY <1>3 DEF KernelAccepts, Results
    <2>4. /\ cq' \in Seq(Ring!CQE) /\ AcceptsDistinct'
          /\ \A d \in Conns : AcceptPending(d)' <=> AcceptPending(d) \/ d = c
      BY <2>2, <2>3, CompleteAccept
    <2>5. UNCHANGED <<handlers, waiting, peer>>
          /\ backlog' = backlog \ {c} /\ open' = open \cup {c}
      BY <1>3 DEF KernelAccepts, Ring!Complete, appVars
    <2>6. QueuedOrOpen' /\ ServedByHandler'
      BY <2>1, <2>5 DEF AcceptInv, QueuedOrOpen, ServedByHandler
    <2>7. AcceptedOnce'
      <3>1. open' = handlers' \cup {d \in Conns : AcceptPending(d)'}
        BY <2>4, <2>5 DEF AcceptInv, AcceptedOnce
      <3>2. \A d \in handlers' : ~AcceptPending(d)'
        BY <2>2, <2>4, <2>5 DEF AcceptInv, AcceptedOnce, ServedByHandler
      <3> QED BY <3>1, <3>2 DEF AcceptedOnce
    <2> QED BY <2>4, <2>6, <2>7 DEF AcceptInv
  <1>4. ASSUME NEW o \in Conns \cup {Listener}, NEW r \in Results,
               NEW more \in BOOLEAN, Ring!Complete(o, r, more),
               o = Listener => r \notin Conns,
               UNCHANGED <<open, handlers, backlog, peer>>
        PROVE  AcceptInv'
    <2>1. /\ cq' \in Seq(Ring!CQE) /\ AcceptsDistinct'
          /\ \A d \in Conns : AcceptPending(d)' <=> AcceptPending(d)
      BY <1>4, CompleteAccept
    <2>2. UNCHANGED waiting
      BY <1>4 DEF Ring!Complete
    <2> QED BY <1>4, <2>1, <2>2
            DEF AcceptInv, QueuedOrOpen, ServedByHandler, AcceptedOnce
  <1>5. ASSUME NEW c \in Conns, KernelStep(c), ~KernelAccepts(c) PROVE AcceptInv'
    <2>1. ASSUME NEW r \in {"data", "eof", "error"}, KernelRecv(c, r)
          PROVE  AcceptInv'
      BY <1>4, <2>1 DEF KernelRecv, Results, appVars
    <2>2. CASE KernelRecvParks(c)
      BY <1>1, <2>2 DEF KernelRecvParks, ringVars, netVars, appVars
    <2> QED BY <1>5, <2>1, <2>2 DEF KernelStep, KernelRecvData, KernelRecvEnd,
              KernelRecvNoBuffer
  <1>6. CASE KernelAcceptFails
    BY <1>4, <1>6 DEF KernelAcceptFails, Results, netVars, appVars
  <1>7. CASE Submit \/ WaitReturns \/ WaitInterrupted \/ DrainDone
    BY <1>1, <1>7 DEF Submit, WaitReturns, WaitInterrupted, DrainDone,
      Ring!Submit, Ring!WaitReturns, Ring!WaitInterrupted, Ring!DrainDone,
      outside, netVars, appVars
  <1>8. ASSUME NEW o \in Conns \cup {Listener}, Ring!SeeHead(o),
               o = Listener => Head(cq).res \notin Conns,
               UNCHANGED <<open, handlers, backlog, peer>>,
               waiting' \subseteq waiting
        PROVE  AcceptInv'
    <2>1. /\ cq' \in Seq(Ring!CQE) /\ AcceptsDistinct'
          /\ \A d \in Conns : AcceptPending(d)' <=> AcceptPending(d)
      BY <1>8, SeeAccept
    <2> QED BY <1>8, <2>1
            DEF AcceptInv, QueuedOrOpen, ServedByHandler, AcceptedOnce
  <1>9. CASE AcceptNull
    BY <1>8, <1>9 DEF AcceptNull, Ring!Stays, outside, netVars, appVars
  <1>10. ASSUME NEW c \in Conns, StartSession(c) PROVE AcceptInv'
    <2>1. /\ cq' \in Seq(Ring!CQE) /\ AcceptsDistinct'
          /\ \A d \in Conns : AcceptPending(d)' <=> AcceptPending(d) /\ d # c
      BY <1>10, SeeAccept DEF StartSession
    <2>2. AcceptPending(c)
      BY <1>10 DEF StartSession, AcceptPending, Ring!SeeHead, AcceptInv
    <2>3. /\ UNCHANGED <<open, backlog, peer>>
          /\ handlers' = handlers \cup {c}
          /\ waiting' = waiting \cup {c}
      BY <1>10 DEF StartSession, Launches, CallersSuspend, Ring!Starts, netVars
    <2> QED BY <2>1, <2>2, <2>3
            DEF AcceptInv, QueuedOrOpen, ServedByHandler, AcceptedOnce
  <1>11. ASSUME NEW c \in Conns, ReceiveData(c) PROVE AcceptInv'
    BY <1>8, <1>11 DEF ReceiveData, Ring!Rearms, netVars
  <1>12. ASSUME NEW c \in Conns, EndSession(c) PROVE AcceptInv'
    <2>1. Ring!InCq(c)
      BY <1>12 DEF EndSession, Ring!SeeHead, Ring!InCq, AcceptInv
    <2>2. c \in handlers
      BY <2>1 DEF Ring!NoDanglingResume, Ring!Outstanding, Ring!Ops, AcceptInv,
        ServedByHandler
    <2>3. UNCHANGED <<open, handlers, backlog, peer>>
      BY <1>12, <2>2 DEF EndSession, Referenced, netVars
    <2> QED BY <1>8, <1>12, <2>3 DEF EndSession, Ring!Ends
  <1>13. CASE UNCHANGED vars
    BY <1>1, <1>13 DEF vars, ringVars, netVars, appVars
  <1> QED BY <1>2, <1>3, <1>5, <1>6, <1>7, <1>9, <1>10, <1>11, <1>12, <1>13
          DEF Next, Thread, Coroutine

(* A session coroutine that accept_clients is about to start is not running *)
(* already: the condition of EventLoop's Starts never holds a start back.   *)
LEMMA HandlerIsNew ==
  ASSUME AcceptInv, NEW c \in Conns, AcceptPending(c)
  PROVE  c \notin waiting
  BY DEF AcceptInv, AcceptedOnce, ServedByHandler

(* No accepted connection is forgotten, none is handled twice, and no       *)
(* descriptor is ever closed, whatever the clients do.                      *)
THEOREM AcceptedOnceCorrect == Spec => []AcceptedOnce
  <1>1. AcceptInv => AcceptedOnce
    BY DEF AcceptInv
  <1> QED BY <1>1, AcceptInvInit, AcceptInvNext, NoFreedSessionResumed, PTL DEF Spec

-----------------------------------------------------------------------------
(* Buffers.                                                                 *)

DataAt(s) == {i \in DOMAIN s : s[i].res = "data"}

LEMMA DataAtFinite ==
  ASSUME NEW S, NEW s \in Seq(S)
  PROVE  IsFiniteSet(DataAt(s)) /\ Cardinality(DataAt(s)) \in Nat
  <1>1. DOMAIN s = 1 .. Len(s) /\ Len(s) \in Nat
    OBVIOUS
  <1>2. IsFiniteSet(DOMAIN s)
    BY <1>1, FS_Interval
  <1>3. DataAt(s) \in SUBSET DOMAIN s
    BY DEF DataAt
  <1> QED BY <1>2, <1>3, FS_Subset, FS_CardinalityType

(* A completion more in the ring counts if it carries data ...              *)
LEMMA DataAtAppend ==
  ASSUME NEW S, NEW s \in Seq(S), NEW e \in S
  PROVE  Cardinality(DataAt(Append(s, e))) =
           Cardinality(DataAt(s)) + (IF e.res = "data" THEN 1 ELSE 0)
  <1>1. /\ DOMAIN Append(s, e) = DOMAIN s \cup {Len(s) + 1}
        /\ Len(s) + 1 \notin DOMAIN s
        /\ \A i \in DOMAIN s : Append(s, e)[i] = s[i]
        /\ Append(s, e)[Len(s) + 1] = e
    OBVIOUS
  <1>2. CASE e.res = "data"
    <2>1. DataAt(Append(s, e)) = DataAt(s) \cup {Len(s) + 1}
      BY <1>1, <1>2 DEF DataAt
    <2>2. Len(s) + 1 \notin DataAt(s)
      BY <1>1 DEF DataAt
    <2> QED BY <1>2, <2>1, <2>2, DataAtFinite, FS_AddElement
  <1>3. CASE e.res # "data"
    <2>1. DataAt(Append(s, e)) = DataAt(s)
      BY <1>1, <1>3 DEF DataAt
    <2> QED BY <1>3, <2>1, DataAtFinite
  <1> QED BY <1>2, <1>3

(* ... and the head no longer counts when it is seen.                       *)
LEMMA DataAtTail ==
  ASSUME NEW S, NEW s \in Seq(S), s # <<>>
  PROVE  Cardinality(DataAt(s)) =
           Cardinality(DataAt(Tail(s))) + (IF Head(s).res = "data" THEN 1 ELSE 0)
  <1> DEFINE f == [i \in DataAt(Tail(s)) |-> i + 1]
             R == DataAt(s) \ {1}
  <1>1. /\ Tail(s) \in Seq(S) /\ Head(s) = s[1] /\ 1 \in DOMAIN s
        /\ \A i \in DOMAIN Tail(s) : /\ i + 1 \in DOMAIN s
                                     /\ i + 1 # 1
                                     /\ Tail(s)[i] = s[i + 1]
        /\ \A i, j \in DOMAIN Tail(s) : i + 1 = j + 1 => i = j
        /\ \A i \in DOMAIN s :
             i = 1 \/ (i - 1 \in DOMAIN Tail(s) /\ Tail(s)[i - 1] = s[i])
    BY TailElements
  <1>2. f \in Bijection(DataAt(Tail(s)), R)
    <2>1. \A i \in DataAt(Tail(s)) : i + 1 \in R
      BY <1>1 DEF DataAt
    <2>2. f \in [DataAt(Tail(s)) -> R]
      BY <2>1
    <2>3. \A i, j \in DataAt(Tail(s)) : f[i] = f[j] => i = j
      BY <1>1 DEF DataAt
    <2>4. \A k \in R : k - 1 \in DataAt(Tail(s)) /\ (k - 1) + 1 = k
      BY <1>1 DEF DataAt
    <2>5. \A k \in R : \E i \in DataAt(Tail(s)) : f[i] = k
      BY <2>4
    <2> QED BY <2>2, <2>3, <2>5 DEF Bijection, Injection, Surjection, IsInjective
  <1>3. Cardinality(R) = Cardinality(DataAt(Tail(s)))
    <2>1. IsFiniteSet(DataAt(Tail(s)))
      BY <1>1, DataAtFinite
    <2>2. ExistsBijection(DataAt(Tail(s)), R)
      BY <1>2 DEF ExistsBijection
    <2> HIDE DEF R
    <2> QED BY <2>1, <2>2, FS_Bijection
  <1>4. Cardinality(R) = IF 1 \in DataAt(s) THEN Cardinality(DataAt(s)) - 1
                                            ELSE Cardinality(DataAt(s))
    BY DataAtFinite, FS_RemoveElement
  <1>5. 1 \in DataAt(s) <=> Head(s).res = "data"
    BY <1>1 DEF DataAt
  <1>6. Cardinality(DataAt(s)) \in Nat /\ Cardinality(DataAt(Tail(s))) \in Nat
    BY <1>1, DataAtFinite
  <1> QED BY <1>3, <1>4, <1>5, <1>6

(* Over its whole life a worker completes as many receives as it has        *)
(* buffers: one that was filled is never offered again.                     *)
THEOREM ReceiveBudgetKept == Spec => []ReceiveBudget
  <1> USE SizesAssumption, ConnsAssumption
  <1>1. Init => ReceiveBudget
    <2>1. DataAt(<<>>) = {}
      BY DEF DataAt
    <2> QED BY <2>1, FS_EmptySet
            DEF Init, Ring!Init, ReceiveBudget, DataPending, DataAt, Registered
  <1>2. ASSUME TypeOK, ReceiveBudget, [Next]_vars PROVE ReceiveBudget'
    <2> DEFINE n == Cardinality(DataAt(cq))
    <2>1. cq \in Seq(Ring!CQE) /\ offered \in Nat /\ received \in Nat /\ n \in Nat
      BY <1>2, DataAtFinite DEF TypeOK, Ring!TypeOK
    <2>2. DataPending = n /\ DataPending' = n' /\ offered + n + received = NumBufs
      BY <1>2 DEF DataPending, DataAt, ReceiveBudget
    <2> HIDE DEF n
    <2>3. ASSUME UNCHANGED <<cq, offered, received>> PROVE ReceiveBudget'
      BY <2>2, <2>3 DEF ReceiveBudget, n
    <2>4. ASSUME NEW o \in Conns \cup {Listener}, NEW r \in Results,
                 NEW more \in BOOLEAN, Ring!Complete(o, r, more)
          PROVE  n' = IF r = "data" THEN n + 1 ELSE n
      <3>1. [op |-> o, res |-> r, more |-> more] \in Ring!CQE
        BY DEF Ring!CQE, Ring!Ops
      <3>2. n' = n + (IF r = "data" THEN 1 ELSE 0)
        BY <2>1, <2>4, <3>1, DataAtAppend DEF Ring!Complete, n
      <3> QED BY <2>1, <3>2
    <2>5. ASSUME NEW o \in Conns \cup {Listener}, Ring!SeeHead(o)
          PROVE  n = n' + (IF Head(cq).res = "data" THEN 1 ELSE 0) /\ n' \in Nat
      <3>1. n = n' + (IF Head(cq).res = "data" THEN 1 ELSE 0)
        BY <2>1, <2>5, DataAtTail DEF Ring!SeeHead, Ring!Seen, n
      <3>2. n' \in Nat
        BY <2>1, <2>5, DataAtFinite, TailElements DEF Ring!SeeHead, Ring!Seen, n
      <3> QED BY <3>1, <3>2
    <2>6. ASSUME NEW c \in Conns, Client(c) PROVE ReceiveBudget'
      BY <2>3, <2>6 DEF Client, Connect, SendMessage, Leave, ringVars, appVars
    <2>7. ASSUME NEW c \in Conns, KernelStep(c) PROVE ReceiveBudget'
      <3>1. CASE KernelAccepts(c)
        <4>1. c \in Results /\ c # "data" /\ (Len(cq) < CqSize) \in BOOLEAN
          BY DEF Results
        <4>2. n' = n /\ UNCHANGED <<offered, received>>
          BY <2>1, <2>4, <3>1, <4>1 DEF KernelAccepts, appVars
        <4> QED BY <2>2, <4>2 DEF ReceiveBudget
      <3>2. CASE KernelRecvData(c)
        <4>1. n' = n + 1
          BY <2>4, <3>2 DEF KernelRecvData, KernelRecv, Results
        <4>2. offered' = offered - 1 /\ UNCHANGED received
          BY <3>2 DEF KernelRecvData, KernelRecv, appVars
        <4> QED BY <2>1, <2>2, <4>1, <4>2 DEF ReceiveBudget
      <3>3. CASE KernelRecvEnd(c) \/ KernelRecvNoBuffer(c)
        <4>1. PICK r \in {"eof", "error"} : KernelRecv(c, r)
          BY <3>3 DEF KernelRecvEnd, KernelRecvNoBuffer
        <4>2. n' = n
          BY <2>1, <2>4, <4>1 DEF KernelRecv, Results
        <4>3. UNCHANGED <<offered, received>>
          BY <3>3 DEF KernelRecvEnd, KernelRecvNoBuffer, KernelRecv, appVars
        <4> QED BY <2>2, <4>2, <4>3 DEF ReceiveBudget
      <3>4. CASE KernelRecvParks(c)
        BY <2>3, <3>4 DEF KernelRecvParks, ringVars, appVars
      <3> QED BY <2>7, <3>1, <3>2, <3>3, <3>4 DEF KernelStep
    <2>8. CASE KernelAcceptFails
      <3>1. n' = n
        <4>1. Ring!Complete(Listener, "error", FALSE) /\ "error" \in Results
          BY <2>8 DEF KernelAcceptFails, Results
        <4> QED BY <2>4, <4>1
      <3>2. UNCHANGED <<offered, received>>
        BY <2>8 DEF KernelAcceptFails, appVars
      <3> QED BY <2>2, <3>1, <3>2 DEF ReceiveBudget
    <2>9. CASE Submit \/ WaitReturns \/ WaitInterrupted \/ DrainDone
      BY <2>3, <2>9 DEF Submit, WaitReturns, WaitInterrupted, DrainDone,
        Ring!Submit, Ring!WaitReturns, Ring!WaitInterrupted, Ring!DrainDone,
        outside, appVars
    <2>10. CASE AcceptNull
      <3>1. n' = n /\ UNCHANGED <<offered, received>>
        BY <2>1, <2>5, <2>10 DEF AcceptNull, outside, appVars
      <3> QED BY <2>2, <3>1 DEF ReceiveBudget
    <2>11. ASSUME NEW c \in Conns, StartSession(c) \/ EndSession(c)
           PROVE  ReceiveBudget'
      <3>1. n' = n /\ UNCHANGED <<offered, received>>
        BY <2>1, <2>5, <2>11 DEF StartSession, EndSession
      <3> QED BY <2>2, <3>1 DEF ReceiveBudget
    <2>12. ASSUME NEW c \in Conns, ReceiveData(c) PROVE ReceiveBudget'
      <3>1. n = n' + 1 /\ n' \in Nat
        BY <2>5, <2>12 DEF ReceiveData
      <3>2. received' = received + 1 /\ UNCHANGED offered
        BY <2>12 DEF ReceiveData, AskedAwaiter
      <3> QED BY <2>1, <2>2, <3>1, <3>2 DEF ReceiveBudget
    <2>13. CASE UNCHANGED vars
      BY <2>3, <2>13 DEF vars, ringVars, appVars
    <2> QED BY <1>2, <2>6, <2>7, <2>8, <2>9, <2>10, <2>11, <2>12, <2>13
            DEF Next, Thread, Coroutine
  <1> QED BY <1>1, <1>2, WorkerTypeCorrect, PTL DEF Spec

(* OnRecvData has not been called.                                          *)
NoneHanded == handed = 0

(* The new awaiter that HandleSession asks has no size (AskedAwaiter), so   *)
(* no data ever reaches OnRecvData, and what a worker receives in all is    *)
(* bounded by its buffers.                                                  *)
THEOREM NothingHandedOver == Spec => [](handed = 0 /\ received <= NumBufs)
  <1>1. TypeOK /\ ReceiveBudget => received <= NumBufs
    <2> SUFFICES ASSUME TypeOK, ReceiveBudget PROVE received <= NumBufs
      OBVIOUS
    <2>1. cq \in Seq(Ring!CQE) /\ offered \in Nat /\ received \in Nat
      BY SizesAssumption DEF TypeOK, Ring!TypeOK
    <2>2. Cardinality(DataAt(cq)) \in Nat
      BY <2>1, DataAtFinite
    <2>3. offered + Cardinality(DataAt(cq)) + received = NumBufs
      BY DEF ReceiveBudget, DataPending, DataAt
    <2> QED BY <2>1, <2>2, <2>3
  <1>2. ASSUME NoneHanded, [Next]_vars PROVE NoneHanded'
    <2>1. ASSUME NEW c \in Conns, Coroutine(c) PROVE handed' = handed
      BY <2>1 DEF Coroutine, StartSession, ReceiveData, EndSession, AskedAwaiter
    <2>2. ASSUME NEW c \in Conns, Client(c) \/ KernelStep(c) PROVE handed' = handed
      BY <2>2 DEF Client, Connect, SendMessage, Leave, KernelStep, KernelAccepts, KernelRecvData,
                  KernelRecvEnd, KernelRecvNoBuffer, KernelRecvParks, KernelRecv, appVars
    <2>3. ASSUME UNCHANGED outside PROVE handed' = handed
      BY <2>3 DEF outside, appVars
    <2>4. ASSUME Submit \/ WaitReturns \/ DrainDone \/ AcceptNull \/ WaitInterrupted
          PROVE  handed' = handed
      BY <2>3, <2>4 DEF Submit, WaitReturns, DrainDone, AcceptNull, WaitInterrupted
    <2>5. ASSUME KernelAcceptFails \/ UNCHANGED vars PROVE handed' = handed
      BY <2>5 DEF KernelAcceptFails, appVars, vars
    <2>6. handed' = handed
      BY <1>2, <2>1, <2>2, <2>4, <2>5 DEF Next, Thread
    <2> QED BY <1>2, <2>6 DEF NoneHanded
  <1>3. Init => NoneHanded
    BY DEF Init, NoneHanded
  <1>4. NoneHanded <=> handed = 0
    BY DEF NoneHanded
  <1> QED BY <1>1, <1>2, <1>3, <1>4, WorkerTypeCorrect, ReceiveBudgetKept, PTL DEF Spec

-----------------------------------------------------------------------------
(* The accept request, once it has ended.                                   *)

LEMMA PushOfSession ==
  ASSUME sq \in Seq(Ring!Ops), NEW c \in Conns, Listener \notin Range(sq)
  PROVE  Listener \notin Range(Ring!Push(sq, c))
  <1>1. CASE Ring!Push(sq, c) = sq
    BY <1>1
  <1>2. CASE Ring!Push(sq, c) = Append(sq, c)
    <2>1. /\ DOMAIN sq = 1 .. Len(sq) /\ DOMAIN Append(sq, c) = 1 .. Len(sq) + 1
          /\ \A i \in 1 .. Len(sq) : Append(sq, c)[i] = sq[i]
          /\ Append(sq, c)[Len(sq) + 1] = c
          /\ Len(sq) \in Nat
      BY DEF Ring!Ops
    <2>2. c # Listener
      BY ConnsAssumption
    <2>3. \A i \in 1 .. Len(sq) + 1 : i \in 1 .. Len(sq) \/ i = Len(sq) + 1
      BY <2>1
    <2>4. \A i \in 1 .. Len(sq) : sq[i] # Listener
      BY <2>1 DEF Range
    <2> QED BY <1>2, <2>1, <2>2, <2>3, <2>4 DEF Range
  <1> QED BY <1>1, <1>2 DEF Ring!Push

(* No step of the thread, the kernel or a client prepares the accept        *)
(* request again, and only the request takes a client out of the queue.     *)
LEMMA NothingAsksAgain ==
  Ring!TypeOK /\ AcceptLost /\ [Next]_vars => AcceptLost' /\ backlog \subseteq backlog'
  <1> SUFFICES ASSUME Ring!TypeOK, AcceptLost, [Next]_vars
               PROVE  AcceptLost' /\ backlog \subseteq backlog'
    OBVIOUS
  <1>0. /\ sq \in Seq(Ring!Ops) /\ Listener \notin armed /\ Listener \notin Range(sq)
    BY DEF Ring!TypeOK, AcceptLost
  <1>1. ASSUME UNCHANGED <<sq, backlog>>, armed' \subseteq armed
        PROVE  AcceptLost' /\ backlog \subseteq backlog'
    BY <1>0, <1>1 DEF AcceptLost
  <1>2. ASSUME NEW c \in Conns, Client(c) PROVE AcceptLost' /\ backlog \subseteq backlog'
    BY <1>0, <1>2 DEF Client, Connect, SendMessage, Leave, ringVars, AcceptLost
  <1>3. ASSUME NEW c \in Conns, KernelStep(c)
        PROVE  AcceptLost' /\ backlog \subseteq backlog'
    <2>1. ~KernelAccepts(c)
      BY <1>0 DEF KernelAccepts, Ring!Complete
    <2> QED BY <1>1, <1>3, <2>1 DEF KernelStep, KernelRecvData, KernelRecvEnd,
              KernelRecvNoBuffer, KernelRecvParks, KernelRecv, Ring!Complete,
              ringVars, netVars
  <1>4. ~KernelAcceptFails
    BY <1>0 DEF KernelAcceptFails, Ring!Complete
  <1>5. CASE Submit
    <2>1. sq' = <<>> /\ armed' = armed \cup Range(sq) /\ backlog' = backlog
      BY <1>5 DEF Submit, Ring!Submit, outside, netVars, Range, Ring!Range
    <2>2. Range(sq') = {}
      BY <2>1 DEF Range
    <2> QED BY <1>0, <2>1, <2>2 DEF AcceptLost
  <1>6. CASE WaitReturns \/ WaitInterrupted \/ DrainDone \/ AcceptNull
    BY <1>1, <1>6 DEF WaitReturns, WaitInterrupted, DrainDone, AcceptNull, Ring!WaitReturns,
       Ring!WaitInterrupted, Ring!DrainDone, Ring!SeeHead, Ring!Stays, outside, netVars
  <1>7. ASSUME NEW c \in Conns, Coroutine(c)
        PROVE  AcceptLost' /\ backlog \subseteq backlog'
    <2>1. backlog' = backlog /\ armed' = armed
      BY <1>7 DEF Coroutine, StartSession, ReceiveData, EndSession, Ring!SeeHead, netVars
    <2>2. sq' = sq \/ sq' = Ring!Push(sq, c)
      BY <1>7 DEF Coroutine, StartSession, ReceiveData, EndSession, Launches, Ring!Starts,
         Ring!Rearms, Ring!Ends
    <2> QED BY <1>0, <2>1, <2>2, PushOfSession DEF AcceptLost
  <1>8. CASE UNCHANGED vars
    BY <1>1, <1>8 DEF vars, ringVars, netVars
  <1> QED BY <1>2, <1>3, <1>4, <1>5, <1>6, <1>7, <1>8 DEF Next, Thread

(* For any number of clients, descriptors and completion entries: once the  *)
(* multishot accept has ended this worker accepts nobody any more.          *)
THEOREM NobodyAcceptedAgain == Spec => AcceptLostForGood
  BY RingTypeCorrect, NothingAsksAgain, PTL DEF Spec, AcceptLostForGood
=============================================================================
