---------------------------- MODULE EventLoopProofs ----------------------------
(***************************************************************************)
(* What holds of the event loop for any number of sessions, any queue size *)
(* and any order of completions.                                           *)
(***************************************************************************)
EXTENDS EventLoop, FiniteSetTheorems, TLAPS

(* The three invariants hold together or not at all: a completion resumes a *)
(* live frame because its operation was in one place only, and it is in one *)
(* place only because the frame it belongs to had nothing else outstanding. *)
IInv == TypeOK /\ OneOutstanding /\ NoDanglingResume

(* The accept request is prepared before eventLoop is entered, and never    *)
(* again: it is not in the queue when a coroutine runs.                     *)
AcceptGoesFirst == InSq(Listener) => loop = "submit"

-----------------------------------------------------------------------------
(* Sequences as queues.                                                     *)

(* Push adds the operation at the end, or leaves the full queue as it is.   *)
LEMMA PushProperties ==
  ASSUME NEW s \in Seq(Ops), NEW o \in Ops
  PROVE  /\ Push(s, o) \in Seq(Ops)
         /\ Push(s, o) = s \/ Push(s, o) = Append(s, o)
  BY SqSizeAssumption DEF Push

(* The elements of a sequence after Append.                                 *)
LEMMA AppendProperties ==
  ASSUME NEW S, NEW s \in Seq(S), NEW e \in S
  PROVE  /\ Append(s, e) \in Seq(S)
         /\ DOMAIN Append(s, e) = DOMAIN s \cup {Len(s) + 1}
         /\ Len(s) + 1 \notin DOMAIN s
         /\ \A i \in DOMAIN s : Append(s, e)[i] = s[i]
         /\ Append(s, e)[Len(s) + 1] = e
  OBVIOUS

(* The elements of a non-empty sequence after Tail.                         *)
LEMMA TailProperties ==
  ASSUME NEW S, NEW s \in Seq(S), s # <<>>
  PROVE  /\ Tail(s) \in Seq(S)
         /\ Head(s) = s[1] /\ Head(s) \in S /\ 1 \in DOMAIN s
         /\ \A i \in DOMAIN Tail(s) : /\ i + 1 \in DOMAIN s
                                      /\ i + 1 # 1
                                      /\ Tail(s)[i] = s[i + 1]
         /\ \A i, j \in DOMAIN Tail(s) : i + 1 = j + 1 => i = j
  OBVIOUS

-----------------------------------------------------------------------------
(* What a step does to the places an operation can be in.                   *)

(* An operation is among the completions after the head was seen only if it *)
(* was before; and if it is a recv it is then not the one that was seen.    *)
LEMMA SeeHeadEffect ==
  ASSUME IInv, NEW o \in Ops, SeeHead(o)
  PROVE  /\ cq' \in Seq(CQE)
         /\ InCq(o)
         /\ \A p \in Ops : InCq(p)' => InCq(p)
         /\ o \in Recvs => ~InCq(o)'
         /\ \A i, j \in DOMAIN cq' :
              cq'[i].op = cq'[j].op /\ cq'[i].op \in Recvs => i = j
  <1>1. /\ cq \in Seq(CQE) /\ cq # <<>> /\ cq' = Tail(cq) /\ Head(cq).op = o
    BY DEF IInv, TypeOK, SeeHead, Seen
  <1>2. /\ cq' \in Seq(CQE) /\ 1 \in DOMAIN cq /\ cq[1].op = o
        /\ \A i \in DOMAIN cq' : i + 1 \in DOMAIN cq /\ i + 1 # 1
                                 /\ cq'[i] = cq[i + 1]
        /\ \A i, j \in DOMAIN cq' : i + 1 = j + 1 => i = j
    BY <1>1, TailProperties
  <1>3. \A i, j \in DOMAIN cq : cq[i].op = cq[j].op /\ cq[i].op \in Recvs => i = j
    BY DEF IInv, OneOutstanding
  <1>4. InCq(o) /\ \A p \in Ops : InCq(p)' => InCq(p)
    BY <1>2 DEF InCq
  <1>5. o \in Recvs => ~InCq(o)'
    BY <1>2, <1>3 DEF InCq
  <1>6. \A i, j \in DOMAIN cq' :
          cq'[i].op = cq'[j].op /\ cq'[i].op \in Recvs => i = j
    BY <1>2, <1>3
  <1> QED BY <1>2, <1>4, <1>5, <1>6

(* A prepared request is one more in the queue, and the queue keeps holding *)
(* each operation once if the new one was not in it.                        *)
LEMMA PushEffect ==
  ASSUME sq \in Seq(Ops), NEW o \in Ops, sq' = Push(sq, o)
  PROVE  /\ sq' \in Seq(Ops)
         /\ \A p \in Ops : InSq(p)' => InSq(p) \/ p = o
         /\ ~InSq(o) /\ (\A i, j \in DOMAIN sq : sq[i] = sq[j] => i = j)
              => \A i, j \in DOMAIN sq' : sq'[i] = sq'[j] => i = j
  <1>1. CASE sq' = sq
    BY <1>1, PushProperties DEF InSq
  <1>2. CASE sq' = Append(sq, o)
    <2>1. /\ sq' \in Seq(Ops)
          /\ DOMAIN sq' = DOMAIN sq \cup {Len(sq) + 1}
          /\ Len(sq) + 1 \notin DOMAIN sq
          /\ \A i \in DOMAIN sq : sq'[i] = sq[i]
          /\ sq'[Len(sq) + 1] = o
      BY <1>2, AppendProperties
    <2>2. \A p \in Ops : InSq(p)' => InSq(p) \/ p = o
      BY <2>1 DEF InSq, Range
    <2>3. ~InSq(o) => \A i \in DOMAIN sq : sq[i] # o
      BY DEF InSq, Range
    <2> QED BY <2>1, <2>2, <2>3
  <1> QED BY <1>1, <1>2, PushProperties

(* A new completion is that of its operation.                               *)
LEMMA CompleteEffect ==
  ASSUME cq \in Seq(CQE), NEW o \in Ops, NEW r \in Results, NEW more \in BOOLEAN,
         Complete(o, r, more)
  PROVE  /\ cq' \in Seq(CQE)
         /\ \A p \in Ops : InCq(p)' => InCq(p) \/ p = o
         /\ (o \in Recvs => ~InCq(o))
            /\ (\A i, j \in DOMAIN cq :
                  cq[i].op = cq[j].op /\ cq[i].op \in Recvs => i = j)
              => \A i, j \in DOMAIN cq' :
                   cq'[i].op = cq'[j].op /\ cq'[i].op \in Recvs => i = j
  <1> DEFINE e == [op |-> o, res |-> r, more |-> more]
  <1>1. e \in CQE /\ e.op = o
    BY DEF CQE
  <1>2. /\ cq' = Append(cq, e)
        /\ cq' \in Seq(CQE)
        /\ DOMAIN cq' = DOMAIN cq \cup {Len(cq) + 1}
        /\ Len(cq) + 1 \notin DOMAIN cq
        /\ \A i \in DOMAIN cq : cq'[i] = cq[i]
        /\ cq'[Len(cq) + 1] = e
    BY <1>1, AppendProperties DEF Complete
  <1> HIDE DEF e
  <1>3. \A p \in Ops : InCq(p)' => InCq(p) \/ p = o
    BY <1>1, <1>2 DEF InCq
  <1>4. ASSUME o \in Recvs => ~InCq(o)
        PROVE  \A i \in DOMAIN cq : cq[i].op = o => o \notin Recvs
    BY <1>4 DEF InCq
  <1> QED BY <1>1, <1>2, <1>3, <1>4

-----------------------------------------------------------------------------
(* The invariant, one lemma per part of the next-state relation.            *)

LEMMA InitInvariant == Init => IInv
  <1> SUFFICES ASSUME Init PROVE IInv
    OBVIOUS
  <1>1. sq \in Seq(Ops) /\ Len(sq) = 1 /\ DOMAIN sq = {1} /\ sq[1] = Listener
    BY DEF Init, Ops
  <1>2. cq \in Seq(CQE) /\ DOMAIN cq = {}
    BY DEF Init
  <1>3. TypeOK
    BY <1>1, <1>2 DEF TypeOK, Init, Ops
  <1>4. \A o \in Ops : ~InCq(o) /\ o \notin armed /\ (InSq(o) => o = Listener)
    BY <1>1, <1>2 DEF InCq, InSq, Range, Init
  <1>5. OneOutstanding
    BY <1>1, <1>2, <1>4 DEF OneOutstanding, Ops
  <1>6. NoDanglingResume
    BY <1>4 DEF NoDanglingResume, Outstanding, Init
  <1> QED BY <1>3, <1>5, <1>6 DEF IInv

(* The kernel takes every prepared request at once.                         *)
LEMMA SubmitInvariant ==
  ASSUME IInv, Submit
  PROVE  IInv'
  <1> USE DEF IInv, Submit
  <1>1. sq' = <<>> /\ DOMAIN sq' = {} /\ cq' = cq /\ waiting' = waiting
    OBVIOUS
  <1>2. Range(sq) \in SUBSET Ops
    BY DEF TypeOK, Range
  <1>3. armed' \in SUBSET Ops /\ submitted' \in Nat
    BY <1>2 DEF TypeOK, Consumed
  <1>4. TypeOK'
    BY <1>1, <1>3 DEF TypeOK
  <1>5. \A o \in Ops : /\ ~InSq(o)'
                       /\ InCq(o)' <=> InCq(o)
                       /\ o \in armed' <=> o \in armed \/ InSq(o)
    BY <1>1 DEF InSq, InCq, Range
  <1>6. OneOutstanding'
    BY <1>1, <1>5 DEF OneOutstanding, Ops
  <1>7. NoDanglingResume'
    BY <1>1, <1>5 DEF NoDanglingResume, Outstanding
  <1> QED BY <1>4, <1>6, <1>7

(* Whatever the system call returns, and when the drain is over, nothing    *)
(* but the place in the loop changes.                                       *)
LEMMA LoopInvariant ==
  ASSUME IInv, UNCHANGED <<sq, armed, cq, submitted, waiting>>,
         loop' \in {"submit", "wait", "drain"}
  PROVE  IInv'
  BY DEF IInv, TypeOK, OneOutstanding, NoDanglingResume, Outstanding, InSq, InCq

(* A coroutine is resumed: its operation is nowhere in the ring any more,   *)
(* so that it may prepare it again or let its frame be freed.               *)
LEMMA ResumeInvariant ==
  ASSUME IInv, NEW o \in Ops, Resume(o)
  PROVE  IInv'
  <1>1. SeeHead(o) /\ armed' = armed /\ loop' = loop /\ submitted' = submitted
    BY DEF Resume, SeeHead
  <1>2. /\ cq' \in Seq(CQE)
        /\ InCq(o)
        /\ \A p \in Ops : InCq(p)' => InCq(p)
        /\ o \in Recvs => ~InCq(o)'
        /\ \A i, j \in DOMAIN cq' :
             cq'[i].op = cq'[j].op /\ cq'[i].op \in Recvs => i = j
    BY <1>1, SeeHeadEffect
  <1>3. /\ sq \in Seq(Ops) /\ waiting \in SUBSET Ops
        /\ armed \in SUBSET Ops /\ loop \in {"submit", "wait", "drain"}
        /\ submitted \in Nat
    BY DEF IInv, TypeOK
  <1>4. /\ \A i, j \in DOMAIN sq : sq[i] = sq[j] => i = j
        /\ \A p \in Ops : InSq(p) => p \notin armed /\ ~InCq(p)
        /\ \A p \in Recvs : p \in armed => ~InCq(p)
        /\ \A p \in Ops : InSq(p) \/ p \in armed \/ InCq(p) => p \in waiting
    BY DEF IInv, OneOutstanding, NoDanglingResume, Outstanding
  <1>5. o \in waiting /\ ~InSq(o) /\ (o \in Recvs => o \notin armed)
    BY <1>2, <1>4
  <1>6. CASE sq' = sq
    <2>1. \A p \in Ops : InSq(p)' <=> InSq(p)
      BY <1>6 DEF InSq
    <2>2. OneOutstanding'
      BY <1>1, <1>2, <1>4, <1>6, <2>1 DEF OneOutstanding, Ops
    <2>3. waiting' = waiting \/ (o \in Recvs /\ waiting' = waiting \ {o})
          \/ \E p \in Recvs : waiting' = waiting \cup {p}
      BY DEF Resume, Rearms, Ends, Starts, Stays
    <2>4. TypeOK'
      BY <1>1, <1>2, <1>3, <1>6, <2>3 DEF TypeOK, Ops
    <2>5. NoDanglingResume'
      BY <1>1, <1>2, <1>4, <1>5, <2>1, <2>3 DEF NoDanglingResume, Outstanding
    <2> QED BY <2>2, <2>4, <2>5 DEF IInv
  <1>7. ASSUME NEW p \in Recvs, sq' = Push(sq, p), waiting' = waiting \cup {p},
               ~InSq(p), p \notin armed, ~InCq(p)'
        PROVE  IInv'
    <2>1. p \in Ops
      BY DEF Ops
    <2>2. /\ sq' \in Seq(Ops)
          /\ \A q \in Ops : InSq(q)' => InSq(q) \/ q = p
          /\ \A i, j \in DOMAIN sq' : sq'[i] = sq'[j] => i = j
      BY <1>3, <1>4, <1>7, <2>1, PushEffect
    <2>3. TypeOK'
      BY <1>1, <1>2, <1>3, <1>7, <2>1, <2>2 DEF TypeOK
    <2>4. OneOutstanding'
      BY <1>1, <1>2, <1>4, <1>7, <2>2 DEF OneOutstanding, Ops
    <2>5. NoDanglingResume'
      BY <1>1, <1>2, <1>4, <1>7, <2>2 DEF NoDanglingResume, Outstanding
    <2> QED BY <2>3, <2>4, <2>5 DEF IInv
  <1>8. CASE o \in Recvs /\ Rearms(o)
    <2>1. waiting' = waiting \cup {o}
      BY <1>5, <1>8 DEF Rearms
    <2> QED BY <1>2, <1>5, <1>7, <1>8, <2>1 DEF Rearms
  <1>9. CASE o = Listener /\ \E p \in Recvs : Starts(p)
    <2>1. PICK p \in Recvs : Starts(p)
      BY <1>9
    <2>2. p \in Ops /\ p \notin waiting
      BY <2>1 DEF Starts, Ops
    <2>3. ~InSq(p) /\ p \notin armed /\ ~InCq(p)'
      BY <1>2, <1>4, <2>2
    <2> QED BY <1>7, <2>1, <2>3 DEF Starts
  <1> QED BY <1>6, <1>8, <1>9 DEF Resume, Ends, Stays

(* A completion: for a recv the one in flight, which has no other pending.  *)
LEMMA CompleteInvariant ==
  ASSUME IInv, NEW o \in Ops, NEW r \in Results, NEW more \in BOOLEAN,
         Complete(o, r, more)
  PROVE  IInv'
  <1>1. /\ sq' = sq /\ loop' = loop /\ submitted' = submitted
        /\ waiting' = waiting /\ o \in armed
        /\ armed' = IF more THEN armed ELSE armed \ {o}
        /\ o \in Recvs => ~more
    BY ListenerAssumption DEF Complete
  <1>2. /\ cq' \in Seq(CQE)
        /\ \A p \in Ops : InCq(p)' => InCq(p) \/ p = o
        /\ (o \in Recvs => ~InCq(o))
           /\ (\A i, j \in DOMAIN cq :
                 cq[i].op = cq[j].op /\ cq[i].op \in Recvs => i = j)
             => \A i, j \in DOMAIN cq' :
                  cq'[i].op = cq'[j].op /\ cq'[i].op \in Recvs => i = j
    BY CompleteEffect DEF IInv, TypeOK
  <1>3. \A p \in Ops : InSq(p)' <=> InSq(p)
    BY <1>1 DEF InSq
  <1>4. TypeOK'
    BY <1>1, <1>2 DEF IInv, TypeOK
  <1>5. OneOutstanding'
    BY <1>1, <1>2, <1>3 DEF IInv, OneOutstanding, Ops
  <1>6. NoDanglingResume'
    BY <1>1, <1>2, <1>3 DEF IInv, NoDanglingResume, Outstanding
  <1> QED BY <1>4, <1>5, <1>6 DEF IInv

LEMMA NextInvariant == IInv /\ [Next]_ringVars => IInv'
  <1> SUFFICES ASSUME IInv, [Next]_ringVars PROVE IInv'
    OBVIOUS
  <1>1. CASE UNCHANGED ringVars
    BY <1>1, LoopInvariant DEF ringVars, IInv, TypeOK
  <1>2. CASE Kernel
    BY <1>2, CompleteInvariant DEF Kernel
  <1>3. CASE Submit
    BY <1>3, SubmitInvariant
  <1>4. CASE WaitReturns \/ WaitInterrupted \/ DrainDone
    BY <1>4, LoopInvariant DEF WaitReturns, WaitInterrupted, DrainDone, Returns
  <1>5. CASE \E o \in Ops : Resume(o)
    BY <1>5, ResumeInvariant
  <1> QED BY <1>1, <1>2, <1>3, <1>4, <1>5 DEF Next, Thread

(* The inductive invariant holds in every reachable state.                  *)
THEOREM Invariance == Spec => []IInv
  BY InitInvariant, NextInvariant, PTL DEF Spec

-----------------------------------------------------------------------------
(* The ring's queues, the loop's state and the suspended coroutines have    *)
(* their types in every reachable state.                                    *)
THEOREM TypeCorrect == Spec => []TypeOK
  <1>1. IInv => TypeOK
    BY DEF IInv
  <1> QED BY <1>1, Invariance, PTL

(* No awaiter is ever in the ring twice: between io_uring_get_sqe and       *)
(* resume(), one request and then one completion names a recv's sqe_data.   *)
THEOREM OneRequestAtATime == Spec => []OneOutstanding
  <1>1. IInv => OneOutstanding
    BY DEF IInv
  <1> QED BY <1>1, Invariance, PTL

(* eventLoop never writes to, or resumes, a freed coroutine frame, however  *)
(* many sessions come and go and whatever the queue drops.                  *)
THEOREM NoFreedFrameResumed == Spec => []NoDanglingResume
  <1>1. IInv => NoDanglingResume
    BY DEF IInv
  <1> QED BY <1>1, Invariance, PTL

(* A loop that has taken the return value 0 for a failure with completions  *)
(* pending never sees them, whatever happens next.                          *)
THEOREM WedgedForEver == Spec => WedgeIsPermanent
  <1>1. ASSUME IInv, IInv', [Next]_ringVars, Wedged PROVE Wedged'
    <2>1. sq = <<>> /\ cq # <<>> /\ (loop = "submit" \/ (loop = "wait" /\ submitted = 0))
      BY <1>1 DEF Wedged
    <2>2. CASE UNCHANGED ringVars
      BY <2>1, <2>2 DEF ringVars, Wedged
    <2>3. ASSUME NEW o \in Ops, NEW r \in Results, NEW more \in BOOLEAN,
                 Complete(o, r, more)
          PROVE  Wedged'
      <3>1. cq \in Seq(CQE)
        BY <1>1 DEF IInv, TypeOK
      <3>2. [op |-> o, res |-> r, more |-> more] \in CQE
        BY DEF CQE
      <3>3. Append(cq, [op |-> o, res |-> r, more |-> more]) # <<>>
        BY <3>1, <3>2
      <3> QED BY <2>1, <2>3, <3>3 DEF Complete, Wedged
    <2>4. CASE Submit
      BY <2>1, <2>4 DEF Submit, Consumed, Wedged
    <2>5. CASE WaitReturns
      BY <2>1, <2>5 DEF WaitReturns, Returns, Wedged
    <2>6. CASE WaitInterrupted \/ DrainDone \/ \E o \in Ops : Resume(o)
      BY <2>1, <2>6 DEF WaitInterrupted, DrainDone, Resume, SeeHead
    <2> QED BY <1>1, <2>2, <2>3, <2>4, <2>5, <2>6 DEF Next, Kernel, Thread
  <1>2. IInv /\ IInv' /\ [Next]_ringVars => [Wedged => Wedged']_ringVars
    BY <1>1
  <1> QED BY <1>2, Invariance, PTL DEF Spec, WedgeIsPermanent

-----------------------------------------------------------------------------
(* Room in the submission queue.                                            *)

LEMMA AcceptGoesFirstKept ==
  ASSUME IInv, AcceptGoesFirst, [Next]_ringVars
  PROVE  AcceptGoesFirst'
  <1>1. CASE UNCHANGED <<sq, loop>>
    BY <1>1 DEF AcceptGoesFirst, InSq
  <1>2. CASE Submit
    BY <1>2 DEF AcceptGoesFirst, Submit, InSq, Range
  <1>3. CASE UNCHANGED sq /\ loop # "submit"
    BY <1>3 DEF AcceptGoesFirst, InSq
  <1>4. ASSUME NEW o \in Ops, Resume(o)
        PROVE  AcceptGoesFirst'
    <2>1. loop = "drain" /\ sq \in Seq(Ops)
      BY <1>4 DEF Resume, SeeHead, IInv, TypeOK
    <2>2. ~InSq(Listener)
      BY <2>1 DEF AcceptGoesFirst
    <2>3. UNCHANGED sq \/ \E p \in Recvs : sq' = Push(sq, p)
      BY <1>4 DEF Resume, Rearms, Ends, Starts, Stays
    <2>4. ~InSq(Listener)'
      BY <2>1, <2>2, <2>3, PushEffect, ListenerAssumption DEF Ops, InSq
    <2> QED BY <2>4 DEF AcceptGoesFirst
  <1> QED BY <1>1, <1>2, <1>3, <1>4
          DEF Next, Kernel, Thread, Complete, WaitReturns, WaitInterrupted,
              DrainDone, ringVars

(* With an entry for every session there is one left for a session that is  *)
(* not in the queue: io_uring_get_sqe does not fail.                        *)
LEMMA RoomForOneMore ==
  ASSUME IsFiniteSet(Recvs), Cardinality(Recvs) <= SqSize, NEW o \in Recvs,
         sq \in Seq(Ops), ~InSq(o), ~InSq(Listener),
         \A i, j \in DOMAIN sq : sq[i] = sq[j] => i = j
  PROVE  Push(sq, o) = Append(sq, o)
  <1> SUFFICES ASSUME ~(Len(sq) < SqSize) PROVE FALSE
    BY DEF Push
  <1> DEFINE n == Len(sq) + 1
             f == Append(sq, o)
  <1>1. \A k \in DOMAIN sq : sq[k] # o /\ sq[k] \in Recvs
    BY DEF InSq, Range, Ops
  <1>2. /\ f \in Seq(Ops) /\ n \in Nat
        /\ DOMAIN f = DOMAIN sq \cup {n} /\ n \notin DOMAIN sq /\ f[n] = o
        /\ \A k \in DOMAIN sq : f[k] = sq[k]
    BY AppendProperties DEF Ops
  <1>3. f \in [1 .. n -> Recvs]
    <2>1. Len(f) = n
      BY DEF Ops
    <2> HIDE DEF f
    <2>2. f \in [1 .. n -> Ops] /\ DOMAIN f = 1 .. n
      BY <1>2, <2>1
    <2>3. \A k \in 1 .. n : f[k] \in Recvs
      BY <1>1, <1>2, <2>2
    <2> QED BY <2>2, <2>3
  <1>4. IsFiniteSet(1 .. n) /\ Cardinality(1 .. n) = n
    BY <1>2, FS_Interval
  <1>5. Cardinality(Recvs) < n
    <2>1. Cardinality(Recvs) \in Nat
      BY FS_CardinalityType
    <2> QED BY <2>1, SqSizeAssumption
  <1> HIDE DEF n, f
  <1>6. PICK i, j \in 1 .. n : i # j /\ f[i] = f[j]
    BY <1>3, <1>4, <1>5, FS_PigeonHole
  <1>7. i \in DOMAIN sq \cup {n} /\ j \in DOMAIN sq \cup {n}
    BY <1>2, <1>3
  <1> QED BY <1>1, <1>2, <1>6, <1>7

(* What is in the queue stays in it, and what is pushed gets in.            *)
LEMMA PushKeeps ==
  ASSUME IsFiniteSet(Recvs), Cardinality(Recvs) <= SqSize, NEW o \in Recvs,
         sq \in Seq(Ops), ~InSq(o), ~InSq(Listener), sq' = Push(sq, o),
         \A i, j \in DOMAIN sq : sq[i] = sq[j] => i = j
  PROVE  InSq(o)' /\ \A p \in Ops : InSq(p) => InSq(p)'
  <1>1. sq' = Append(sq, o)
    BY RoomForOneMore
  <1>2. /\ DOMAIN sq' = DOMAIN sq \cup {Len(sq) + 1}
        /\ \A i \in DOMAIN sq : sq'[i] = sq[i]
        /\ sq'[Len(sq) + 1] = o
    BY <1>1, AppendProperties DEF Ops
  <1> QED BY <1>2 DEF InSq, Range

(* Seeing a completion takes none but its own away.                         *)
LEMMA SeeHeadKeeps ==
  ASSUME cq \in Seq(CQE), NEW o \in Ops, SeeHead(o)
  PROVE  \A p \in Ops : InCq(p) /\ p # o => InCq(p)'
  <1>1. cq # <<>> /\ cq' = Tail(cq) /\ cq[1].op = o
    BY DEF SeeHead, Seen
  <1>2. \A i \in DOMAIN cq : i # 1 => i - 1 \in DOMAIN cq' /\ cq'[i - 1] = cq[i]
    BY <1>1
  <1> QED BY <1>1, <1>2 DEF InCq

(* A step keeps every suspended session outstanding if there is room.       *)
LEMMA NextKeepsWakeups ==
  ASSUME IsFiniteSet(Recvs), Cardinality(Recvs) <= SqSize,
         IInv, AcceptGoesFirst, NoLostWakeup, [Next]_ringVars
  PROVE  NoLostWakeup'
  <1>1. /\ sq \in Seq(Ops) /\ cq \in Seq(CQE)
        /\ \A i, j \in DOMAIN sq : sq[i] = sq[j] => i = j
    BY DEF IInv, TypeOK, OneOutstanding
  <1>2. CASE UNCHANGED <<sq, armed, cq, waiting>>
    BY <1>2 DEF NoLostWakeup, Outstanding, InSq, InCq
  <1>3. ASSUME NEW o \in Ops, NEW r \in Results, NEW more \in BOOLEAN,
               Complete(o, r, more)
        PROVE  NoLostWakeup'
    <2>1. InCq(o)' /\ \A p \in Ops : InCq(p) => InCq(p)'
      <3> DEFINE e == [op |-> o, res |-> r, more |-> more]
      <3>1. e \in CQE /\ e.op = o
        BY DEF CQE
      <3>2. /\ DOMAIN cq' = DOMAIN cq \cup {Len(cq) + 1}
            /\ \A i \in DOMAIN cq : cq'[i] = cq[i]
            /\ cq'[Len(cq) + 1] = e
        BY <1>1, <1>3, <3>1, AppendProperties DEF Complete
      <3> HIDE DEF e
      <3> QED BY <3>1, <3>2 DEF InCq
    <2>2. /\ \A p \in Ops : InSq(p)' <=> InSq(p)
          /\ waiting' = waiting
          /\ \A p \in Ops : p \in armed /\ p # o => p \in armed'
      BY <1>3 DEF Complete, InSq
    <2> QED BY <2>1, <2>2 DEF NoLostWakeup, Outstanding, Ops
  <1>4. CASE Submit
    <2>1. /\ \A p \in Ops : InCq(p)' <=> InCq(p)
          /\ \A p \in Ops : InSq(p) \/ p \in armed => p \in armed'
          /\ waiting' = waiting
      BY <1>4 DEF Submit, InCq, InSq
    <2> QED BY <2>1 DEF NoLostWakeup, Outstanding, Ops
  <1>5. ASSUME NEW o \in Ops, Resume(o)
        PROVE  NoLostWakeup'
    <2>1. SeeHead(o) /\ armed' = armed
      BY <1>5 DEF Resume, SeeHead
    <2>2. \A p \in Ops : InCq(p) /\ p # o => InCq(p)'
      BY <1>1, <2>1, SeeHeadKeeps
    <2>3. InCq(o) /\ ~InSq(o) /\ ~InSq(Listener)
      BY <2>1, SeeHeadEffect DEF IInv, OneOutstanding, AcceptGoesFirst, SeeHead
    <2>4. CASE UNCHANGED sq /\ (o \in Recvs => o \notin waiting')
               /\ waiting' \subseteq waiting
      <3>1. \A p \in Ops : InSq(p)' <=> InSq(p)
        BY <2>4 DEF InSq
      <3> QED BY <2>1, <2>2, <2>4, <3>1 DEF NoLostWakeup, Outstanding, Ops
    <2>5. ASSUME NEW p \in Recvs, sq' = Push(sq, p), ~InSq(p),
                 waiting' \subseteq waiting \cup {p}, o \in Recvs => o = p
          PROVE  NoLostWakeup'
      <3>1. InSq(p)' /\ \A q \in Ops : InSq(q) => InSq(q)'
        BY <1>1, <2>3, <2>5, PushKeeps
      <3> QED BY <2>1, <2>2, <2>5, <3>1 DEF NoLostWakeup, Outstanding, Ops
    <2>6. CASE o \in Recvs /\ Rearms(o)
      BY <2>3, <2>5, <2>6 DEF Rearms
    <2>7. CASE o = Listener /\ \E p \in Recvs : Starts(p)
      <3>1. PICK p \in Recvs : Starts(p)
        BY <2>7
      <3>2. ~InSq(p)
        BY <3>1 DEF Starts, IInv, NoDanglingResume, Outstanding, Ops
      <3> QED BY <2>5, <2>7, <3>1, <3>2, ListenerAssumption DEF Starts
    <2> QED BY <1>5, <2>4, <2>6, <2>7, ListenerAssumption
            DEF Resume, Ends, Stays
  <1> QED BY <1>2, <1>3, <1>4, <1>5
          DEF Next, Kernel, Thread, WaitReturns, WaitInterrupted, DrainDone, ringVars

(* Every suspended session has its recv in the ring, as long as the queue   *)
(* has an entry for each of them: up to IO_URING_QUEUE_SIZE sessions of one *)
(* worker never lose a wakeup to a full queue.                              *)
THEOREM WakeupsKept ==
  ASSUME IsFiniteSet(Recvs), Cardinality(Recvs) <= SqSize
  PROVE  Spec => []NoLostWakeup
  <1>1. Init => NoLostWakeup /\ AcceptGoesFirst
    BY ListenerAssumption DEF Init, NoLostWakeup, AcceptGoesFirst
  <1>2. IInv /\ NoLostWakeup /\ AcceptGoesFirst /\ [Next]_ringVars
          => NoLostWakeup' /\ AcceptGoesFirst'
    BY NextKeepsWakeups, AcceptGoesFirstKept
  <1> QED BY <1>1, <1>2, Invariance, PTL DEF Spec
=============================================================================
