------------------------------ MODULE EventLoop ------------------------------
(***************************************************************************)
(* One worker thread's io_uring ring and the loop that drives it:          *)
(* IoUring::eventLoop, IoUring::submitAndWait and the submit functions     *)
(* (src/io/io_uring.cpp), with the two awaiters that call them             *)
(* (src/io/socket.cpp).                                                    *)
(*                                                                         *)
(* An "operation" is the sqe_data object an awaiter hands to the ring: its *)
(* address is the user data of the SQE and of every CQE the kernel posts   *)
(* for it, and it lives in the frame of the coroutine suspended on the     *)
(* awaiter.  `waiting` is the set of operations whose frame is alive and   *)
(* suspended, so an operation outside `waiting` is freed memory.           *)
(*                                                                         *)
(* What a resumed coroutine may do is the part of this module that stands  *)
(* for code elsewhere: it may end, wait again, or (the accept loop) start  *)
(* a new coroutine.  Module Worker says exactly what the server's          *)
(* coroutines do and implements this module.                               *)
(***************************************************************************)
EXTENDS Integers, Sequences, FiniteSets, Functions

CONSTANTS
  Recvs,      \* the one-shot operations: the recv awaiters of the sessions
  Listener,   \* the multishot operation: the accept guard's sqe_data
  Results,    \* what a completion can carry in cqe->res
  SqSize,     \* entries of the submission queue, IO_URING_QUEUE_SIZE
  MaxCq       \* bound on unseen completions, to keep the model finite

ASSUME ListenerAssumption == Listener \notin Recvs
ASSUME SqSizeAssumption == SqSize \in Nat \ {0}
ASSUME MaxCqAssumption == MaxCq \in Nat

VARIABLES
  sq,         \* SQEs prepared by io_uring_get_sqe and not yet submitted
  armed,      \* operations submitted to the kernel that may still complete
  cq,         \* completions posted by the kernel and not yet seen
  loop,       \* where eventLoop is: "submit", "wait" or "drain"
  submitted,  \* how many SQEs the last io_uring_submit_and_wait consumed
  waiting     \* operations whose coroutine is suspended on them

ringVars == <<sq, armed, cq, loop, submitted, waiting>>

Ops == Recvs \cup {Listener}
CQE == [op : Ops, res : Results, more : BOOLEAN]
EINTR == 4

-----------------------------------------------------------------------------
(* Variants of the definitions below that a slip in the code would produce; *)
(* each shows that some property would notice.                              *)

PushOffByOne(s, o) == IF Len(s) < SqSize - 1 THEN Append(s, o) ELSE s
ReturnsChecked(ret) == loop' = IF ret < 0 THEN "submit" ELSE "drain"
ConsumedOffByOne(s) == Len(s) - 1
SeenUnlessFailed == cq' = IF Head(cq).res = "error" THEN cq ELSE Tail(cq)
EndsAfterRearm(o) == /\ sq' = Append(sq, o)
                     /\ waiting' = waiting \ {o}
RearmsTwice(o) == /\ sq' = sq \o <<o, o>>
                  /\ UNCHANGED waiting

-----------------------------------------------------------------------------
(* io_uring_get_sqe returns NULL when the queue is full; the submit         *)
(* functions then report on stderr and return, and the operation is lost.   *)
Push(s, o) == IF Len(s) < SqSize THEN Append(s, o) ELSE s

InSq(o) == o \in Range(sq)
InCq(o) == \E i \in DOMAIN cq : cq[i].op = o
Outstanding(o) == InSq(o) \/ o \in armed \/ InCq(o)

(* `if (!result) continue;`: only the value 0 skips the completions.        *)
Returns(ret) == loop' = IF ret = 0 THEN "submit" ELSE "drain"

(* What io_uring_submit_and_wait reports: the SQEs it handed to the kernel.  *)
Consumed(s) == Len(s)

(* io_uring_cqe_seen: the head of the completion ring is given back.        *)
Seen == cq' = Tail(cq)

(* The accept coroutine has run up to its first co_await: its multishot     *)
(* request is prepared, eventLoop is about to be entered.                   *)
Init ==
  /\ sq = <<Listener>>
  /\ armed = {}
  /\ cq = <<>>
  /\ loop = "submit"
  /\ submitted = 0
  /\ waiting = {Listener}

-----------------------------------------------------------------------------
(* io_uring_submit_and_wait(ring, 1): the kernel consumes every SQE ...     *)
Submit ==
  /\ loop = "submit"
  /\ armed' = armed \cup Range(sq)
  /\ submitted' = Consumed(sq)
  /\ sq' = <<>>
  /\ loop' = "wait"
  /\ UNCHANGED <<cq, waiting>>

(* ... blocks until a completion is there, and returns how many SQEs it     *)
(* consumed, whatever the number of completions.                            *)
WaitReturns ==
  /\ loop = "wait"
  /\ cq # <<>>
  /\ Returns(submitted)
  /\ UNCHANGED <<sq, armed, cq, submitted, waiting>>

(* A signal ends the wait before a completion arrives: the call returns the *)
(* number of SQEs consumed, or -EINTR when there was none.                  *)
WaitInterrupted ==
  /\ loop = "wait"
  /\ cq = <<>>
  /\ Returns(IF submitted > 0 THEN submitted ELSE -EINTR)
  /\ UNCHANGED <<sq, armed, cq, submitted, waiting>>

(* io_uring_for_each_cqe reads the kernel's tail again at every step and    *)
(* stops when it has caught up.                                             *)
DrainDone ==
  /\ loop = "drain"
  /\ cq = <<>>
  /\ loop' = "submit"
  /\ UNCHANGED <<sq, armed, cq, submitted, waiting>>

(* The head completion is copied into its sqe_data, marked seen, and the    *)
(* coroutine suspended on it is resumed.                                    *)
SeeHead(o) ==
  /\ loop = "drain"
  /\ cq # <<>>
  /\ Head(cq).op = o
  /\ Seen
  /\ UNCHANGED <<armed, loop, submitted>>

-----------------------------------------------------------------------------
(* What the resumed coroutine does to the ring before it suspends again.    *)

(* A session calls recv() again: a new SQE for its awaiter.                 *)
Rearms(o) == /\ sq' = Push(sq, o)
             /\ UNCHANGED waiting

(* A session ends: final_suspend is suspend_never, the frame is freed.      *)
Ends(o) == /\ waiting' = waiting \ {o}
           /\ UNCHANGED sq

(* The accept loop starts a session, which runs up to its first recv(); the *)
(* guard itself is awaited again without a new SQE (initial_await_).        *)
Starts(p) == /\ p \in Recvs \ waiting
             /\ waiting' = waiting \cup {p}
             /\ sq' = Push(sq, p)

(* accept() returned a null client: the guard is awaited again.             *)
Stays == UNCHANGED <<sq, waiting>>

Resume(o) ==
  /\ SeeHead(o)
  /\ \/ o \in Recvs /\ Rearms(o)
     \/ o \in Recvs /\ Ends(o)
     \/ o = Listener /\ \E p \in Recvs : Starts(p)
     \/ o = Listener /\ Stays

(* The kernel posts a completion; unless it carries IORING_CQE_F_MORE it is *)
(* the operation's last.  Only the multishot operation can have more.       *)
Complete(o, r, more) ==
  /\ o \in armed
  /\ more => o = Listener
  /\ Len(cq) < MaxCq
  /\ cq' = Append(cq, [op |-> o, res |-> r, more |-> more])
  /\ armed' = IF more THEN armed ELSE armed \ {o}
  /\ UNCHANGED <<sq, loop, submitted, waiting>>

Kernel == \E o \in Ops, r \in Results, more \in BOOLEAN : Complete(o, r, more)

Thread ==
  \/ Submit
  \/ WaitReturns
  \/ WaitInterrupted
  \/ DrainDone
  \/ \E o \in Ops : Resume(o)

Next == Kernel \/ Thread

Spec == Init /\ [][Next]_ringVars

(* The worker thread is scheduled again and again while it can run; a       *)
(* signal need not arrive and the kernel need not complete anything.        *)
LoopFairness ==
  /\ WF_ringVars(Submit)
  /\ WF_ringVars(WaitReturns)
  /\ WF_ringVars(DrainDone)
  /\ \A o \in Ops : WF_ringVars(Resume(o))

FairSpec == Spec /\ LoopFairness

-----------------------------------------------------------------------------
TypeOK ==
  /\ sq \in Seq(Ops)
  /\ armed \in SUBSET Ops
  /\ cq \in Seq(CQE)
  /\ loop \in {"submit", "wait", "drain"}
  /\ submitted \in Nat
  /\ waiting \in SUBSET Ops

(* A recv awaiter is in at most one place at a time: prepared, in the       *)
(* kernel, or completed.  Two places would mean two completions writing the *)
(* same sqe_data, the second after the frame may be gone.                   *)
OneOutstanding ==
  /\ \A i, j \in DOMAIN sq : sq[i] = sq[j] => i = j
  /\ \A o \in Ops : InSq(o) => o \notin armed /\ ~InCq(o)
  /\ \A o \in Recvs : o \in armed => ~InCq(o)
  /\ \A i, j \in DOMAIN cq : cq[i].op = cq[j].op /\ cq[i].op \in Recvs => i = j

(* Whatever the ring still holds points to a suspended coroutine: eventLoop *)
(* never writes to, or resumes, a frame that final_suspend has freed        *)
(* (io_uring.cpp, the writes to sqe_data_ptr and handle.resume()).          *)
NoDanglingResume == \A o \in Ops : Outstanding(o) => o \in waiting

(* Every suspended session can be woken: its recv is somewhere in the ring. *)
(* It is lost for good if io_uring_get_sqe ever found the queue full.       *)
NoLostWakeup == \A o \in Recvs : o \in waiting => Outstanding(o)

(* There are completions to process, none of the coroutines has prepared an *)
(* SQE, and eventLoop is on its way to io_uring_submit_and_wait's 0.        *)
Wedged ==
  /\ sq = <<>>
  /\ cq # <<>>
  /\ loop = "submit" \/ (loop = "wait" /\ submitted = 0)

(* Once the loop takes a 0 for a failure with completions pending, nothing  *)
(* ever rescues it: it spins through submit and wait for ever.              *)
WedgeIsPermanent == [][Wedged => Wedged']_ringVars

(* A completed recv is seen by the loop, unless the loop is wedged: the     *)
(* zero return is the only way eventLoop leaves a completion behind.        *)
SeenOrWedged == \A o \in Recvs : InCq(o) ~> (~InCq(o) \/ Wedged)

(* What the "Waiting for io_uring events" loop is for: every completed recv *)
(* is seen, and its coroutine resumed.                                      *)
CompletionsSeen == \A o \in Recvs : InCq(o) ~> ~InCq(o)
=============================================================================
