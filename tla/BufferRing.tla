------------------------------ MODULE BufferRing ------------------------------
(***************************************************************************)
(* The provided-buffer ring of one worker: N slots shared with the kernel, *)
(* a 16-bit tail the server advances and a head the kernel advances        *)
(* (BufferRing in src/io/buffer_ring.cpp, setupBufRing and addBuf in       *)
(* src/io/io_uring.cpp).  A buffer is its id.                              *)
(*                                                                         *)
(* A session coroutine that received data borrows the buffer, hands its    *)
(* bytes over and returns it.  HandleSession as it is written asks an      *)
(* awaiter that received nothing, and so keeps the buffer (Forgets, and    *)
(* module Worker); both are modelled, in any mixture.                      *)
(***************************************************************************)
EXTENDS Integers, FiniteSets, Sequences, SequencesExt

CONSTANTS
  Sessions,  \* coroutines that receive
  N,         \* BUF_RING_SIZE
  Wrap,      \* the values of the tail and the head, 2^16
  NoBuf      \* no buffer

ASSUME SizesAssumption ==
  /\ N \in Nat \ {0} /\ Wrap \in Nat
  /\ N < Wrap /\ Wrap % N = 0
  /\ NoBuf \notin Nat
  /\ IsFiniteSet(Sessions)

Ids == 0..(N - 1)
Counters == 0..(Wrap - 1)

VARIABLES
  ready,      \* the ring is registered with the kernel
  slot,       \* the id in each slot
  tail,       \* the server's index
  head,       \* the kernel's index
  held,       \* the buffer each session has received and not returned
  writing,    \* the session whose addBuf has written its slot, if any
  forgotten,  \* buffers whose sessions forgot them
  misplaced   \* addBuf has written another slot than it published

vars == <<ready, slot, tail, head, held, writing, forgotten, misplaced>>

-----------------------------------------------------------------------------
(* Variants of definitions below, as a slip in the code would make them.    *)

AdvanceOneMore(k) == (tail + k + 1) % Wrap
SizeForMask(offset) == (tail + offset) % (N - 1)
AtTail(id) == 0

-----------------------------------------------------------------------------
(* io_uring_buf_ring_advance, in 16 bits; the slot of an offset from tail.  *)
Advanced(k) == (tail + k) % Wrap
SlotAt(offset) == (tail + offset) % N

(* registerBufRing: the slots are written from offset 0 on and all are      *)
(* published at once.                                                       *)
Register ==
  /\ ~ready
  /\ ready' = TRUE
  /\ slot' = [i \in Ids |-> i]
  /\ tail' = Advanced(N)
  /\ UNCHANGED <<head, held, writing, forgotten, misplaced>>

(* A recv completes with data: the kernel takes the buffer at its head,     *)
(* whatever the server is doing.                                            *)
OnOffer == tail # head
KernelTakes(s) ==
  /\ ready
  /\ OnOffer
  /\ held[s] = NoBuf
  /\ held' = [held EXCEPT ![s] = slot[head % N]]
  /\ head' = (head + 1) % Wrap
  /\ UNCHANGED <<ready, slot, tail, writing, forgotten, misplaced>>

(* returnBuf -> addBuf, first half: the id is also the offset.  One thread  *)
(* runs every coroutine of the worker; the kernel runs beside it.           *)
Offset(id) == id
AddBuf(s) ==
  /\ writing = {}
  /\ held[s] # NoBuf
  /\ slot' = [slot EXCEPT ![SlotAt(Offset(held[s]))] = held[s]]
  /\ misplaced' = (misplaced \/ SlotAt(Offset(held[s])) # SlotAt(0))
  /\ writing' = {s}
  /\ UNCHANGED <<ready, tail, head, held, forgotten>>

(* Second half: the tail is published.                                      *)
Publish(s) ==
  /\ s \in writing
  /\ tail' = Advanced(1)
  /\ writing' = {}
  /\ held' = [held EXCEPT ![s] = NoBuf]
  /\ UNCHANGED <<ready, slot, head, forgotten, misplaced>>

(* HandleSession asks the wrong awaiter: size 0, nothing is returned.       *)
Forgets(s) ==
  /\ writing = {}
  /\ held[s] # NoBuf
  /\ forgotten' = Append(forgotten, held[s])
  /\ held' = [held EXCEPT ![s] = NoBuf]
  /\ UNCHANGED <<ready, slot, tail, head, writing, misplaced>>

-----------------------------------------------------------------------------
Init ==
  /\ ready = FALSE
  /\ slot = [i \in Ids |-> 0]
  /\ tail = 0 /\ head = 0
  /\ held = [s \in Sessions |-> NoBuf]
  /\ writing = {}
  /\ forgotten = <<>>
  /\ misplaced = FALSE

Next ==
  \/ Register
  \/ \E s \in Sessions :
       KernelTakes(s) \/ AddBuf(s) \/ Publish(s) \/ Forgets(s)

Spec == Init /\ [][Next]_vars

-----------------------------------------------------------------------------
TypeOK ==
  /\ ready \in BOOLEAN /\ misplaced \in BOOLEAN
  /\ slot \in [Ids -> Ids]
  /\ {tail, head} \subseteq Counters
  /\ held \in [Sessions -> Ids \cup {NoBuf}]
  /\ writing \subseteq Sessions
  /\ forgotten \in Seq(Ids)

Offered == (tail - head) % Wrap
Holding == {s \in Sessions : held[s] # NoBuf}

(* Every buffer is somewhere, whatever slots have been written: on offer,   *)
(* with a session, or forgotten.                                            *)
AllAccounted ==
  ready => Offered + Cardinality(Holding) + Len(forgotten) = N

(* As long as addBuf has published the slots it wrote, every buffer is in   *)
(* exactly one place: the kernel never gives out one that a session reads   *)
(* or that it offers twice.                                                 *)
OfferedIds == {slot[(head + i) % N] : i \in 0..(Offered - 1)}
ExactlyOnePlace ==
  ready /\ ~misplaced =>
    /\ Cardinality(OfferedIds) = Offered
    /\ \A s, t \in Holding : s # t => held[s] # held[t]
    /\ LET out == {held[s] : s \in Holding}
       IN  /\ OfferedIds \cap out = {} /\ OfferedIds \cap ToSet(forgotten) = {}
           /\ out \cap ToSet(forgotten) = {}
           /\ OfferedIds \cup out \cup ToSet(forgotten) = Ids

(* addBuf takes the id for the offset: a return of any buffer but 0 leaves  *)
(* the slot that it publishes next with the id it had, which is offered     *)
(* again wherever that buffer is; and so ~misplaced ends with the first.    *)
OldIdPublished ==
  [][\A s \in Sessions :
       AddBuf(s) /\ held[s] # 0 => misplaced' /\ slot'[SlotAt(0)] = slot[SlotAt(0)]]_vars

(* Tail and head, slots and returns amount to a pool that is never          *)
(* overfilled.                                                              *)
Pool == INSTANCE BufferPool WITH offered <- Offered
ImplementsPool == Pool!Spec
=============================================================================
