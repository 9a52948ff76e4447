------------------------------ MODULE BufferPool ------------------------------
(***************************************************************************)
(* What the provided-buffer ring of a worker (src/io/buffer_ring.cpp)      *)
(* promises the kernel and the coroutines, by numbers: N buffers, of which *)
(* some are on offer; a receive takes one, a return gives one back.        *)
(***************************************************************************)
EXTENDS Integers

CONSTANT N          \* BUF_RING_SIZE

VARIABLE offered    \* buffers on offer to the kernel

Init == offered = 0

Fill == offered = 0 /\ offered' = N
Take == offered > 0 /\ offered' = offered - 1
Give == offered < N /\ offered' = offered + 1

Next == Fill \/ Take \/ Give

Spec == Init /\ [][Next]_offered
=============================================================================
