-------------------------------- MODULE Frames --------------------------------
(***************************************************************************)
(* The coroutine frames behind spawn(): who owns which frame through which *)
(* task object, when a frame is freed, and what touches it afterwards      *)
(* (src/coroutine/include/task.h, spawn.h, and their uses in server.cpp    *)
(* and session_manager.cpp).                                               *)
(*                                                                         *)
(* task<void> starts at once, frees its frame when it completes            *)
(* (final_suspend is suspend_never), destroys its handle in the destructor *)
(* and is moved by exchange.  Awaiting a task asks handle.done() and, if   *)
(* that is false, suspends without recording the caller.                   *)
(*                                                                         *)
(* Three coroutines are spawned: accept_clients, HandleClientSession,      *)
(* which awaits HandleSession, and SendData.  SendData is spawned by       *)
(* OnRecvData, with a vector that OnRecvData destroys; nothing reaches     *)
(* OnRecvData today (module Worker), but it is public.                     *)
(***************************************************************************)
EXTENDS FiniteSets

CONSTANTS
  Spawns,   \* the calls of spawn(f(...))
  None      \* no frame

Roles == {"lambda", "outer", "inner"}
Frames == Spawns \X Roles
Lambda(s) == <<s, "lambda">>    \* the spawn lambda
Outer(s) == <<s, "outer">>      \* the coroutine f it is called with
Inner(s) == <<s, "inner">>      \* HandleSession, if f awaits it

(* The task objects: the prvalue f(...), the lambda's parameter, the        *)
(* parameter's copy in the lambda's frame, and the prvalue that f awaits.   *)
Holders == {"argument", "parameter", "copy", "temporary"}
Objects == Spawns \X Holders
Argument(s) == <<s, "argument">>
Parameter(s) == <<s, "parameter">>
Copy(s) == <<s, "copy">>
Temporary(s) == <<s, "temporary">>

ASSUME NoneAssumption == None \notin Frames

VARIABLES
  kind,      \* the coroutine of each spawn: "accept", "client" or "send"
  at,        \* how far the call of spawn is
  frame,     \* each frame: "none", "running", "suspended" or "freed"
  handle,    \* handle_ of each task object
  waiting,   \* frames with a request in the ring
  slept,     \* frames that have been suspended
  vector,    \* echo_data of each SendData: "alive" or "gone"
  misuse     \* what was done to a frame or a vector that was gone

vars == <<kind, at, frame, handle, waiting, slept, vector, misuse>>

Steps(s, from, to) == at[s] = from /\ at' = [at EXCEPT ![s] = to]

-----------------------------------------------------------------------------
(* Variants of definitions below, as a slip in the code would make them.    *)

MoveKeeps(from, to, h) == [h EXCEPT ![to] = h[from]]
ResumesCaller(s) ==
  /\ frame' = [frame EXCEPT ![Inner(s)] = "freed", ![Outer(s)] = "freed"]
  /\ handle' = [handle EXCEPT ![Temporary(s)] = None]
  /\ misuse' = misuse \cup {<<"destroy", Inner(s)>>}
OwnedByFrame(s) == UNCHANGED vector

-----------------------------------------------------------------------------
(* task(task &&): handle_(std::exchange(other.handle_, {})).                *)
Move(from, to, h) == [h EXCEPT ![to] = h[from], ![from] = None]

(* ~task(): if (handle_) handle_.destroy().  Destroying a frame destroys    *)
(* the tasks in it, and theirs in turn.                                     *)
Destroys(o) == {handle[o]} \ {None}
Within(f) == IF f[2] = "outer" THEN Destroys(Temporary(f[1])) ELSE {}

(* What happens to a frame that is gone.                                    *)
Gone(f) == f = None \/ frame[f] = "freed"
Misuses(op, fs) == {<<op, f>> : f \in {g \in fs : Gone(g)}}

-----------------------------------------------------------------------------
(* The expression spawn(f(...)): f runs first.                              *)

(* Worker::init spawns accept_clients, which spawns HandleClientSession for *)
(* each client, whose HandleSession makes OnRecvData spawn SendData.        *)
Caller(k) ==
  \/ k = "accept" /\ \A s \in Spawns : kind[s] = "none"
  \/ k = "client" /\ \E s \in Spawns : kind[s] = "accept" /\ at[s] = "returned"
  \/ k = "send" /\ \E s \in Spawns : kind[s] = "client" /\ frame[Inner(s)] # "none"

Calls(s, k) ==
  /\ Steps(s, "idle", "calling")
  /\ Caller(k)
  /\ kind' = [kind EXCEPT ![s] = k]
  /\ frame' = [frame EXCEPT ![Outer(s)] = "running"]
  /\ handle' = [handle EXCEPT ![Argument(s)] = Outer(s)]
  /\ vector' = IF k = "send" THEN [vector EXCEPT ![s] = "alive"] ELSE vector
  /\ UNCHANGED <<waiting, slept, misuse>>

(* A session to send on is connected while its HandleSession lives.         *)
Connected == \E s \in Spawns : frame[Inner(s)] = "suspended"

(* HandleClientSession does not find its session (it was cleaned up), or    *)
(* SendData's session is not connected: the frame is freed before the task  *)
(* is awaited.                                                              *)
ReturnsAtOnce(s) ==
  /\ Steps(s, "calling", "called")
  /\ kind[s] = "client" \/ (kind[s] = "send" /\ ~Connected)
  /\ frame' = [frame EXCEPT ![Outer(s)] = "freed"]
  /\ UNCHANGED <<kind, handle, waiting, slept, vector, misuse>>

(* accept_clients awaits the guard, SendData the send.                      *)
Suspends(s) ==
  /\ Steps(s, "calling", "called")
  /\ kind[s] = "accept" \/ (kind[s] = "send" /\ Connected)
  /\ frame' = [frame EXCEPT ![Outer(s)] = "suspended"]
  /\ slept' = slept \cup {Outer(s)}
  /\ waiting' = waiting \cup {Outer(s)}
  /\ UNCHANGED <<kind, handle, vector, misuse>>

(* HandleClientSession awaits HandleSession, which awaits its first recv:   *)
(* HandleSession's frame lives, so done() is false.                         *)
AwaitsInner(s) ==
  /\ Steps(s, "calling", "called")
  /\ kind[s] = "client"
  /\ frame' = [frame EXCEPT ![Outer(s)] = "suspended", ![Inner(s)] = "suspended"]
  /\ handle' = [handle EXCEPT ![Temporary(s)] = Inner(s)]
  /\ slept' = slept \cup {Outer(s), Inner(s)}
  /\ waiting' = waiting \cup {Inner(s)}
  /\ UNCHANGED <<kind, vector, misuse>>

(* spawn's lambda is called: argument to parameter, parameter to the frame. *)
Spawned(s) ==
  /\ Steps(s, "called", "spawned")
  /\ handle' = Move(Parameter(s), Copy(s), Move(Argument(s), Parameter(s), handle))
  /\ frame' = [frame EXCEPT ![Lambda(s)] = "running"]
  /\ UNCHANGED <<kind, waiting, slept, vector, misuse>>

(* co_await std::move(awaitable): await_ready is handle.done(), which is    *)
(* false of a suspended frame and anything of a freed one.                  *)
AwaitSuspends(s) ==
  /\ Steps(s, "spawned", "returning")
  /\ misuse' = misuse \cup Misuses("done", {handle[Copy(s)]})
  /\ frame' = [frame EXCEPT ![Lambda(s)] = "suspended"]
  /\ slept' = slept \cup {Lambda(s)}
  /\ UNCHANGED <<kind, handle, waiting, vector>>

(* The lambda goes on: await_resume looks for an exception in the promise,  *)
(* which is in the frame that is gone. At the end of the lambda its own     *)
(* frame goes, and awaitable with it.                                       *)
AwaitReady(s) ==
  /\ Steps(s, "spawned", "returning")
  /\ Gone(handle[Copy(s)])
  /\ misuse' = misuse \cup Misuses("done", {handle[Copy(s)]})
                     \cup Misuses("resume", {handle[Copy(s)]})
                     \cup Misuses("destroy", Destroys(Copy(s)))
  /\ frame' = [frame EXCEPT ![Lambda(s)] = "freed"]
  /\ handle' = [handle EXCEPT ![Copy(s)] = None]
  /\ UNCHANGED <<kind, waiting, slept, vector>>

(* OnRecvData's echo_data goes out of scope; SendData has a reference to it.*)
VectorGoes(s) ==
  vector' = IF kind[s] = "send" THEN [vector EXCEPT ![s] = "gone"] ELSE vector

(* spawn returns: spawn_task's destructor does nothing, the parameter's and *)
(* the argument's destroy what they still hold, and OnRecvData returns.     *)
Returns(s) ==
  /\ Steps(s, "returning", "returned")
  /\ LET left == Destroys(Parameter(s)) \cup Destroys(Argument(s))
         all == left \cup UNION {Within(f) : f \in left \ {None}}
     IN  /\ misuse' = misuse \cup Misuses("destroy", left)
         /\ frame' = [f \in Frames |-> IF f \in all THEN "freed" ELSE frame[f]]
  /\ handle' = [handle EXCEPT ![Parameter(s)] = None,
                              ![Argument(s)] = None]
  /\ VectorGoes(s)
  /\ UNCHANGED <<kind, waiting, slept>>

-----------------------------------------------------------------------------
(* The event loop resumes a frame whose request has completed.  It does so  *)
(* after the call of spawn has returned: both run on the worker's thread.   *)

(* final_suspend frees HandleSession's frame; its caller is not resumed.    *)
InnerEnds(s) ==
  /\ frame' = [frame EXCEPT ![Inner(s)] = "freed"]
  /\ UNCHANGED <<handle, misuse>>

(* A recv that leads to the next recv leaves everything as it is.           *)
SessionEnds(s) ==
  /\ at[s] = "returned"
  /\ Inner(s) \in waiting
  /\ waiting' = waiting \ {Inner(s)}
  /\ InnerEnds(s)
  /\ UNCHANGED <<kind, at, slept, vector>>

(* The kernel has read the bytes at the address SendData gave it.           *)
SendEnds(s) ==
  /\ at[s] = "returned"
  /\ kind[s] = "send" /\ Outer(s) \in waiting
  /\ waiting' = waiting \ {Outer(s)}
  /\ misuse' = misuse \cup IF vector[s] = "gone" THEN {<<"read", Outer(s)>>} ELSE {}
  /\ frame' = [frame EXCEPT ![Outer(s)] = "freed"]
  /\ UNCHANGED <<kind, at, handle, slept, vector>>

-----------------------------------------------------------------------------
Init ==
  /\ kind = [s \in Spawns |-> "none"]
  /\ at = [s \in Spawns |-> "idle"]
  /\ frame = [f \in Frames |-> "none"]
  /\ handle = [o \in Objects |-> None]
  /\ waiting = {} /\ slept = {}
  /\ vector = [s \in Spawns |-> "none"]
  /\ misuse = {}

Step(s) ==
  \/ \E k \in {"accept", "client", "send"} : Calls(s, k)
  \/ ReturnsAtOnce(s) \/ Suspends(s) \/ AwaitsInner(s)
  \/ Spawned(s) \/ AwaitSuspends(s) \/ AwaitReady(s) \/ Returns(s)
  \/ SessionEnds(s) \/ SendEnds(s)

Next == \E s \in Spawns : Step(s)

Spec == Init /\ [][Next]_vars

-----------------------------------------------------------------------------
TypeOK ==
  /\ kind \in [Spawns -> {"none", "accept", "client", "send"}]
  /\ at \in [Spawns -> {"idle", "calling", "called", "spawned", "returning",
                        "returned"}]
  /\ frame \in [Frames -> {"none", "running", "suspended", "freed"}]
  /\ handle \in [Objects -> Frames \cup {None}]
  /\ waiting \subseteq Frames /\ slept \subseteq Frames
  /\ vector \in [Spawns -> {"none", "alive", "gone"}]
  /\ misuse \subseteq {"done", "resume", "destroy", "read"} \X Frames

(* What is touched after it was freed, exactly: the frame of a task that    *)
(* completed without ever suspending, when it is awaited (and, if done()    *)
(* happens to answer true, its promise, and the frame once more when the    *)
(* lambda's copy of the task is destroyed); and the vector of every send    *)
(* that was suspended.  No other frame is, however the calls interleave.    *)
AwaitedFreed(s) ==
  /\ frame[Outer(s)] = "freed" /\ Outer(s) \notin slept
  /\ at[s] \in {"returning", "returned"}
SentLate(s) ==
  kind[s] = "send" /\ Outer(s) \in slept /\ frame[Outer(s)] = "freed"
MisusedOf(s) ==
  LET ops == (IF AwaitedFreed(s) THEN {"done"} ELSE {})
               \cup (IF AwaitedFreed(s) /\ frame[Lambda(s)] = "freed"
                       THEN {"resume", "destroy"} ELSE {})
               \cup (IF SentLate(s) THEN {"read"} ELSE {})
  IN  {<<op, Outer(s)>> : op \in ops}
MisuseExactly == misuse = UNION {MisusedOf(s) : s \in Spawns}

(* A suspended coroutine other than the lambda belongs to exactly one task  *)
(* object, however it has been moved, and no frame to two.                  *)
OwnedOnce ==
  \A f \in Frames :
    LET owners == {o \in Objects : handle[o] = f}
    IN  /\ \A o, p \in owners : o = p
        /\ frame[f] = "suspended" /\ f[2] # "lambda" => owners # {}

(* A frame with a request in the ring lives: no task object destroys the    *)
(* frame that the event loop will resume.                                   *)
RingHoldsLiveFrames == \A f \in waiting : frame[f] = "suspended"

(* Whoever suspended on a task stays: when HandleSession has ended, the     *)
(* frames of HandleClientSession and of the lambda are still there, with    *)
(* the session and its descriptor, and so they are behind every coroutine   *)
(* that suspended before it ended.                                          *)
CallersStay ==
  \A s \in Spawns :
    /\ frame[Inner(s)] = "freed" => frame[Outer(s)] = "suspended"
    /\ at[s] = "returned" /\ Outer(s) \in slept => frame[Lambda(s)] = "suspended"
=============================================================================
