----------------------------- MODULE FramesProofs -----------------------------
(***************************************************************************)
(* Proofs about Frames, for any number of spawned coroutines: which frames *)
(* are touched after they are gone, and that no other can be.              *)
(***************************************************************************)
EXTENDS Frames, TLAPS

(* What the steps of one call of spawn leave behind, by where it is.        *)
Handles(s, a, p, c) ==
  handle[Argument(s)] = a /\ handle[Parameter(s)] = p /\ handle[Copy(s)] = c

Shape(s) ==
  /\ at[s] = "idle" =>
       /\ kind[s] = "none" /\ Handles(s, None, None, None)
       /\ frame[Outer(s)] = "none" /\ frame[Lambda(s)] = "none"
  /\ at[s] = "calling" =>
       /\ Handles(s, Outer(s), None, None)
       /\ frame[Outer(s)] = "running" /\ frame[Lambda(s)] = "none"
  /\ at[s] = "called" =>
       /\ Handles(s, Outer(s), None, None)
       /\ frame[Lambda(s)] = "none"
  /\ at[s] = "spawned" =>
       /\ Handles(s, None, None, Outer(s))
       /\ frame[Lambda(s)] = "running"
  /\ at[s] \in {"returning", "returned"} =>
       \/ /\ Handles(s, None, None, Outer(s))
          /\ frame[Lambda(s)] = "suspended"
       \/ /\ Handles(s, None, None, None)
          /\ frame[Lambda(s)] = "freed"
          /\ frame[Outer(s)] = "freed" /\ Outer(s) \notin slept
  /\ at[s] \in {"called", "spawned", "returning"} =>
       \/ frame[Outer(s)] = "suspended"
       \/ frame[Outer(s)] = "freed" /\ Outer(s) \notin slept
  /\ at[s] = "returned" =>
       \/ frame[Outer(s)] = "suspended"
       \/ frame[Outer(s)] = "freed" /\ frame[Inner(s)] = "none"

(* What holds of a spawn's frames wherever it is.                           *)
Still(s) ==
  /\ frame[Inner(s)] # "none" => frame[Outer(s)] = "suspended"
  /\ frame[Inner(s)] # "running"
  /\ handle[Temporary(s)] = IF frame[Inner(s)] = "none" THEN None ELSE Inner(s)
  /\ frame[Outer(s)] \in {"none", "running"} => Outer(s) \notin slept
  /\ frame[Inner(s)] = "none" => Inner(s) \notin slept
  /\ frame[Lambda(s)] # "suspended" => Lambda(s) \notin slept
  /\ Outer(s) \in waiting => frame[Outer(s)] = "suspended" /\ frame[Inner(s)] = "none"
  /\ Inner(s) \in waiting => frame[Inner(s)] = "suspended"
  /\ Lambda(s) \notin waiting
  /\ frame[Outer(s)] = "suspended" => Outer(s) \in slept
  /\ at[s] = "returned" /\ kind[s] = "send" => vector[s] = "gone"

(* What is recorded of a spawn's frames follows from where it is.           *)
Touches == {"done", "resume", "destroy", "read"}

Known(s) ==
  /\ <<"done", Outer(s)>> \in misuse <=> AwaitedFreed(s)
  /\ <<"resume", Outer(s)>> \in misuse
       <=> AwaitedFreed(s) /\ frame[Lambda(s)] = "freed"
  /\ <<"destroy", Outer(s)>> \in misuse
       <=> AwaitedFreed(s) /\ frame[Lambda(s)] = "freed"
  /\ <<"read", Outer(s)>> \in misuse <=> SentLate(s)
  /\ \A op \in Touches : <<op, Inner(s)>> \notin misuse /\ <<op, Lambda(s)>> \notin misuse

Inv == TypeOK /\ \A s \in Spawns : Shape(s) /\ Still(s) /\ Known(s)

-----------------------------------------------------------------------------
(* Frames and task objects are what they are called.                        *)
LEMMA FrameNames ==
  /\ \A s \in Spawns : {Outer(s), Inner(s), Lambda(s)} \subseteq Frames
  /\ \A s \in Spawns, t \in Spawns :
       /\ s # t => Outer(s) # Outer(t) /\ Inner(s) # Inner(t) /\ Lambda(s) # Lambda(t)
       /\ Outer(s) # Inner(t) /\ Outer(s) # Lambda(t) /\ Inner(s) # Lambda(t)
  /\ \A s \in Spawns : /\ Outer(s)[1] = s /\ Outer(s)[2] = "outer"
                       /\ Inner(s)[2] = "inner" /\ Lambda(s)[2] = "lambda"
                       /\ Outer(s) # None /\ Inner(s) # None
  /\ \A f \in Frames : \E s \in Spawns : f \in {Outer(s), Inner(s), Lambda(s)}
  BY NoneAssumption DEF Frames, Roles, Outer, Inner, Lambda

LEMMA ObjectNames ==
  /\ \A s \in Spawns :
       {Argument(s), Parameter(s), Copy(s), Temporary(s)} \subseteq Objects
  /\ \A s \in Spawns, t \in Spawns :
       /\ s # t => /\ Argument(s) # Argument(t) /\ Parameter(s) # Parameter(t)
                   /\ Copy(s) # Copy(t) /\ Temporary(s) # Temporary(t)
       /\ Argument(s) # Parameter(t) /\ Argument(s) # Copy(t)
       /\ Argument(s) # Temporary(t) /\ Parameter(s) # Copy(t)
       /\ Parameter(s) # Temporary(t) /\ Copy(s) # Temporary(t)
  /\ \A o \in Objects : \E s \in Spawns :
       o \in {Argument(s), Parameter(s), Copy(s), Temporary(s)}
  BY DEF Objects, Holders, Argument, Parameter, Copy, Temporary

LEMMA InitInv == Init => Inv
  <1> SUFFICES ASSUME Init PROVE Inv
    OBVIOUS
  <1>1. TypeOK
    BY DEF Init, TypeOK
  <1>2. ASSUME NEW s \in Spawns PROVE Shape(s) /\ Still(s)
    BY FrameNames, ObjectNames DEF Init, Shape, Still, Handles
  <1>3. ASSUME NEW s \in Spawns PROVE Known(s)
    BY FrameNames DEF Init, Known, AwaitedFreed, SentLate
  <1> QED BY <1>1, <1>2, <1>3 DEF Inv

(* The other spawns are untouched by what one of them does.                 *)
Others(s) ==
  \A t \in Spawns \ {s} :
    /\ at'[t] = at[t] /\ kind'[t] = kind[t] /\ vector'[t] = vector[t]
    /\ \A f \in {Outer(t), Inner(t), Lambda(t)} :
         /\ frame'[f] = frame[f]
         /\ f \in slept' <=> f \in slept
         /\ f \in waiting' => f \in waiting
         /\ \A op \in Touches : <<op, f>> \in misuse' <=> <<op, f>> \in misuse
    /\ \A o \in {Argument(t), Parameter(t), Copy(t), Temporary(t)} :
         handle'[o] = handle[o]

LEMMA OthersKeep ==
  ASSUME Inv, NEW s \in Spawns, Others(s), NEW t \in Spawns \ {s}
  PROVE  Shape(t)' /\ Still(t)' /\ Known(t)'
  <1>1. Shape(t) /\ Still(t) /\ Known(t)
    BY DEF Inv
  <1>2. Shape(t)'
    BY <1>1 DEF Others, Shape, Handles
  <1>3. Still(t)'
    BY <1>1 DEF Others, Still
  <1>4. /\ AwaitedFreed(t)' <=> AwaitedFreed(t)
        /\ SentLate(t)' <=> SentLate(t)
        /\ frame'[Lambda(t)] = frame[Lambda(t)]
    BY DEF Others, AwaitedFreed, SentLate
  <1>5. Known(t)'
    BY <1>1, <1>4 DEF Others, Known, Touches
  <1> QED BY <1>2, <1>3, <1>5

(* A step of s that keeps these five keeps the invariant.                   *)
LEMMA Together ==
  ASSUME Inv, NEW s \in Spawns,
         TypeOK', Others(s), Shape(s)', Still(s)', Known(s)'
  PROVE  Inv'
  <1>1. ASSUME NEW t \in Spawns PROVE Shape(t)' /\ Still(t)' /\ Known(t)'
    <2>1. CASE t = s
      BY <2>1
    <2>2. CASE t # s
      BY <2>2, OthersKeep
    <2> QED BY <2>1, <2>2
  <1> QED BY <1>1 DEF Inv

LEMMA CallsInv ==
  ASSUME Inv, NEW s \in Spawns, NEW k \in {"accept", "client", "send"}, Calls(s, k) PROVE Inv'
  <1> USE FrameNames, ObjectNames DEF Calls, Steps
  <1>0. TypeOK /\ Shape(s) /\ Still(s) /\ Known(s)
    BY DEF Inv
  <1>1. TypeOK'
    BY <1>0 DEF TypeOK
  <1>2. Others(s)
    BY <1>0 DEF Others, TypeOK
  <1>3. Shape(s)'
    BY <1>0 DEF Shape, Handles, Still, TypeOK
  <1>4. Still(s)'
    BY <1>0 DEF Shape, Handles, Still, TypeOK
  <1>5. Known(s)'
    BY <1>0 DEF Shape, Still, Known, AwaitedFreed, SentLate, TypeOK, Touches
  <1> QED BY <1>1, <1>2, <1>3, <1>4, <1>5, Together

LEMMA ReturnsAtOnceInv ==
  ASSUME Inv, NEW s \in Spawns, ReturnsAtOnce(s) PROVE Inv'
  <1> USE FrameNames, ObjectNames DEF ReturnsAtOnce, Steps
  <1>0. TypeOK /\ Shape(s) /\ Still(s) /\ Known(s)
    BY DEF Inv
  <1>1. TypeOK'
    BY <1>0 DEF TypeOK
  <1>2. Others(s)
    BY <1>0 DEF Others, TypeOK
  <1>3. Shape(s)'
    BY <1>0 DEF Shape, Handles, Still, TypeOK
  <1>4. Still(s)'
    BY <1>0 DEF Shape, Handles, Still, TypeOK
  <1>5. Known(s)'
    BY <1>0 DEF Shape, Still, Known, AwaitedFreed, SentLate, TypeOK, Touches
  <1> QED BY <1>1, <1>2, <1>3, <1>4, <1>5, Together

LEMMA SuspendsInv ==
  ASSUME Inv, NEW s \in Spawns, Suspends(s) PROVE Inv'
  <1> USE FrameNames, ObjectNames DEF Suspends, Steps
  <1>0. TypeOK /\ Shape(s) /\ Still(s) /\ Known(s)
    BY DEF Inv
  <1>1. TypeOK'
    BY <1>0 DEF TypeOK
  <1>2. Others(s)
    BY <1>0 DEF Others, TypeOK
  <1>3. Shape(s)'
    BY <1>0 DEF Shape, Handles, Still, TypeOK
  <1>4. Still(s)'
    BY <1>0 DEF Shape, Handles, Still, TypeOK
  <1>5. Known(s)'
    BY <1>0 DEF Shape, Still, Known, AwaitedFreed, SentLate, TypeOK, Touches
  <1> QED BY <1>1, <1>2, <1>3, <1>4, <1>5, Together

LEMMA AwaitsInnerInv ==
  ASSUME Inv, NEW s \in Spawns, AwaitsInner(s) PROVE Inv'
  <1> USE FrameNames, ObjectNames DEF AwaitsInner, Steps
  <1>0. TypeOK /\ Shape(s) /\ Still(s) /\ Known(s)
    BY DEF Inv
  <1>t. /\ frame' \in [Frames -> {"none", "running", "suspended", "freed"}]
        /\ handle' \in [Objects -> Frames \cup {None}]
    BY <1>0 DEF TypeOK
  <1>u. /\ waiting' \subseteq Frames /\ slept' \subseteq Frames
        /\ at' \in [Spawns -> {"idle", "calling", "called", "spawned", "returning",
                                "returned"}]
    BY <1>0 DEF TypeOK
  <1>1. TypeOK'
    BY <1>0, <1>t, <1>u DEF TypeOK
  <1>2. Others(s)
    BY <1>0 DEF Others, TypeOK
  <1>3. Shape(s)'
    BY <1>0 DEF Shape, Handles, Still, TypeOK
  <1>4. Still(s)'
    BY <1>0 DEF Shape, Handles, Still, TypeOK
  <1>5. Known(s)'
    BY <1>0 DEF Shape, Still, Known, AwaitedFreed, SentLate, TypeOK, Touches
  <1> QED BY <1>1, <1>2, <1>3, <1>4, <1>5, Together

LEMMA SpawnedInv ==
  ASSUME Inv, NEW s \in Spawns, Spawned(s) PROVE Inv'
  <1> USE FrameNames, ObjectNames DEF Spawned, Steps, Move
  <1>0. TypeOK /\ Shape(s) /\ Still(s) /\ Known(s)
    BY DEF Inv
  <1>t. handle' \in [Objects -> Frames \cup {None}]
    <2> DEFINE passed == Move(Argument(s), Parameter(s), handle)
    <2>1. passed \in [Objects -> Frames \cup {None}]
      BY <1>0 DEF TypeOK
    <2> HIDE DEF passed
    <2>2. Move(Parameter(s), Copy(s), passed) \in [Objects -> Frames \cup {None}]
      BY <2>1
    <2> QED BY <2>2 DEF passed
  <1>1. TypeOK'
    BY <1>0, <1>t DEF TypeOK
  <1>2. Others(s)
    BY <1>0 DEF Others, TypeOK
  <1>3. Shape(s)'
    BY <1>0 DEF Shape, Handles, Still, TypeOK
  <1>4. Still(s)'
    BY <1>0 DEF Shape, Handles, Still, TypeOK
  <1>5. Known(s)'
    <2>1. /\ ~AwaitedFreed(s) /\ ~AwaitedFreed(s)'
          /\ SentLate(s)' <=> SentLate(s)
      BY <1>0 DEF AwaitedFreed, SentLate, TypeOK
    <2> QED BY <1>0, <2>1 DEF Known
  <1> QED BY <1>1, <1>2, <1>3, <1>4, <1>5, Together

LEMMA AwaitSuspendsInv ==
  ASSUME Inv, NEW s \in Spawns, AwaitSuspends(s) PROVE Inv'
  <1> USE FrameNames, ObjectNames DEF AwaitSuspends, Steps
  <1>0. TypeOK /\ Shape(s) /\ Still(s) /\ Known(s)
    BY DEF Inv
  <1>p. handle[Copy(s)] = Outer(s)
    BY <1>0 DEF Shape, Handles
  <1>m. \A op \in Touches, f \in Frames :
          <<op, f>> \in misuse' <=>
            \/ <<op, f>> \in misuse
            \/ op = "done" /\ f = Outer(s) /\ frame[f] = "freed"
    BY <1>p DEF Misuses, Gone, Touches
  <1>t. misuse' \subseteq {"done", "resume", "destroy", "read"} \X Frames
    BY <1>0, <1>p DEF TypeOK, Misuses, Destroys
  <1>u. /\ waiting' \subseteq Frames /\ slept' \subseteq Frames
        /\ at' \in [Spawns -> {"idle", "calling", "called", "spawned", "returning",
                                "returned"}]
        /\ frame' \in [Frames -> {"none", "running", "suspended", "freed"}]
    BY <1>0 DEF TypeOK
  <1>1. TypeOK'
    BY <1>0, <1>p, <1>t, <1>u DEF TypeOK
  <1>2. Others(s)
    <2>1. ASSUME NEW t \in Spawns \ {s}, NEW f \in {Outer(t), Inner(t), Lambda(t)},
                 NEW op \in Touches
          PROVE  <<op, f>> \in misuse' <=> <<op, f>> \in misuse
      <3>1. f \in Frames /\ f # Outer(s)
        OBVIOUS
      <3> HIDE DEF AwaitSuspends
      <3> QED BY <3>1, <1>m
    <2>2. ASSUME NEW t \in Spawns \ {s}
          PROVE  /\ at'[t] = at[t] /\ kind'[t] = kind[t] /\ vector'[t] = vector[t]
                 /\ \A f \in {Outer(t), Inner(t), Lambda(t)} :
                      /\ frame'[f] = frame[f]
                      /\ f \in slept' <=> f \in slept
                      /\ f \in waiting' => f \in waiting
                 /\ \A o \in {Argument(t), Parameter(t), Copy(t), Temporary(t)} :
                      handle'[o] = handle[o]
      BY <1>0 DEF TypeOK
    <2> HIDE DEF AwaitSuspends
    <2> QED BY <2>1, <2>2 DEF Others
  <1>3. Shape(s)'
    BY <1>0, <1>p DEF Shape, Handles, Still, TypeOK
  <1>4. Still(s)'
    BY <1>0, <1>p DEF Shape, Handles, Still, TypeOK
  <1>5. Known(s)'
    <2>1. /\ frame'[Outer(s)] = frame[Outer(s)] /\ frame'[Lambda(s)] = "suspended"
          /\ at[s] = "spawned" /\ at'[s] = "returning" /\ kind'[s] = kind[s]
          /\ Outer(s) \in slept' <=> Outer(s) \in slept
      BY <1>0 DEF TypeOK
    <2>2. frame[Outer(s)] = "freed" => Outer(s) \notin slept
      BY <1>0, <2>1 DEF Shape
    <2>3. /\ AwaitedFreed(s)' <=> frame[Outer(s)] = "freed"
          /\ ~AwaitedFreed(s) /\ ~SentLate(s) /\ ~SentLate(s)'
      BY <2>1, <2>2 DEF AwaitedFreed, SentLate
    <2> HIDE DEF AwaitSuspends
    <2> QED BY <1>0, <1>m, <2>1, <2>3 DEF Known, Touches
  <1> QED BY <1>1, <1>2, <1>3, <1>4, <1>5, Together

LEMMA AwaitReadyInv ==
  ASSUME Inv, NEW s \in Spawns, AwaitReady(s) PROVE Inv'
  <1> USE FrameNames, ObjectNames DEF AwaitReady, Steps
  <1>0. TypeOK /\ Shape(s) /\ Still(s) /\ Known(s)
    BY DEF Inv
  <1>p. handle[Copy(s)] = Outer(s) /\ frame[Outer(s)] = "freed"
    BY <1>0 DEF Shape, Handles, Gone
  <1>m. \A op \in Touches, f \in Frames :
          <<op, f>> \in misuse' <=>
            <<op, f>> \in misuse \/ (op \in {"done", "resume", "destroy"} /\ f = Outer(s))
    BY <1>p DEF Misuses, Gone, Destroys, Touches
  <1>t. misuse' \subseteq {"done", "resume", "destroy", "read"} \X Frames
    BY <1>0, <1>p DEF TypeOK, Misuses, Destroys
  <1>1. TypeOK'
    BY <1>0, <1>p, <1>t DEF TypeOK
  <1>2. Others(s)
    <2>1. ASSUME NEW t \in Spawns \ {s}, NEW f \in {Outer(t), Inner(t), Lambda(t)},
                 NEW op \in Touches
          PROVE  <<op, f>> \in misuse' <=> <<op, f>> \in misuse
      <3>1. f \in Frames /\ f # Outer(s)
        OBVIOUS
      <3> HIDE DEF AwaitReady
      <3> QED BY <3>1, <1>m
    <2>2. ASSUME NEW t \in Spawns \ {s}
          PROVE  /\ at'[t] = at[t] /\ kind'[t] = kind[t] /\ vector'[t] = vector[t]
                 /\ \A f \in {Outer(t), Inner(t), Lambda(t)} :
                      /\ frame'[f] = frame[f]
                      /\ f \in slept' <=> f \in slept
                      /\ f \in waiting' => f \in waiting
                 /\ \A o \in {Argument(t), Parameter(t), Copy(t), Temporary(t)} :
                      handle'[o] = handle[o]
      BY <1>0 DEF TypeOK
    <2> HIDE DEF AwaitReady
    <2> QED BY <2>1, <2>2 DEF Others
  <1>3. Shape(s)'
    BY <1>0, <1>p DEF Shape, Handles, Still, TypeOK
  <1>4. Still(s)'
    BY <1>0, <1>p DEF Shape, Handles, Still, TypeOK
  <1>5. Known(s)'
    <2>1. /\ frame'[Outer(s)] = "freed" /\ frame'[Lambda(s)] = "freed"
          /\ at[s] = "spawned" /\ at'[s] = "returning" /\ slept' = slept
      BY <1>0, <1>p DEF TypeOK
    <2>2. Outer(s) \notin slept
      BY <1>0, <1>p, <2>1 DEF Shape
    <2>3. AwaitedFreed(s)' /\ ~AwaitedFreed(s) /\ ~SentLate(s) /\ ~SentLate(s)'
      BY <2>1, <2>2 DEF AwaitedFreed, SentLate
    <2> HIDE DEF AwaitReady
    <2> QED BY <1>0, <1>m, <2>1, <2>3 DEF Known, Touches
  <1> QED BY <1>1, <1>2, <1>3, <1>4, <1>5, Together

LEMMA ReturnsInv ==
  ASSUME Inv, NEW s \in Spawns, Returns(s) PROVE Inv'
  <1> USE FrameNames, ObjectNames DEF Returns, Steps, VectorGoes
  <1>0. TypeOK /\ Shape(s) /\ Still(s) /\ Known(s)
    BY DEF Inv
  <1>p. misuse' = misuse \cup {} /\ frame' = frame
    <2>1. Destroys(Parameter(s)) = {} /\ Destroys(Argument(s)) = {}
      BY <1>0 DEF Shape, Handles, Destroys
    <2> QED BY <2>1 DEF Misuses, TypeOK, Inv
  <1>1. TypeOK'
    BY <1>0, <1>p DEF TypeOK
  <1>q. /\ at[s] = "returning" /\ at'[s] = "returned"
        /\ \A o \in Objects : handle'[o] = handle[o]
        /\ kind' = kind /\ slept' = slept /\ waiting' = waiting
        /\ kind'[s] = "send" => vector'[s] = "gone"
    BY <1>0 DEF Shape, Handles, TypeOK
  <1>2. Others(s)
    <2>1. ASSUME NEW t \in Spawns \ {s}
          PROVE  /\ at'[t] = at[t] /\ vector'[t] = vector[t]
                 /\ \A f \in {Outer(t), Inner(t), Lambda(t)} : frame'[f] = frame[f]
      BY <1>0, <1>p DEF TypeOK
    <2> HIDE DEF Returns, Steps, VectorGoes
    <2> QED BY <1>p, <1>q, <2>1 DEF Others
  <1>3. Shape(s)'
    <2> HIDE DEF Returns, Steps, VectorGoes
    <2> QED BY <1>0, <1>p, <1>q DEF Shape, Handles, Still, TypeOK
  <1>4. Still(s)'
    <2> HIDE DEF Returns, Steps, VectorGoes
    <2> QED BY <1>0, <1>p, <1>q DEF Still
  <1>5. Known(s)'
    <2> HIDE DEF Returns, Steps, VectorGoes
    <2> QED BY <1>0, <1>p, <1>q DEF Known, AwaitedFreed, SentLate
  <1> QED BY <1>1, <1>2, <1>3, <1>4, <1>5, Together

LEMMA SessionEndsInv ==
  ASSUME Inv, NEW s \in Spawns, SessionEnds(s) PROVE Inv'
  <1> USE FrameNames, ObjectNames DEF SessionEnds, Steps, InnerEnds
  <1>0. TypeOK /\ Shape(s) /\ Still(s) /\ Known(s)
    BY DEF Inv
  <1>1. TypeOK'
    BY <1>0 DEF TypeOK
  <1>2. Others(s)
    BY <1>0 DEF Others, TypeOK
  <1>3. Shape(s)'
    BY <1>0 DEF Shape, Handles, Still, TypeOK
  <1>4. Still(s)'
    BY <1>0 DEF Shape, Handles, Still, TypeOK
  <1>5. Known(s)'
    BY <1>0 DEF Shape, Still, Known, AwaitedFreed, SentLate, TypeOK, Touches
  <1> QED BY <1>1, <1>2, <1>3, <1>4, <1>5, Together

LEMMA SendEndsInv ==
  ASSUME Inv, NEW s \in Spawns, SendEnds(s) PROVE Inv'
  <1> USE FrameNames, ObjectNames DEF SendEnds, Steps
  <1>0. TypeOK /\ Shape(s) /\ Still(s) /\ Known(s)
    BY DEF Inv
  <1>1. TypeOK'
    BY <1>0 DEF TypeOK
  <1>2. Others(s)
    BY <1>0 DEF Others, TypeOK
  <1>3. Shape(s)'
    BY <1>0 DEF Shape, Handles, Still, TypeOK
  <1>4. Still(s)'
    BY <1>0 DEF Shape, Handles, Still, TypeOK
  <1>5. Known(s)'
    BY <1>0 DEF Shape, Still, Known, AwaitedFreed, SentLate, TypeOK, Touches
  <1> QED BY <1>1, <1>2, <1>3, <1>4, <1>5, Together

-----------------------------------------------------------------------------
LEMMA NextInv == Inv /\ [Next]_vars => Inv'
  <1> SUFFICES ASSUME Inv, [Next]_vars PROVE Inv'
    OBVIOUS
  <1>1. CASE UNCHANGED vars
    BY <1>1 DEF vars, Inv, TypeOK, Shape, Handles, Still, Known, AwaitedFreed, SentLate
  <1>2. ASSUME NEW s \in Spawns, Step(s) PROVE Inv'
    BY <1>2, CallsInv, ReturnsAtOnceInv, SuspendsInv, AwaitsInnerInv, SpawnedInv,
       AwaitSuspendsInv, AwaitReadyInv, ReturnsInv, SessionEndsInv, SendEndsInv
       DEF Step
  <1> QED BY <1>1, <1>2 DEF Next

(* Inv holds in every reachable state.                                      *)
THEOREM Invariance == Spec => []Inv
  BY InitInv, NextInv, PTL DEF Spec

(* Frames, handles and the rest have their types.                           *)
THEOREM FramesTypeCorrect == Spec => []TypeOK
  <1>1. Inv => TypeOK
    BY DEF Inv
  <1> QED BY Invariance, <1>1, PTL

(* However many coroutines are spawned and in whatever order they end: the  *)
(* task that completed before it was awaited, and the vector of every send, *)
(* are touched after they are gone, and nothing else ever is.               *)
THEOREM MisuseKnown == Spec => []MisuseExactly
  <1>1. Inv => MisuseExactly
    <2> SUFFICES ASSUME Inv PROVE misuse = UNION {MisusedOf(s) : s \in Spawns}
      BY DEF MisuseExactly
    <2>1. ASSUME NEW s \in Spawns, NEW op \in Touches
          PROVE  <<op, Outer(s)>> \in misuse <=> <<op, Outer(s)>> \in MisusedOf(s)
      BY DEF Inv, Known, MisusedOf, Touches
    <2>2. ASSUME NEW m \in misuse
          PROVE  \E s \in Spawns : m \in MisusedOf(s)
      <3>1. PICK op \in Touches, f \in Frames : m = <<op, f>>
        BY DEF Inv, TypeOK, Touches
      <3>2. PICK s \in Spawns : f \in {Outer(s), Inner(s), Lambda(s)}
        BY FrameNames
      <3>3. f = Outer(s)
        BY <3>1, <3>2 DEF Inv, Known
      <3> QED BY <2>1, <3>1, <3>3
    <2>3. ASSUME NEW s \in Spawns, NEW m \in MisusedOf(s)
          PROVE  m \in misuse
      <3>1. PICK op \in Touches : m = <<op, Outer(s)>>
        BY DEF MisusedOf, Touches
      <3> QED BY <2>1, <3>1
    <2> QED BY <2>2, <2>3
  <1> QED BY Invariance, <1>1, PTL

(* No task object destroys a frame the event loop will resume.              *)
THEOREM RingFramesLive == Spec => []RingHoldsLiveFrames
  <1>1. Inv => RingHoldsLiveFrames
    <2> SUFFICES ASSUME Inv, NEW f \in waiting PROVE frame[f] = "suspended"
      BY DEF RingHoldsLiveFrames
    <2>1. PICK s \in Spawns : f \in {Outer(s), Inner(s), Lambda(s)}
      BY FrameNames DEF Inv, TypeOK
    <2> QED BY <2>1 DEF Inv, Still
  <1> QED BY Invariance, <1>1, PTL

(* Every suspended coroutine has one owner, and no frame has two.           *)
THEOREM OwnersUnique == Spec => []OwnedOnce
  <1>1. Inv => OwnedOnce
    <2> SUFFICES ASSUME Inv, NEW f \in Frames
                 PROVE  /\ \A o \in Objects, q \in Objects :
                             handle[o] = f /\ handle[q] = f => o = q
                        /\ frame[f] = "suspended" /\ f[2] # "lambda"
                             => \E o \in Objects : handle[o] = f
      BY DEF OwnedOnce
    <2>1. \A t \in Spawns :
            /\ handle[Argument(t)] \in {Outer(t), None}
            /\ handle[Parameter(t)] = None
            /\ handle[Copy(t)] \in {Outer(t), None}
            /\ handle[Argument(t)] = None \/ handle[Copy(t)] = None
            /\ handle[Temporary(t)] \in {Inner(t), None}
      BY DEF Inv, Shape, Handles, Still, TypeOK
    <2>2. \A o \in Objects, q \in Objects :
            handle[o] = f /\ handle[q] = f => o = q
      BY <2>1, FrameNames, ObjectNames, NoneAssumption
    <2>3. ASSUME frame[f] = "suspended", f[2] # "lambda"
          PROVE  \E o \in Objects : handle[o] = f
      <3>1. PICK s \in Spawns : f \in {Outer(s), Inner(s)}
        BY <2>3, FrameNames
      <3>2. CASE f = Inner(s)
        BY <2>3, <3>2, ObjectNames DEF Inv, Still
      <3>3. CASE f = Outer(s)
        <4>1. handle[Argument(s)] = f \/ handle[Copy(s)] = f
          BY <2>3, <3>3 DEF Inv, Shape, Handles, TypeOK
        <4> QED BY <4>1, ObjectNames
      <3> QED BY <3>1, <3>2, <3>3
    <2> QED BY <2>2, <2>3
  <1> QED BY Invariance, <1>1, PTL

(* Who suspended on a task stays suspended when it has ended.               *)
THEOREM CallersForgotten == Spec => []CallersStay
  <1>1. Inv => CallersStay
    <2> SUFFICES ASSUME Inv, NEW s \in Spawns
                 PROVE  /\ frame[Inner(s)] = "freed" => frame[Outer(s)] = "suspended"
                        /\ at[s] = "returned" /\ Outer(s) \in slept
                             => frame[Lambda(s)] = "suspended"
      BY DEF CallersStay
    <2>1. frame[Inner(s)] = "freed" => frame[Outer(s)] = "suspended"
      BY DEF Inv, Still
    <2>2. at[s] = "returned" /\ Outer(s) \in slept => frame[Lambda(s)] = "suspended"
      BY DEF Inv, Shape
    <2> QED BY <2>1, <2>2
  <1> QED BY Invariance, <1>1, PTL
=============================================================================
