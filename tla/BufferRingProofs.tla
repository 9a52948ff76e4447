--------------------------- MODULE BufferRingProofs ---------------------------
(***************************************************************************)
(* Proofs about BufferRing, for any number of buffers and sessions: every  *)
(* buffer is accounted for, and the ring is a pool that is never           *)
(* overfilled (BufferPool), whichever slots addBuf writes; every buffer is *)
(* in one place as long as addBuf writes the slots it publishes, which it  *)
(* does for buffer 0 only.                                                 *)
(***************************************************************************)
EXTENDS BufferRing, FiniteSetTheorems, SequenceTheorems, TLAPS

(* What is published is what was taken, and only a session that holds a     *)
(* buffer is returning one.                                                 *)
Inv ==
  /\ TypeOK
  /\ AllAccounted
  /\ ~ready => tail = 0 /\ head = 0 /\ Holding = {} /\ forgotten = <<>>
  /\ \A s \in writing : held[s] # NoBuf /\ writing = {s}

-----------------------------------------------------------------------------
(* Counting modulo Wrap.                                                    *)
LEMMA Modulo ==
  ASSUME NEW a \in Int, NEW b \in Nat \ {0} PROVE a % b \in 0..(b - 1)
  OBVIOUS

LEMMA ModuloOf ==
  ASSUME NEW b \in Nat \ {0}, NEW a \in Int
  PROVE  /\ a \in 0..(b - 1) => a % b = a
         /\ a \in b..(2 * b - 1) => a % b = a - b
         /\ a \in (-b)..(-1) => a % b = a + b
  OBVIOUS

LEMMA WrapNat == Wrap \in Nat \ {0} /\ N \in Nat \ {0} /\ N < Wrap
  BY SizesAssumption

LEMMA Distance ==
  ASSUME NEW t \in Counters, NEW h \in Counters
  PROVE  (t - h) % Wrap = IF t >= h THEN t - h ELSE t - h + Wrap
  <1>1. t - h \in Int /\ t - h \in (-Wrap)..(Wrap - 1)
    BY WrapNat DEF Counters
  <1>2. CASE t >= h
    <2>1. t - h \in 0..(Wrap - 1)
      BY <1>1, <1>2, WrapNat DEF Counters
    <2> QED BY <1>1, <1>2, <2>1, WrapNat, ModuloOf
  <1>3. CASE ~(t >= h)
    <2>1. t - h \in (-Wrap)..(-1)
      BY <1>1, <1>3, WrapNat DEF Counters
    <2> QED BY <1>1, <1>3, <2>1, WrapNat, ModuloOf
  <1> QED BY <1>2, <1>3

LEMMA Successor ==
  ASSUME NEW t \in Counters
  PROVE  /\ (t + 1) % Wrap \in Counters
         /\ (t + 1) % Wrap = IF t = Wrap - 1 THEN 0 ELSE t + 1
  <1>1. CASE t = Wrap - 1
    <2>1. Wrap \in Wrap..(2 * Wrap - 1) /\ Wrap \in Int /\ t + 1 = Wrap
      BY <1>1, WrapNat DEF Counters
    <2>2. Wrap % Wrap = Wrap - Wrap
      BY <2>1, WrapNat, ModuloOf
    <2> QED BY <1>1, <2>1, <2>2, WrapNat DEF Counters
  <1>2. CASE t # Wrap - 1
    <2>1. t + 1 \in 0..(Wrap - 1) /\ t + 1 \in Int
      BY <1>2, WrapNat DEF Counters
    <2>2. (t + 1) % Wrap = t + 1
      BY <2>1, WrapNat, ModuloOf
    <2> QED BY <1>2, <2>1, <2>2, WrapNat DEF Counters
  <1> QED BY <1>1, <1>2

(* How many are on offer after the kernel takes one or a return is          *)
(* published.                                                               *)
LEMMA OfferedBetween ==
  ASSUME NEW t \in Counters, NEW h \in Counters,
         NEW u \in Counters, u = IF t = Wrap - 1 THEN 0 ELSE t + 1,
         NEW g \in Counters, g = IF h = Wrap - 1 THEN 0 ELSE h + 1
  PROVE  /\ (t - h) % Wrap \in 0..(Wrap - 1)
         /\ t = h <=> (t - h) % Wrap = 0
         /\ t # h => (t - g) % Wrap = ((t - h) % Wrap) - 1
         /\ (t - h) % Wrap < Wrap - 1
              => (u - h) % Wrap = ((t - h) % Wrap) + 1
  <1> DEFINE a == (t - h) % Wrap
             b == (t - g) % Wrap
             c == (u - h) % Wrap
  <1>1. /\ a = IF t >= h THEN t - h ELSE t - h + Wrap
        /\ b = IF t >= g THEN t - g ELSE t - g + Wrap
        /\ c = IF u >= h THEN u - h ELSE u - h + Wrap
    BY Distance
  <1> SUFFICES /\ a \in 0..(Wrap - 1)
               /\ t = h <=> a = 0
               /\ t # h => b = a - 1
               /\ a < Wrap - 1 => c = a + 1
    OBVIOUS
  <1> HIDE DEF a, b, c
  <1> QED BY <1>1, WrapNat DEF Counters

LEMMA OfferedSteps ==
  ASSUME NEW t \in Counters, NEW h \in Counters
  PROVE  /\ (t - h) % Wrap \in 0..(Wrap - 1)
         /\ t = h <=> (t - h) % Wrap = 0
         /\ t # h => (t - ((h + 1) % Wrap)) % Wrap = ((t - h) % Wrap) - 1
         /\ (t - h) % Wrap < Wrap - 1
              => (((t + 1) % Wrap) - h) % Wrap = ((t - h) % Wrap) + 1
  <1>1. PICK u \in Counters : /\ u = (t + 1) % Wrap
                             /\ u = IF t = Wrap - 1 THEN 0 ELSE t + 1
    BY Successor
  <1>2. PICK g \in Counters : /\ g = (h + 1) % Wrap
                             /\ g = IF h = Wrap - 1 THEN 0 ELSE h + 1
    BY Successor
  <1>3. /\ (t - h) % Wrap \in 0..(Wrap - 1)
        /\ t = h <=> (t - h) % Wrap = 0
        /\ t # h => (t - g) % Wrap = ((t - h) % Wrap) - 1
        /\ (t - h) % Wrap < Wrap - 1 => (u - h) % Wrap = ((t - h) % Wrap) + 1
    BY <1>1, <1>2, OfferedBetween
  <1>4. t # h => (t - ((h + 1) % Wrap)) % Wrap = ((t - h) % Wrap) - 1
    BY <1>2, <1>3
  <1>5. (t - h) % Wrap < Wrap - 1
          => (((t + 1) % Wrap) - h) % Wrap = ((t - h) % Wrap) + 1
    BY <1>1, <1>3
  <1> QED BY <1>3, <1>4, <1>5

-----------------------------------------------------------------------------
(* Counting modulo N: which slot an index names.                            *)
LEMMA Division ==
  ASSUME NEW a \in Int
  PROVE  /\ a \div N \in Int /\ a % N \in 0..(N - 1)
         /\ a = (N * (a \div N)) + (a % N)
  BY WrapNat

LEMMA MultipleBound ==
  ASSUME NEW k \in Int
  PROVE  /\ N * k \in Int
         /\ k >= 1 => N * k >= N
         /\ k <= -1 => N * k <= -N
  BY WrapNat

LEMMA RemainderUnique ==
  ASSUME NEW p \in Int, NEW q \in Int,
         NEW r \in 0..(N - 1), NEW s \in 0..(N - 1),
         (N * p) + r = (N * q) + s
  PROVE  r = s /\ p = q
  <1>1. N * (p - q) = s - r
    <2>1. N * (p - q) = (N * p) - (N * q) /\ N * p \in Int /\ N * q \in Int
      BY WrapNat
    <2> QED BY <2>1, WrapNat
  <1>2. p - q \in Int /\ s - r < N /\ s - r > -N
    BY WrapNat
  <1>3. ~(p - q >= 1) /\ ~(p - q <= -1)
    BY <1>1, <1>2, MultipleBound, WrapNat
  <1>4. p - q = 0
    BY <1>2, <1>3
  <1> QED BY <1>1, <1>4, WrapNat

(* An index and the same index a wrap later name the same slot.             *)
LEMMA WrapKeepsSlot ==
  ASSUME NEW a \in Int PROVE (a + Wrap) % N = a % N
  <1> DEFINE w == Wrap \div N
             q == a \div N
             p == (a + Wrap) \div N
  <1>1. Wrap = N * w /\ w \in Int
    BY Division, WrapNat, SizesAssumption
  <1>2. a = (N * q) + (a % N) /\ q \in Int /\ a % N \in 0..(N - 1)
    BY Division
  <1>3. /\ a + Wrap = (N * p) + ((a + Wrap) % N) /\ p \in Int
        /\ (a + Wrap) % N \in 0..(N - 1)
    <2>1. a + Wrap \in Int
      BY WrapNat
    <2> QED BY <2>1, Division
  <1> HIDE DEF w, q, p
  <1>4. N * (q + w) = (N * q) + (N * w) /\ N * q \in Int /\ N * w \in Int
    BY <1>1, <1>2, WrapNat
  <1>5. (N * (q + w)) + (a % N) = (N * p) + ((a + Wrap) % N)
    BY <1>1, <1>2, <1>3, <1>4, WrapNat
  <1> QED BY <1>1, <1>2, <1>3, <1>5, RemainderUnique

(* Fewer than N indices in a row name slots of their own.                   *)
LEMMA SlotsDistinct ==
  ASSUME NEW h \in Int, NEW i \in 0..(N - 1), NEW j \in 0..(N - 1),
         (h + i) % N = (h + j) % N
  PROVE  i = j
  <1> DEFINE p == (h + i) \div N
             q == (h + j) \div N
             r == (h + i) % N
  <1>1. /\ h + i = (N * p) + r /\ h + j = (N * q) + r
        /\ p \in Int /\ q \in Int /\ r \in 0..(N - 1)
    <2>1. h + i \in Int /\ h + j \in Int
      BY WrapNat
    <2> QED BY <2>1, Division
  <1> HIDE DEF p, q, r
  <1>3. N * (p - q) = i - j
    <2>1. N * (p - q) = (N * p) - (N * q) /\ N * p \in Int /\ N * q \in Int
      BY <1>1, WrapNat
    <2> QED BY <1>1, <2>1, WrapNat
  <1>4. ~(p - q >= 1) /\ ~(p - q <= -1)
    BY <1>1, <1>3, MultipleBound, WrapNat
  <1>5. p - q = 0
    BY <1>1, <1>4
  <1> QED BY <1>3, <1>5, WrapNat

(* The slot behind the offered ones is the tail's; the kernel's next index  *)
(* shifts the row by one.                                                   *)
LEMMA TailBehindOffered ==
  ASSUME NEW t \in Counters, NEW h \in Counters
  PROVE  (h + ((t - h) % Wrap)) % N = t % N
  <1>1. t \in Int /\ h \in Int
    BY WrapNat DEF Counters
  <1>2. (t - h) % Wrap = IF t >= h THEN t - h ELSE t - h + Wrap
    BY Distance
  <1>3. h + ((t - h) % Wrap) = IF t >= h THEN t ELSE t + Wrap
    BY <1>1, <1>2, WrapNat
  <1> QED BY <1>1, <1>3, WrapKeepsSlot

LEMMA HeadShifts ==
  ASSUME NEW h \in Counters, NEW i \in Nat
  PROVE  (((h + 1) % Wrap) + i) % N = (h + (i + 1)) % N
  <1>1. (h + 1) % Wrap = IF h = Wrap - 1 THEN 0 ELSE h + 1
    BY Successor
  <1>2. CASE h = Wrap - 1
    <2>1. h + (i + 1) = i + Wrap
      BY <1>2, WrapNat
    <2>2. ((h + 1) % Wrap) + i = i
      BY <1>1, <1>2
    <2> QED BY <2>1, <2>2, WrapKeepsSlot
  <1>3. CASE h # Wrap - 1
    <2>1. h \in Int /\ (h + 1) + i = h + (i + 1)
      BY DEF Counters
    <2> QED BY <1>1, <1>3, <2>1
  <1> QED BY <1>2, <1>3

-----------------------------------------------------------------------------
LEMMA HoldingFinite ==
  ASSUME TypeOK PROVE IsFiniteSet(Holding) /\ Cardinality(Holding) \in Nat
  BY SizesAssumption, FS_Subset, FS_CardinalityType DEF Holding

(* The slot a step touches is one.                                          *)
LEMMA SlotInRange ==
  ASSUME NEW k \in Nat PROVE k % N \in Ids
  BY WrapNat, Modulo DEF Ids

LEMMA InitInv == Init => Inv
  <1> SUFFICES ASSUME Init PROVE Inv
    OBVIOUS
  <1>1. TypeOK
    <2>1. 0 \in Ids /\ 0 \in Counters
      BY WrapNat DEF Ids, Counters
    <2> QED BY <2>1 DEF Init, TypeOK
  <1>2. Holding = {}
    BY DEF Init, Holding
  <1> QED BY <1>1, <1>2 DEF Inv, Init, AllAccounted

LEMMA HoldingNow ==
  ASSUME TypeOK, NEW s \in Sessions, NEW v \in Ids \cup {NoBuf},
         held' = [held EXCEPT ![s] = v]
  PROVE  Holding' = IF v = NoBuf THEN Holding \ {s} ELSE Holding \cup {s}
  BY DEF TypeOK, Holding

LEMMA IdsNotNoBuf == NoBuf \notin Ids
  BY SizesAssumption DEF Ids

LEMMA RegisterInv == Inv /\ Register => Inv'
  <1> SUFFICES ASSUME Inv, Register PROVE Inv'
    OBVIOUS
  <1> USE DEF Inv, Register
  <1>1. tail' = N /\ N \in Counters
    <2>1. N \in 0..(Wrap - 1) /\ N \in Int /\ 0 + N = N
      BY WrapNat
    <2>2. N % Wrap = N
      BY <2>1, WrapNat, ModuloOf
    <2> QED BY <2>1, <2>2 DEF Advanced, Counters
  <1>2. TypeOK'
    BY <1>1 DEF TypeOK
  <1>3. Offered' = N
    <2>1. N - 0 = N /\ N >= 0 /\ 0 \in Counters
      BY WrapNat DEF Counters
    <2> QED BY <1>1, <2>1, Distance DEF Offered
  <1>4. Holding' = {}
    BY DEF Holding
  <1>5. AllAccounted'
    BY <1>3, <1>4, FS_EmptySet, WrapNat DEF AllAccounted
  <1>6. writing' = {}
    BY DEF Holding, TypeOK
  <1> QED BY <1>2, <1>5, <1>6

LEMMA KernelTakesInv ==
  ASSUME Inv, NEW s \in Sessions, KernelTakes(s)
  PROVE  Inv' /\ Offered > 0 /\ Offered' = Offered - 1
  <1> USE DEF Inv, KernelTakes, OnOffer
  <1>1. head \in Counters /\ tail \in Counters /\ head % N \in Ids
    BY SlotInRange DEF TypeOK, Counters
  <1>2. slot[head % N] \in Ids /\ slot[head % N] # NoBuf
    BY <1>1, IdsNotNoBuf DEF TypeOK
  <1>3. head' \in Counters
    BY <1>1, Successor
  <1>4. TypeOK'
    BY <1>2, <1>3 DEF TypeOK
  <1>5. Offered' = Offered - 1 /\ Offered \in Nat /\ Offered > 0
    BY <1>1, OfferedSteps, WrapNat DEF Offered
  <1>6. Holding' = Holding \cup {s} /\ s \notin Holding
    BY <1>2 DEF Holding, TypeOK
  <1>7. Cardinality(Holding') = Cardinality(Holding) + 1
    BY <1>6, HoldingFinite, FS_AddElement
  <1>8. Len(forgotten) \in Nat
    BY DEF TypeOK
  <1>9. AllAccounted'
    BY <1>5, <1>7, <1>8, HoldingFinite, WrapNat DEF AllAccounted
  <1>10. \A q \in writing' : held'[q] # NoBuf /\ writing' = {q}
    BY <1>2 DEF TypeOK
  <1> QED BY <1>4, <1>5, <1>9, <1>10

LEMMA AddBufInv ==
  ASSUME Inv, NEW s \in Sessions, AddBuf(s) PROVE Inv' /\ Offered' = Offered
  <1> USE DEF Inv, AddBuf
  <1>1. held[s] \in Ids /\ held[s] \in Nat /\ tail \in Nat
    BY WrapNat DEF TypeOK, Ids, Counters
  <1>2. tail + held[s] \in Nat
    BY <1>1
  <1>3. SlotAt(Offset(held[s])) \in Ids
    BY <1>2, SlotInRange DEF SlotAt, Offset
  <1>4. TypeOK'
    BY <1>1, <1>3 DEF TypeOK
  <1>5. Offered' = Offered /\ Holding' = Holding
    BY DEF Offered, Holding
  <1> QED BY <1>4, <1>5 DEF AllAccounted

(* A session that gives up its buffer leaves one holder less.               *)
LEMMA OneLess ==
  ASSUME Inv, NEW s \in Sessions, held[s] # NoBuf,
         held' = [held EXCEPT ![s] = NoBuf]
  PROVE  /\ Cardinality(Holding') = Cardinality(Holding) - 1
         /\ Cardinality(Holding) \in Nat \ {0}
         /\ ready
  <1> USE DEF Inv
  <1>1. s \in Holding /\ Holding' = Holding \ {s}
    BY HoldingNow DEF Holding
  <1>2. /\ IsFiniteSet(Holding) /\ Cardinality(Holding) \in Nat
        /\ Cardinality(Holding') = Cardinality(Holding) - 1
    BY <1>1, HoldingFinite, FS_RemoveElement
  <1>3. Cardinality(Holding) # 0
    BY <1>1, <1>2, FS_EmptySet
  <1> QED BY <1>1, <1>2, <1>3

LEMMA PublishInv ==
  ASSUME Inv, NEW s \in Sessions, Publish(s)
  PROVE  Inv' /\ Offered < N /\ Offered' = Offered + 1
  <1> USE DEF Inv, Publish
  <1>1. /\ Cardinality(Holding') = Cardinality(Holding) - 1
        /\ Cardinality(Holding) \in Nat \ {0} /\ ready
    BY OneLess
  <1>2. head \in Counters /\ tail \in Counters /\ Len(forgotten) \in Nat
    BY DEF TypeOK
  <1>3. Offered \in Nat /\ Offered < N
    BY <1>1, <1>2, OfferedSteps, WrapNat DEF AllAccounted, Offered
  <1>4. Offered' = Offered + 1
    BY <1>2, <1>3, OfferedSteps, WrapNat DEF Offered, Advanced
  <1>5. TypeOK'
    BY <1>2, Successor DEF TypeOK, Advanced
  <1>6. AllAccounted'
    BY <1>1, <1>2, <1>3, <1>4 DEF AllAccounted
  <1> QED BY <1>1, <1>3, <1>4, <1>5, <1>6

LEMMA ForgetsInv ==
  ASSUME Inv, NEW s \in Sessions, Forgets(s) PROVE Inv' /\ Offered' = Offered
  <1> USE DEF Inv, Forgets
  <1>1. /\ Cardinality(Holding') = Cardinality(Holding) - 1
        /\ Cardinality(Holding) \in Nat \ {0} /\ ready
    BY OneLess
  <1>2. /\ held[s] \in Ids /\ forgotten \in Seq(Ids)
        /\ Len(forgotten') = Len(forgotten) + 1 /\ Len(forgotten) \in Nat
        /\ forgotten' \in Seq(Ids)
    BY DEF TypeOK
  <1>3. TypeOK'
    BY <1>2 DEF TypeOK
  <1>4. Offered' = Offered /\ Offered \in Nat
    BY OfferedSteps, WrapNat DEF Offered, TypeOK
  <1>5. AllAccounted'
    BY <1>1, <1>2, <1>4, WrapNat DEF AllAccounted
  <1> QED BY <1>1, <1>3, <1>4, <1>5

LEMMA NextInv == Inv /\ [Next]_vars => Inv'
  <1> SUFFICES ASSUME Inv, [Next]_vars PROVE Inv'
    OBVIOUS
  <1>1. CASE UNCHANGED vars
    BY <1>1 DEF vars, Inv, TypeOK, AllAccounted, Offered, Holding
  <1> QED BY <1>1, RegisterInv, KernelTakesInv, AddBufInv, PublishInv, ForgetsInv
          DEF Next

-----------------------------------------------------------------------------
(* Where the buffers are, as long as addBuf has published what it wrote.    *)
(* ExactlyOnePlace alone is not inductive: between the two halves of addBuf *)
(* the slot behind the offered ones has to hold the id that is to follow.   *)
At(i) == slot[(head + i) % N]
Out == {held[s] : s \in Holding}
Gone == ToSet(forgotten)

Places ==
  ready /\ ~misplaced =>
    /\ \A i, j \in 0..(Offered - 1) : At(i) = At(j) => i = j
    /\ \A s, t \in Holding : s # t => held[s] # held[t]
    /\ OfferedIds \cap Out = {} /\ OfferedIds \cap Gone = {}
    /\ Out \cap Gone = {}
    /\ OfferedIds \cup Out \cup Gone = Ids
    /\ \A s \in writing : slot[tail % N] = held[s]

LEMMA OfferedAt == OfferedIds = {At(i) : i \in 0..(Offered - 1)}
  BY DEF OfferedIds, At

(* How much is on offer: never more than the ring has slots.                *)
LEMMA OfferedType ==
  ASSUME Inv
  PROVE  /\ Offered \in Nat /\ head \in Counters /\ tail \in Counters
         /\ Offered <= N
         /\ Holding # {} => ready /\ Offered < N
  <1>1. head \in Counters /\ tail \in Counters /\ Len(forgotten) \in Nat
    BY DEF Inv, TypeOK
  <1>2. Offered \in Nat
    BY <1>1, OfferedSteps, WrapNat DEF Offered
  <1>3. IsFiniteSet(Holding) /\ Cardinality(Holding) \in Nat
    BY HoldingFinite DEF Inv
  <1>4. Holding # {} => Cardinality(Holding) # 0
    BY <1>3, FS_EmptySet
  <1>5. CASE ready
    BY <1>1, <1>2, <1>3, <1>4, <1>5, WrapNat DEF Inv, AllAccounted
  <1>6. CASE ~ready
    BY <1>1, <1>2, <1>6, OfferedSteps, WrapNat DEF Inv, Offered
  <1> QED BY <1>1, <1>2, <1>5, <1>6

LEMMA RegisterPlaces ==
  ASSUME Inv, Register PROVE Places'
  <1> USE DEF Register
  <1>1. Holding' = {} /\ forgotten' = <<>> /\ writing' = {}
    BY DEF Inv, Holding, TypeOK
  <1>2. Out' = {} /\ Gone' = {}
    BY <1>1 DEF Out, Gone, ToSet
  <1>3. Inv'
    BY RegisterInv
  <1>4. head' = 0 /\ Offered' = N
    <2>1. Offered' + Cardinality({}) + Len(<<>>) = N
      BY <1>1, <1>3 DEF Inv, AllAccounted
    <2>2. Offered' \in Int
      BY <1>3, OfferedSteps, WrapNat DEF Inv, TypeOK, Offered
    <2> QED BY <2>1, <2>2, FS_EmptySet, WrapNat DEF Inv
  <1>5. \A i \in 0..(N - 1) : At(i)' = i
    <2> SUFFICES ASSUME NEW i \in 0..(N - 1) PROVE At(i)' = i
      OBVIOUS
    <2>1. i \in Int /\ i % N = i /\ i \in Ids /\ 0 + i = i
      BY WrapNat, ModuloOf DEF Ids
    <2> QED BY <1>4, <2>1 DEF At
  <1>6. OfferedIds' = Ids
    BY <1>4, <1>5 DEF OfferedIds, At, Ids
  <1> QED BY <1>1, <1>2, <1>4, <1>5, <1>6 DEF Places

(* What a session holds, when one takes a buffer or gives its own up.       *)
LEMMA OutGrows ==
  ASSUME TypeOK, NEW s \in Sessions, NEW v \in Ids, held[s] = NoBuf,
         held' = [held EXCEPT ![s] = v]
  PROVE  Out' = Out \cup {v} /\ Holding' = Holding \cup {s} /\ s \notin Holding
  <1>1. Holding' = Holding \cup {s} /\ s \notin Holding
    BY HoldingNow, IdsNotNoBuf DEF Holding
  <1>2. held'[s] = v /\ \A t \in Holding : held'[t] = held[t]
    BY <1>1 DEF TypeOK, Holding
  <1> QED BY <1>1, <1>2 DEF Out

LEMMA OutShrinks ==
  ASSUME TypeOK, NEW s \in Holding,
         \A r, t \in Holding : r # t => held[r] # held[t],
         held' = [held EXCEPT ![s] = NoBuf]
  PROVE  Out' = Out \ {held[s]} /\ Holding' = Holding \ {s} /\ held[s] \in Out
  <1>1. s \in Sessions /\ Holding' = Holding \ {s}
    BY HoldingNow DEF Holding
  <1>2. \A t \in Holding \ {s} : held'[t] = held[t]
    BY DEF TypeOK, Holding
  <1> QED BY <1>1, <1>2 DEF Out

LEMMA KernelTakesPlaces ==
  ASSUME Inv, Places, NEW s \in Sessions, KernelTakes(s) PROVE Places'
  <1> SUFFICES ASSUME ready, ~misplaced PROVE Places'
    BY DEF Places, KernelTakes
  <1> DEFINE taken == At(0)
  <1>1. Offered > 0 /\ Offered' = Offered - 1 /\ Offered \in Nat /\ head \in Counters
    BY KernelTakesInv, OfferedType
  <1>2. \A i \in 0..(Offered' - 1) : At(i)' = At(i + 1)
    BY <1>1, HeadShifts DEF KernelTakes, At
  <1>3. OfferedIds' = {At(i)' : i \in 0..(Offered' - 1)}
    BY DEF OfferedIds, At
  <1>4. /\ \A i, j \in 0..(Offered - 1) : At(i) = At(j) => i = j
        /\ OfferedIds = {At(i) : i \in 0..(Offered - 1)}
    BY OfferedAt DEF Places
  <1>5. taken = slot[head % N] /\ taken \in Ids
    <2>1. head + 0 = head /\ head % N \in Ids
      BY <1>1, SlotInRange DEF Counters
    <2> QED BY <2>1 DEF At, Inv, TypeOK
  <1>6. held[s] = NoBuf /\ held' = [held EXCEPT ![s] = taken]
    BY <1>5 DEF KernelTakes
  <1> HIDE DEF At
  <1>7. OfferedIds' = OfferedIds \ {taken} /\ taken \in OfferedIds
    <2>1. 0 \in 0..(Offered - 1)
      BY <1>1
    <2>2. \A x \in OfferedIds' : x \in OfferedIds /\ x # taken
      <3> SUFFICES ASSUME NEW i \in 0..(Offered' - 1)
                   PROVE  At(i)' \in OfferedIds /\ At(i)' # taken
        BY <1>3
      <3>1. i + 1 \in 0..(Offered - 1) /\ i + 1 # 0
        BY <1>1
      <3> QED BY <1>2, <1>4, <2>1, <3>1
    <2>3. ASSUME NEW i \in 0..(Offered - 1), At(i) # taken
          PROVE  At(i) \in OfferedIds'
      <3>1. i - 1 \in 0..(Offered' - 1) /\ (i - 1) + 1 = i
        BY <1>1, <2>3
      <3> QED BY <1>2, <1>3, <3>1
    <2> QED BY <1>4, <2>1, <2>2, <2>3
  <1>8. \A i, j \in 0..(Offered' - 1) : At(i)' = At(j)' => i = j
    <2> SUFFICES ASSUME NEW i \in 0..(Offered' - 1), NEW j \in 0..(Offered' - 1),
                        At(i)' = At(j)'
                 PROVE  i = j
      OBVIOUS
    <2>1. i + 1 \in 0..(Offered - 1) /\ j + 1 \in 0..(Offered - 1)
      BY <1>1
    <2>2. i + 1 = j + 1
      BY <1>2, <1>4, <2>1
    <2> QED BY <1>1, <2>2
  <1>9. Out' = Out \cup {taken} /\ Holding' = Holding \cup {s} /\ s \notin Holding
    BY <1>5, <1>6, OutGrows DEF Inv
  <1>10. Gone' = Gone
    BY DEF KernelTakes, Gone
  <1>11. \A r, t \in Holding' : r # t => held'[r] # held'[t]
    <2>1. \A t \in Holding : held'[t] = held[t] /\ held[t] # taken
      BY <1>6, <1>7, <1>9 DEF Places, Out, Inv, TypeOK, Holding
    <2>2. held'[s] = taken
      BY <1>6 DEF Inv, TypeOK
    <2> QED BY <1>9, <2>1, <2>2 DEF Places
  <1>12. \A t \in writing' : slot'[tail' % N] = held'[t]
    BY <1>6 DEF KernelTakes, Places, Inv, TypeOK
  <1>13. /\ OfferedIds' \cap Out' = {} /\ OfferedIds' \cap Gone' = {}
         /\ Out' \cap Gone' = {} /\ OfferedIds' \cup Out' \cup Gone' = Ids
    BY <1>7, <1>9, <1>10 DEF Places
  <1> QED BY <1>8, <1>11, <1>12, <1>13 DEF Places

(* The first half of addBuf writes behind what is on offer, when it writes  *)
(* where the second publishes.                                              *)
LEMMA AddBufPlaces ==
  ASSUME Inv, Places, NEW s \in Sessions, AddBuf(s) PROVE Places'
  <1> SUFFICES ASSUME ready, ~misplaced' PROVE Places'
    BY DEF Places, AddBuf
  <1>1. /\ ~misplaced /\ SlotAt(Offset(held[s])) = tail % N
        /\ slot' = [slot EXCEPT ![tail % N] = held[s]]
    <2>1. tail + 0 = tail
      BY OfferedType, WrapNat DEF Counters
    <2> QED BY <2>1 DEF AddBuf, SlotAt, Inv, TypeOK
  <1>2. /\ Offered \in Nat /\ Offered < N /\ Offered' = Offered
        /\ head \in Counters /\ tail \in Counters
    BY OfferedType, AddBufInv DEF AddBuf, Holding
  <1>3. \A i \in 0..(Offered - 1) : At(i)' = At(i)
    <2> SUFFICES ASSUME NEW i \in 0..(Offered - 1) PROVE At(i)' = At(i)
      OBVIOUS
    <2>1. i \in 0..(N - 1) /\ Offered \in 0..(N - 1) /\ i # Offered /\ head \in Int
      BY <1>2, WrapNat DEF Counters
    <2>2. (head + Offered) % N = tail % N
      BY <1>2, TailBehindOffered DEF Offered
    <2>3. (head + i) % N # tail % N
      BY <2>1, <2>2, SlotsDistinct
    <2>4. head + i \in Nat /\ (head + i) % N \in Ids
      BY <1>2, <2>1, SlotInRange DEF Counters
    <2> QED BY <1>1, <2>3, <2>4 DEF At, AddBuf, Inv, TypeOK
  <1>4. OfferedIds' = OfferedIds
    <2>1. OfferedIds' = {At(i)' : i \in 0..(Offered' - 1)}
      BY DEF OfferedIds, At
    <2> HIDE DEF At
    <2> QED BY <1>2, <1>3, <2>1, OfferedAt
  <1>5. UNCHANGED <<Out, Gone, Holding, held, tail>> /\ writing' = {s}
    BY DEF AddBuf, Out, Gone, Holding
  <1>6. slot'[tail % N] = held[s]
    <2>1. tail % N \in Ids
      BY <1>2, SlotInRange DEF Counters
    <2> QED BY <1>1, <2>1 DEF Inv, TypeOK
  <1>7. \A i, j \in 0..(Offered' - 1) : At(i)' = At(j)' => i = j
    BY <1>1, <1>2, <1>3 DEF Places
  <1> QED BY <1>1, <1>4, <1>5, <1>6, <1>7 DEF Places

LEMMA PublishPlaces ==
  ASSUME Inv, Places, NEW s \in Sessions, Publish(s) PROVE Places'
  <1> SUFFICES ASSUME ready, ~misplaced PROVE Places'
    BY DEF Places, Publish
  <1>1. /\ Offered < N /\ Offered' = Offered + 1 /\ Offered \in Nat
        /\ head \in Counters /\ tail \in Counters
    BY PublishInv, OfferedType
  <1>2. s \in Holding
    BY DEF Publish, Inv, Holding
  <1>3. Out' = Out \ {held[s]} /\ Holding' = Holding \ {s} /\ held[s] \in Out
    BY <1>2, OutShrinks DEF Publish, Places, Inv
  <1>4. At(Offered) = held[s]
    BY <1>1, TailBehindOffered DEF At, Offered, Places, Publish
  <1>5. \A i \in 0..(Offered' - 1) : At(i)' = At(i)
    BY DEF At, Publish
  <1>6. /\ OfferedIds' = {At(i)' : i \in 0..(Offered' - 1)}
        /\ OfferedIds = {At(i) : i \in 0..(Offered - 1)}
    BY DEF OfferedIds, At
  <1>7. 0..(Offered' - 1) = (0..(Offered - 1)) \cup {Offered}
    BY <1>1
  <1> HIDE DEF At
  <1>8. OfferedIds' = OfferedIds \cup {held[s]}
    BY <1>4, <1>5, <1>6, <1>7
  <1>9. held[s] \notin OfferedIds
    BY <1>3 DEF Places
  <1>10. \A i, j \in 0..(Offered' - 1) : At(i)' = At(j)' => i = j
    <2>1. \A i \in 0..(Offered - 1) : At(i) # At(Offered)
      BY <1>4, <1>6, <1>9
    <2> QED BY <1>5, <1>7, <2>1 DEF Places
  <1>11. Gone' = Gone /\ writing' = {}
    BY DEF Publish, Gone
  <1>12. \A r, t \in Holding' : r # t => held'[r] # held'[t]
    BY <1>3 DEF Publish, Places, Inv, TypeOK, Holding
  <1>13. /\ OfferedIds' \cap Out' = {} /\ OfferedIds' \cap Gone' = {}
         /\ Out' \cap Gone' = {} /\ OfferedIds' \cup Out' \cup Gone' = Ids
    BY <1>3, <1>8, <1>9, <1>11 DEF Places
  <1> QED BY <1>10, <1>11, <1>12, <1>13 DEF Places

LEMMA ForgetsPlaces ==
  ASSUME Inv, Places, NEW s \in Sessions, Forgets(s) PROVE Places'
  <1> SUFFICES ASSUME ready, ~misplaced PROVE Places'
    BY DEF Places, Forgets
  <1>1. s \in Holding /\ writing' = {}
    BY DEF Forgets, Holding
  <1>2. Out' = Out \ {held[s]} /\ Holding' = Holding \ {s} /\ held[s] \in Out
    BY <1>1, OutShrinks DEF Forgets, Places, Inv
  <1>3. Gone' = Gone \cup {held[s]}
    <2>1. forgotten \in Seq(Ids) /\ held[s] \in Ids /\ forgotten' = Append(forgotten, held[s])
      BY DEF Forgets, Inv, TypeOK
    <2> QED BY <2>1, AppendProperties DEF Gone, ToSet
  <1>4. /\ OfferedIds' = OfferedIds /\ Offered' = Offered
        /\ \A i \in Int : At(i)' = At(i)
    BY DEF Forgets, OfferedIds, Offered, At
  <1>5. \A r, t \in Holding' : r # t => held'[r] # held'[t]
    BY <1>2 DEF Forgets, Places, Inv, TypeOK, Holding
  <1>6. /\ OfferedIds' \cap Out' = {} /\ OfferedIds' \cap Gone' = {}
        /\ Out' \cap Gone' = {} /\ OfferedIds' \cup Out' \cup Gone' = Ids
    BY <1>2, <1>3, <1>4 DEF Places
  <1>7. \A i, j \in 0..(Offered' - 1) : At(i)' = At(j)' => i = j
    <2> HIDE DEF At
    <2> QED BY <1>4 DEF Places
  <1> QED BY <1>1, <1>5, <1>6, <1>7 DEF Places

LEMMA NextPlaces == Inv /\ Places /\ [Next]_vars => Places'
  <1> SUFFICES ASSUME Inv, Places, [Next]_vars PROVE Places'
    OBVIOUS
  <1>1. CASE UNCHANGED vars
    BY <1>1 DEF vars, Places, At, Out, Gone, OfferedIds, Offered, Holding
  <1> QED BY <1>1, RegisterPlaces, KernelTakesPlaces, AddBufPlaces, PublishPlaces,
             ForgetsPlaces DEF Next

(* As many ids on offer as there are slots on offer.                        *)
LEMMA PlacesAreExact == Inv /\ Places => ExactlyOnePlace
  <1> SUFFICES ASSUME Inv, Places, ready, ~misplaced PROVE ExactlyOnePlace
    BY DEF ExactlyOnePlace
  <1> DEFINE D == 0..(Offered - 1)
             f == [i \in D |-> At(i)]
  <1>1. Offered \in Nat /\ IsFiniteSet(D) /\ Cardinality(D) = Offered
    BY OfferedType, FS_Interval
  <1>2. OfferedIds = {At(i) : i \in D}
    BY OfferedAt
  <1>3. f \in Bijection(D, OfferedIds)
    <2> HIDE DEF At
    <2> QED BY <1>2 DEF Places, Bijection, Injection, Surjection, IsInjective
  <1>4. Cardinality(OfferedIds) = Offered
    BY <1>1, <1>3, FS_Bijection DEF ExistsBijection
  <1> QED BY <1>4 DEF ExactlyOnePlace, Places, Out, Gone

(* Inv holds in every reachable state.                                      *)
THEOREM Invariance == Spec => []Inv
  BY InitInv, NextInv, PTL DEF Spec

(* Slots hold ids, tail and head stay within 16 bits.                       *)
THEOREM BufferRingTypeCorrect == Spec => []TypeOK
  <1>1. Inv => TypeOK
    BY DEF Inv
  <1> QED BY Invariance, <1>1, PTL

(* Buffers on offer, with sessions and forgotten add up to N.               *)
THEOREM BuffersAccounted == Spec => []AllAccounted
  <1>1. Inv => AllAccounted
    BY DEF Inv
  <1> QED BY Invariance, <1>1, PTL

(* Inv and Places hold in every reachable state.                            *)
THEOREM PlacesInvariance == Spec => [](Inv /\ Places)
  <1>1. Init => Places
    BY DEF Init, Places
  <1>2. Inv /\ Places /\ [Next]_vars => Inv' /\ Places'
    BY NextInv, NextPlaces
  <1> QED BY InitInv, <1>1, <1>2, PTL DEF Spec

(* As long as addBuf has published what it wrote, every buffer is on offer, *)
(* with one session, or forgotten, and the kernel offers none twice.        *)
THEOREM BuffersInOnePlace == Spec => []ExactlyOnePlace
  BY PlacesInvariance, PlacesAreExact, PTL

(* The id that addBuf passes as an offset is right for buffer 0 only: a     *)
(* return of any other writes a slot it does not publish, and publishes one *)
(* it has not written.                                                      *)
THEOREM OtherReturnsMisplace == Spec => OldIdPublished
  <1>1. ASSUME Inv, NEW s \in Sessions, AddBuf(s), held[s] # 0
        PROVE  misplaced' /\ slot'[SlotAt(0)] = slot[SlotAt(0)]
    <2>1. held[s] \in 0..(N - 1) /\ 0 \in 0..(N - 1) /\ tail \in Int
      BY <1>1, WrapNat DEF Inv, AddBuf, TypeOK, Ids, Counters
    <2>2. (tail + held[s]) % N # (tail + 0) % N
      BY <1>1, <2>1, SlotsDistinct
    <2>3. (tail + 0) % N \in Ids
      BY <2>1, SizesAssumption DEF Ids
    <2>4. slot \in [Ids -> Ids]
      BY <1>1 DEF Inv, TypeOK
    <2> QED BY <1>1, <2>2, <2>3, <2>4 DEF AddBuf, SlotAt, Offset
  <1>2. Inv => \A s \in Sessions :
                 AddBuf(s) /\ held[s] # 0 => misplaced' /\ slot'[SlotAt(0)] = slot[SlotAt(0)]
    BY <1>1
  <1> QED BY Invariance, <1>2, PTL DEF OldIdPublished

(* The ring is a pool that is never overfilled.                             *)
THEOREM RingRefinesPool == Spec => ImplementsPool
  <1>1. Init => Pool!Init
    <2>1. 0 \in Counters
      BY WrapNat DEF Counters
    <2>2. (0 - 0) % Wrap = 0
      BY <2>1, OfferedSteps
    <2> QED BY <2>2 DEF Init, Pool!Init, Offered
  <1>2. Inv /\ [Next]_vars => [Pool!Next]_Offered
    <2> SUFFICES ASSUME Inv, [Next]_vars PROVE [Pool!Next]_Offered
      OBVIOUS
    <2>1. CASE Register
      <3>1. Offered' + Cardinality(Holding') + Len(forgotten') = N
        BY <2>1, RegisterInv DEF Inv, AllAccounted, Register
      <3>2. Holding' = {} /\ forgotten' = <<>>
        BY <2>1 DEF Inv, Register, Holding
      <3>3. Offered \in Nat /\ Offered = 0
        BY <2>1, OfferedSteps DEF Inv, TypeOK, Register, Offered
      <3>4. Offered' \in Nat
        BY <2>1, RegisterInv, OfferedSteps, WrapNat DEF Inv, TypeOK, Offered
      <3>5. Offered' = N
        BY <3>1, <3>2, <3>4, FS_EmptySet, WrapNat
      <3> QED BY <3>3, <3>5 DEF Pool!Next, Pool!Fill
    <2>2. ASSUME NEW s \in Sessions, KernelTakes(s) PROVE [Pool!Next]_Offered
      BY <2>2, KernelTakesInv DEF Pool!Next, Pool!Take
    <2>3. ASSUME NEW s \in Sessions, Publish(s) PROVE [Pool!Next]_Offered
      BY <2>3, PublishInv DEF Pool!Next, Pool!Give
    <2>4. ASSUME NEW s \in Sessions, AddBuf(s) \/ Forgets(s)
          PROVE  [Pool!Next]_Offered
      BY <2>4, AddBufInv, ForgetsInv
    <2>5. CASE UNCHANGED vars
      BY <2>5 DEF vars, Offered
    <2> QED BY <2>1, <2>2, <2>3, <2>4, <2>5 DEF Next
  <1> QED BY Invariance, <1>1, <1>2, PTL DEF Spec, ImplementsPool, Pool!Spec
=============================================================================
