---------------------------- MODULE LoggerProofs ----------------------------
(***************************************************************************)
(* Proofs about module Logger, for any number of threads, calls and        *)
(* strays, and for formats and arguments of any length: who holds the      *)
(* mutex where, that no line of the log is torn on the console by another, *)
(* that the file has the console's lines, that a thread's lines are shown  *)
(* once and in order, and what formatHelper makes of a message.            *)
(*                                                                         *)
(* LinesWhole is not inductive: that a text is followed by nothing but     *)
(* strays says nothing of who will write its end.  The invariant adds that *)
(* a text still without its end is the current call's of a thread at       *)
(* "end"; that thread holds the mutex, so that no other text is begun and  *)
(* the end that comes is the right one.                                    *)
(*                                                                         *)
(* LineInv does the same for the file and for each thread's lines: which   *)
(* text on the console is the one its thread has yet to put in the file,   *)
(* and which of its calls are still to be shown.                           *)
(*                                                                         *)
(* formatHelper is recursive, so that the first part is an induction over  *)
(* the arguments: InductionOn states it with a set of numbers, for which   *)
(* the well-foundedness of < on Nat is enough.                             *)
(***************************************************************************)
EXTENDS Logger, FiniteSetTheorems, SequenceTheorems, WellFoundedInduction, TLAPS

-----------------------------------------------------------------------------
(* What formatHelper computes for every format and argument list.           *)

(* Induction over the naturals, with a set instead of a predicate.           *)
LEMMA LeastOf ==
  ASSUME NEW T \in SUBSET Nat, T # {}
  PROVE  \E m \in T : \A k \in T : m <= k
<1> DEFINE R == {ss \in Nat \X Nat : ss[1] < ss[2]}
<1>1. IsWellFoundedOn(R, Nat)
  BY NatLessThanWellFounded DEF OpToRel
<1> HIDE DEF R
<1>2. PICK x \in T : \A y \in T : <<y, x>> \notin R
  BY <1>1, WFMin
<1>3. ASSUME NEW y \in T PROVE x <= y
  <2>1. <<y, x>> \in Nat \X Nat /\ <<y, x>> \notin R
    BY <1>2
  <2>2. ~(y < x)
    BY <2>1 DEF R
  <2> QED BY <2>2
<1> QED BY <1>3

LEMMA InductionOn ==
  ASSUME NEW S, 0 \in S, \A n \in Nat : n \in S => n + 1 \in S
  PROVE  Nat \subseteq S
<1> SUFFICES ASSUME Nat \ S # {} PROVE FALSE
  OBVIOUS
<1>1. PICK m \in Nat \ S : \A k \in Nat \ S : m <= k
  BY LeastOf
<1>2. m # 0 /\ m - 1 \in Nat
  BY <1>1
<1>3. m - 1 \in S
  BY <1>1, <1>2
<1> QED BY <1>2, <1>3

(* The sequences a message is made of.                                      *)
LEMMA MessageSeqs ==
  ASSUME NEW S, NEW n \in Nat
  PROVE  BoundedSeq(S, n) = {s \in Seq(S) : Len(s) <= n}
<1>1. ASSUME NEW s \in BoundedSeq(S, n) PROVE s \in Seq(S) /\ Len(s) <= n
  <2>1. PICK m \in 0 .. n : s \in [1 .. m -> S]
    BY <1>1 DEF BoundedSeq, SeqOf
  <2> QED BY <2>1
<1>2. ASSUME NEW s \in Seq(S), Len(s) <= n PROVE s \in BoundedSeq(S, n)
  <2>1. Len(s) \in 0 .. n /\ s \in [1 .. Len(s) -> S]
    BY <1>2
  <2> QED BY <2>1 DEF BoundedSeq, SeqOf
<1> QED BY <1>1, <1>2

(* FirstHole finds the first hole, if there is one.                         *)
LEMMA FirstHoleIs ==
  ASSUME NEW f \in Seq(Pieces)
  PROVE  /\ FirstHole(f) = 0 => \A i \in 1 .. Len(f) : f[i] # Hole
         /\ FirstHole(f) # 0 => /\ FirstHole(f) \in 1 .. Len(f) /\ f[FirstHole(f)] = Hole
                                /\ \A i \in 1 .. FirstHole(f) - 1 : f[i] # Hole
<1> DEFINE I == {i \in 1 .. Len(f) : f[i] = Hole}
<1>1. FirstHole(f) = IF I # {} THEN Min(I) ELSE 0
  BY DEF FirstHole, SelectInSeq
<1>2. I # {} => Min(I) \in I /\ \A j \in I : Min(I) <= j
  <2> SUFFICES ASSUME I # {} PROVE Min(I) \in I /\ \A j \in I : Min(I) <= j
    OBVIOUS
  <2>1. I \in SUBSET Nat
    BY DEF I
  <2> HIDE DEF I
  <2>2. \E m \in I : \A k \in I : m <= k
    BY <2>1, LeastOf
  <2> QED BY <2>2 DEF Min
<1>3. CASE I = {}
  BY <1>1, <1>3
<1>4. CASE I # {}
  <2>1. FirstHole(f) \in I /\ \A j \in I : FirstHole(f) <= j
    BY <1>1, <1>2, <1>4
  <2> QED BY <2>1
<1> QED BY <1>3, <1>4


(* A list of arguments, each followed by a blank.                           *)
Spaced(args, k) == [i \in 1 .. 2 * k |-> IF i % 2 = 1 THEN args[(i + 1) \div 2] ELSE Blank]
Flattens(g, ss) == g = [i \in 1 .. Len(ss) |-> IF i = 1 THEN ss[i] ELSE g[i - 1] \o ss[i]]

(* Arithmetic of Spaced, and what a concatenation has where.                *)
LEMMA Half ==
  ASSUME NEW n \in Nat, NEW i \in 1 .. 2 * n PROVE (i + 1) \div 2 \in 1 .. n
  OBVIOUS

LEMMA Joined ==
  ASSUME NEW X, NEW s \in Seq(X), NEW t \in Seq(X)
  PROVE  /\ s \o t \in Seq(X) /\ Len(s \o t) = Len(s) + Len(t)
         /\ \A i \in 1 .. Len(s) : (s \o t)[i] = s[i]
         /\ \A j \in 1 .. Len(t) : (s \o t)[Len(s) + j] = t[j]
<1>1. /\ s \o t \in Seq(X) /\ Len(s \o t) = Len(s) + Len(t)
      /\ \A i \in 1 .. Len(s) + Len(t) :
           (s \o t)[i] = IF i <= Len(s) THEN s[i] ELSE t[i - Len(s)]
  BY ConcatProperties
<1>2. Len(s) \in Nat /\ Len(t) \in Nat
  OBVIOUS
<1>3. ASSUME NEW j \in 1 .. Len(t) PROVE (s \o t)[Len(s) + j] = t[j]
  <2>1. /\ Len(s) + j \in 1 .. Len(s) + Len(t) /\ ~(Len(s) + j <= Len(s))
        /\ (Len(s) + j) - Len(s) = j
    BY <1>2
  <2> QED BY <1>1, <2>1
<1>4. ASSUME NEW i \in 1 .. Len(s) PROVE (s \o t)[i] = s[i]
  <2>1. i \in 1 .. Len(s) + Len(t) /\ i <= Len(s)
    BY <1>2
  <2> QED BY <1>1, <2>1
<1> QED BY <1>1, <1>3, <1>4

LEMMA TwoMore ==
  ASSUME NEW X, NEW s \in Seq(X), NEW t \in Seq(X), Len(t) = 2
  PROVE  /\ s \o t \in Seq(X) /\ Len(s \o t) = Len(s) + 2
         /\ \A i \in 1 .. Len(s) : (s \o t)[i] = s[i]
         /\ (s \o t)[Len(s) + 1] = t[1] /\ (s \o t)[Len(s) + 2] = t[2]
<1>1. /\ s \o t \in Seq(X) /\ Len(s \o t) = Len(s) + Len(t)
      /\ \A i \in 1 .. Len(s) + Len(t) :
           (s \o t)[i] = IF i <= Len(s) THEN s[i] ELSE t[i - Len(s)]
  BY ConcatProperties
<1>2. Len(s) \in Nat /\ (Len(s) + 1) - Len(s) = 1 /\ (Len(s) + 2) - Len(s) = 2
  OBVIOUS
<1>3. (s \o t)[Len(s) + 1] = t[1] /\ (s \o t)[Len(s) + 2] = t[2]
  BY <1>1, <1>2
<1> QED BY <1>1, <1>2, <1>3

(* Listed, which flattens pairs, makes what Spaced says it makes.           *)
LEMMA SpacedType ==
  ASSUME NEW S, NEW args \in Seq(S), NEW n \in 0 .. Len(args)
  PROVE  Spaced(args, n) \in Seq(S \cup {Blank}) /\ Len(Spaced(args, n)) = 2 * n
<1> DEFINE X == S \cup {Blank}
<1>1. Spaced(args, n) \in Seq(X) /\ Len(Spaced(args, n)) = 2 * n
  <2>1. ASSUME NEW i \in 1 .. 2 * n PROVE (IF i % 2 = 1 THEN args[(i + 1) \div 2] ELSE Blank) \in X
    <3>1. n \in Nat /\ n <= Len(args) /\ Len(args) \in Nat
      OBVIOUS
    <3>2. PICK h \in 1 .. n : h = (i + 1) \div 2
      BY <3>1, Half
    <3>3. args[h] \in S
      BY <3>1
    <3> QED BY <3>2, <3>3
  <2>2. PICK m \in Nat : m = 2 * n
    OBVIOUS
  <2>3. Spaced(args, n) \in [1 .. m -> X]
    BY <2>1, <2>2 DEF Spaced
  <2> HIDE DEF X
  <2>4. Spaced(args, n) \in Seq(X) /\ Len(Spaced(args, n)) = m
    BY <2>3
  <2> QED BY <2>2, <2>4
<1> QED BY <1>1

LEMMA SpacedStep ==
  ASSUME NEW S, NEW args \in Seq(S), NEW k \in 1 .. Len(args)
  PROVE  Spaced(args, k) = IF k = 1 THEN <<args[k], Blank>> ELSE Spaced(args, k - 1) \o <<args[k], Blank>>
<1> DEFINE X == S \cup {Blank}
<1>1. \A n \in 0 .. Len(args) : Spaced(args, n) \in Seq(X) /\ Len(Spaced(args, n)) = 2 * n
  BY SpacedType
<1>2. <<args[k], Blank>> \in Seq(X)
  <2>1. args[k] \in X /\ Blank \in X
    OBVIOUS
  <2> HIDE DEF X
  <2> QED BY <2>1
<1>3. CASE k = 1
  <2>1. Spaced(args, 1) \in Seq(X) /\ Len(Spaced(args, 1)) = 2
    <3>1. 1 \in 0 .. Len(args) /\ 2 * 1 = 2
      BY <1>3
    <3> HIDE DEF X
    <3> QED BY <1>1, <3>1
  <2>2. Spaced(args, 1)[1] = args[1] /\ Spaced(args, 1)[2] = Blank
    BY DEF Spaced
  <2>3. ASSUME NEW i \in 1 .. 2 PROVE Spaced(args, 1)[i] = <<args[1], Blank>>[i]
    BY <2>2
  <2> HIDE DEF X
  <2> QED BY <1>2, <1>3, <2>1, <2>3, SeqEqual
<1>4. CASE k # 1
  <2> DEFINE s == Spaced(args, k - 1)
             t == <<args[k], Blank>>
  <2>1. k - 1 \in 0 .. Len(args) /\ k \in 0 .. Len(args) /\ 2 * (k - 1) = 2 * k - 2 /\ k \in Nat
    OBVIOUS
  <2> HIDE DEF X
  <2>2. s \in Seq(X) /\ Len(s) = 2 * k - 2 /\ Spaced(args, k) \in Seq(X) /\ Len(Spaced(args, k)) = 2 * k
    BY <1>1, <2>1
  <2>3. t \in Seq(X) /\ Len(t) = 2 /\ t[1] = args[k] /\ t[2] = Blank
    BY <1>2
  <2> HIDE DEF s, t
  <2>4. /\ s \o t \in Seq(X) /\ Len(s \o t) = 2 * k
        /\ \A i \in 1 .. 2 * k - 2 : (s \o t)[i] = s[i]
        /\ (s \o t)[2 * k - 1] = args[k] /\ (s \o t)[2 * k] = Blank
    <3>1. (2 * k - 2) + 1 = 2 * k - 1 /\ (2 * k - 2) + 2 = 2 * k
      BY <2>1
    <3>2. /\ s \o t \in Seq(X) /\ Len(s \o t) = Len(s) + 2
          /\ \A i \in 1 .. Len(s) : (s \o t)[i] = s[i]
          /\ (s \o t)[Len(s) + 1] = t[1] /\ (s \o t)[Len(s) + 2] = t[2]
      BY <2>2, <2>3, TwoMore
    <3>3. Len(s) = 2 * k - 2
      BY <2>2
    <3> HIDE DEF s
    <3>4. /\ s \o t \in Seq(X) /\ Len(s \o t) = 2 * k
          /\ \A i \in 1 .. 2 * k - 2 : (s \o t)[i] = s[i]
          /\ (s \o t)[2 * k - 1] = t[1] /\ (s \o t)[2 * k] = t[2]
      BY <3>1, <3>2, <3>3
    <3> QED BY <2>3, <3>4
  <2>5. ASSUME NEW i \in 1 .. 2 * k PROVE (s \o t)[i] = Spaced(args, k)[i]
    <3>1. CASE i <= 2 * k - 2
      <4>1. i \in 1 .. 2 * k - 2
        BY <2>1, <3>1
      <4> QED BY <2>4, <4>1 DEF s, Spaced
    <3>2. CASE i = 2 * k - 1
      <4>1. i % 2 = 1 /\ (i + 1) \div 2 = k
        BY <2>1, <3>2
      <4> QED BY <2>4, <3>2, <4>1 DEF Spaced
    <3>3. CASE i = 2 * k
      <4>1. i % 2 # 1
        BY <2>1, <3>3
      <4> QED BY <2>4, <3>3, <4>1 DEF Spaced
    <3>4. i <= 2 * k - 2 \/ i = 2 * k - 1 \/ i = 2 * k
      BY <2>1
    <3> QED BY <3>1, <3>2, <3>3, <3>4
  <2>6. s \o t = Spaced(args, k)
    BY <2>2, <2>4, <2>5, SeqEqual
  <2> QED BY <1>4, <2>6 DEF s, t
<1> QED BY <1>3, <1>4

LEMMA ListedIs ==
  ASSUME NEW S, NEW args \in Seq(S)
  PROVE  Listed(args) = Spaced(args, Len(args))
<1> DEFINE ss == [i \in DOMAIN args |-> <<args[i], Blank>>]
           sp == [k \in 1 .. Len(args) |-> Spaced(args, k)]
           fl == CHOOSE g : Flattens(g, ss)
<1>1. Len(ss) = Len(args) /\ DOMAIN args = 1 .. Len(args) /\ Len(args) \in Nat
      /\ \A i \in 1 .. Len(args) : ss[i] = <<args[i], Blank>>
  OBVIOUS
<1>2. CASE Len(args) = 0
  <2>1. Listed(args) = ss
    BY <1>1, <1>2 DEF Listed, FlattenSeq
  <2>2. ss = <<>> /\ Spaced(args, 0) = <<>>
    BY <1>2 DEF Spaced
  <2> QED BY <1>2, <2>1, <2>2
<1>3. CASE Len(args) # 0
  <2>1. Flattens(sp, ss)
    <3> SUFFICES ASSUME NEW i \in 1 .. Len(args)
                 PROVE  sp[i] = IF i = 1 THEN ss[i] ELSE sp[i - 1] \o ss[i]
      BY <1>1 DEF Flattens
    <3>1. i # 1 => i - 1 \in 1 .. Len(args)
      OBVIOUS
    <3> QED BY <1>1, <3>1, SpacedStep
  <2>2. Flattens(fl, ss)
    <3> HIDE DEF sp, ss
    <3> QED BY <2>1
  <2>3. Listed(args) = fl[Len(args)]
    BY <1>1, <1>3 DEF Listed, FlattenSeq, Flattens
  <2> HIDE DEF fl, ss
  <2> DEFINE N == {k \in Nat : k + 1 \in 1 .. Len(args) => fl[k + 1] = Spaced(args, k + 1)}
  <2>4. \A k \in 1 .. Len(args) : fl[k] = IF k = 1 THEN ss[k] ELSE fl[k - 1] \o ss[k]
    BY <1>1, <2>2 DEF Flattens
  <2>5. 0 \in N
    <3>1. 1 \in 1 .. Len(args) /\ 0 + 1 = 1
      BY <1>1, <1>3
    <3>2. fl[1] = Spaced(args, 1)
      BY <1>1, <2>4, <3>1, SpacedStep
    <3> QED BY <3>1, <3>2
  <2>6. ASSUME NEW k \in Nat, k \in N PROVE k + 1 \in N
    <3> SUFFICES ASSUME (k + 1) + 1 \in 1 .. Len(args)
                 PROVE  fl[(k + 1) + 1] = Spaced(args, (k + 1) + 1)
      OBVIOUS
    <3>1. k + 1 \in 1 .. Len(args) /\ ((k + 1) + 1) - 1 = k + 1 /\ (k + 1) + 1 # 1
      BY <1>1
    <3>2. fl[k + 1] = Spaced(args, k + 1)
      BY <2>6, <3>1
    <3>3. PICK j \in 1 .. Len(args) : j = (k + 1) + 1 /\ j - 1 = k + 1 /\ j # 1
      BY <3>1
    <3>4. fl[j] = Spaced(args, j)
      <4>1. fl[j] = fl[j - 1] \o ss[j] /\ ss[j] = <<args[j], Blank>>
        BY <1>1, <2>4, <3>3
      <4>2. Spaced(args, j) = Spaced(args, j - 1) \o <<args[j], Blank>>
        BY <3>3, SpacedStep
      <4> QED BY <3>2, <3>3, <4>1, <4>2
    <3> QED BY <3>3, <3>4
  <2> HIDE DEF N
  <2>7. Nat \subseteq N
    BY <2>5, <2>6, InductionOn
  <2>8. Len(args) - 1 \in Nat /\ (Len(args) - 1) + 1 = Len(args)
    BY <1>1, <1>3
  <2>9. Len(args) - 1 \in N
    BY <2>7, <2>8
  <2> QED BY <1>1, <1>3, <2>3, <2>8, <2>9 DEF N
<1> QED BY <1>2, <1>3

(* How many holes there are.                                                *)
LEMMA HolesStep ==
  ASSUME NEW f, NEW i \in Nat \ {0}
  PROVE  /\ HolesUpTo(f, i) \in Nat
         /\ HolesUpTo(f, i) = IF f[i] = Hole THEN HolesUpTo(f, i - 1) + 1 ELSE HolesUpTo(f, i - 1)
<1> DEFINE H(n) == {j \in 1 .. n : f[j] = Hole}
<1>1. \A n \in Nat : IsFiniteSet(H(n))
  <2> SUFFICES ASSUME NEW n \in Nat PROVE IsFiniteSet(H(n))
    OBVIOUS
  <2>1. IsFiniteSet(1 .. n)
    BY FS_Interval
  <2> QED BY <2>1, FS_Subset
<1>2. i - 1 \in Nat /\ i \notin H(i - 1) /\ i \in Nat
  OBVIOUS
<1>3. H(i) = IF f[i] = Hole THEN H(i - 1) \cup {i} ELSE H(i - 1)
  <2>1. \A j : j \in 1 .. i <=> (j \in 1 .. i - 1 \/ j = i)
    OBVIOUS
  <2> QED BY <2>1
<1>4. /\ Cardinality(H(i - 1)) \in Nat
      /\ Cardinality(H(i - 1) \cup {i}) = Cardinality(H(i - 1)) + 1
  <2>1. IsFiniteSet(H(i - 1))
    BY <1>1, <1>2
  <2> HIDE DEF H
  <2> QED BY <1>2, <2>1, FS_AddElement, FS_CardinalityType
<1>5. HolesUpTo(f, i) = Cardinality(H(i)) /\ HolesUpTo(f, i - 1) = Cardinality(H(i - 1))
  BY DEF HolesUpTo
<1> HIDE DEF H
<1> QED BY <1>3, <1>4, <1>5

(* None without holes, one at the least at a hole.                          *)
LEMMA NoHoles ==
  ASSUME NEW f, NEW n \in Nat, \A i \in 1 .. n : f[i] # Hole
  PROVE  HolesUpTo(f, n) = 0
<1>1. {j \in 1 .. n : f[j] = Hole} = {}
  OBVIOUS
<1> QED BY <1>1, FS_EmptySet DEF HolesUpTo

LEMMA HolesType ==
  ASSUME NEW f, NEW n \in Nat
  PROVE  HolesUpTo(f, n) \in Nat
<1>1. CASE n = 0
  <2>1. \A i \in 1 .. n : f[i] # Hole
    BY <1>1
  <2> QED BY <2>1, NoHoles
<1>2. CASE n # 0
  BY <1>2, HolesStep
<1> QED BY <1>1, <1>2

LEMMA HoleCounts ==
  ASSUME NEW f, NEW n \in Nat \ {0}, f[n] = Hole
  PROVE  HolesUpTo(f, n) >= 1
<1>1. n - 1 \in Nat
  OBVIOUS
<1>2. HolesUpTo(f, n - 1) \in Nat
  BY <1>1, HolesType
<1> QED BY <1>2, HolesStep

(* What is behind the p-th piece.                                           *)
Behind(f, p) == SubSeq(f, p + 1, Len(f))

LEMMA BehindIs ==
  ASSUME NEW S, NEW f \in Seq(S), NEW p \in 1 .. Len(f)
  PROVE  /\ Behind(f, p) \in Seq(S) /\ Len(Behind(f, p)) = Len(f) - p
         /\ \A j \in 1 .. Len(f) - p : Behind(f, p)[j] = f[p + j]
  BY DEF Behind

(* Behind the first hole there is one hole less.                            *)
LEMMA HolesBehind ==
  ASSUME NEW S, NEW f \in Seq(S), NEW p \in 1 .. Len(f), f[p] = Hole,
         \A i \in 1 .. p - 1 : f[i] # Hole
  PROVE  \A j \in 0 .. Len(f) - p : HolesUpTo(f, p + j) = HolesUpTo(Behind(f, p), j) + 1
<1> DEFINE g == Behind(f, p)
           N == {j \in Nat : j <= Len(f) - p => HolesUpTo(f, p + j) = HolesUpTo(g, j) + 1}
<1>1. /\ Len(f) \in Nat /\ p \in Nat \ {0} /\ p - 1 \in Nat
      /\ \A j \in 1 .. Len(f) - p : g[j] = f[p + j]
  <2>1. \A j \in 1 .. Len(f) - p : g[j] = f[p + j]
    BY BehindIs
  <2> QED BY <2>1
<1> HIDE DEF g
<1>2. 0 \in N
  <2>1. HolesUpTo(f, p - 1) = 0
    BY <1>1, NoHoles
  <2>2. HolesUpTo(f, p) = 1
    BY <1>1, <2>1, HolesStep
  <2>3. HolesUpTo(g, 0) = 0
    BY NoHoles
  <2>4. p + 0 = p
    BY <1>1
  <2> QED BY <2>2, <2>3, <2>4
<1>3. ASSUME NEW j \in Nat, j \in N PROVE j + 1 \in N
  <2> SUFFICES ASSUME j + 1 <= Len(f) - p
               PROVE  HolesUpTo(f, p + (j + 1)) = HolesUpTo(g, j + 1) + 1
    OBVIOUS
  <2>1. PICK m \in Nat \ {0} : m = p + (j + 1) /\ m - 1 = p + j
    BY <1>1
  <2>2. PICK k \in Nat \ {0} : k = j + 1 /\ k - 1 = j /\ k \in 1 .. Len(f) - p /\ p + k = m
    BY <1>1, <2>1
  <2>3. HolesUpTo(f, m - 1) = HolesUpTo(g, k - 1) + 1
    <3>1. j <= Len(f) - p
      BY <1>1
    <3> QED BY <1>3, <2>1, <2>2, <3>1
  <2>4. g[k] = f[m]
    BY <1>1, <2>2
  <2>5. HolesUpTo(f, m) = IF f[m] = Hole THEN HolesUpTo(f, m - 1) + 1 ELSE HolesUpTo(f, m - 1)
    BY <2>1, HolesStep
  <2>6. HolesUpTo(g, k) = IF g[k] = Hole THEN HolesUpTo(g, k - 1) + 1 ELSE HolesUpTo(g, k - 1)
    BY <2>2, HolesStep
  <2>7. HolesUpTo(f, m) = HolesUpTo(g, k) + 1
    BY <2>3, <2>4, <2>5, <2>6
  <2> QED BY <2>1, <2>2, <2>7
<1> HIDE DEF N
<1>4. Nat \subseteq N
  BY <1>2, <1>3, InductionOn
<1> QED BY <1>1, <1>4 DEF N, g

(* What the property says the text is.                                      *)
Rest(f, args) ==
  IF Surplus(f, args) = <<>> THEN <<>>
  ELSE <<Blank>> \o Spaced(Surplus(f, args), Len(Surplus(f, args)))
Form(f, args) == Filled(f, args) \o Rest(f, args)

Shown == Pieces \cup Values \cup {Blank}

(* The two parts of Form, where each of their pieces comes from.             *)
LEMMA FilledType ==
  ASSUME NEW f \in Seq(Pieces), NEW args \in Seq(Values)
  PROVE  /\ Filled(f, args) \in Seq(Shown) /\ Len(Filled(f, args)) = Len(f)
         /\ \A i \in 1 .. Len(f) :
              Filled(f, args)[i] = IF f[i] = Hole /\ HolesUpTo(f, i) <= Len(args)
                                   THEN args[HolesUpTo(f, i)] ELSE f[i]
<1> DEFINE e(i) == IF f[i] = Hole /\ HolesUpTo(f, i) <= Len(args)
                   THEN args[HolesUpTo(f, i)] ELSE f[i]
<1>1. ASSUME NEW i \in 1 .. Len(f) PROVE e(i) \in Shown
  <2>1. CASE f[i] = Hole /\ HolesUpTo(f, i) <= Len(args)
    <3>1. HolesUpTo(f, i) \in Nat /\ HolesUpTo(f, i) >= 1
      BY <2>1, HolesType, HoleCounts
    <3>2. args[HolesUpTo(f, i)] \in Values
      BY <2>1, <3>1
    <3> QED BY <2>1, <3>2 DEF Shown
  <2>2. CASE ~(f[i] = Hole /\ HolesUpTo(f, i) <= Len(args))
    <3>1. f[i] \in Pieces
      OBVIOUS
    <3> QED BY <2>2, <3>1 DEF Shown
  <2> QED BY <2>1, <2>2
<1>2. Filled(f, args) = [i \in 1 .. Len(f) |-> e(i)] /\ Len(f) \in Nat
  BY DEF Filled
<1> HIDE DEF e
<1>3. Filled(f, args) \in [1 .. Len(f) -> Shown] /\ \A i \in 1 .. Len(f) : Filled(f, args)[i] = e(i)
  BY <1>1, <1>2
<1>4. Filled(f, args) \in Seq(Shown) /\ Len(Filled(f, args)) = Len(f)
  BY <1>2, <1>3
<1> QED BY <1>3, <1>4 DEF e

LEMMA SurplusType ==
  ASSUME NEW f \in Seq(Pieces), NEW args \in Seq(Values)
  PROVE  /\ HolesUpTo(f, Len(f)) \in Nat
         /\ Surplus(f, args) \in Seq(Values)
         /\ Len(Surplus(f, args)) = IF HolesUpTo(f, Len(f)) + 2 <= Len(args)
                                    THEN Len(args) - HolesUpTo(f, Len(f)) - 1 ELSE 0
         /\ \A i \in 1 .. Len(Surplus(f, args)) :
              Surplus(f, args)[i] = args[HolesUpTo(f, Len(f)) + 1 + i]
<1>1. HolesUpTo(f, Len(f)) \in Nat
  BY HolesType
<1> DEFINE h == HolesUpTo(f, Len(f))
<1> HIDE DEF h
<1>2. ASSUME h \in Nat
      PROVE  /\ SubSeq(args, h + 2, Len(args)) \in Seq(Values)
             /\ Len(SubSeq(args, h + 2, Len(args))) = IF h + 2 <= Len(args) THEN Len(args) - h - 1 ELSE 0
             /\ \A i \in 1 .. Len(SubSeq(args, h + 2, Len(args))) :
                  SubSeq(args, h + 2, Len(args))[i] = args[h + 1 + i]
  BY <1>2
<1> QED BY <1>1, <1>2 DEF Surplus, h

(* A format whose first hole is its p-th piece: what comes before it, the   *)
(* first argument, and the same for the rest of both.                       *)
LEMMA FilledSplit ==
  ASSUME NEW f \in Seq(Pieces), NEW args \in Seq(Values), args # <<>>,
         NEW p \in 1 .. Len(f), f[p] = Hole, \A i \in 1 .. p - 1 : f[i] # Hole
  PROVE  Filled(f, args) =
           (SubSeq(f, 1, p - 1) \o <<Head(args)>>) \o Filled(Behind(f, p), Tail(args))
<1> DEFINE a == SubSeq(f, 1, p - 1)
           b == <<Head(args)>>
           g == Behind(f, p)
           c == Filled(g, Tail(args))
<1>1. /\ Len(f) \in Nat /\ p \in Nat /\ p <= Len(f) /\ Len(args) \in Nat /\ Len(args) >= 1
      /\ Tail(args) \in Seq(Values) /\ Len(Tail(args)) = Len(args) - 1
      /\ \A i \in 1 .. Len(args) - 1 : Tail(args)[i] = args[i + 1]
      /\ Head(args) = args[1] /\ args[1] \in Values
  OBVIOUS
<1>2. /\ a \in Seq(Shown) /\ Len(a) = p - 1 /\ \A i \in 1 .. p - 1 : a[i] = f[i]
  <2>1. a \in Seq(Pieces) /\ Len(a) = p - 1 /\ \A i \in 1 .. p - 1 : a[i] = f[i]
    OBVIOUS
  <2> HIDE DEF a
  <2> QED BY <2>1 DEF Shown
<1>3. b \in Seq(Shown) /\ Len(b) = 1 /\ b[1] = args[1]
  BY <1>1 DEF Shown
<1>4. /\ g \in Seq(Pieces) /\ Len(g) = Len(f) - p
      /\ \A j \in 1 .. Len(f) - p : g[j] = f[p + j]
  BY BehindIs
<1>5. /\ c \in Seq(Shown) /\ Len(c) = Len(f) - p
      /\ \A j \in 1 .. Len(f) - p :
           c[j] = IF g[j] = Hole /\ HolesUpTo(g, j) <= Len(Tail(args))
                  THEN Tail(args)[HolesUpTo(g, j)] ELSE g[j]
  <2> HIDE DEF g
  <2> DEFINE r == Tail(args)
  <2>1. r \in Seq(Values) /\ g \in Seq(Pieces) /\ Len(g) = Len(f) - p
    BY <1>1, <1>4
  <2> HIDE DEF r
  <2>2. /\ Filled(g, r) \in Seq(Shown) /\ Len(Filled(g, r)) = Len(g)
        /\ \A i \in 1 .. Len(g) :
             Filled(g, r)[i] = IF g[i] = Hole /\ HolesUpTo(g, i) <= Len(r)
                               THEN r[HolesUpTo(g, i)] ELSE g[i]
    BY <2>1, FilledType
  <2> QED BY <2>1, <2>2 DEF r
<1>6. \A j \in 0 .. Len(f) - p : HolesUpTo(f, p + j) = HolesUpTo(g, j) + 1
  BY HolesBehind
<1> HIDE DEF a, b, c, g
<1>7. /\ a \o b \in Seq(Shown) /\ Len(a \o b) = p
      /\ \A i \in 1 .. p - 1 : (a \o b)[i] = f[i]
      /\ (a \o b)[p] = args[1]
  <2>1. /\ a \o b \in Seq(Shown) /\ Len(a \o b) = Len(a) + Len(b)
        /\ \A i \in 1 .. Len(a) + Len(b) :
             (a \o b)[i] = IF i <= Len(a) THEN a[i] ELSE b[i - Len(a)]
    BY <1>2, <1>3, ConcatProperties
  <2>2. Len(a) + Len(b) = p /\ p \in 1 .. Len(a) + Len(b) /\ p - Len(a) = 1 /\ ~(p <= Len(a))
    BY <1>1, <1>2, <1>3
  <2>3. \A i \in 1 .. p - 1 : i \in 1 .. Len(a) + Len(b) /\ i <= Len(a)
    BY <1>1, <1>2, <2>2
  <2>4. (a \o b)[p] = args[1]
    BY <1>3, <2>1, <2>2
  <2>5. ASSUME NEW i \in 1 .. p - 1 PROVE (a \o b)[i] = f[i]
    BY <1>2, <2>1, <2>3
  <2> QED BY <2>1, <2>2, <2>4, <2>5
<1> DEFINE d == a \o b
<1> HIDE DEF d
<1>8. /\ d \o c \in Seq(Shown) /\ Len(d \o c) = Len(f)
      /\ \A i \in 1 .. p : (d \o c)[i] = d[i]
      /\ \A j \in 1 .. Len(f) - p : (d \o c)[p + j] = c[j]
  <2>1. d \in Seq(Shown) /\ Len(d) = p /\ c \in Seq(Shown) /\ Len(c) = Len(f) - p
    BY <1>5, <1>7 DEF d
  <2>2. /\ d \o c \in Seq(Shown) /\ Len(d \o c) = Len(d) + Len(c)
        /\ \A i \in 1 .. Len(d) : (d \o c)[i] = d[i]
        /\ \A j \in 1 .. Len(c) : (d \o c)[Len(d) + j] = c[j]
    <3> DEFINE Y == Shown
    <3>1. d \in Seq(Y) /\ c \in Seq(Y)
      BY <2>1
    <3> HIDE DEF Y
    <3>2. d \o c \in Seq(Y) /\ Len(d \o c) = Len(d) + Len(c)
      BY <3>1, Joined
    <3>3. \A i \in 1 .. Len(d) : (d \o c)[i] = d[i]
      BY <3>1, Joined
    <3>4. \A j \in 1 .. Len(c) : (d \o c)[Len(d) + j] = c[j]
      BY <3>1, Joined
    <3> QED BY <3>2, <3>3, <3>4 DEF Y
  <2>3. /\ d \o c \in Seq(Shown) /\ Len(d \o c) = p + (Len(f) - p)
        /\ \A i \in 1 .. p : (d \o c)[i] = d[i]
        /\ \A j \in 1 .. Len(f) - p : (d \o c)[p + j] = c[j]
    BY <2>1, <2>2
  <2> QED BY <1>1, <2>3
<1>9. ASSUME NEW i \in 1 .. Len(f) PROVE Filled(f, args)[i] = (d \o c)[i]
  <2>1. Filled(f, args)[i] = IF f[i] = Hole /\ HolesUpTo(f, i) <= Len(args)
                             THEN args[HolesUpTo(f, i)] ELSE f[i]
    BY FilledType
  <2>2. CASE i < p
    BY <1>1, <1>7, <1>8, <2>1, <2>2 DEF d
  <2>3. CASE i = p
    <3>1. HolesUpTo(f, p) = 1
      <4>1. HolesUpTo(g, 0) = 0
        BY NoHoles
      <4> QED BY <1>1, <1>6, <4>1
    <3> QED BY <1>1, <1>7, <1>8, <2>1, <2>3, <3>1 DEF d
  <2>4. CASE i > p
    <3>1. PICK j \in 1 .. Len(f) - p : i = p + j
      <4>1. i - p \in 1 .. Len(f) - p /\ i = p + (i - p)
        BY <1>1, <2>4
      <4> QED BY <4>1
    <3>2. HolesUpTo(f, i) = HolesUpTo(g, j) + 1 /\ HolesUpTo(g, j) \in Nat
      BY <1>1, <1>6, <3>1, HolesType
    <3>3. g[j] = f[i] /\ (d \o c)[i] = c[j]
      BY <1>4, <1>8, <3>1
    <3>4. f[i] = Hole => HolesUpTo(g, j) >= 1
      BY <1>1, <3>1, <3>3, HoleCounts
    <3>5. CASE f[i] = Hole /\ HolesUpTo(f, i) <= Len(args)
      <4>1. HolesUpTo(g, j) \in 1 .. Len(args) - 1
        BY <1>1, <3>2, <3>4, <3>5
      <4> QED BY <1>1, <1>5, <2>1, <3>1, <3>2, <3>3, <3>5, <4>1
    <3>6. CASE ~(f[i] = Hole /\ HolesUpTo(f, i) <= Len(args))
      BY <1>1, <1>5, <2>1, <3>1, <3>2, <3>3, <3>6
    <3> QED BY <3>5, <3>6
  <2>5. i < p \/ i = p \/ i > p
    BY <1>1
  <2> QED BY <2>2, <2>3, <2>4, <2>5
<1>10. Filled(f, args) \in Seq(Shown) /\ Len(Filled(f, args)) = Len(f)
  BY FilledType
<1>11. Filled(f, args) = d \o c
  BY <1>8, <1>9, <1>10, SeqEqual
<1> QED BY <1>11 DEF a, b, c, d, g

LEMMA SurplusSplit ==
  ASSUME NEW f \in Seq(Pieces), NEW args \in Seq(Values), args # <<>>,
         NEW p \in 1 .. Len(f), f[p] = Hole, \A i \in 1 .. p - 1 : f[i] # Hole
  PROVE  Surplus(f, args) = Surplus(Behind(f, p), Tail(args))
<1> DEFINE g == Behind(f, p)
<1>1. g \in Seq(Pieces) /\ Len(g) = Len(f) - p
  BY BehindIs
<1>2. /\ Tail(args) \in Seq(Values) /\ Len(Tail(args)) = Len(args) - 1 /\ Len(args) \in Nat
      /\ \A i \in 1 .. Len(args) - 1 : Tail(args)[i] = args[i + 1]
  OBVIOUS
<1>3. HolesUpTo(f, Len(f)) = HolesUpTo(g, Len(g)) + 1
  <2>1. Len(f) - p \in 0 .. Len(f) - p /\ p + (Len(f) - p) = Len(f)
    OBVIOUS
  <2> QED BY <1>1, <2>1, HolesBehind
<1> HIDE DEF g
<1> DEFINE h == HolesUpTo(g, Len(g))
           s == Surplus(f, args)
           t == Surplus(g, Tail(args))
<1>4. /\ s \in Seq(Values)
      /\ Len(s) = IF (h + 1) + 2 <= Len(args) THEN Len(args) - (h + 1) - 1 ELSE 0
      /\ \A i \in 1 .. Len(s) : s[i] = args[(h + 1) + 1 + i]
  BY <1>3, SurplusType
<1>5. /\ h \in Nat /\ t \in Seq(Values)
      /\ Len(t) = IF h + 2 <= Len(args) - 1 THEN Len(args) - 1 - h - 1 ELSE 0
      /\ \A i \in 1 .. Len(t) : t[i] = Tail(args)[h + 1 + i]
  <2> DEFINE r == Tail(args)
  <2>1. r \in Seq(Values) /\ g \in Seq(Pieces) /\ Len(r) = Len(args) - 1
    BY <1>1, <1>2
  <2> HIDE DEF r
  <2>2. /\ h \in Nat
        /\ Surplus(g, r) \in Seq(Values)
        /\ Len(Surplus(g, r)) = IF h + 2 <= Len(r) THEN Len(r) - h - 1 ELSE 0
        /\ \A i \in 1 .. Len(Surplus(g, r)) : Surplus(g, r)[i] = r[h + 1 + i]
    BY <2>1, SurplusType DEF h
  <2> QED BY <2>1, <2>2 DEF r, t
<1> HIDE DEF h, s, t
<1>6. Len(s) = Len(t)
  <2>1. ASSUME NEW n \in Nat, NEW m \in Nat
        PROVE  (IF (m + 1) + 2 <= n THEN n - (m + 1) - 1 ELSE 0)
                 = IF m + 2 <= n - 1 THEN n - 1 - m - 1 ELSE 0
    OBVIOUS
  <2>2. Len(args) \in Nat /\ h \in Nat
    BY <1>2, <1>5
  <2>3. /\ Len(s) = IF (h + 1) + 2 <= Len(args) THEN Len(args) - (h + 1) - 1 ELSE 0
        /\ Len(t) = IF h + 2 <= Len(args) - 1 THEN Len(args) - 1 - h - 1 ELSE 0
    BY <1>4, <1>5
  <2> QED BY <2>1, <2>2, <2>3
<1>7. ASSUME NEW i \in 1 .. Len(s) PROVE s[i] = t[i]
  <2>1. h + 2 <= Len(args) - 1 /\ i <= Len(args) - 1 - h - 1 /\ i \in Nat
    <3>1. ASSUME NEW n \in Nat, NEW m \in Nat, NEW l \in Nat,
                 l = IF m + 2 <= n - 1 THEN n - 1 - m - 1 ELSE 0,
                 NEW k \in 1 .. l
          PROVE  m + 2 <= n - 1 /\ k <= n - 1 - m - 1 /\ k \in Nat
      BY <3>1
    <3>2. Len(args) \in Nat /\ h \in Nat /\ Len(t) \in Nat /\ i \in 1 .. Len(t)
      <4>1. i \in 1 .. Len(t)
        BY <1>6
      <4>2. Len(args) \in Nat /\ h \in Nat /\ t \in Seq(Values)
        BY <1>2, <1>5
      <4> QED BY <4>1, <4>2
    <3>3. Len(t) = IF h + 2 <= Len(args) - 1 THEN Len(args) - 1 - h - 1 ELSE 0
      BY <1>5
    <3> QED BY <3>1, <3>2, <3>3
  <2>2. PICK k \in 1 .. Len(args) - 1 : k = h + 1 + i /\ k + 1 = (h + 1) + 1 + i
    BY <1>2, <1>5, <2>1
  <2>3. s[i] = args[k + 1]
    BY <1>4, <2>2
  <2>4. t[i] = Tail(args)[k]
    BY <1>5, <1>6, <2>2
  <2> QED BY <1>2, <2>3, <2>4
<1>8. s = t
  BY <1>4, <1>5, <1>6, <1>7, SeqEqual
<1> QED BY <1>8 DEF s, t, g

LEMMA RestType ==
  ASSUME NEW f \in Seq(Pieces), NEW args \in Seq(Values)
  PROVE  Rest(f, args) \in Seq(Shown)
<1> DEFINE u == Surplus(f, args)
           X == Values \cup {Blank}
           v == Spaced(u, Len(u))
           b == <<Blank>>
<1>1. u \in Seq(Values)
  BY SurplusType
<1> HIDE DEF u
<1>2. v \in Seq(X)
  <2>1. Len(u) \in 0 .. Len(u)
    BY <1>1
  <2> QED BY <1>1, <2>1, SpacedType
<1>3. X \subseteq Shown /\ Blank \in Shown
  BY DEF Shown
<1> HIDE DEF v, X
<1>4. v \in Seq(Shown) /\ b \in Seq(Shown) /\ <<>> \in Seq(Shown)
  BY <1>2, <1>3
<1> HIDE DEF b
<1>5. b \o v \in Seq(Shown)
  BY <1>4
<1> QED BY <1>4, <1>5 DEF Rest, u, v, b

(* The three ways formatHelper goes.                                        *)
LEMMA FormWithoutArgs ==
  ASSUME NEW f \in Seq(Pieces), NEW args \in Seq(Values), args = <<>>
  PROVE  Form(f, args) = f
<1>1. Len(args) = 0 /\ Len(f) \in Nat
  OBVIOUS
<1>2. Filled(f, args) = f
  <2>1. ASSUME NEW i \in 1 .. Len(f) PROVE Filled(f, args)[i] = f[i]
    <3>1. CASE f[i] = Hole
      <4>1. i \in Nat \ {0}
        OBVIOUS
      <4>2. HolesUpTo(f, i) \in Nat /\ HolesUpTo(f, i) >= 1
        BY <3>1, <4>1, HolesType, HoleCounts
      <4>3. ~(HolesUpTo(f, i) <= Len(args))
        BY <1>1, <4>2
      <4> QED BY <4>3, FilledType
    <3>2. CASE f[i] # Hole
      BY <3>2, FilledType
    <3> QED BY <3>1, <3>2
  <2>2. Filled(f, args) \in Seq(Shown) /\ Len(Filled(f, args)) = Len(f)
    BY FilledType
  <2> QED BY <2>1, <2>2, SeqEqual
<1>3. Surplus(f, args) = <<>>
  <2>1. Surplus(f, args) \in Seq(Values) /\ HolesUpTo(f, Len(f)) \in Nat
    BY SurplusType
  <2>2. Len(Surplus(f, args)) = 0
    <3>1. Len(Surplus(f, args)) = IF HolesUpTo(f, Len(f)) + 2 <= Len(args)
                                  THEN Len(args) - HolesUpTo(f, Len(f)) - 1 ELSE 0
      BY SurplusType
    <3>2. ~(HolesUpTo(f, Len(f)) + 2 <= Len(args))
      BY <1>1, <2>1
    <3> QED BY <3>1, <3>2
  <2> QED BY <2>1, <2>2
<1> QED BY <1>2, <1>3, ConcatEmptySeq DEF Form, Rest

LEMMA FormWithoutHoles ==
  ASSUME NEW f \in Seq(Pieces), NEW args \in Seq(Values), args # <<>>,
         \A i \in 1 .. Len(f) : f[i] # Hole
  PROVE  Form(f, args) = f \o Leftovers(args)
<1> DEFINE u == Surplus(f, args)
<1>1. Filled(f, args) = f
  <2>1. Filled(f, args) \in Seq(Shown) /\ Len(Filled(f, args)) = Len(f)
    BY FilledType
  <2>2. \A i \in 1 .. Len(f) : Filled(f, args)[i] = f[i]
    BY FilledType
  <2> QED BY <2>1, <2>2, SeqEqual
<1>2. HolesUpTo(f, Len(f)) = 0
  BY NoHoles
<1>3. /\ u \in Seq(Values) /\ Len(u) = IF 2 <= Len(args) THEN Len(args) - 1 ELSE 0
      /\ \A i \in 1 .. Len(u) : u[i] = args[1 + i]
  <2> DEFINE h == HolesUpTo(f, Len(f))
  <2>1. /\ u \in Seq(Values)
        /\ Len(u) = IF h + 2 <= Len(args) THEN Len(args) - h - 1 ELSE 0
        /\ \A i \in 1 .. Len(u) : u[i] = args[h + 1 + i]
    BY SurplusType
  <2> HIDE DEF h, u
  <2>2. h = 0
    BY <1>2 DEF h
  <2>3. Len(args) \in Nat
    OBVIOUS
  <2> QED BY <2>1, <2>2, <2>3
<1> HIDE DEF u
<1>4. /\ Len(args) \in Nat /\ Len(args) # 0
      /\ Tail(args) \in Seq(Values) /\ Len(Tail(args)) = Len(args) - 1
      /\ \A i \in 1 .. Len(args) - 1 : Tail(args)[i] = args[1 + i]
  OBVIOUS
<1>5. CASE Len(args) = 1
  <2>1. u = <<>> /\ Leftovers(args) = <<>>
    BY <1>3, <1>5 DEF Leftovers
  <2> QED BY <1>1, <2>1 DEF Form, Rest, u
<1>6. CASE Len(args) > 1
  <2>1. Len(u) = Len(args) - 1 /\ u # <<>>
    <3>1. 2 <= Len(args) /\ Len(args) - 1 # 0
      BY <1>4, <1>6
    <3>2. Len(u) = Len(args) - 1
      BY <1>3, <3>1
    <3>3. Len(u) # 0
      BY <3>1, <3>2
    <3> QED BY <3>2, <3>3
  <2>2. u = Tail(args)
    <3>1. \A i \in 1 .. Len(u) : u[i] = Tail(args)[i]
      BY <1>3, <1>4, <2>1
    <3>2. Len(u) = Len(Tail(args)) /\ u \in Seq(Values) /\ Tail(args) \in Seq(Values)
      BY <1>3, <1>4, <2>1
    <3> QED BY <3>1, <3>2, SeqEqual
  <2>3. Spaced(u, Len(u)) = Listed(Tail(args))
    BY <1>3, <2>2, ListedIs
  <2>4. Rest(f, args) = Leftovers(args)
    BY <1>6, <2>1, <2>3 DEF Rest, Leftovers, u
  <2> QED BY <1>1, <2>4 DEF Form
<1> QED BY <1>4, <1>5, <1>6

(* The p-th piece is the first hole, and there is an argument for it.       *)
Takes(f, args, p) ==
  /\ f \in Seq(Pieces) /\ args \in Seq(Values) /\ args # <<>>
  /\ p \in 1 .. Len(f) /\ f[p] = Hole /\ \A i \in 1 .. p - 1 : f[i] # Hole

LEMMA FormSplit ==
  ASSUME NEW f, NEW args, NEW p, Takes(f, args, p)
  PROVE  Form(f, args) =
           (SubSeq(f, 1, p - 1) \o <<Head(args)>>) \o Form(Behind(f, p), Tail(args))
<1> DEFINE d == SubSeq(f, 1, p - 1) \o <<Head(args)>>
           g == Behind(f, p)
           r == Tail(args)
           c == Filled(g, r)
           e == Rest(g, r)
<1>1. g \in Seq(Pieces) /\ r \in Seq(Values)
  BY BehindIs DEF Takes
<1>2. d \in Seq(Shown)
  <2>1. SubSeq(f, 1, p - 1) \in Seq(Pieces) /\ Head(args) \in Values
    BY DEF Takes
  <2>2. SubSeq(f, 1, p - 1) \in Seq(Shown) /\ <<Head(args)>> \in Seq(Shown)
    BY <2>1 DEF Shown
  <2> QED BY <2>2
<1>3. Filled(f, args) = d \o c
  BY FilledSplit DEF Takes
<1>4. Rest(f, args) = e
  BY SurplusSplit DEF Rest, Takes
<1> HIDE DEF d, g, r
<1>5. c \in Seq(Shown) /\ e \in Seq(Shown)
  BY <1>1, FilledType, RestType
<1> HIDE DEF c, e
<1>6. (d \o c) \o e = d \o (c \o e)
  BY <1>2, <1>5, ConcatAssociative
<1> QED BY <1>3, <1>4, <1>6 DEF Form, d, g, r, c, e

(* What a message is.                                                       *)
LEMMA MessageIs ==
  ASSUME NEW fa
  PROVE  fa \in Messages <=>
           /\ fa = <<fa[1], fa[2]>>
           /\ fa[1] \in Seq(Pieces) /\ Len(fa[1]) <= MaxPieces
           /\ fa[2] \in Seq(Values) /\ Len(fa[2]) <= MaxPieces
<1>1. MaxPieces \in Nat
  BY LoggerAssumption
<1> DEFINE F == BoundedSeq(Pieces, MaxPieces)
           A == BoundedSeq(Values, MaxPieces)
<1>2. /\ F = {s \in Seq(Pieces) : Len(s) <= MaxPieces}
      /\ A = {s \in Seq(Values) : Len(s) <= MaxPieces}
  BY <1>1, MessageSeqs
<1> HIDE DEF F, A
<1>3. fa \in F \X A <=> fa = <<fa[1], fa[2]>> /\ fa[1] \in F /\ fa[2] \in A
  OBVIOUS
<1> QED BY <1>2, <1>3 DEF Messages, F, A

(* One step of formatHelper, with g for the calls it makes.                 *)
OneHole(g, fa) ==
  IF fa[2] = <<>> THEN fa[1]
  ELSE IF FirstHole(fa[1]) = 0 THEN fa[1] \o Leftovers(fa[2])
  ELSE SubSeq(fa[1], 1, FirstHole(fa[1]) - 1) \o <<Head(fa[2])>> \o
       g[<<Behind(fa[1], FirstHole(fa[1])), Tail(fa[2])>>]

(* The call formatHelper makes of itself is for a message too, and if that  *)
(* call's result is Form's then so is its own.                              *)
LEMMA TakesFirst ==
  ASSUME NEW fa \in Messages, fa[2] # <<>>, FirstHole(fa[1]) # 0
  PROVE  /\ Takes(fa[1], fa[2], FirstHole(fa[1]))
         /\ <<Behind(fa[1], FirstHole(fa[1])), Tail(fa[2])>> \in Messages
<1> DEFINE f == fa[1]
           args == fa[2]
           p == FirstHole(fa[1])
<1>1. /\ f \in Seq(Pieces) /\ Len(f) <= MaxPieces
      /\ args \in Seq(Values) /\ Len(args) <= MaxPieces
  BY MessageIs
<1>2. args # <<>> /\ p # 0 /\ p = FirstHole(f)
  OBVIOUS
<1> HIDE DEF f, args, p
<1>3. Takes(f, args, p)
  BY <1>1, <1>2, FirstHoleIs DEF Takes
<1>4. /\ Behind(f, p) \in Seq(Pieces) /\ Len(Behind(f, p)) <= MaxPieces
      /\ Tail(args) \in Seq(Values) /\ Len(Tail(args)) <= MaxPieces
  <2>1. MaxPieces \in Nat
    BY LoggerAssumption
  <2>2. p \in 1 .. Len(f) /\ Len(f) \in Nat /\ Len(args) \in Nat
    BY <1>1, <1>3 DEF Takes
  <2>3. Behind(f, p) \in Seq(Pieces) /\ Len(Behind(f, p)) = Len(f) - p
    BY <1>1, <2>2, BehindIs
  <2>4. Tail(args) \in Seq(Values) /\ Len(Tail(args)) = Len(args) - 1
    BY <1>1, <1>2
  <2> QED BY <1>1, <2>1, <2>2, <2>3, <2>4
<1>5. <<Behind(f, p), Tail(args)>> \in Messages
  BY <1>4, MessageIs
<1> QED BY <1>3, <1>5 DEF f, args, p

LEMMA FormIsOneHole ==
  ASSUME NEW fa \in Messages, NEW g, 
         fa[2] # <<>> /\ FirstHole(fa[1]) # 0 =>
           g[<<Behind(fa[1], FirstHole(fa[1])), Tail(fa[2])>>] =
             Form(Behind(fa[1], FirstHole(fa[1])), Tail(fa[2]))
  PROVE  OneHole(g, fa) = Form(fa[1], fa[2])
<1> DEFINE f == fa[1]
           args == fa[2]
<1>1. f \in Seq(Pieces) /\ args \in Seq(Values)
  BY MessageIs
<1>2. CASE args = <<>>
  <2>1. Form(f, args) = f
    <3> HIDE DEF f, args
    <3> QED BY <1>1, <1>2, FormWithoutArgs
  <2> QED BY <1>2, <2>1 DEF OneHole
<1>3. CASE args # <<>> /\ FirstHole(f) = 0
  <2>1. Form(f, args) = f \o Leftovers(args)
    <3> HIDE DEF f, args
    <3> QED BY <1>1, <1>3, FirstHoleIs, FormWithoutHoles
  <2> QED BY <1>3, <2>1 DEF OneHole
<1>4. CASE args # <<>> /\ FirstHole(f) # 0
  <2>1. Takes(f, args, FirstHole(f))
    BY <1>4, TakesFirst
  <2>2. Form(f, args) = SubSeq(f, 1, FirstHole(f) - 1) \o <<Head(args)>> \o
                          Form(Behind(f, FirstHole(f)), Tail(args))
    BY <2>1, FormSplit
  <2> QED BY <1>4, <2>2 DEF OneHole
<1> QED BY <1>2, <1>3, <1>4

(* formatHelper satisfies its equation, since Form does.                    *)
LEMMA FormatHelperStep ==
  formatHelper = [fa \in Messages |-> OneHole(formatHelper, fa)]
<1> DEFINE whole == [fa \in Messages |-> Form(fa[1], fa[2])]
           Solves(g) == g = [fa \in Messages |-> OneHole(g, fa)]
<1>1. formatHelper = CHOOSE g : Solves(g)
  BY DEF formatHelper, OneHole, Behind
<1>2. Solves(whole)
  <2>1. ASSUME NEW fa \in Messages PROVE OneHole(whole, fa) = Form(fa[1], fa[2])
    <3>1. ASSUME fa[2] # <<>>, FirstHole(fa[1]) # 0
          PROVE  whole[<<Behind(fa[1], FirstHole(fa[1])), Tail(fa[2])>>] =
                   Form(Behind(fa[1], FirstHole(fa[1])), Tail(fa[2]))
      BY <3>1, TakesFirst
    <3> HIDE DEF whole
    <3> QED BY <3>1, FormIsOneHole
  <2> QED BY <2>1
<1> HIDE DEF whole
<1>3. Solves(CHOOSE g : Solves(g))
  BY <1>2
<1> QED BY <1>1, <1>3

(* formatHelper puts the arguments where the property says.                 *)
LEMMA FormatHelperIs ==
  ASSUME NEW fa \in Messages
  PROVE  formatHelper[fa] = Form(fa[1], fa[2])
<1> DEFINE N == {n \in Nat : \A m \in Messages :
                               Len(m[2]) = n => formatHelper[m] = Form(m[1], m[2])}
<1>1. \A m \in Messages : formatHelper[m] = OneHole(formatHelper, m)
  BY FormatHelperStep
<1>2. 0 \in N
  <2> SUFFICES ASSUME NEW m \in Messages, Len(m[2]) = 0
               PROVE  formatHelper[m] = Form(m[1], m[2])
    OBVIOUS
  <2>1. m[2] = <<>>
    BY MessageIs
  <2> QED BY <1>1, <2>1, FormIsOneHole
<1>3. ASSUME NEW n \in Nat, n \in N PROVE n + 1 \in N
  <2> SUFFICES ASSUME NEW m \in Messages, Len(m[2]) = n + 1
               PROVE  formatHelper[m] = Form(m[1], m[2])
    OBVIOUS
  <2>1. ASSUME m[2] # <<>>, FirstHole(m[1]) # 0
        PROVE  formatHelper[<<Behind(m[1], FirstHole(m[1])), Tail(m[2])>>] =
                 Form(Behind(m[1], FirstHole(m[1])), Tail(m[2]))
    <3> DEFINE k == <<Behind(m[1], FirstHole(m[1])), Tail(m[2])>>
    <3>1. k \in Messages
      BY <2>1, TakesFirst
    <3>2. Len(k[2]) = n
      <4>1. m[2] \in Seq(Values) /\ k[2] = Tail(m[2])
        BY MessageIs
      <4>2. Len(Tail(m[2])) = Len(m[2]) - 1
        BY <2>1, <4>1
      <4> QED BY <4>1, <4>2
    <3>3. k[1] = Behind(m[1], FirstHole(m[1])) /\ k[2] = Tail(m[2])
      OBVIOUS
    <3> HIDE DEF k
    <3>4. formatHelper[k] = Form(k[1], k[2])
      BY <1>3, <3>1, <3>2
    <3> QED BY <3>3, <3>4 DEF k
  <2> QED BY <1>1, <2>1, FormIsOneHole
<1> HIDE DEF N
<1>4. Nat \subseteq N
  BY <1>2, <1>3, InductionOn
<1>5. Len(fa[2]) \in Nat
  BY MessageIs
<1> QED BY <1>4, <1>5 DEF N

-----------------------------------------------------------------------------
USE LoggerAssumption

(* The n-th piece is behind the text at i with nothing but strays between.  *)
Follows(i, k) == \A j \in i + 1 .. k - 1 : IsStray(console[j])

Ended(i) ==
  \E k \in DOMAIN console :
    /\ k > i
    /\ Follows(i, k)
    /\ console[k] = EndOf(console[i])

Open(i) ==
  /\ Follows(i, Len(console) + 1)
  /\ \E t \in Threads : at[t] = "end" /\ console[i] = Part(t, Len(calls[t]), "text")

OpenByHolder ==
  \A i \in DOMAIN console : console[i].part = "text" => Ended(i) \/ Open(i)

Inv == TypeOK /\ OpenByHolder

-----------------------------------------------------------------------------
(* The initial state satisfies the invariant.                               *)
LEMMA InitInv == Init => Inv
  BY SMT DEF Init, Inv, TypeOK, OpenByHolder, Levels, INFO, DEBUG, ERROR, Threads

(* The invariant contains the property.                                     *)
LEMMA InvLinesWhole == Inv => LinesWhole
<1> SUFFICES ASSUME Inv, NEW i \in DOMAIN console, console[i].part = "text"
             PROVE  \E k \in i + 1 .. Len(console) + 1 :
                      /\ \A j \in i + 1 .. k - 1 : IsStray(console[j])
                      /\ k \in DOMAIN console => console[k] = EndOf(console[i])
  BY DEF LinesWhole
<1>1. Len(console) \in Nat /\ DOMAIN console = 1 .. Len(console)
  BY DEF Inv, TypeOK
<1>2. CASE Ended(i)
  <2>1. PICK k \in DOMAIN console : k > i /\ Follows(i, k) /\ console[k] = EndOf(console[i])
    BY <1>2 DEF Ended
  <2> QED BY <1>1, <2>1 DEF Follows
<1>3. CASE Open(i)
  <2>1. Follows(i, Len(console) + 1)
    BY <1>3 DEF Open
  <2>2. Len(console) + 1 \in i + 1 .. Len(console) + 1 /\ Len(console) + 1 \notin DOMAIN console
    BY <1>1
  <2> QED BY <2>1, <2>2 DEF Follows
<1> QED BY <1>2, <1>3 DEF Inv, OpenByHolder

-----------------------------------------------------------------------------
(* What a step may do to the console: nothing, or one more piece.           *)

(* Ended texts stay ended, and strays keep a text open that was.            *)
LEMMA PutsKeeps ==
  ASSUME Inv, NEW p \in [by : Threads, n : Nat, part : {"text", "end", "stray"}],
         Puts(p), NEW i \in DOMAIN console
  PROVE  /\ Len(console') = Len(console) + 1 /\ i \in DOMAIN console'
         /\ console'[i] = console[i] /\ console'[Len(console')] = p
         /\ Ended(i) => Ended(i)'
         /\ IsStray(p) /\ Follows(i, Len(console) + 1) => Follows(i, Len(console) + 1)'
         /\ ~Ended(i) /\ Follows(i, Len(console) + 1) /\ p = EndOf(console[i]) => Ended(i)'
<1>1. console \in Seq([by : Threads, n : Nat, part : {"text", "end", "stray"}])
  BY DEF Inv, TypeOK
<1>2. /\ Len(console) \in Nat /\ DOMAIN console = 1 .. Len(console)
      /\ Len(console') = Len(console) + 1 /\ DOMAIN console' = 1 .. Len(console) + 1
      /\ \A j \in DOMAIN console : console'[j] = console[j]
      /\ console'[Len(console) + 1] = p
  BY <1>1 DEF Puts
<1>3. ASSUME NEW k \in DOMAIN console', Follows(i, k) PROVE Follows(i, k)'
  BY <1>2, <1>3 DEF Follows
<1>4. Ended(i) => Ended(i)'
  <2> SUFFICES ASSUME Ended(i) PROVE Ended(i)'
    OBVIOUS
  <2>1. PICK k \in DOMAIN console : k > i /\ Follows(i, k) /\ console[k] = EndOf(console[i])
    BY DEF Ended
  <2>2. k \in DOMAIN console' /\ Follows(i, k)' /\ console'[k] = EndOf(console'[i])
    BY <1>2, <1>3, <2>1
  <2> QED BY <2>1, <2>2 DEF Ended, EndOf
<1>5. IsStray(p) /\ Follows(i, Len(console) + 1) => Follows(i, Len(console) + 1)'
  BY <1>2 DEF Follows, IsStray
<1>6. Follows(i, Len(console) + 1) /\ p = EndOf(console[i]) => Ended(i)'
  <2> SUFFICES ASSUME Follows(i, Len(console) + 1), p = EndOf(console[i]) PROVE Ended(i)'
    OBVIOUS
  <2>1. Len(console) + 1 \in DOMAIN console' /\ Len(console) + 1 > i
    BY <1>2
  <2>3. \A j \in i + 1 .. (Len(console) + 1) - 1 : IsStray(console'[j])
    BY <1>2 DEF Follows, IsStray
  <2> QED BY <1>2, <2>1, <2>3 DEF Ended, Follows, EndOf
<1> QED BY <1>2, <1>4, <1>5, <1>6

-----------------------------------------------------------------------------
(* A step that leaves the console, and every thread at "end" and its calls, *)
(* alone keeps every text ended or open.                                    *)
LEMMA QuietKeeps ==
  ASSUME Inv, UNCHANGED console,
         \A t \in Threads : at[t] = "end" => at'[t] = "end" /\ calls'[t] = calls[t]
  PROVE  OpenByHolder'
  BY DEF Inv, OpenByHolder, Ended, Open, Follows, EndOf, IsStray, Part

(* So does a stray.                                                         *)
LEMMA StrayKeeps ==
  ASSUME Inv, NEW p \in [by : Threads, n : Nat, part : {"text", "end", "stray"}],
         Puts(p), IsStray(p), UNCHANGED <<at, calls>>
  PROVE  OpenByHolder'
<1>1. SUFFICES ASSUME NEW i \in DOMAIN console', console'[i].part = "text"
               PROVE  (Ended(i) \/ Open(i))'
  BY DEF OpenByHolder
<1>2. console \in Seq([by : Threads, n : Nat, part : {"text", "end", "stray"}])
  BY DEF Inv, TypeOK
<1>3. i \in DOMAIN console
  BY <1>1, <1>2 DEF Puts, IsStray
<1>4. console'[i] = console[i] /\ (Ended(i) => Ended(i)')
      /\ (Follows(i, Len(console) + 1) => Follows(i, Len(console) + 1)')
  BY <1>3, PutsKeeps
<1>5. CASE Ended(i)
  BY <1>4, <1>5
<1>6. CASE Open(i)
  BY <1>4, <1>6 DEF Open
<1> QED BY <1>1, <1>3, <1>4, <1>5, <1>6 DEF Inv, OpenByHolder

(* The messages that are formatted.                                         *)
LEMMA SaidTypes == ASSUME NEW t \in Threads PROVE Said(t) \subseteq Messages \cup {Nothing}
  BY DEF Said

(* The places of a call, from the typing of the mutex: whoever is inside    *)
(* holds it.                                                                *)
LEMMA TypePreserved == Inv /\ [Next]_vars => TypeOK'
<1> SUFFICES ASSUME Inv, [Next]_vars PROVE TypeOK'
  OBVIOUS
<1>0. TypeOK
  BY DEF Inv
<1>1. CASE SetLogLevel
  BY <1>0, <1>1 DEF SetLogLevel, TypeOK
<1>2. CASE SetLogFile
  BY <1>0, <1>2 DEF SetLogFile, TypeOK
<1>3. CASE MainFails
  <2>1. calls' \in [Threads -> Seq(Levels)]
    <3>1. Main \in Threads /\ ERROR \in Levels
      BY DEF Threads, Levels, DEBUG, ERROR
    <3> QED BY <1>0, <1>3, <3>1 DEF MainFails, TypeOK
  <2> QED BY <1>0, <1>3, <2>1 DEF MainFails, Goes, TypeOK
<1>4. CASE StartsWorkers
  BY <1>0, <1>4 DEF StartsWorkers, TypeOK
<1>5. CASE Ends
  BY <1>0, <1>5 DEF Ends, TypeOK
<1>6. ASSUME NEW t \in Threads, NEW l \in {DEBUG, INFO}, Log(t, l) PROVE TypeOK'
  <2>1. calls' \in [Threads -> Seq(Levels)]
    <3>1. l \in Levels
      BY DEF Levels, DEBUG, INFO, ERROR
    <3> QED BY <1>0, <1>6, <3>1 DEF Log, TypeOK
  <2>2. asked' \in [Threads -> Messages \cup {Nothing}]
    BY <1>0, <1>6, SaidTypes DEF Log, TypeOK
  <2>3. at' = [at EXCEPT ![t] = IF Passes(l) THEN "wanting" ELSE "outside"] /\ at[t] = "outside"
    BY <1>6 DEF Log, Goes
  <2> QED BY <1>0, <1>6, <2>1, <2>2, <2>3 DEF Log, TypeOK
<1>7. ASSUME NEW t \in Threads, Locks(t) PROVE TypeOK'
  BY <1>0, <1>7 DEF Locks, Goes, MayLock, TypeOK
<1>8. ASSUME NEW t \in Threads, PutsText(t) PROVE TypeOK'
  <2>1. Part(t, Len(calls[t]), "text") \in [by : Threads, n : Nat, part : {"text", "end", "stray"}]
    BY <1>0 DEF Part, TypeOK
  <2>2. console' \in Seq([by : Threads, n : Nat, part : {"text", "end", "stray"}])
    BY <1>0, <1>8, <2>1 DEF PutsText, Puts, TypeOK
  <2> QED BY <1>0, <1>8, <2>2 DEF PutsText, Goes, TypeOK
<1>9. ASSUME NEW t \in Threads, PutsEnd(t) PROVE TypeOK'
  <2>1. Part(t, Len(calls[t]), "end") \in [by : Threads, n : Nat, part : {"text", "end", "stray"}]
    BY <1>0 DEF Part, TypeOK
  <2>2. console' \in Seq([by : Threads, n : Nat, part : {"text", "end", "stray"}])
    BY <1>0, <1>9, <2>1 DEF PutsEnd, Puts, TypeOK
  <2> QED BY <1>0, <1>9, <2>2 DEF PutsEnd, HoldsOn, Goes, TypeOK
<1>10. ASSUME NEW t \in Threads, NEW status \in {"good", "none", "failed", "closed"},
              Returns(t, status)
       PROVE  TypeOK'
  <2>1. disk' \in Seq(Threads \X Nat)
    BY <1>0, <1>10 DEF Returns, TypeOK
  <2>2. asked' \in [Threads -> Messages \cup {Nothing}]
    BY <1>0, <1>10 DEF Returns, TypeOK
  <2>3. mutex' \in Threads \cup {NoOne} /\ at' \in [Threads -> {"outside", "wanting", "text", "end", "file"}]
    BY <1>0, <1>10 DEF Returns, Unlocks, Goes, TypeOK
  <2>4. ASSUME NEW u \in Threads
        PROVE  (at'[u] \in {"text", "end", "file"}) = (mutex' = u)
    <3>1. mutex' = NoOne /\ at' = [at EXCEPT ![t] = "outside"] /\ mutex = t
      BY <1>0, <1>10 DEF Returns, Unlocks, Goes, TypeOK
    <3>2. at'[u] \notin {"text", "end", "file"}
      BY <1>0, <3>1 DEF TypeOK
    <3> QED BY <3>1, <3>2
  <2> QED BY <1>0, <1>10, <2>1, <2>2, <2>3, <2>4 DEF Returns, TypeOK
<1>11. ASSUME NEW t \in Threads, PutsFile(t) \/ PutFails(t) PROVE TypeOK'
  BY <1>0, <1>10, <1>11 DEF PutsFile, PutFails, TypeOK
<1>12. ASSUME NEW t \in Threads, Signal(t) PROVE TypeOK'
  BY <1>0, <1>12 DEF Signal, TypeOK
<1>13. CASE HandlerPuts
  <2>1. Part(handler, 0, "stray") \in [by : Threads, n : Nat, part : {"text", "end", "stray"}]
    BY <1>0, <1>13 DEF HandlerPuts, Part, TypeOK
  <2>2. console' \in Seq([by : Threads, n : Nat, part : {"text", "end", "stray"}])
    BY <1>0, <1>13, <2>1 DEF HandlerPuts, Puts, TypeOK
  <2> QED BY <1>0, <1>13, <2>2 DEF HandlerPuts, TypeOK
<1>14. ASSUME NEW w \in Workers, Announces(w) PROVE TypeOK'
  <2>1. Part(w, 0, "stray") \in [by : Threads, n : Nat, part : {"text", "end", "stray"}]
    BY DEF Part, Threads
  <2>2. console' \in Seq([by : Threads, n : Nat, part : {"text", "end", "stray"}])
    BY <1>0, <1>14, <2>1 DEF Announces, Puts, TypeOK
  <2> QED BY <1>0, <1>14, <2>2 DEF Announces, TypeOK
<1>15. CASE UNCHANGED vars
  BY <1>0, <1>15 DEF vars, TypeOK
<1> QED
  BY <1>1, <1>2, <1>3, <1>4, <1>5, <1>6, <1>7, <1>8, <1>9, <1>11, <1>12, <1>13, <1>14, <1>15
     DEF Next, Call

(* Nobody begins a text while one is open, and the end that comes is its.   *)
LEMMA OpenPreserved == Inv /\ [Next]_vars => OpenByHolder'
<1> SUFFICES ASSUME Inv, [Next]_vars PROVE OpenByHolder'
  OBVIOUS
<1>0. TypeOK
  BY DEF Inv
<1>1. CASE SetLogLevel \/ SetLogFile \/ StartsWorkers \/ Ends \/ UNCHANGED vars
  <2>1. UNCHANGED <<console, at, calls>>
    BY <1>1 DEF SetLogLevel, SetLogFile, StartsWorkers, Ends, vars
  <2> QED BY <2>1, QuietKeeps
<1>2. CASE MainFails
  <2>1. /\ UNCHANGED console
        /\ \A t \in Threads : at[t] = "end" => at'[t] = "end" /\ calls'[t] = calls[t]
    BY <1>0, <1>2 DEF MainFails, Goes, TypeOK
  <2> QED BY <2>1, QuietKeeps
<1>3. ASSUME NEW t \in Threads, NEW l \in {DEBUG, INFO}, Log(t, l) PROVE OpenByHolder'
  <2>1. /\ UNCHANGED console
        /\ \A u \in Threads : at[u] = "end" => at'[u] = "end" /\ calls'[u] = calls[u]
    BY <1>0, <1>3 DEF Log, Goes, TypeOK
  <2> QED BY <2>1, QuietKeeps
<1>4. ASSUME NEW t \in Threads, Locks(t) \/ PutsFile(t) \/ PutFails(t) \/ Signal(t)
      PROVE  OpenByHolder'
  <2>1. /\ UNCHANGED console
        /\ \A u \in Threads : at[u] = "end" => at'[u] = "end" /\ calls'[u] = calls[u]
    BY <1>0, <1>4 DEF Locks, PutsFile, PutFails, Returns, Signal, Goes, TypeOK
  <2> QED BY <2>1, QuietKeeps
<1>5. ASSUME NEW t \in Threads, PutsText(t) PROVE OpenByHolder'
  <2> DEFINE p == Part(t, Len(calls[t]), "text")
  <2>1. p \in [by : Threads, n : Nat, part : {"text", "end", "stray"}] /\ Puts(p)
    BY <1>0, <1>5 DEF PutsText, Part, TypeOK
  <2>2. SUFFICES ASSUME NEW i \in DOMAIN console', console'[i].part = "text"
                 PROVE  (Ended(i) \/ Open(i))'
    BY DEF OpenByHolder
  <2>3. console \in Seq([by : Threads, n : Nat, part : {"text", "end", "stray"}])
    BY <1>0 DEF TypeOK
  <2>4. Len(console) \in Nat /\ DOMAIN console = 1 .. Len(console)
        /\ Len(console') = Len(console) + 1 /\ DOMAIN console' = 1 .. Len(console) + 1
        /\ console'[Len(console) + 1] = p
    BY <2>1, <2>3 DEF Puts
  <2>5. CASE i \in DOMAIN console
    <3>1. console'[i] = console[i] /\ (Ended(i) => Ended(i)')
      BY <2>1, <2>5, PutsKeeps
    <3>2. ~Open(i)
      BY <1>0, <1>5 DEF PutsText, Goes, Open, TypeOK
    <3> QED BY <2>2, <2>5, <3>1, <3>2 DEF Inv, OpenByHolder
  <2>6. CASE i = Len(console) + 1
    <3>1. at'[t] = "end" /\ calls' = calls
      BY <1>0, <1>5 DEF PutsText, Goes, TypeOK
    <3>2. Follows(i, Len(console) + 1)'
      BY <2>4, <2>6 DEF Follows
    <3> QED BY <2>4, <2>6, <3>1, <3>2 DEF Open
  <2> QED BY <2>2, <2>4, <2>5, <2>6
<1>6. ASSUME NEW t \in Threads, PutsEnd(t) PROVE OpenByHolder'
  <2> DEFINE p == Part(t, Len(calls[t]), "end")
  <2>1. p \in [by : Threads, n : Nat, part : {"text", "end", "stray"}] /\ Puts(p)
    BY <1>0, <1>6 DEF PutsEnd, Part, TypeOK
  <2>2. SUFFICES ASSUME NEW i \in DOMAIN console', console'[i].part = "text"
                 PROVE  (Ended(i) \/ Open(i))'
    BY DEF OpenByHolder
  <2>3. console \in Seq([by : Threads, n : Nat, part : {"text", "end", "stray"}])
    BY <1>0 DEF TypeOK
  <2>4. i \in DOMAIN console
    BY <2>1, <2>2, <2>3 DEF Puts, Part
  <2>5. console'[i] = console[i] /\ (Ended(i) => Ended(i)')
    BY <2>1, <2>4, PutsKeeps
  <2>6. CASE Open(i)
    <3>1. Follows(i, Len(console) + 1)
      BY <2>6 DEF Open
    <3>2. PICK u \in Threads : at[u] = "end" /\ console[i] = Part(u, Len(calls[u]), "text")
      BY <2>6 DEF Open
    <3>3. u = t
      BY <1>0, <1>6, <3>2 DEF PutsEnd, Goes, TypeOK
    <3>4. p = EndOf(console[i])
      BY <3>2, <3>3 DEF EndOf, Part
    <3> QED BY <2>1, <2>4, <2>5, <3>1, <3>4, PutsKeeps
  <2> QED BY <2>2, <2>4, <2>5, <2>6 DEF Inv, OpenByHolder
<1>7. CASE HandlerPuts
  <2>1. Part(handler, 0, "stray") \in [by : Threads, n : Nat, part : {"text", "end", "stray"}]
    BY <1>0, <1>7 DEF HandlerPuts, Part, TypeOK
  <2>2. IsStray(Part(handler, 0, "stray"))
    BY DEF IsStray, Part
  <2> QED BY <1>7, <2>1, <2>2, StrayKeeps DEF HandlerPuts
<1>8. ASSUME NEW w \in Workers, Announces(w) PROVE OpenByHolder'
  <2>1. Part(w, 0, "stray") \in [by : Threads, n : Nat, part : {"text", "end", "stray"}]
    BY DEF Part, Threads
  <2>2. IsStray(Part(w, 0, "stray"))
    BY DEF IsStray, Part
  <2> QED BY <1>8, <2>1, <2>2, StrayKeeps DEF Announces
<1> QED
  BY <1>1, <1>2, <1>3, <1>4, <1>5, <1>6, <1>7, <1>8 DEF Next, Call

-----------------------------------------------------------------------------
(* The texts among the pieces of the console, and their ranks.              *)
PieceType == [by : Threads, n : Nat, part : {"text", "end", "stray"}]

LEMMA TextsFinite ==
  ASSUME TypeOK
  PROVE  /\ IsFiniteSet(Texts) /\ Cardinality(Texts) \in Nat
         /\ Len(console) \in Nat /\ DOMAIN console = 1 .. Len(console)
         /\ Texts \subseteq 1 .. Len(console)
<1>1. Len(console) \in Nat /\ DOMAIN console = 1 .. Len(console)
  BY DEF TypeOK
<1>2. Texts \subseteq 1 .. Len(console) /\ IsFiniteSet(1 .. Len(console))
  BY <1>1, FS_Interval DEF Texts
<1> QED BY <1>1, <1>2, FS_Subset, FS_CardinalityType

LEMMA RankBound ==
  ASSUME TypeOK, NEW i \in Texts
  PROVE  Rank(i) \in 1 .. Cardinality(Texts)
<1> DEFINE R == {j \in Texts : j <= i}
<1>1. R \subseteq Texts /\ i \in R
  BY TextsFinite
<1>2. IsFiniteSet(R) /\ Cardinality(R) \in Nat /\ Cardinality(R) <= Cardinality(Texts)
  BY <1>1, TextsFinite, FS_Subset, FS_CardinalityType
<1>3. Cardinality(R) # 0
  BY <1>1, <1>2, FS_EmptySet
<1> QED BY <1>2, <1>3, TextsFinite DEF Rank

(* A piece that is no text leaves them alone; a text is behind the others.  *)
LEMMA PutsTexts ==
  ASSUME TypeOK, NEW p \in PieceType, Puts(p)
  PROVE  /\ Texts' = IF IsText(p) THEN Texts \cup {Len(console) + 1} ELSE Texts
         /\ Len(console) + 1 \notin Texts
         /\ console'[Len(console) + 1] = p
         /\ \A i \in Texts : console'[i] = console[i] /\ Rank(i)' = Rank(i)
         /\ IsText(p) => /\ Cardinality(Texts') = Cardinality(Texts) + 1
                         /\ \A i \in Texts' \ Texts : Rank(i)' = Cardinality(Texts) + 1
<1> DEFINE last == Len(console) + 1
<1>1. console \in Seq(PieceType) /\ console' = Append(console, p)
  BY DEF TypeOK, Puts, PieceType
<1>2. /\ Len(console) \in Nat /\ DOMAIN console = 1 .. Len(console)
      /\ DOMAIN console' = 1 .. last /\ last \notin Texts
      /\ console'[last] = p /\ \A i \in DOMAIN console : console'[i] = console[i]
  BY <1>1, TextsFinite
<1>3. Texts' = IF IsText(p) THEN Texts \cup {last} ELSE Texts
  BY <1>2 DEF Texts, IsText
<1>4. \A i \in Texts : console'[i] = console[i] /\ Rank(i)' = Rank(i)
  <2> SUFFICES ASSUME NEW i \in Texts PROVE console'[i] = console[i] /\ Rank(i)' = Rank(i)
    OBVIOUS
  <2>1. i \in 1 .. Len(console)
    BY TextsFinite
  <2>2. {j \in Texts' : j <= i} = {j \in Texts : j <= i}
    BY <1>2, <1>3, <2>1
  <2> QED BY <1>2, <2>1, <2>2 DEF Rank
<1>5. ASSUME IsText(p) PROVE Cardinality(Texts') = Cardinality(Texts) + 1
  BY <1>2, <1>3, <1>5, TextsFinite, FS_AddElement
<1>6. ASSUME IsText(p), NEW i \in Texts' \ Texts PROVE Rank(i)' = Cardinality(Texts) + 1
  <2>1. {j \in Texts' : j <= i} = Texts'
    BY <1>2, <1>3, <1>6, TextsFinite
  <2> QED BY <1>5, <1>6, <2>1 DEF Rank
<1> QED BY <1>2, <1>3, <1>4, <1>5, <1>6

-----------------------------------------------------------------------------
(* What the console and the file have to do with each other in the middle   *)
(* of a line: the text that is not in the file yet is the last one.         *)
InFile(t) == at[t] \in {"end", "file"}

FileInv ==
  /\ FileFollowsConsole
  /\ main \in {"level", "file"} =>
       Texts = {} /\ Len(disk) = 0 /\ \A t \in Threads : at[t] = "outside"
  /\ \A t \in Threads : InFile(t) =>
       \A i \in Texts : Rank(i) = Cardinality(Texts) => console[i] = Part(t, Len(calls[t]), "text")

(* And the calls and the console: a call that is under way is due.          *)
ShownInv ==
  /\ main # "level" => logLevel = Threshold
  /\ \A t \in Threads :
       at[t] # "outside" => Len(calls[t]) > 0 /\ calls[t][Len(calls[t])] >= Threshold
  /\ EachShownOnce

LineInv == TypeOK /\ FileInv /\ ShownInv

LEMMA InitLineInv == Init => LineInv
<1> SUFFICES ASSUME Init PROVE LineInv
  OBVIOUS
<1>1. TypeOK
  BY InitInv DEF Inv
<1>2. Texts = {} /\ Cardinality(Texts) = 0
  BY FS_EmptySet DEF Init, Texts
<1>3. BeingWritten = 0 /\ Len(disk) = 0
  BY DEF Init, BeingWritten
<1>4. \A t \in Threads : TextsBy(t) = {} /\ Due(t) = {} /\ Pending(t) = {}
  BY <1>2 DEF Init, TextsBy, Due, Pending
<1>5. FileInv
  BY <1>2, <1>3 DEF Init, FileInv, FileFollowsConsole, InFile
<1>6. ShownInv
  BY <1>4 DEF Init, ShownInv, EachShownOnce
<1> QED BY <1>1, <1>5, <1>6 DEF LineInv

(* At most one thread is between a text and its line in the file.           *)
LEMMA WhoIsWritten ==
  ASSUME TypeOK, NEW t \in Threads
  PROVE  /\ at[t] \in {"text", "end", "file"} =>
              \A u \in Threads : at[u] \in {"text", "end", "file"} => u = t
         /\ at[t] \in {"end", "file"} => BeingWritten = 1
         /\ at[t] = "text" => BeingWritten = 0
         /\ BeingWritten \in {0, 1}
  BY DEF TypeOK, BeingWritten

(* A step that touches neither console nor file, opens no file and neither  *)
(* begins nor ends the writing of a line.                                   *)
LEMMA QuietFile ==
  ASSUME LineInv, UNCHANGED <<console, disk>>,
         logFile' = "good" => logFile = "good",
         main' \in {"level", "file"} => main \in {"level", "file"} /\ at' = at,
         \A t \in Threads : /\ InFile(t)' = InFile(t)
                            /\ InFile(t) => calls'[t] = calls[t]
  PROVE  FileInv'
<1>1. Texts' = Texts /\ \A i \in Texts : Rank(i)' = Rank(i)
  BY DEF Texts, Rank
<1>2. BeingWritten' = BeingWritten
  BY DEF BeingWritten, InFile
<1>3. FileFollowsConsole'
  BY <1>1, <1>2 DEF LineInv, FileInv, FileFollowsConsole
<1> QED BY <1>1, <1>3 DEF LineInv, FileInv, Part

(* A stray is no text.                                                      *)
LEMMA StrayFile ==
  ASSUME LineInv, NEW p \in PieceType, Puts(p), IsStray(p),
         UNCHANGED <<main, at, calls, logFile, disk>>
  PROVE  FileInv'
<1>1. ~IsText(p)
  BY DEF IsText, IsStray
<1>2. Texts' = Texts /\ \A i \in Texts : console'[i] = console[i] /\ Rank(i)' = Rank(i)
  BY <1>1, PutsTexts DEF LineInv
<1>3. BeingWritten' = BeingWritten
  BY DEF BeingWritten
<1>4. FileFollowsConsole'
  BY <1>2, <1>3 DEF LineInv, FileInv, FileFollowsConsole
<1> QED BY <1>2, <1>4 DEF LineInv, FileInv, InFile, Part

LEMMA PutsTextFile ==
  ASSUME LineInv, NEW t \in Threads, PutsText(t) PROVE FileInv'
<1> DEFINE p == Part(t, Len(calls[t]), "text")
<1>0. TypeOK /\ FileInv
  BY DEF LineInv
<1>1. p \in PieceType /\ Puts(p) /\ IsText(p)
  BY <1>0 DEF PutsText, Part, PieceType, IsText, TypeOK
<1>2. /\ at[t] = "text" /\ at' = [at EXCEPT ![t] = "end"] /\ UNCHANGED <<main, calls, logFile, disk>>
      /\ at'[t] = "end" /\ main \notin {"level", "file"}
  BY <1>0 DEF PutsText, Goes, FileInv, TypeOK
<1>3. /\ \A u \in Threads : InFile(u)' => u = t
      /\ BeingWritten = 0 /\ BeingWritten' = 1
  BY <1>0, <1>2, WhoIsWritten DEF InFile, BeingWritten, TypeOK
<1>4. /\ Texts' = Texts \cup {Len(console) + 1} /\ Cardinality(Texts') = Cardinality(Texts) + 1
      /\ console'[Len(console) + 1] = p /\ Len(console) + 1 \notin Texts
      /\ \A i \in Texts : console'[i] = console[i] /\ Rank(i)' = Rank(i)
      /\ \A i \in Texts' \ Texts : Rank(i)' = Cardinality(Texts) + 1
  BY <1>0, <1>1, PutsTexts
<1>5. /\ Cardinality(Texts) \in Nat /\ Len(disk) \in Nat /\ Len(disk) <= Cardinality(Texts)
      /\ \A i \in Texts : Rank(i) \in 1 .. Cardinality(Texts)
  BY <1>0, TextsFinite, RankBound DEF TypeOK, FileInv, FileFollowsConsole
<1>6. Len(disk') <= Cardinality(Texts')
  BY <1>2, <1>4, <1>5
<1>7. ASSUME NEW i \in Texts', Rank(i)' <= Len(disk')
      PROVE  disk'[Rank(i)'] = <<console'[i].by, console'[i].n>>
  <2>1. i \in Texts
    BY <1>2, <1>4, <1>5, <1>7
  <2> QED BY <1>0, <1>2, <1>4, <1>7, <2>1 DEF FileInv, FileFollowsConsole
<1>8. logFile' = "good" => Len(disk') = Cardinality(Texts') - BeingWritten'
  BY <1>0, <1>2, <1>3, <1>4, <1>5 DEF FileInv, FileFollowsConsole
<1>9. ASSUME NEW i \in Texts', Rank(i)' = Cardinality(Texts') PROVE console'[i] = p
  BY <1>4, <1>5, <1>9
<1>10. p = Part(t, Len(calls'[t]), "text")
  BY <1>2
<1> HIDE DEF p
<1>11. FileFollowsConsole'
  BY <1>6, <1>7, <1>8 DEF FileFollowsConsole
<1> QED BY <1>2, <1>3, <1>9, <1>10, <1>11 DEF FileInv

LEMMA PutsEndFile ==
  ASSUME LineInv, NEW t \in Threads, PutsEnd(t) PROVE FileInv'
<1> DEFINE p == Part(t, Len(calls[t]), "end")
<1>0. TypeOK /\ FileInv
  BY DEF LineInv
<1>1. p \in PieceType /\ Puts(p) /\ ~IsText(p)
  BY <1>0 DEF PutsEnd, Part, PieceType, IsText, TypeOK
<1>2. /\ at[t] = "end" /\ at' = [at EXCEPT ![t] = "file"] /\ UNCHANGED <<main, calls, logFile, disk>>
      /\ at'[t] = "file" /\ main \notin {"level", "file"}
  BY <1>0 DEF PutsEnd, Goes, FileInv, TypeOK
<1>3. BeingWritten' = BeingWritten /\ \A u \in Threads : InFile(u)' = InFile(u)
  BY <1>0, <1>2 DEF BeingWritten, InFile, TypeOK
<1>4. Texts' = Texts /\ \A i \in Texts : console'[i] = console[i] /\ Rank(i)' = Rank(i)
  BY <1>0, <1>1, PutsTexts
<1> HIDE DEF p
<1>5. FileFollowsConsole'
  BY <1>0, <1>2, <1>3, <1>4 DEF FileInv, FileFollowsConsole
<1> QED BY <1>0, <1>2, <1>3, <1>4, <1>5 DEF FileInv, Part

(* What goes to the file is the last text.                                  *)
LEMMA ReturnsFile ==
  ASSUME LineInv, NEW t \in Threads, PutsFile(t) \/ PutFails(t) PROVE FileInv'
<1>0. TypeOK /\ FileInv
  BY DEF LineInv
<1>1. PICK status \in {logFile, "failed"} :
        Returns(t, status) /\ ((status = "failed" /\ logFile = "good") \/ status = logFile)
  BY DEF PutsFile, PutFails
<1>2. /\ at[t] = "file" /\ at' = [at EXCEPT ![t] = "outside"] /\ UNCHANGED <<main, calls, console>>
      /\ logFile' = status /\ main \notin {"level", "file"}
  BY <1>0, <1>1 DEF Returns, Goes, FileInv, TypeOK
<1>3. /\ \A u \in Threads : ~InFile(u)'
      /\ BeingWritten = 1 /\ BeingWritten' = 0
  BY <1>0, <1>2, WhoIsWritten DEF InFile, BeingWritten, TypeOK
<1>4. Texts' = Texts /\ \A i \in Texts : Rank(i)' = Rank(i)
  BY <1>2 DEF Texts, Rank
<1>5. /\ Cardinality(Texts) \in Nat /\ Len(disk) \in Nat
      /\ \A i \in Texts : Rank(i) \in 1 .. Cardinality(Texts)
  BY <1>0, TextsFinite, RankBound DEF TypeOK
<1>6. CASE status # "good"
  <2>1. disk' = disk
    BY <1>1, <1>6 DEF Returns
  <2>2. FileFollowsConsole'
    BY <1>0, <1>2, <1>4, <1>6, <2>1 DEF FileInv, FileFollowsConsole
  <2> QED BY <1>2, <1>3, <2>2 DEF FileInv
<1>7. CASE status = "good"
  <2>1. logFile = "good" /\ disk' = Append(disk, <<t, Len(calls[t])>>) /\ disk \in Seq(Threads \X Nat)
    BY <1>0, <1>1, <1>7 DEF Returns, TypeOK
  <2>2. Len(disk) + 1 = Cardinality(Texts)
    BY <1>0, <1>3, <1>5, <2>1 DEF FileInv, FileFollowsConsole
  <2>3. /\ Len(disk') = Len(disk) + 1 /\ disk'[Len(disk) + 1] = <<t, Len(calls[t])>>
        /\ \A k \in 1 .. Len(disk) : disk'[k] = disk[k]
    BY <2>1
  <2>4. ASSUME NEW i \in Texts PROVE disk'[Rank(i)] = <<console[i].by, console[i].n>>
    <3>1. CASE Rank(i) <= Len(disk)
      BY <1>0, <1>5, <2>3, <3>1 DEF FileInv, FileFollowsConsole
    <3>2. CASE Rank(i) = Len(disk) + 1
      <4>1. console[i] = Part(t, Len(calls[t]), "text")
        BY <1>0, <1>2, <2>2, <3>2 DEF FileInv, InFile
      <4> QED BY <2>3, <3>2, <4>1 DEF Part
    <3> QED BY <1>5, <2>2, <3>1, <3>2
  <2>5. FileFollowsConsole'
    BY <1>2, <1>3, <1>4, <1>5, <2>2, <2>3, <2>4 DEF FileFollowsConsole
  <2> QED BY <1>2, <1>3, <2>5 DEF FileInv
<1> QED BY <1>6, <1>7

LEMMA FilePreserved == LineInv /\ [Next]_vars => FileInv'
<1> SUFFICES ASSUME LineInv, [Next]_vars PROVE FileInv'
  OBVIOUS
<1>0. TypeOK /\ FileInv
  BY DEF LineInv
<1>1. CASE SetLogLevel \/ StartsWorkers \/ Ends \/ UNCHANGED vars
  <2>1. /\ UNCHANGED <<console, disk, at, calls>> /\ (logFile' = "good" => logFile = "good")
        /\ (main' \in {"level", "file"} => main \in {"level", "file"})
    BY <1>1 DEF SetLogLevel, StartsWorkers, Ends, vars
  <2> QED BY <2>1, QuietFile DEF InFile
<1>2. CASE SetLogFile
  <2>1. /\ UNCHANGED <<console, disk, at, calls>> /\ main' = "first"
        /\ Texts = {} /\ Len(disk) = 0 /\ \A t \in Threads : at[t] = "outside"
    BY <1>0, <1>2 DEF SetLogFile, FileInv
  <2>2. Texts' = {} /\ Cardinality({}) = 0 /\ BeingWritten' = 0
    BY <2>1, FS_EmptySet DEF Texts, BeingWritten
  <2> QED BY <2>1, <2>2 DEF FileInv, FileFollowsConsole, InFile
<1>3. CASE MainFails
  <2>1. /\ UNCHANGED <<console, disk, logFile>> /\ main' = "failed"
        /\ \A t \in Threads : InFile(t)' = InFile(t) /\ (InFile(t) => calls'[t] = calls[t])
    BY <1>0, <1>3 DEF MainFails, Goes, InFile, TypeOK
  <2> QED BY <2>1, QuietFile
<1>4. ASSUME NEW t \in Threads, NEW l \in {DEBUG, INFO}, Log(t, l) PROVE FileInv'
  <2>1. /\ UNCHANGED <<console, disk, logFile, main>> /\ main \notin {"level", "file"}
        /\ \A u \in Threads : InFile(u)' = InFile(u) /\ (InFile(u) => calls'[u] = calls[u])
    BY <1>0, <1>4 DEF Log, Running, Goes, InFile, TypeOK
  <2> QED BY <2>1, QuietFile
<1>5. ASSUME NEW t \in Threads, Locks(t) \/ Signal(t) PROVE FileInv'
  <2>1. /\ UNCHANGED <<console, disk, logFile, main, calls>>
        /\ main \in {"level", "file"} => at' = at
        /\ \A u \in Threads : InFile(u)' = InFile(u)
    BY <1>0, <1>5 DEF Locks, Signal, Goes, InFile, FileInv, TypeOK
  <2> QED BY <2>1, QuietFile
<1>6. ASSUME NEW t \in Threads, Call(t) \/ PutFails(t) PROVE FileInv'
  BY <1>5, <1>6, PutsTextFile, PutsEndFile, ReturnsFile DEF Call
<1>7. CASE HandlerPuts
  <2>1. Part(handler, 0, "stray") \in PieceType /\ IsStray(Part(handler, 0, "stray"))
    BY <1>0, <1>7 DEF HandlerPuts, Part, TypeOK, PieceType, IsStray
  <2> QED BY <1>7, <2>1, StrayFile DEF HandlerPuts
<1>8. ASSUME NEW w \in Workers, Announces(w) PROVE FileInv'
  <2>1. Part(w, 0, "stray") \in PieceType /\ IsStray(Part(w, 0, "stray"))
    BY DEF Part, Threads, PieceType, IsStray
  <2> QED BY <1>8, <2>1, StrayFile DEF Announces
<1> QED BY <1>1, <1>2, <1>3, <1>4, <1>5, <1>6, <1>7, <1>8 DEF Next

-----------------------------------------------------------------------------
(* A step that leaves the console, and which calls are due and pending.     *)
LEMMA QuietShown ==
  ASSUME LineInv, UNCHANGED console,
         main' # "level" => logLevel' = Threshold,
         \A t \in Threads :
           /\ at'[t] # "outside" => Len(calls'[t]) > 0 /\ calls'[t][Len(calls'[t])] >= Threshold
           /\ Due(t)' \ Pending(t)' = Due(t) \ Pending(t)
  PROVE  ShownInv'
<1>1. \A t \in Threads : TextsBy(t)' = TextsBy(t)
  BY DEF TextsBy, Texts
<1> QED BY <1>1 DEF LineInv, ShownInv, EachShownOnce

(* A piece that is no text.                                                 *)
LEMMA NoTextShown ==
  ASSUME LineInv, NEW p \in PieceType, Puts(p), ~IsText(p),
         UNCHANGED <<main, logLevel, calls>>,
         \A t \in Threads : Pending(t)' = Pending(t) /\ (at'[t] # "outside" => at[t] # "outside")
  PROVE  ShownInv'
<1>1. Texts' = Texts /\ \A i \in Texts : console'[i] = console[i]
  BY PutsTexts DEF LineInv
<1>2. \A t \in Threads : TextsBy(t)' = TextsBy(t) /\ Due(t)' = Due(t)
  BY <1>1 DEF TextsBy, Due
<1>3. ASSUME NEW t \in Threads
      PROVE  /\ \A i, j \in TextsBy(t)' : i < j => console'[i].n < console'[j].n
             /\ {console'[i].n : i \in TextsBy(t)'} = Due(t)' \ Pending(t)'
  <2>1. \A i \in TextsBy(t) : console'[i] = console[i]
    BY <1>1 DEF TextsBy
  <2> QED BY <1>2, <2>1 DEF LineInv, ShownInv, EachShownOnce
<1>4. EachShownOnce'
  BY <1>3 DEF EachShownOnce
<1> QED BY <1>4 DEF LineInv, ShownInv

(* A call is due if it passes, and pending until its text is shown.         *)
LEMMA CallShown ==
  ASSUME LineInv, UNCHANGED <<console, logLevel>>, main # "level",
         NEW t \in Threads, NEW l \in Levels, at[t] = "outside",
         calls' = [calls EXCEPT ![t] = Append(@, l)],
         at' = [at EXCEPT ![t] = IF l >= Threshold THEN "wanting" ELSE "outside"]
  PROVE  ShownInv'
<1>0. TypeOK /\ ShownInv
  BY DEF LineInv
<1> DEFINE n == Len(calls[t]) + 1
<1>1. /\ calls[t] \in Seq(Levels) /\ calls'[t] = Append(calls[t], l) /\ Len(calls'[t]) = n
      /\ calls'[t][n] = l /\ DOMAIN calls'[t] = (DOMAIN calls[t]) \cup {n} /\ n > 0
      /\ n \notin DOMAIN calls[t] /\ \A k \in DOMAIN calls[t] : calls'[t][k] = calls[t][k]
  BY <1>0 DEF TypeOK
<1>2. at'[t] = (IF l >= Threshold THEN "wanting" ELSE "outside") /\ Pending(t) = {}
  BY <1>0 DEF TypeOK, Pending
<1>3. Due(t)' = IF l >= Threshold THEN Due(t) \cup {n} ELSE Due(t)
  BY <1>1 DEF Due
<1>4. Pending(t)' = IF l >= Threshold THEN {n} ELSE {}
  BY <1>1, <1>2 DEF Pending
<1>5. Due(t)' \ Pending(t)' = Due(t) \ Pending(t)
  BY <1>1, <1>2, <1>3, <1>4 DEF Due
<1>6. \A u \in Threads \ {t} : /\ at'[u] = at[u] /\ calls'[u] = calls[u]
                               /\ Due(u)' = Due(u) /\ Pending(u)' = Pending(u)
  BY <1>0 DEF TypeOK, Due, Pending
<1>7. at'[t] # "outside" => Len(calls'[t]) > 0 /\ calls'[t][Len(calls'[t])] >= Threshold
  BY <1>1, <1>2
<1>8. \A u \in Threads :
        /\ at'[u] # "outside" => Len(calls'[u]) > 0 /\ calls'[u][Len(calls'[u])] >= Threshold
        /\ Due(u)' \ Pending(u)' = Due(u) \ Pending(u)
  BY <1>0, <1>5, <1>6, <1>7 DEF ShownInv
<1>9. main' # "level" => logLevel' = Threshold
  BY <1>0 DEF ShownInv
<1> QED BY <1>8, <1>9, QuietShown

(* The text of the pending call is the last, and behind its thread's others.*)
LEMMA PutsTextShown ==
  ASSUME LineInv, NEW t \in Threads, PutsText(t) PROVE ShownInv'
<1> DEFINE p == Part(t, Len(calls[t]), "text")
           last == Len(console) + 1
<1>0. TypeOK /\ ShownInv
  BY DEF LineInv
<1>1. p \in PieceType /\ Puts(p) /\ IsText(p) /\ p.by = t /\ p.n = Len(calls[t])
  BY <1>0 DEF PutsText, Part, PieceType, IsText, TypeOK
<1>2. /\ at[t] = "text" /\ at' = [at EXCEPT ![t] = "end"] /\ UNCHANGED <<main, calls, logLevel>>
      /\ \A u \in Threads \ {t} : at'[u] = at[u]
  BY <1>0 DEF PutsText, Goes, TypeOK
<1>3. /\ Texts' = Texts \cup {last} /\ console'[last] = p /\ last \notin Texts
      /\ \A i \in Texts : console'[i] = console[i] /\ i < last /\ i \in Nat
  BY <1>0, <1>1, PutsTexts, TextsFinite
<1>4. \A u \in Threads : Due(u)' = Due(u)
  BY <1>2 DEF Due
<1>5. \A u \in Threads \ {t} : TextsBy(u)' = TextsBy(u) /\ Pending(u)' = Pending(u)
  <2> HIDE DEF p
  <2> QED BY <1>1, <1>2, <1>3 DEF TextsBy, Pending
<1>6. /\ TextsBy(t)' = TextsBy(t) \cup {last} /\ Pending(t) = {Len(calls[t])} /\ Pending(t)' = {}
      /\ last \notin TextsBy(t)
  <2>1. at'[t] = "end"
    BY <1>0, <1>2 DEF TypeOK
  <2> HIDE DEF p
  <2> QED BY <1>1, <1>2, <1>3, <2>1 DEF TextsBy, Pending
<1>7. Len(calls[t]) \in Due(t) /\ \A n \in Due(t) : n \in Nat /\ n <= Len(calls[t])
  <2>1. calls[t] \in Seq(Levels) /\ Len(calls[t]) > 0 /\ calls[t][Len(calls[t])] >= Threshold
    BY <1>0, <1>2 DEF TypeOK, ShownInv
  <2> QED BY <2>1 DEF Due
<1> HIDE DEF p, last
<1>8. {console'[i].n : i \in TextsBy(t)'} = Due(t)' \ Pending(t)'
  <2>1. \A i \in TextsBy(t) : console'[i] = console[i]
    BY <1>3 DEF TextsBy
  <2>2. {console'[i].n : i \in TextsBy(t)'} = {console[i].n : i \in TextsBy(t)} \cup {Len(calls[t])}
    BY <1>1, <1>3, <1>6, <2>1
  <2>3. {console[i].n : i \in TextsBy(t)} = Due(t) \ {Len(calls[t])}
    BY <1>0, <1>6 DEF ShownInv, EachShownOnce
  <2> QED BY <1>4, <1>6, <1>7, <2>2, <2>3
<1>9. ASSUME NEW i \in TextsBy(t)', NEW j \in TextsBy(t)', i < j
      PROVE  console'[i].n < console'[j].n
  <2>1. i \in TextsBy(t)
    <3>1. TextsBy(t) \subseteq Texts /\ last \in Nat
      BY <1>0, TextsFinite DEF TextsBy, last
    <3> QED BY <1>3, <1>6, <1>9, <3>1
  <2>2. CASE j = last
    <3>1. console[i].n \in Due(t) \ {Len(calls[t])}
      BY <1>0, <1>6, <2>1 DEF ShownInv, EachShownOnce
    <3>2. console'[i] = console[i]
      BY <1>3, <2>1 DEF TextsBy
    <3>3. Len(calls[t]) \in Nat
      BY <1>7
    <3> QED BY <1>1, <1>3, <1>7, <2>2, <3>1, <3>2, <3>3
  <2>3. CASE j \in TextsBy(t)
    <3>1. console'[i] = console[i] /\ console'[j] = console[j]
      BY <1>3, <2>1, <2>3 DEF TextsBy
    <3> QED BY <1>0, <1>9, <2>1, <2>3, <3>1 DEF ShownInv, EachShownOnce
  <2> QED BY <1>6, <2>2, <2>3
<1>10. ASSUME NEW u \in Threads \ {t}
       PROVE  /\ \A i, j \in TextsBy(u)' : i < j => console'[i].n < console'[j].n
              /\ {console'[i].n : i \in TextsBy(u)'} = Due(u)' \ Pending(u)'
  <2>1. \A i \in TextsBy(u) : console'[i] = console[i]
    BY <1>3 DEF TextsBy
  <2> QED BY <1>0, <1>4, <1>5, <2>1 DEF ShownInv, EachShownOnce
<1>11. EachShownOnce'
  BY <1>8, <1>9, <1>10 DEF EachShownOnce
<1> QED BY <1>0, <1>2, <1>11 DEF ShownInv

LEMMA ShownPreserved == LineInv /\ [Next]_vars => ShownInv'
<1> SUFFICES ASSUME LineInv, [Next]_vars PROVE ShownInv'
  OBVIOUS
<1>0. TypeOK /\ ShownInv /\ FileInv
  BY DEF LineInv
<1>1. CASE SetLogLevel \/ SetLogFile \/ StartsWorkers \/ Ends \/ UNCHANGED vars
  <2>1. /\ UNCHANGED <<console, at, calls>>
        /\ main' # "level" => logLevel' = Threshold
    BY <1>0, <1>1 DEF SetLogLevel, SetLogFile, StartsWorkers, Ends, vars, ShownInv
  <2>2. \A t \in Threads : Due(t)' = Due(t) /\ Pending(t)' = Pending(t)
    BY <2>1 DEF Due, Pending
  <2> QED BY <1>0, <2>1, <2>2, QuietShown DEF ShownInv
<1>2. CASE MainFails
  <2>1. ERROR \in Levels /\ ERROR >= Threshold /\ Main \in Threads
    BY DEF Levels, ERROR, DEBUG, Threads
  <2>2. /\ UNCHANGED <<console, logLevel>> /\ main # "level" /\ at[Main] = "outside"
        /\ at' = [at EXCEPT ![Main] = IF ERROR >= Threshold THEN "wanting" ELSE "outside"]
        /\ calls' = [calls EXCEPT ![Main] = Append(@, ERROR)]
    BY <1>2, <2>1 DEF MainFails, Goes
  <2> QED BY <2>1, <2>2, CallShown
<1>3. ASSUME NEW t \in Threads, NEW l \in {DEBUG, INFO}, Log(t, l) PROVE ShownInv'
  <2>1. l \in Levels /\ main # "level" /\ logLevel = Threshold
    BY <1>0, <1>3 DEF Levels, ERROR, DEBUG, INFO, Log, Running, ShownInv
  <2>2. /\ UNCHANGED <<console, logLevel>> /\ at[t] = "outside"
        /\ at' = [at EXCEPT ![t] = IF l >= Threshold THEN "wanting" ELSE "outside"]
        /\ calls' = [calls EXCEPT ![t] = Append(@, l)]
    BY <1>3, <2>1 DEF Log, Goes, Passes
  <2> QED BY <2>1, <2>2, CallShown
<1>4. ASSUME NEW t \in Threads, Locks(t) \/ PutsFile(t) \/ PutFails(t) \/ Signal(t)
      PROVE  ShownInv'
  <2>1. /\ UNCHANGED <<console, calls, main, logLevel>>
        /\ \A u \in Threads : at'[u] # "outside" => at[u] # "outside"
        /\ \A u \in Threads : at'[u] \in {"wanting", "text"} <=> at[u] \in {"wanting", "text"}
    BY <1>0, <1>4 DEF Locks, PutsFile, PutFails, Returns, Signal, Goes, TypeOK
  <2>2. \A u \in Threads : Due(u)' = Due(u) /\ Pending(u)' = Pending(u)
    BY <2>1 DEF Due, Pending
  <2> QED BY <1>0, <2>1, <2>2, QuietShown DEF ShownInv
<1>5. ASSUME NEW t \in Threads, PutsEnd(t) PROVE ShownInv'
  <2> DEFINE p == Part(t, Len(calls[t]), "end")
  <2>1. p \in PieceType /\ Puts(p) /\ ~IsText(p)
    BY <1>0, <1>5 DEF PutsEnd, Part, PieceType, IsText, TypeOK
  <2>2. /\ UNCHANGED <<calls, main, logLevel>>
        /\ \A u \in Threads : at'[u] # "outside" => at[u] # "outside"
        /\ \A u \in Threads : Pending(u)' = Pending(u)
    BY <1>0, <1>5 DEF PutsEnd, Goes, TypeOK, Pending
  <2> HIDE DEF p
  <2> QED BY <2>1, <2>2, NoTextShown
<1>6. CASE HandlerPuts
  <2>1. Part(handler, 0, "stray") \in PieceType /\ ~IsText(Part(handler, 0, "stray"))
    BY <1>0, <1>6 DEF HandlerPuts, Part, TypeOK, PieceType, IsText
  <2> QED BY <1>6, <2>1, NoTextShown DEF HandlerPuts, Pending
<1>7. ASSUME NEW w \in Workers, Announces(w) PROVE ShownInv'
  <2>1. Part(w, 0, "stray") \in PieceType /\ ~IsText(Part(w, 0, "stray"))
    BY DEF Part, Threads, PieceType, IsText
  <2> QED BY <1>7, <2>1, NoTextShown DEF Announces, Pending
<1> QED BY <1>1, <1>2, <1>3, <1>4, <1>5, <1>6, <1>7, PutsTextShown DEF Next, Call

-----------------------------------------------------------------------------
(* What a call shows is formatHelper's, of what it was asked.               *)
Shows == text = [t \in Threads |-> formatHelper[asked[t]]]

(* A thread outside a call shows nothing.                                   *)
LEMMA NothingShown == Nothing \in Messages /\ formatHelper[Nothing] = <<>>
<1>1. Nothing \in Messages
  <2>1. Len(<<>>) = 0 /\ 0 <= MaxPieces /\ <<>> \in Seq(Pieces) /\ <<>> \in Seq(Values)
    OBVIOUS
  <2> QED BY <2>1, MessageIs DEF Nothing
<1>2. formatHelper[Nothing] = OneHole(formatHelper, Nothing)
  BY <1>1, FormatHelperStep
<1> QED BY <1>1, <1>2 DEF OneHole, Nothing

LEMMA InitShows == Init => Shows
  BY NothingShown DEF Init, Shows

(* Only log and the return from it change what a thread shows.              *)
LEMMA ShowsPreserved == Inv /\ Shows /\ [Next]_vars => Shows'
<1> SUFFICES ASSUME Inv, Shows, [Next]_vars PROVE Shows'
  OBVIOUS
<1>0. asked \in [Threads -> Messages \cup {Nothing}]
  BY DEF Inv, TypeOK
<1>1. ASSUME UNCHANGED <<asked, text>> PROVE Shows'
  BY <1>1 DEF Shows
<1>2. ASSUME NEW t \in Threads, NEW said, asked' = [asked EXCEPT ![t] = said],
             text' = [text EXCEPT ![t] = formatHelper[said]]
      PROVE  Shows'
  BY <1>0, <1>2 DEF Shows
<1>3. CASE \/ SetLogLevel \/ SetLogFile \/ MainFails \/ StartsWorkers \/ Ends
           \/ HandlerPuts \/ UNCHANGED vars
  BY <1>1, <1>3 DEF SetLogLevel, SetLogFile, MainFails, StartsWorkers, Ends, HandlerPuts, vars
<1>4. ASSUME NEW t \in Threads, NEW l \in {DEBUG, INFO}, Log(t, l) PROVE Shows'
  BY <1>2, <1>4 DEF Log
<1>5. ASSUME NEW t \in Threads, Call(t) \/ PutFails(t) \/ Signal(t) PROVE Shows'
  <2>1. CASE Locks(t) \/ PutsText(t) \/ PutsEnd(t) \/ Signal(t)
    BY <1>1, <2>1 DEF Locks, PutsText, PutsEnd, Signal
  <2>2. CASE PutsFile(t) \/ PutFails(t)
    <3>1. PICK status : Returns(t, status)
      BY <2>2 DEF PutsFile, PutFails
    <3> QED BY <1>2, <3>1, NothingShown DEF Returns
  <2> QED BY <1>5, <2>1, <2>2 DEF Call
<1>6. ASSUME NEW w \in Workers, Announces(w) PROVE Shows'
  BY <1>1, <1>6 DEF Announces
<1> QED BY <1>3, <1>4, <1>5, <1>6 DEF Next

(* So the arguments are where the property says.                            *)
LEMMA ShowsByPlace == Inv /\ Shows => FormattedByPlace
<1> SUFFICES ASSUME Inv, Shows, NEW t \in Threads
             PROVE  text[t] = Form(asked[t][1], asked[t][2])
  BY DEF FormattedByPlace, Form, Rest, Spaced
<1>1. asked[t] \in Messages
  BY NothingShown DEF Inv, TypeOK
<1>2. text[t] = formatHelper[asked[t]]
  BY DEF Shows
<1> QED BY <1>1, <1>2, FormatHelperIs


-----------------------------------------------------------------------------
(* The invariant holds in every reachable state.                            *)
THEOREM Invariance == Spec => []Inv
<1>1. Inv /\ [Next]_vars => Inv'
  BY TypePreserved, OpenPreserved DEF Inv
<1> QED BY InitInv, <1>1, PTL DEF Spec

(* Every variable of the log has its type, and exactly the thread that      *)
(* writes a line holds logMutex_.                                           *)
THEOREM LoggerTypeCorrect == Spec => []TypeOK
<1>1. Inv => TypeOK
  BY DEF Inv
<1> QED BY Invariance, <1>1, PTL

(* No thread's line is torn by another's, whatever the threads, the signal  *)
(* handler and the direct writers do.                                       *)
THEOREM LinesNotTorn == Spec => []LinesWhole
<1> QED BY Invariance, InvLinesWhole, PTL

(* LineInv holds in every reachable state.                                  *)
LEMMA LineInvariance == Spec => [](Inv /\ LineInv)
<1>1. Inv /\ LineInv /\ [Next]_vars => Inv' /\ LineInv'
  BY TypePreserved, OpenPreserved, FilePreserved, ShownPreserved DEF Inv, LineInv
<1> QED BY InitInv, InitLineInv, <1>1, PTL DEF Spec

(* The file has the console's lines in the console's order, all of them for *)
(* as long as it is good, and a line's write that fails is the last.        *)
THEOREM FileAgreesWithConsole == Spec => []FileFollowsConsole
<1>1. LineInv => FileFollowsConsole
  BY DEF LineInv, FileInv
<1> QED BY LineInvariance, <1>1, PTL

(* Every call at the level set or above, and no other, is shown once, each  *)
(* thread's in the order it made them.                                      *)
THEOREM ShownOnceInOrder == Spec => []EachShownOnce
<1>1. LineInv => EachShownOnce
  BY DEF LineInv, ShownInv
<1> QED BY LineInvariance, <1>1, PTL

(* The i-th hole of what a call was asked shows the i-th argument, whatever *)
(* the format and the arguments are made of and however long they are       *)
(* (logger.h, formatHelper).                                                *)
THEOREM ArgumentsByPlace == Spec => []FormattedByPlace
<1>1. Spec => []Shows
  BY Invariance, InitShows, ShowsPreserved, PTL DEF Spec
<1> QED BY Invariance, <1>1, ShowsByPlace, PTL
=============================================================================
