------------------------- MODULE SessionRegistryProofs -------------------------
(***************************************************************************)
(* Proofs about SessionRegistry, for any number of clients and workers:    *)
(* the lock keeps changers alone, the table lists what it should, and the  *)
(* operations of the shared manager take effect at once (SessionTable).    *)
(***************************************************************************)
EXTENDS SessionRegistry, FiniteSetTheorems, TLAPS

(* Who is in the table with which kind of lock is what the lock records.    *)
Exclusively == {"adding", "removing", "cleaning"}
Sharing == {"getting", "counting"}

LockInv ==
  /\ \A t \in Threads : at[t] \in Exclusively <=> writer = t
  /\ \A t \in Threads : at[t] \in Sharing <=> t \in readers
  /\ writer # NoOne => readers = {}

(* A worker's operation agrees with its client's session, and only the      *)
(* janitor cleans.                                                          *)
Places == {"idle", "add", "adding", "get", "getting", "connect", "remove",
           "removing"}
StageIn == [add |-> "accepted", adding |-> "accepted", get |-> "added",
            getting |-> "added", connect |-> "added", remove |-> "leaving",
            removing |-> "leaving"]

SubjectInv ==
  /\ at[Janitor] \in {"idle", "clean", "cleaning", "count", "counting"}
  /\ \A w \in Workers :
       /\ at[w] \in Places
       /\ at[w] # "idle" => /\ subject[w] \in Conns
                            /\ home[subject[w]] = w
                            /\ stage[subject[w]] = StageIn[at[w]]

(* What a cleanup has erased or not reached yet exists only while it runs,  *)
(* and only sessions that were added can be erased.                         *)
CleanInv ==
  /\ ahead \subseteq sessions
  /\ at[Janitor] # "cleaning" => ahead = {} /\ erased = {}
  /\ \A c \in cleaned : stage[c] \notin {"away", "accepted"}

Inv == TypeOK /\ LockInv /\ SubjectInv /\ CleanInv /\ ListedExactly

USE ThreadsAssumption DEF Threads

(* NoOne is not a thread and the janitor is not a worker.                   *)
LEMMA Distinct == \A w \in Workers : w # Janitor /\ w # NoOne
  BY DEF Threads

(* The table of places, looked up.                                          *)
LEMMA InsideValues ==
  /\ DOMAIN Inside = {"add", "get", "remove", "clean", "count"}
  /\ Inside["add"] = "adding"
  /\ Inside["get"] = "getting"
  /\ Inside["remove"] = "removing"
  /\ Inside["clean"] = "cleaning"
  /\ Inside["count"] = "counting"
  BY DEF Inside

LEMMA InitInv == Init => Inv
  <1> SUFFICES ASSUME Init PROVE Inv
    OBVIOUS
  <1>1. TypeOK
    BY DEF Init, TypeOK
  <1>2. LockInv /\ SubjectInv /\ CleanInv
    BY DEF Init, LockInv, SubjectInv, CleanInv, Exclusively, Sharing, Places
  <1>3. ListedExactly
    BY DEF Init, ListedExactly
  <1> QED BY <1>1, <1>2, <1>3 DEF Inv

LEMMA LockSharedInv ==
  ASSUME Inv, NEW t \in Threads, LockShared(t) PROVE Inv'
  <1> USE DEF LockShared, Goes, Waiting, Shared, MayShare, Inv
  <1>1. /\ at[t] \in {"get", "count"}
        /\ at' = [at EXCEPT ![t] = IF at[t] = "get" THEN "getting" ELSE "counting"]
    BY InsideValues DEF TypeOK
  <1>2. TypeOK'
    BY <1>1 DEF TypeOK, cleanVars
  <1>3. LockInv'
    BY <1>1 DEF LockInv, TypeOK, Exclusively, Sharing
  <1>4. SubjectInv'
    BY <1>1, Distinct DEF SubjectInv, TypeOK, Places, StageIn
  <1>5. CleanInv'
    BY <1>1 DEF CleanInv, TypeOK, cleanVars
  <1>6. ListedExactly'
    BY DEF ListedExactly, cleanVars
  <1> QED BY <1>2, <1>3, <1>4, <1>5, <1>6

LEMMA LockUniqueInv ==
  ASSUME Inv, NEW t \in Threads, LockUnique(t) PROVE Inv'
  <1> USE DEF LockUnique, Goes, Waiting, Shared, Inv
  <1> DEFINE to == IF at[t] = "add" THEN "adding"
                   ELSE IF at[t] = "remove" THEN "removing" ELSE "cleaning"
  <1>1. /\ at[t] \in {"add", "remove", "clean"}
        /\ at' = [at EXCEPT ![t] = to]
    BY InsideValues DEF TypeOK
  <1>2. at[t] = "clean" <=> t = Janitor
    BY <1>1 DEF SubjectInv, Places
  <1>3. TypeOK'
    BY <1>1 DEF TypeOK
  <1>4. LockInv'
    BY <1>1 DEF LockInv, TypeOK, Exclusively, Sharing
  <1>5. SubjectInv'
    BY <1>1, <1>2 DEF SubjectInv, TypeOK, Places, StageIn
  <1>6. CleanInv'
    BY <1>1, <1>2 DEF CleanInv, TypeOK
  <1>7. ListedExactly'
    BY DEF ListedExactly
  <1> QED BY <1>3, <1>4, <1>5, <1>6, <1>7

LEMMA AcceptsInv ==
  ASSUME Inv, NEW w \in Workers, NEW c \in Conns, Accepts(w, c) PROVE Inv'
  <1> USE DEF Accepts, Goes, lockVars, cleanVars, Inv
  <1>1. TypeOK'
    BY DEF TypeOK
  <1>2. LockInv'
    BY DEF LockInv, TypeOK, Exclusively, Sharing
  <1>3. SubjectInv'
    <2>1. \A v \in Workers : at[v] # "idle" => subject[v] # c
      BY DEF SubjectInv, Places, StageIn
    <2> QED BY <2>1 DEF SubjectInv, TypeOK, Places, StageIn
  <1>4. CleanInv'
    BY DEF CleanInv, TypeOK
  <1>5. ListedExactly'
    BY DEF ListedExactly, TypeOK
  <1> QED BY <1>1, <1>2, <1>3, <1>4, <1>5

LEMMA AddSessionInv ==
  ASSUME Inv, NEW w \in Workers, AddSession(w) PROVE Inv'
  <1> USE DEF AddSession, Goes, UnlockUnique, cleanVars, Inv
  <1> DEFINE c == subject[w]
  <1>1. c \in Conns /\ stage[c] = "accepted" /\ home[c] = w /\ writer = w
    BY DEF SubjectInv, StageIn, LockInv, Exclusively
  <1>2. TypeOK'
    BY <1>1 DEF TypeOK
  <1>3. LockInv'
    BY <1>1 DEF LockInv, TypeOK, Exclusively, Sharing
  <1>4. SubjectInv'
    BY <1>1 DEF SubjectInv, TypeOK, Places, StageIn
  <1>5. CleanInv'
    BY DEF CleanInv, TypeOK
  <1>6. ListedExactly'
    <2>1. c \notin cleaned
      BY <1>1 DEF CleanInv
    <2> QED BY <1>1, <2>1 DEF ListedExactly, TypeOK
  <1> QED BY <1>2, <1>3, <1>4, <1>5, <1>6

LEMMA GetSessionInv ==
  ASSUME Inv, NEW w \in Workers, GetSession(w) \/ GetSessionFails(w) PROVE Inv'
  <1> USE DEF GetSession, GetSessionFails, Goes, UnlockShared, cleanVars, Inv
  <1> DEFINE c == subject[w]
  <1>1. c \in Conns /\ stage[c] = "added" /\ home[c] = w
    BY DEF SubjectInv, StageIn
  <1>2. TypeOK'
    BY <1>1 DEF TypeOK
  <1>3. LockInv'
    BY DEF LockInv, TypeOK, Exclusively, Sharing
  <1>4. SubjectInv'
    BY <1>1 DEF SubjectInv, TypeOK, Places, StageIn
  <1>5. CleanInv'
    BY <1>1 DEF CleanInv, TypeOK
  <1>6. ListedExactly'
    BY <1>1 DEF ListedExactly, TypeOK
  <1> QED BY <1>2, <1>3, <1>4, <1>5, <1>6

LEMMA OnConnectedInv ==
  ASSUME Inv, NEW w \in Workers, OnConnected(w) PROVE Inv'
  <1> USE DEF OnConnected, Goes, lockVars, cleanVars, Inv
  <1> DEFINE c == subject[w]
  <1>1. c \in Conns /\ stage[c] = "added" /\ home[c] = w
    BY DEF SubjectInv, StageIn
  <1>2. TypeOK'
    BY <1>1 DEF TypeOK
  <1>3. LockInv'
    BY DEF LockInv, TypeOK, Exclusively, Sharing
  <1>4. SubjectInv'
    BY <1>1 DEF SubjectInv, TypeOK, Places, StageIn
  <1>5. CleanInv'
    BY <1>1 DEF CleanInv, TypeOK
  <1>6. ListedExactly'
    BY <1>1 DEF ListedExactly, TypeOK
  <1> QED BY <1>2, <1>3, <1>4, <1>5, <1>6

LEMMA OnDisconnectedInv ==
  ASSUME Inv, NEW w \in Workers, NEW c \in Conns, OnDisconnected(w, c)
  PROVE Inv'
  <1> USE DEF OnDisconnected, Goes, lockVars, cleanVars, Inv
  <1>1. TypeOK'
    BY DEF TypeOK
  <1>2. LockInv'
    BY DEF LockInv, TypeOK, Exclusively, Sharing
  <1>3. SubjectInv'
    <2>1. \A v \in Workers : at[v] # "idle" => subject[v] # c
      BY DEF SubjectInv, Places, StageIn
    <2> QED BY <2>1 DEF SubjectInv, TypeOK, Places, StageIn
  <1>4. CleanInv'
    BY DEF CleanInv, TypeOK
  <1>5. ListedExactly'
    BY DEF ListedExactly, TypeOK
  <1> QED BY <1>1, <1>2, <1>3, <1>4, <1>5

LEMMA RemoveSessionInv ==
  ASSUME Inv, NEW w \in Workers, RemoveSession(w) PROVE Inv'
  <1> USE DEF RemoveSession, Erase, Goes, UnlockUnique, cleanVars, Inv
  <1> DEFINE c == subject[w]
  <1>1. c \in Conns /\ stage[c] = "leaving" /\ home[c] = w /\ writer = w
    BY DEF SubjectInv, StageIn, LockInv, Exclusively
  <1>2. TypeOK'
    BY <1>1 DEF TypeOK
  <1>3. LockInv'
    BY <1>1 DEF LockInv, TypeOK, Exclusively, Sharing
  <1>4. SubjectInv'
    BY <1>1 DEF SubjectInv, TypeOK, Places, StageIn
  <1>5. CleanInv'
    <2>1. at[Janitor] # "cleaning"
      BY <1>1, Distinct DEF LockInv, Exclusively
    <2> QED BY <1>1, <2>1 DEF CleanInv, TypeOK
  <1>6. ListedExactly'
    BY <1>1 DEF ListedExactly, TypeOK
  <1> QED BY <1>2, <1>3, <1>4, <1>5, <1>6

LEMMA AgesInv ==
  ASSUME Inv, NEW c \in Conns, Ages(c) PROVE Inv'
  <1> USE DEF Ages, lockVars, cleanVars, Inv
  <1>1. TypeOK'
    BY DEF TypeOK
  <1>2. LockInv' /\ SubjectInv' /\ CleanInv' /\ ListedExactly'
    BY DEF LockInv, SubjectInv, CleanInv, ListedExactly
  <1> QED BY <1>1, <1>2

LEMMA CallsInv ==
  ASSUME Inv, NEW op \in {"clean", "count"}, Calls(op) PROVE Inv'
  <1> USE DEF Calls, Goes, lockVars, cleanVars, Inv
  <1>1. TypeOK'
    BY DEF TypeOK
  <1>2. LockInv'
    BY DEF LockInv, TypeOK, Exclusively, Sharing
  <1>3. SubjectInv'
    BY Distinct DEF SubjectInv, TypeOK
  <1>4. CleanInv' /\ ListedExactly'
    BY DEF CleanInv, ListedExactly, TypeOK
  <1> QED BY <1>1, <1>2, <1>3, <1>4

LEMMA VisitInv ==
  ASSUME Inv, NEW c \in Conns, Visit(c) PROVE Inv'
  <1> USE DEF Visit, Erase, lockVars, Inv
  <1>1. stage[c] \in {"added", "served", "leaving"}
    BY DEF CleanInv, ListedExactly
  <1>2. TypeOK'
    BY DEF TypeOK
  <1>3. LockInv' /\ SubjectInv'
    BY DEF LockInv, SubjectInv
  <1>4. CleanInv' /\ ListedExactly'
    <2>1. CASE IsExpired(c)
      BY <1>1, <2>1 DEF CleanInv, ListedExactly
    <2>2. CASE ~IsExpired(c)
      BY <2>2 DEF CleanInv, ListedExactly
    <2> QED BY <2>1, <2>2
  <1> QED BY <1>2, <1>3, <1>4

LEMMA CleanupEndsInv ==
  ASSUME Inv, CleanupEnds PROVE Inv'
  <1> USE DEF CleanupEnds, UnlockUnique, Goes, Inv
  <1>1. writer = Janitor
    BY DEF LockInv, Exclusively
  <1>2. TypeOK'
    BY DEF TypeOK
  <1>3. LockInv'
    BY <1>1 DEF LockInv, TypeOK, Exclusively, Sharing
  <1>4. SubjectInv'
    BY Distinct DEF SubjectInv, TypeOK
  <1>5. CleanInv' /\ ListedExactly'
    BY DEF CleanInv, ListedExactly, TypeOK
  <1> QED BY <1>2, <1>3, <1>4, <1>5

LEMMA CountInv ==
  ASSUME Inv, GetActiveSessionCount PROVE Inv'
  <1> USE DEF GetActiveSessionCount, UnlockShared, Goes, cleanVars, Inv
  <1>1. Cardinality(sessions) \in Nat
    BY ConnsAssumption, FS_Subset, FS_CardinalityType DEF TypeOK
  <1>2. TypeOK'
    BY <1>1 DEF TypeOK, Size
  <1>3. LockInv'
    BY DEF LockInv, TypeOK, Exclusively, Sharing
  <1>4. SubjectInv'
    BY Distinct DEF SubjectInv, TypeOK
  <1>5. CleanInv' /\ ListedExactly'
    BY DEF CleanInv, ListedExactly, TypeOK
  <1> QED BY <1>2, <1>3, <1>4, <1>5

LEMMA NextInv == Inv /\ [Next]_vars => Inv'
  <1> SUFFICES ASSUME Inv, [Next]_vars PROVE Inv'
    OBVIOUS
  <1>1. CASE UNCHANGED vars
    BY <1>1 DEF vars, lockVars, cleanVars, Inv, TypeOK, LockInv, SubjectInv,
                CleanInv, ListedExactly
  <1>2. ASSUME NEW t \in Threads, LockShared(t) \/ LockUnique(t) PROVE Inv'
    BY <1>2, LockSharedInv, LockUniqueInv
  <1>3. ASSUME NEW w \in Workers, WorkerStep(w) PROVE Inv'
    BY <1>3, AddSessionInv, GetSessionInv, OnConnectedInv, RemoveSessionInv
       DEF WorkerStep
  <1>4. ASSUME NEW w \in Workers, NEW c \in Conns,
               Accepts(w, c) \/ OnDisconnected(w, c)
        PROVE Inv'
    BY <1>4, AcceptsInv, OnDisconnectedInv
  <1>5. CASE JanitorStep
    BY <1>5, VisitInv, CleanupEndsInv, CountInv DEF JanitorStep
  <1>6. CASE Calls("clean") \/ Calls("count")
    BY <1>6, CallsInv
  <1>7. ASSUME NEW c \in Conns, Ages(c) PROVE Inv'
    BY <1>7, AgesInv
  <1> QED BY <1>1, <1>2, <1>3, <1>4, <1>5, <1>6, <1>7 DEF Next

(* Inv holds in every reachable state.                                      *)
THEOREM Invariance == Spec => []Inv
  BY InitInv, NextInv, PTL DEF Spec

(* The table, the lock and the sessions have their types.                   *)
THEOREM RegistryTypeCorrect == Spec => []TypeOK
  <1>1. Inv => TypeOK
    BY DEF Inv
  <1> QED BY Invariance, <1>1, PTL

(* Whoever changes sessions_ is alone in it, and a cleanup's iterator       *)
(* stands on entries that exist.                                            *)
THEOREM ChangersAlone == Spec => []AloneToChange
  <1>1. Inv => AloneToChange
    <2> SUFFICES ASSUME Inv PROVE AloneToChange
      OBVIOUS
    <2>1. ASSUME NEW t \in Threads, NEW u \in Threads, InTable(t), InTable(u),
                 t # u
          PROVE {at[t], at[u]} \subseteq {"getting", "counting"}
      BY <2>1, Distinct DEF Inv, LockInv, InTable, Exclusively, Sharing
    <2> QED BY <2>1 DEF AloneToChange, Inv, CleanInv
  <1> QED BY Invariance, <1>1, PTL

(* The table lists what was added, less what was removed or expired.        *)
THEOREM ListingCorrect == Spec => []ListedExactly
  <1>1. Inv => ListedExactly
    BY DEF Inv
  <1> QED BY Invariance, <1>1, PTL

-----------------------------------------------------------------------------
(* The refinement of SessionTable.                                          *)

TableStep == [Table!Next]_(Table!vars)

LEMMA OneOperation ==
  ASSUME NEW k \in Conns, Table!Add(k) \/ Table!Find(k) \/ Table!Remove(k)
  PROVE  TableStep
  BY Zenon DEF TableStep, Table!Next

LEMMA Unseen ==
  ASSUME TypeOK, UNCHANGED <<sessions, erased, found, count>>,
         Added' = Added, Missed' = Missed
  PROVE  TableStep
  BY DEF TableStep, Table!vars, Added, Missed

(* A worker with the lock, or without it, finds no cleanup half done.       *)
LEMMA NotCleaning ==
  ASSUME Inv, NEW t \in Threads, InTable(t), t # Janitor
  PROVE  erased = {}
  BY DEF Inv, LockInv, CleanInv, InTable, Exclusively, Sharing

LEMMA WorkerRefines ==
  ASSUME Inv, NEW w \in Workers, WorkerStep(w) PROVE TableStep
  <1> USE DEF Inv
  <1> DEFINE k == subject[w]
  <1>a. ASSUME NEW j \in Conns, Table!Add(j) PROVE TableStep
    BY <1>a, OneOperation
  <1>b. ASSUME NEW j \in Conns, Table!Find(j) PROVE TableStep
    BY <1>b, OneOperation
  <1>1. CASE AddSession(w)
    <2>1. k \in Conns /\ stage[k] = "accepted"
      BY <1>1 DEF AddSession, SubjectInv, StageIn
    <2>2. Added' = Added \cup {k} /\ Missed' = Missed
      BY <1>1, <2>1 DEF AddSession, Added, Missed, TypeOK
    <2>3. k \notin Added
      BY <2>1 DEF Added
    <2>4. Table!Add(k)
      BY <1>1, <2>2, <2>3 DEF AddSession, cleanVars, Table!Add, Added, Missed
    <2> QED BY <2>1, <2>4, <1>a
  <1>2. CASE GetSession(w)
    <2>1. k \in Conns /\ stage[k] = "added"
      BY <1>2 DEF GetSession, SubjectInv, StageIn
    <2>2. Table!Find(k)
      BY <1>2, <2>1 DEF GetSession, cleanVars, Table!Find, Added, Missed
    <2> QED BY <2>1, <2>2, <1>b
  <1>3. CASE GetSessionFails(w)
    <2>1. k \in Conns /\ stage[k] = "added"
      BY <1>3 DEF GetSessionFails, SubjectInv, StageIn
    <2>2. erased = {}
      BY <1>3, NotCleaning, Distinct DEF GetSessionFails, InTable
    <2>3. Added' = Added /\ Missed' = Missed \cup {k}
      BY <1>3, <2>1 DEF GetSessionFails, Added, Missed, TypeOK
    <2>4. k \in Added
      BY <2>1 DEF Added
    <2>5. Table!Find(k)
      BY <1>3, <2>2, <2>3, <2>4
         DEF GetSessionFails, cleanVars, Table!Find, Added, Missed
    <2> QED BY <2>1, <2>5, <1>b
  <1>4. CASE OnConnected(w)
    <2>1. k \in Conns /\ stage[k] = "added"
      BY <1>4 DEF OnConnected, SubjectInv, StageIn
    <2>2. Added' = Added /\ Missed' = Missed
      BY <1>4, <2>1 DEF OnConnected, Added, Missed, TypeOK
    <2> QED BY <1>4, <2>2, Unseen DEF OnConnected, cleanVars
  <1>5. CASE RemoveSession(w)
    <2>1. k \in Conns /\ stage[k] = "leaving"
      BY <1>5 DEF RemoveSession, SubjectInv, StageIn
    <2>2. erased = {}
      BY <1>5, NotCleaning, Distinct DEF RemoveSession, InTable
    <2>3. Added' = Added /\ Missed' = Missed
      BY <1>5, <2>1 DEF RemoveSession, Added, Missed, TypeOK
    <2>4. Table!Remove(k)
      BY <1>5, <2>2, <2>3
         DEF RemoveSession, Erase, cleanVars, Table!Remove, Added, Missed
    <2> QED BY <2>1, <2>4, OneOperation
  <1> QED BY <1>1, <1>2, <1>3, <1>4, <1>5 DEF WorkerStep

LEMMA JanitorRefines == Inv /\ JanitorStep => TableStep
  <1> SUFFICES ASSUME Inv, JanitorStep PROVE TableStep
    OBVIOUS
  <1> USE DEF Inv
  <1>1. ASSUME NEW c \in Conns, Visit(c) PROVE TableStep
    <2>1. sessions' \cup erased' = sessions \cup erased
      BY <1>1 DEF Visit, Erase, CleanInv
    <2> QED BY <1>1, <2>1 DEF Visit, TableStep, Table!vars, Added, Missed
  <1>2. CASE CleanupEnds
    <2>1. Table!Expire(erased \ sessions)
      BY <1>2 DEF CleanupEnds, Table!Expire, Added, Missed
    <2>2. erased \ sessions \in SUBSET Conns
      BY DEF TypeOK
    <2> QED BY <2>1, <2>2 DEF TableStep, Table!Next
  <1>3. CASE GetActiveSessionCount
    <2>1. erased = {}
      BY <1>3 DEF GetActiveSessionCount, CleanInv
    <2>2. Table!Cardinality(sessions) = Cardinality(sessions)
      BY DEF Table!Cardinality, Cardinality
    <2>3. Table!Count
      BY <1>3, <2>1, <2>2 DEF GetActiveSessionCount, Size, cleanVars, Table!Count,
                            Added, Missed
    <2> QED BY <2>3 DEF TableStep, Table!Next
  <1> QED BY <1>1, <1>2, <1>3 DEF JanitorStep

LEMMA StepRefines == Inv /\ [Next]_vars => TableStep
  <1> SUFFICES ASSUME Inv, [Next]_vars PROVE TableStep
    OBVIOUS
  <1> USE DEF Inv
  <1>1. CASE UNCHANGED vars
    BY <1>1 DEF vars, cleanVars, TableStep, Table!vars, Added, Missed
  <1>2. ASSUME NEW t \in Threads, LockShared(t) PROVE TableStep
    BY <1>2, Unseen DEF LockShared, cleanVars, Added, Missed
  <1>3. ASSUME NEW t \in Threads, LockUnique(t) PROVE TableStep
    <2>1. at[t] = "clean" => t = Janitor /\ erased = {}
      BY <1>3 DEF LockUnique, SubjectInv, Places, CleanInv
    <2> QED BY <1>3, <2>1, Unseen DEF LockUnique, Added, Missed
  <1>4. ASSUME NEW w \in Workers, NEW c \in Conns,
               Accepts(w, c) \/ OnDisconnected(w, c)
        PROVE  TableStep
    <2>1. Added' = Added /\ Missed' = Missed
      BY <1>4 DEF Accepts, OnDisconnected, Added, Missed, TypeOK
    <2> QED BY <1>4, <2>1, Unseen DEF Accepts, OnDisconnected, cleanVars
  <1>5. CASE Calls("clean") \/ Calls("count")
    BY <1>5, Unseen DEF Calls, cleanVars, Added, Missed
  <1>6. ASSUME NEW c \in Conns, Ages(c) PROVE TableStep
    BY <1>6, Unseen DEF Ages, cleanVars, Added, Missed
  <1> QED BY <1>1, <1>2, <1>3, <1>4, <1>5, <1>6, WorkerRefines, JanitorRefines
          DEF Next

(* Every operation of the shared session manager takes effect at once.      *)
THEOREM RegistryRefinesTable == Spec => ImplementsTable
  <1>1. Init => Table!Init
    BY DEF Init, Table!Init, Added, Missed
  <1>2. Inv /\ [Next]_vars => [Table!Next]_(Table!vars)
    BY StepRefines DEF TableStep
  <1> QED BY Invariance, <1>1, <1>2, PTL DEF Spec, ImplementsTable, Table!Spec
=============================================================================
