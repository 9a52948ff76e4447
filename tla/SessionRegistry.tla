---------------------------- MODULE SessionRegistry ----------------------------
(***************************************************************************)
(* SessionManager as the worker threads share it: the table sessions_      *)
(* under a std::shared_mutex, the coroutines of the workers that register, *)
(* look up and remove sessions, and a maintenance thread that counts them  *)
(* and cleans up the expired ones (src/session/session_manager.cpp).       *)
(*                                                                         *)
(* A worker runs one operation at a time, from the accepted client to the  *)
(* first recv() (HandleClientSession, HandleSession), or from the end of   *)
(* the receive loop to the end of HandleSession.  The coroutine switch in  *)
(* between, and what happens on the ring, are module Worker.               *)
(***************************************************************************)
EXTENDS Integers, FiniteSets

CONSTANTS
  Conns,     \* the clients, and their sessions
  Workers,   \* the worker threads
  Janitor,   \* the thread that calls CleanupExpiredSessions and
             \* GetActiveSessionCount
  NoOne      \* no thread, no client

ASSUME ConnsAssumption == IsFiniteSet(Conns) /\ NoOne \notin Conns
ASSUME ThreadsAssumption ==
  Janitor \notin Workers /\ NoOne \notin Workers \cup {Janitor}

VARIABLES
  sessions,   \* sessions_
  writer,     \* the thread that holds mutex_ exclusively
  readers,    \* the threads that share it
  at,         \* where each thread is
  subject,    \* the client each worker is dealing with
  home,       \* the worker that accepted each client
  stage,      \* how far each client's session has come
  stale,      \* sessions whose last_heartbeat_ is older than the timeout
  ahead,      \* entries the iterator of CleanupExpiredSessions has not reached
  erased,     \* entries it has erased; removed_count is their number
  cleaned,    \* entries any cleanup has erased
  found,      \* sessions GetSession answered with a pointer
  count       \* the last answer of GetActiveSessionCount

lockVars == <<writer, readers>>
cleanVars == <<ahead, erased, cleaned>>
vars == <<sessions, lockVars, at, subject, home, stage, stale, cleanVars,
          found, count>>

Threads == Workers \cup {Janitor}

(* Where an operation waits for the lock, and where it is once it has it.   *)
Inside == [add |-> "adding", get |-> "getting", remove |-> "removing",
           clean |-> "cleaning", count |-> "counting"]
Waiting(t) == at[t] \in DOMAIN Inside
InTable(t) == at[t] \in {"adding", "getting", "removing", "cleaning", "counting"}
Goes(t, place) == at' = [at EXCEPT ![t] = place]

-----------------------------------------------------------------------------
(* Variants of definitions below, as a slip in the code would make them.    *)

RemoveSharesToo == {"get", "count", "remove"}
SharedAnyway == TRUE
ForgetsToErase(c) == UNCHANGED sessions

-----------------------------------------------------------------------------
(* std::shared_mutex: shared_lock for the operations that only read,        *)
(* unique_lock for the others.                                              *)
Shared == {"get", "count"}

MayShare == writer = NoOne

LockShared(t) ==
  /\ Waiting(t) /\ at[t] \in Shared
  /\ MayShare
  /\ readers' = readers \cup {t}
  /\ Goes(t, Inside[at[t]])
  /\ UNCHANGED <<sessions, writer, subject, home, stage, stale, cleanVars,
                 found, count>>

(* CleanupExpiredSessions starts at sessions_.begin() with nothing removed. *)
LockUnique(t) ==
  /\ Waiting(t) /\ at[t] \notin Shared
  /\ writer = NoOne /\ readers = {}
  /\ writer' = t
  /\ Goes(t, Inside[at[t]])
  /\ IF at[t] = "clean" THEN ahead' = sessions /\ erased' = {}
                        ELSE UNCHANGED <<ahead, erased>>
  /\ UNCHANGED <<sessions, readers, subject, home, stage, stale, cleaned,
                 found, count>>

UnlockShared(t) == readers' = readers \ {t} /\ UNCHANGED writer
UnlockUnique(t) == writer' = NoOne /\ UNCHANGED readers

(* sessions_.erase(it), sessions_.size().                                   *)
Erase(c) == sessions' = sessions \ {c}
Size == Cardinality(sessions)

-----------------------------------------------------------------------------
(* A worker and a client, from accept to the first recv().                  *)

(* accept_clients spawns HandleClientSession.                               *)
Accepts(w, c) ==
  /\ at[w] = "idle"
  /\ stage[c] = "away"
  /\ Goes(w, "add")
  /\ subject' = [subject EXCEPT ![w] = c]
  /\ home' = [home EXCEPT ![c] = w]
  /\ stage' = [stage EXCEPT ![c] = "accepted"]
  /\ UNCHANGED <<sessions, lockVars, stale, cleanVars, found, count>>

(* The id is drawn and the entry made under the lock; ids are distinct.     *)
AddSession(w) ==
  /\ at[w] = "adding"
  /\ sessions' = sessions \cup {subject[w]}
  /\ stage' = [stage EXCEPT ![subject[w]] = "added"]
  /\ UnlockUnique(w)
  /\ Goes(w, "get")
  /\ UNCHANGED <<subject, home, stale, cleanVars, found, count>>

(* HandleClientSession looks the session up by its id and goes on to        *)
(* HandleSession with it ...                                                *)
GetSession(w) ==
  /\ at[w] = "getting"
  /\ subject[w] \in sessions
  /\ found' = found \cup {subject[w]}
  /\ UnlockShared(w)
  /\ Goes(w, "connect")
  /\ UNCHANGED <<sessions, subject, home, stage, stale, cleanVars, count>>

(* ... or reports that it is gone, and ends.                                *)
GetSessionFails(w) ==
  /\ at[w] = "getting"
  /\ subject[w] \notin sessions
  /\ UnlockShared(w)
  /\ Goes(w, "idle")
  /\ stage' = [stage EXCEPT ![subject[w]] = "refused"]
  /\ UNCHANGED <<sessions, subject, home, stale, cleanVars, found, count>>

(* HandleSession up to its first recv(): connected_ is set, and             *)
(* last_heartbeat_ without the lock, before or after a cleanup reads it.    *)
OnConnected(w) ==
  /\ at[w] = "connect"
  /\ stage' = [stage EXCEPT ![subject[w]] = "served"]
  /\ stale' = stale \ {subject[w]}
  /\ Goes(w, "idle")
  /\ UNCHANGED <<sessions, lockVars, subject, home, cleanVars, found, count>>

(* The receive loop is left: connected_ is cleared.                         *)
OnDisconnected(w, c) ==
  /\ at[w] = "idle"
  /\ stage[c] = "served" /\ home[c] = w
  /\ stage' = [stage EXCEPT ![c] = "leaving"]
  /\ subject' = [subject EXCEPT ![w] = c]
  /\ Goes(w, "remove")
  /\ UNCHANGED <<sessions, lockVars, home, stale, cleanVars, found, count>>

(* The entry is erased if a cleanup has not done so, and HandleSession ends.*)
RemoveSession(w) ==
  /\ at[w] = "removing"
  /\ Erase(subject[w])
  /\ stage' = [stage EXCEPT ![subject[w]] = "ended"]
  /\ UnlockUnique(w)
  /\ Goes(w, "idle")
  /\ UNCHANGED <<subject, home, stale, cleanVars, found, count>>

WorkerStep(w) ==
  \/ AddSession(w) \/ GetSession(w) \/ GetSessionFails(w)
  \/ OnConnected(w) \/ RemoveSession(w)

-----------------------------------------------------------------------------
(* The maintenance thread, and time.                                        *)

(* Thirty minutes pass since the last UpdateHeartbeat.  Nothing but         *)
(* OnConnected calls it: OnRecvData is never reached (module Worker).       *)
Ages(c) ==
  /\ stage[c] \in {"added", "served", "leaving"}
  /\ c \notin stale
  /\ stale' = stale \cup {c}
  /\ UNCHANGED <<sessions, lockVars, at, subject, home, stage, cleanVars,
                 found, count>>

Calls(op) ==
  /\ at[Janitor] = "idle"
  /\ Goes(Janitor, op)
  /\ UNCHANGED <<sessions, lockVars, subject, home, stage, stale, cleanVars,
                 found, count>>

IsExpired(c) == c \in stale

(* One turn of the loop of CleanupExpiredSessions.                          *)
Visit(c) ==
  /\ at[Janitor] = "cleaning"
  /\ c \in ahead
  /\ ahead' = ahead \ {c}
  /\ IF IsExpired(c)
       THEN Erase(c) /\ erased' = erased \cup {c} /\ cleaned' = cleaned \cup {c}
       ELSE UNCHANGED <<sessions, erased, cleaned>>
  /\ UNCHANGED <<lockVars, at, subject, home, stage, stale, found, count>>

CleanupEnds ==
  /\ at[Janitor] = "cleaning"
  /\ ahead = {}
  /\ erased' = {}
  /\ UnlockUnique(Janitor)
  /\ Goes(Janitor, "idle")
  /\ UNCHANGED <<sessions, subject, home, stage, stale, ahead, cleaned, found,
                 count>>

GetActiveSessionCount ==
  /\ at[Janitor] = "counting"
  /\ count' = Size
  /\ UnlockShared(Janitor)
  /\ Goes(Janitor, "idle")
  /\ UNCHANGED <<sessions, subject, home, stage, stale, cleanVars, found>>

JanitorStep ==
  \/ \E c \in Conns : Visit(c)
  \/ CleanupEnds
  \/ GetActiveSessionCount

-----------------------------------------------------------------------------
Init ==
  /\ sessions = {}
  /\ writer = NoOne
  /\ readers = {}
  /\ at = [t \in Threads |-> "idle"]
  /\ subject = [w \in Workers |-> NoOne]
  /\ home = [c \in Conns |-> NoOne]
  /\ stage = [c \in Conns |-> "away"]
  /\ stale = {}
  /\ ahead = {} /\ erased = {} /\ cleaned = {}
  /\ found = {}
  /\ count = 0

Next ==
  \/ \E t \in Threads : LockShared(t) \/ LockUnique(t)
  \/ \E w \in Workers : WorkerStep(w)
  \/ \E w \in Workers, c \in Conns : Accepts(w, c) \/ OnDisconnected(w, c)
  \/ JanitorStep
  \/ Calls("clean") \/ Calls("count")
  \/ \E c \in Conns : Ages(c)

Spec == Init /\ [][Next]_vars

(* Threads run; a thread that waits for the lock gets it if it comes free   *)
(* again and again.  Clients and the maintenance thread's calls owe nothing.*)
Fairness ==
  /\ \A t \in Threads : SF_vars(LockShared(t) \/ LockUnique(t))
  /\ \A w \in Workers : WF_vars(WorkerStep(w))
  /\ WF_vars(JanitorStep)

FairSpec == Spec /\ Fairness

-----------------------------------------------------------------------------
TypeOK ==
  /\ {sessions, stale, ahead, erased, cleaned, found} \subseteq SUBSET Conns
  /\ writer \in Threads \cup {NoOne}
  /\ readers \in SUBSET Threads
  /\ at \in [Threads -> {"idle", "connect", "add", "get", "remove", "clean",
               "count", "adding", "getting", "removing", "cleaning", "counting"}]
  /\ subject \in [Workers -> Conns \cup {NoOne}]
  /\ home \in [Conns -> Workers \cup {NoOne}]
  /\ stage \in [Conns -> {"away", "accepted", "added", "served", "leaving",
                          "ended", "refused"}]
  /\ count \in Nat

(* A thread that changes sessions_ is alone in it: nobody reads a table     *)
(* that is being rehashed, and the entry the cleanup's iterator will step   *)
(* to is not erased under it.                                               *)
AloneToChange ==
  /\ \A t, u \in Threads :
       InTable(t) /\ InTable(u) /\ t # u => {at[t], at[u]} \subseteq {"getting", "counting"}
  /\ ahead \subseteq sessions

(* The table lists the sessions that have been added and not removed, less  *)
(* those a cleanup took; a session that has ended is never listed again, and*)
(* HandleClientSession misses its own session only after a cleanup.         *)
ListedExactly ==
  /\ \A c \in Conns :
       c \in sessions <=> /\ stage[c] \in {"added", "served", "leaving"}
                          /\ c \notin cleaned
  /\ \A c \in Conns : stage[c] = "refused" => c \in cleaned

Added == {c \in Conns : stage[c] \notin {"away", "accepted"}}
Missed == {c \in Conns : stage[c] = "refused"}
Table == INSTANCE SessionTable
           WITH table <- sessions \cup erased,
                added <- Added, missed <- Missed

(* Every operation of the shared manager takes effect at once: the cleanup, *)
(* which erases one entry after the other, as it returns the lock.          *)
ImplementsTable == Table!Spec

(* A session whose client has gone leaves the table, however busy it is.    *)
DepartedForgotten ==
  \A c \in Conns : stage[c] = "leaving" ~> stage[c] = "ended" /\ c \notin sessions
=============================================================================
