----------------------------- MODULE SessionTable -----------------------------
(***************************************************************************)
(* What SessionManager (src/session/session_manager.cpp) promises its      *)
(* callers: a table of sessions on which every operation takes effect at   *)
(* once, whatever other threads are doing.                                 *)
(***************************************************************************)
EXTENDS Integers, FiniteSets

CONSTANT Conns   \* the sessions, by their clients

VARIABLES
  table,    \* the sessions in sessions_
  added,    \* sessions AddSession has registered, ever
  found,    \* sessions GetSession has answered with a pointer
  missed,   \* sessions GetSession has answered with null
  count     \* the last answer of GetActiveSessionCount

vars == <<table, added, found, missed, count>>

Init == table = {} /\ added = {} /\ found = {} /\ missed = {} /\ count = 0

(* A session gets an id of its own and is registered once.                  *)
Add(c) ==
  /\ c \notin added
  /\ added' = added \cup {c}
  /\ table' = table \cup {c}
  /\ UNCHANGED <<found, missed, count>>

Find(c) ==
  /\ c \in added
  /\ IF c \in table THEN found' = found \cup {c} /\ UNCHANGED missed
                     ELSE missed' = missed \cup {c} /\ UNCHANGED found
  /\ UNCHANGED <<table, added, count>>

(* Removing a session that is no longer there changes nothing.              *)
Remove(c) == table' = table \ {c} /\ UNCHANGED <<added, found, missed, count>>

(* All expired sessions go in one step.                                     *)
Expire(S) == table' = table \ S /\ UNCHANGED <<added, found, missed, count>>

Count ==
  count' = Cardinality(table) /\ UNCHANGED <<table, added, found, missed>>

Next ==
  \/ \E c \in Conns : Add(c) \/ Find(c) \/ Remove(c)
  \/ \E S \in SUBSET Conns : Expire(S)
  \/ Count

Spec == Init /\ [][Next]_vars
=============================================================================
