------------------------------ MODULE MCWorker ------------------------------
(* Small instances of Worker for TLC.                                       *)
EXTENDS Worker

(* One SQE per client; the accept request is submitted before them.         *)
Roomy == Cardinality(Conns)

(* How much each client sends.                                              *)
OneEach == [c \in Conns |-> 1]
TwoEach == [c \in Conns |-> 2]
OneTalks == [c \in Conns |-> IF c = CHOOSE talker \in Conns : TRUE THEN 1 ELSE 0]
=============================================================================
