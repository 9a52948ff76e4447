---------------------------- MODULE MCEventLoop ----------------------------
(* Small instances of EventLoop for TLC.                                    *)
EXTENDS EventLoop

(* One entry per session is all the room the queue needs: the accept        *)
(* request is submitted before there is a session.                          *)
Roomy == Cardinality(Recvs)
=============================================================================
