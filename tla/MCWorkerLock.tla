---------------------------- MODULE MCWorkerLock ----------------------------
(***************************************************************************)
(* Two workers, each restarted once.  The key lives 5 units of time, a     *)
(* tick at most 3 and a forgotten command 1 (60 s, 45 s and the Redis      *)
(* client's timeout in the code).                                          *)
(***************************************************************************)
EXTENDS WorkerLock

CONSTANTS w1, w2

MCWorker == {w1, w2}

=============================================================================
