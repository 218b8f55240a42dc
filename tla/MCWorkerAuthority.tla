--------------------------- MODULE MCWorkerAuthority ---------------------------
(***************************************************************************)
(* Two workers, as in a rolling deploy.  A tick is two seconds: the lease  *)
(* lasts four of them and the heartbeat comes at every fifth.              *)
(***************************************************************************)
EXTENDS WorkerAuthority, TLC

CONSTANTS a, b

MCWorker == {a, b}

=============================================================================
