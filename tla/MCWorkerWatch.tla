---------------------------- MODULE MCWorkerWatch ----------------------------
(* The instance of WorkerWatch that TLC checks: one launcher, one worker,  *)
(* one foreground session, one waiter.                                     *)
EXTENDS WorkerWatch
=============================================================================
