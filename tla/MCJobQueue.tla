---------------------------- MODULE MCJobQueue ----------------------------
(* A small instance of the job queue for TLC.                              *)
EXTENDS JobQueue, TLC

CONSTANTS w1, w2, j1, j2

\* Processes started with the same FSS_WORKER_INSTANCE (or with neither it nor
\* HOSTNAME) claim under one name; the token alone tells them apart.
SharedOwner == [w \in Workers |-> "worker:0"]

\* One job whose work commits with its completion, one with an effect outside.
UniqueAndOutside == (j1 :> "business_uniqueness") @@ (j2 :> "outbound_fence")
=============================================================================
