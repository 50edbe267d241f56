---------------------------- MODULE MCWorkerPool ----------------------------
(* Small pools for TLC. *)
EXTENDS WorkerPool

(* Two workers that share one GPU. *)
SharedGpu == [w \in Workers |-> "gpu0"]

(* The clients are interchangeable: nothing orders them but the queue. *)
ClientSymmetry == Permutations(Clients)

=============================================================================
