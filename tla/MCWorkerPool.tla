---------------------------- MODULE MCWorkerPool ----------------------------
(* Instances of WorkerPool for TLC. *)
EXTENDS WorkerPoolInv

CONSTANTS w1, w2, w3

OneWorker    == {w1}
TwoWorkers   == {w1, w2}
ThreeWorkers == {w1, w2, w3}

=============================================================================
