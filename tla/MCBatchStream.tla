--------------------------- MODULE MCBatchStream ---------------------------
(* Instances of BatchStream for TLC. *)
EXTENDS BatchStream

CONSTANTS w1, w2, c1, c2

OneWorker  == {w1}
TwoWorkers == {w1, w2}
OneClient  == {c1}
TwoClients == {c1, c2}
Requests   == Clients \X (1..Attempts)

=============================================================================
