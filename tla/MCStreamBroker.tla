--------------------------- MODULE MCStreamBroker ---------------------------
(* Instances of StreamBroker for TLC. *)
EXTENDS StreamBroker

CONSTANTS w1, w2, s1, s2

OneWorker  == {w1}
TwoWorkers == {w1, w2}
OneSub     == {s1}
TwoSubs    == {s1, s2}

=============================================================================
