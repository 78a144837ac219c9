------------------------------ MODULE BatchFeed ------------------------------
(***************************************************************************)
(* What a batch looks like to whoever follows it through the database and  *)
(* the stream, while no call of its workers fails: each status of a        *)
(* payment is stored, published after that and before the next one is      *)
(* stored, and batch_done is published once, when everything has been      *)
(* stored and published.                                                   *)
(***************************************************************************)
EXTENDS PaymentStatus

CONSTANT Payments

VARIABLES stored,     \* payments.status, committed
          published,  \* the last status published for each payment
          done        \* batch_done has been published

feed == <<stored, published, done>>

Successors(s) == IF s = "pending" THEN {"processing"}
                 ELSE IF s = "processing" THEN Terminal
                 ELSE {}

Init == /\ stored = [p \in Payments |-> "pending"]
        /\ published = stored
        /\ done = FALSE

Commit(p, s) ==
  /\ published[p] = stored[p]
  /\ s \in Successors(stored[p])
  /\ stored' = [stored EXCEPT ![p] = s]
  /\ UNCHANGED <<published, done>>

Publish(p) ==
  /\ published[p] # stored[p]
  /\ published' = [published EXCEPT ![p] = stored[p]]
  /\ UNCHANGED <<stored, done>>

PublishDone ==
  /\ ~done
  /\ AllTerminal(stored) /\ published = stored
  /\ done' = TRUE
  /\ UNCHANGED <<stored, published>>

Next == PublishDone \/ \E p \in Payments : Publish(p) \/ \E s \in Status : Commit(p, s)

Spec == Init /\ [][Next]_feed

=============================================================================
