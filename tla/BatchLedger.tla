---------------------------- MODULE BatchLedger ----------------------------
(***************************************************************************)
(* What processing a batch promises to whoever reads the two tables: each  *)
(* payment goes pending -> processing -> success or failed, one at a time  *)
(* and never back; the batch row is rewritten together with a payment; and *)
(* a final batch status is never a guess: the row reads "success" or       *)
(* "failed" only when it is the status derived from the final payments.    *)
(* While it is not final the row may lag behind the payments.              *)
(***************************************************************************)
EXTENDS PaymentStatus

CONSTANT Payments

VARIABLES status,       \* payments.status, committed
          batchStatus   \* batches.status, committed

ledger == <<status, batchStatus>>

Successors(s) == IF s = "pending" THEN {"processing"}
                 ELSE IF s = "processing" THEN Terminal
                 ELSE {}

Init == /\ status = [p \in Payments |-> "pending"]
        /\ batchStatus = "pending"

Advance(p, s) ==
  /\ s \in Successors(status[p])
  /\ status' = [status EXCEPT ![p] = s]
  /\ batchStatus' \in Status
  /\ batchStatus' \in Terminal => /\ AllTerminal(status')
                                  /\ batchStatus' = DeriveBatchStatus(status')

Next == \E p \in Payments, s \in Status : Advance(p, s)

Spec == Init /\ [][Next]_ledger

=============================================================================
