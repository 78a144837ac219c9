--------------------------- MODULE PaymentStatus ---------------------------
(***************************************************************************)
(* The payment_status enumeration shared by the payments and the batches   *)
(* tables, and the pure functions the backend computes from it.  A         *)
(* "payments table" is a function from the payments of one batch to their  *)
(* status.                                                                 *)
(***************************************************************************)

Terminal == {"success", "failed"}

Status == {"pending", "processing"} \cup Terminal

Has(st, s) == \E p \in DOMAIN st : st[p] = s

\* Mutation: a failed payment decides the batch before the open ones are looked at.
DeriveFailedFirst(st) ==
  IF Has(st, "failed") THEN "failed"
  ELSE IF Has(st, "processing") THEN "processing"
  ELSE IF Has(st, "pending") THEN "pending"
  ELSE "success"

\* The CASE expression with which UpdateStatus recomputes batches.status.
DeriveBatchStatus(st) ==
  IF Has(st, "processing") THEN "processing"
  ELSE IF Has(st, "pending") THEN "pending"
  ELSE IF Has(st, "failed") THEN "failed"
  ELSE "success"

AllTerminal(st) == \A p \in DOMAIN st : st[p] \in Terminal

=============================================================================
