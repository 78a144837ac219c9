-------------------------- MODULE WorkerPool_proofs --------------------------
(***************************************************************************)
(* Proofs about WorkerPool, for any number of payments, workers, pooled    *)
(* connections and failing database calls.                                 *)
(***************************************************************************)
EXTENDS WorkerPoolInv, FiniteSetTheorems, TLAPS

-----------------------------------------------------------------------------
(* The derived batch status *)

\* The CASE of UpdateStatus yields a payment status, whatever it counts.
LEMMA DerivedIsStatus == ASSUME NEW st PROVE DeriveBatchStatus(st) \in Status
  BY DEF DeriveBatchStatus, Status, Terminal

\* It yields a final status only for payments that are all final.
LEMMA DerivedFinalMeansAllFinal ==
  ASSUME NEW st,
         \A p \in DOMAIN st : st[p] \in Status,
         DeriveBatchStatus(st) \in Terminal
  PROVE  AllTerminal(st)
  BY DEF DeriveBatchStatus, Has, AllTerminal, Status, Terminal

-----------------------------------------------------------------------------
(* Types *)

LEMMA InitTypeOK == Init => TypeOK
  BY NAssumption, MaxErrorsAssumption DEF Init, TypeOK, Status, Terminal, Label, Busy, Payments

\* A worker that gives its payment up or finishes it is back at its loop.
LEMMA ReturnTypes ==
  ASSUME TypeOK, NEW w \in Workers, Return(w)
  PROVE  /\ pc' \in [Workers -> Label] /\ job' \in [Workers -> 0..N]
         /\ target' \in [Workers -> Status] /\ counted' \in [Workers -> Status]
<1>1. 0 \in 0..N /\ "receive" \in Label /\ "pending" \in Status
  BY NAssumption DEF Label, Status
<1>2. QED
  BY <1>1 DEF TypeOK, Return

LEMMA ServerCommitTypes ==
  ASSUME TypeOK, NEW w \in Workers, ServerCommit(w)
  PROVE  /\ status' \in [Payments -> Status] /\ batchStatus' \in Status
         /\ stamped' \in [Payments -> BOOLEAN]
         /\ batchLock' \in Workers \cup {NoWorker}
  BY DEF TypeOK, ServerCommit

LEMMA NextTypeOK == TypeOK /\ [Next]_vars => TypeOK'
<1> SUFFICES ASSUME TypeOK, [Next]_vars PROVE TypeOK'
  OBVIOUS
<1> USE NAssumption, MaxErrorsAssumption
<1> USE DEF TypeOK, Payments, Status, Terminal, Label, Busy, InTx, db, pool, hist
<1>1. CASE Dispatcher
  BY <1>1 DEF Dispatcher, Push, CloseJobs, PublishBatchDone
<1>2. ASSUME NEW w \in Workers, Worker(w) PROVE TypeOK'
  <2>1. CASE Take(w)
    BY <2>1 DEF Take
  <2>2. CASE Exit(w)
    BY <2>2 DEF Exit
  <2>3. CASE Announce(w)
    BY <2>3 DEF Announce
  <2>4. CASE CallGateway(w)
    <3>1. PICK answer \in Answers : /\ outcome' = [outcome EXCEPT ![job[w]] = answer]
                                     /\ target' = [target EXCEPT ![w] = answer]
      BY <2>4 DEF CallGateway
    <3>2. outcome' \in [Payments -> Terminal \cup {"none"}] /\ target' \in [Workers -> Status]
      BY <3>1 DEF Answers
    <3>3. calls' = [p \in Payments |-> IF p = job[w] THEN calls[p] + 1 ELSE calls[p]]
      BY <2>4 DEF CallGateway
    <3>4. calls' \in [Payments -> Nat]
      BY <3>3
    <3>5. QED
      BY <2>4, <3>2, <3>4 DEF CallGateway
  <2>5. CASE BeginTx(w) \/ UpdatePayment(w)
    BY <2>5 DEF BeginTx, UpdatePayment
  <2>6. CASE CountPayments(w)
    <3>1. DeriveBatchStatus(Snapshot(w)) \in Status
      BY DerivedIsStatus
    <3>2. QED
      BY <2>6, <3>1 DEF CountPayments
  <2>7. CASE UpdateBatch(w)
    BY <2>7 DEF UpdateBatch
  <2>8. CASE Commit(w)
    BY <2>8, ServerCommitTypes DEF Commit
  <2>9. CASE CommitLost(w)
    <3>1. errors' \in 0..MaxErrors
      BY <2>9 DEF CommitLost
    <3>2. QED
      BY <2>9, <3>1, ReturnTypes, ServerCommitTypes DEF CommitLost
  <2>10. CASE UpdateStatusFails(w)
    <3>1. errors' \in 0..MaxErrors
      BY <2>10 DEF UpdateStatusFails
    <3>2. QED
      BY <2>10, <3>1, ReturnTypes DEF UpdateStatusFails
  <2>11. CASE SetProcessedAt(w)
    BY <2>11, ReturnTypes DEF SetProcessedAt
  <2>12. CASE SetProcessedAtFails(w)
    <3>1. errors' \in 0..MaxErrors
      BY <2>12 DEF SetProcessedAtFails
    <3>2. stamped' \in [Payments -> BOOLEAN]
      BY <2>12 DEF SetProcessedAtFails
    <3>3. QED
      BY <2>12, <3>1, <3>2, ReturnTypes DEF SetProcessedAtFails
  <2>13. QED
    BY <1>2, <2>1, <2>2, <2>3, <2>4, <2>5, <2>6, <2>7, <2>8, <2>9, <2>10, <2>11, <2>12
    DEF Worker, UpdateStatus
<1>3. CASE Crash
  BY <1>3 DEF Crash
<1>4. CASE Finished \/ UNCHANGED vars
  BY <1>4 DEF Finished, vars
<1>5. QED
  BY <1>1, <1>2, <1>3, <1>4 DEF Next

\* Every variable keeps its type, whatever the database and the process do.
THEOREM TypeCorrect == Spec => []TypeOK
  BY InitTypeOK, NextTypeOK, PTL DEF Spec

-----------------------------------------------------------------------------
(* The inductive invariant *)

LEMMA InitInv == Init => IInv
<1> SUFFICES ASSUME Init PROVE IInv
  OBVIOUS
<1>1. TypeOK
  BY InitTypeOK
<1>2. JobsAreDistinct /\ UntakenIsPending /\ GatewayCalledAtMostOnce
  BY NAssumption DEF Init, JobsAreDistinct, UntakenIsPending, GatewayCalledAtMostOnce, Busy, InTx, Payments
<1>3. ProgressMatchesLabel /\ CountedFinalIsRight
  BY DEF Init, ProgressMatchesLabel, CountedFinalIsRight, InTx
<1>4. LockHolderCommits
  BY WorkersAssumption DEF Init, LockHolderCommits
<1>5. ResultIsTheGatewaysAnswer /\ AnnouncedIsCommitted /\ FinalBatchStatusIsTruthful
  BY DEF Init, ResultIsTheGatewaysAnswer, AnnouncedIsCommitted, FinalBatchStatusIsTruthful, Terminal
<1>6. QED
  BY <1>1, <1>2, <1>3, <1>4, <1>5 DEF IInv

\* The parts that speak of the tables and their history, under a step that
\* leaves these alone.
LEMMA TablesFrame ==
  ASSUME IInv, UNCHANGED <<status, batchStatus, calls, outcome, announced>>,
         taken' >= taken, taken' \in Nat
  PROVE  /\ UntakenIsPending' /\ GatewayCalledAtMostOnce' /\ ResultIsTheGatewaysAnswer'
         /\ AnnouncedIsCommitted' /\ FinalBatchStatusIsTruthful'
<1>1. UntakenIsPending'
  BY NAssumption DEF IInv, UntakenIsPending, TypeOK, Payments
<1>2. GatewayCalledAtMostOnce' /\ ResultIsTheGatewaysAnswer' /\ AnnouncedIsCommitted'
  BY DEF IInv, GatewayCalledAtMostOnce, ResultIsTheGatewaysAnswer, AnnouncedIsCommitted
<1>3. FinalBatchStatusIsTruthful'
  BY DEF IInv, FinalBatchStatusIsTruthful
<1>4. QED
  BY <1>1, <1>2, <1>3

\* A worker that has counted keeps being right as long as neither its own
\* transaction nor the committed payments change.
LEMMA CountedFrame ==
  ASSUME IInv, status' = status,
         \A v \in Workers :
           pc'[v] \in {"lock", "commit"} =>
             /\ pc[v] \in {"lock", "commit"}
             /\ counted'[v] = counted[v] /\ job'[v] = job[v] /\ target'[v] = target[v]
  PROVE  CountedFinalIsRight'
<1> SUFFICES ASSUME NEW v \in Workers, pc'[v] \in {"lock", "commit"}, counted'[v] \in Terminal
             PROVE  (AllTerminal(Snapshot(v)) /\ counted[v] = DeriveBatchStatus(Snapshot(v)))'
  BY DEF CountedFinalIsRight
<1>1. Snapshot(v)' = Snapshot(v)
  BY DEF Snapshot
<1>2. AllTerminal(Snapshot(v)) /\ counted[v] = DeriveBatchStatus(Snapshot(v))
  BY DEF IInv, CountedFinalIsRight
<1>3. QED
  BY <1>1, <1>2

\* While one transaction is open its payment is not final in any other
\* transaction's snapshot, so at most one worker can have counted a final batch,
\* and what it counted is what the table holds once it commits.
LEMMA CommitKeepsCounts ==
  ASSUME IInv, NEW w \in Workers, ServerCommit(w),
         pc'[w] \notin {"lock", "commit"},
         \A v \in Workers : v # w =>
           pc'[v] = pc[v] /\ counted'[v] = counted[v] /\ job'[v] = job[v] /\ target'[v] = target[v]
  PROVE  CountedFinalIsRight' /\ FinalBatchStatusIsTruthful'
<1>1. status' = Snapshot(w) /\ batchStatus' = counted[w] /\ pc[w] = "commit"
  BY DEF ServerCommit, Snapshot
<1>2. FinalBatchStatusIsTruthful'
  BY <1>1 DEF IInv, CountedFinalIsRight, FinalBatchStatusIsTruthful
<1>3. ASSUME NEW v \in Workers, v # w, pc[v] \in {"lock", "commit"}, counted[v] \in Terminal
      PROVE  FALSE
  <2>1. AllTerminal(Snapshot(v))
    BY <1>3 DEF IInv, CountedFinalIsRight
  <2>2. job[w] \in Payments /\ job[v] # job[w]
    BY <1>1, <1>3, NAssumption DEF IInv, JobsAreDistinct, Busy, InTx, TypeOK, Payments
  <2>3. status[job[w]] \notin Terminal
    BY <1>1 DEF IInv, ProgressMatchesLabel, BeforeCommit, InTx, Terminal
  <2>4. Snapshot(v)[job[w]] = status[job[w]] /\ job[w] \in DOMAIN Snapshot(v)
    BY <2>2 DEF Snapshot, IInv, TypeOK
  <2>5. QED
    BY <2>1, <2>3, <2>4 DEF AllTerminal
<1>4. CountedFinalIsRight'
  BY <1>3 DEF CountedFinalIsRight
<1>5. QED
  BY <1>2, <1>4

\* Every step preserves the invariant.  Most steps move one worker from a label
\* to the next; what they do to the tables is in the lemmas above.
LEMMA NextInv == IInv /\ [Next]_vars => IInv'
<1> SUFFICES ASSUME IInv, TypeOK', [Next]_vars PROVE IInv'
  BY NextTypeOK DEF IInv
<1> USE NAssumption, WorkersAssumption
<1> USE DEF Payments, Busy, InTx, Terminal, db, pool, hist
<1>1. CASE Dispatcher
  <2> USE <1>1 DEF Dispatcher, Push, CloseJobs, PublishBatchDone
  <2>1. JobsAreDistinct'
    BY DEF IInv, TypeOK, JobsAreDistinct
  <2>2. ProgressMatchesLabel' /\ LockHolderCommits'
    BY DEF IInv, ProgressMatchesLabel, BeforeCommit, LockHolderCommits
  <2>3. CountedFinalIsRight'
    BY CountedFrame
  <2>4. /\ UntakenIsPending' /\ GatewayCalledAtMostOnce' /\ ResultIsTheGatewaysAnswer'
        /\ AnnouncedIsCommitted' /\ FinalBatchStatusIsTruthful'
    BY TablesFrame DEF IInv, TypeOK
  <2>5. QED
    BY <2>1, <2>2, <2>3, <2>4 DEF IInv
<1>2. ASSUME NEW w \in Workers, Take(w) PROVE IInv'
  <2>1. JobsAreDistinct'
    BY <1>2 DEF Take, IInv, TypeOK, JobsAreDistinct
  <2>2. ProgressMatchesLabel'
    BY <1>2 DEF Take, IInv, TypeOK, JobsAreDistinct, ProgressMatchesLabel, BeforeCommit, UntakenIsPending
  <2>3. LockHolderCommits'
    BY <1>2 DEF Take, IInv, TypeOK, LockHolderCommits
  <2>4. CountedFinalIsRight'
    BY <1>2, CountedFrame DEF Take, IInv, TypeOK
  <2>5. /\ UntakenIsPending' /\ GatewayCalledAtMostOnce' /\ ResultIsTheGatewaysAnswer'
        /\ AnnouncedIsCommitted' /\ FinalBatchStatusIsTruthful'
    BY <1>2, TablesFrame DEF Take, IInv, TypeOK
  <2>6. QED
    BY <2>1, <2>2, <2>3, <2>4, <2>5 DEF IInv
<1>3. ASSUME NEW w \in Workers, Exit(w) PROVE IInv'
  <2>1. JobsAreDistinct'
    BY <1>3 DEF Exit, IInv, TypeOK, JobsAreDistinct
  <2>2. ProgressMatchesLabel'
    BY <1>3 DEF Exit, IInv, TypeOK, JobsAreDistinct, ProgressMatchesLabel, BeforeCommit
  <2>3. LockHolderCommits'
    BY <1>3 DEF Exit, IInv, TypeOK, LockHolderCommits
  <2>4. CountedFinalIsRight'
    BY <1>3, CountedFrame DEF Exit, IInv, TypeOK
  <2>5. /\ UntakenIsPending' /\ GatewayCalledAtMostOnce' /\ ResultIsTheGatewaysAnswer'
        /\ AnnouncedIsCommitted' /\ FinalBatchStatusIsTruthful'
    BY <1>3, TablesFrame DEF Exit, IInv, TypeOK
  <2>6. QED
    BY <2>1, <2>2, <2>3, <2>4, <2>5 DEF IInv
<1>4. ASSUME NEW w \in Workers, Announce(w) PROVE IInv'
  <2>1. JobsAreDistinct'
    BY <1>4 DEF Announce, IInv, TypeOK, JobsAreDistinct
  <2>2. ProgressMatchesLabel'
    BY <1>4 DEF Announce, IInv, TypeOK, JobsAreDistinct, ProgressMatchesLabel, BeforeCommit
  <2>3. LockHolderCommits'
    BY <1>4 DEF Announce, IInv, TypeOK, LockHolderCommits
  <2>4. CountedFinalIsRight'
    BY <1>4, CountedFrame DEF Announce, IInv, TypeOK
  <2>5. UntakenIsPending'
    BY <1>4 DEF Announce, IInv, TypeOK, JobsAreDistinct, UntakenIsPending
  <2>6. AnnouncedIsCommitted'
    BY <1>4 DEF Announce, IInv, TypeOK, JobsAreDistinct, ProgressMatchesLabel, AnnouncedIsCommitted
  <2>7. GatewayCalledAtMostOnce' /\ ResultIsTheGatewaysAnswer' /\ FinalBatchStatusIsTruthful'
    BY <1>4 DEF Announce, IInv, GatewayCalledAtMostOnce, ResultIsTheGatewaysAnswer, FinalBatchStatusIsTruthful
  <2>8. QED
    BY <2>1, <2>2, <2>3, <2>4, <2>5, <2>6, <2>7 DEF IInv
<1>5. ASSUME NEW w \in Workers, CallGateway(w) PROVE IInv'
  <2>1. JobsAreDistinct'
    BY <1>5 DEF CallGateway, Answers, IInv, TypeOK, JobsAreDistinct
  <2>2. ProgressMatchesLabel'
    BY <1>5 DEF CallGateway, Answers, IInv, TypeOK, JobsAreDistinct, ProgressMatchesLabel, BeforeCommit
  <2>3. LockHolderCommits'
    BY <1>5 DEF CallGateway, Answers, IInv, TypeOK, LockHolderCommits
  <2>4. CountedFinalIsRight'
    BY <1>5, CountedFrame DEF CallGateway, Answers, IInv, TypeOK
  <2>5. UntakenIsPending'
    BY <1>5 DEF CallGateway, Answers, IInv, TypeOK, JobsAreDistinct, UntakenIsPending
  <2>6. GatewayCalledAtMostOnce' /\ ResultIsTheGatewaysAnswer'
    BY <1>5 DEF CallGateway, Answers, IInv, TypeOK, JobsAreDistinct, ProgressMatchesLabel,
           GatewayCalledAtMostOnce, ResultIsTheGatewaysAnswer
  <2>7. AnnouncedIsCommitted' /\ FinalBatchStatusIsTruthful'
    BY <1>5 DEF CallGateway, Answers, IInv, AnnouncedIsCommitted, FinalBatchStatusIsTruthful
  <2>8. QED
    BY <2>1, <2>2, <2>3, <2>4, <2>5, <2>6, <2>7 DEF IInv
<1>6. ASSUME NEW w \in Workers, BeginTx(w) PROVE IInv'
  <2>1. JobsAreDistinct'
    BY <1>6 DEF BeginTx, IInv, TypeOK, JobsAreDistinct
  <2>2. ProgressMatchesLabel'
    BY <1>6 DEF BeginTx, IInv, TypeOK, JobsAreDistinct, ProgressMatchesLabel, BeforeCommit
  <2>3. LockHolderCommits'
    BY <1>6 DEF BeginTx, IInv, TypeOK, LockHolderCommits
  <2>4. CountedFinalIsRight'
    BY <1>6, CountedFrame DEF BeginTx, IInv, TypeOK
  <2>5. /\ UntakenIsPending' /\ GatewayCalledAtMostOnce' /\ ResultIsTheGatewaysAnswer'
        /\ AnnouncedIsCommitted' /\ FinalBatchStatusIsTruthful'
    BY <1>6, TablesFrame DEF BeginTx, IInv, TypeOK
  <2>6. QED
    BY <2>1, <2>2, <2>3, <2>4, <2>5 DEF IInv
<1>7. ASSUME NEW w \in Workers, UpdatePayment(w) PROVE IInv'
  <2>1. JobsAreDistinct'
    BY <1>7 DEF UpdatePayment, IInv, TypeOK, JobsAreDistinct
  <2>2. ProgressMatchesLabel'
    BY <1>7 DEF UpdatePayment, IInv, TypeOK, JobsAreDistinct, ProgressMatchesLabel, BeforeCommit
  <2>3. LockHolderCommits'
    BY <1>7 DEF UpdatePayment, IInv, TypeOK, LockHolderCommits
  <2>4. CountedFinalIsRight'
    BY <1>7, CountedFrame DEF UpdatePayment, IInv, TypeOK
  <2>5. /\ UntakenIsPending' /\ GatewayCalledAtMostOnce' /\ ResultIsTheGatewaysAnswer'
        /\ AnnouncedIsCommitted' /\ FinalBatchStatusIsTruthful'
    BY <1>7, TablesFrame DEF UpdatePayment, IInv, TypeOK
  <2>6. QED
    BY <2>1, <2>2, <2>3, <2>4, <2>5 DEF IInv
<1>8. ASSUME NEW w \in Workers, CountPayments(w) PROVE IInv'
  <2>1. JobsAreDistinct'
    BY <1>8 DEF CountPayments, IInv, TypeOK, JobsAreDistinct
  <2>2. ProgressMatchesLabel'
    BY <1>8 DEF CountPayments, IInv, TypeOK, JobsAreDistinct, ProgressMatchesLabel, BeforeCommit
  <2>3. LockHolderCommits'
    BY <1>8 DEF CountPayments, IInv, TypeOK, LockHolderCommits
  <2>4. CountedFinalIsRight'
    <3>1. Snapshot(w) \in [Payments -> Status]
      BY DEF Snapshot, IInv, TypeOK
    <3>2. DeriveBatchStatus(Snapshot(w)) \in Terminal => AllTerminal(Snapshot(w))
      BY <3>1, DerivedFinalMeansAllFinal
    <3>3. \A v \in Workers : Snapshot(v)' = Snapshot(v)
      BY <1>8 DEF CountPayments, Snapshot
    <3>4. QED
      BY <1>8, <3>2, <3>3 DEF CountPayments, IInv, TypeOK, CountedFinalIsRight
  <2>5. /\ UntakenIsPending' /\ GatewayCalledAtMostOnce' /\ ResultIsTheGatewaysAnswer'
        /\ AnnouncedIsCommitted' /\ FinalBatchStatusIsTruthful'
    BY <1>8, TablesFrame DEF CountPayments, IInv, TypeOK
  <2>6. QED
    BY <2>1, <2>2, <2>3, <2>4, <2>5 DEF IInv
<1>9. ASSUME NEW w \in Workers, UpdateBatch(w) PROVE IInv'
  <2>1. JobsAreDistinct'
    BY <1>9 DEF UpdateBatch, IInv, TypeOK, JobsAreDistinct
  <2>2. ProgressMatchesLabel'
    BY <1>9 DEF UpdateBatch, IInv, TypeOK, JobsAreDistinct, ProgressMatchesLabel, BeforeCommit
  <2>3. LockHolderCommits'
    BY <1>9 DEF UpdateBatch, IInv, TypeOK, LockHolderCommits
  <2>4. CountedFinalIsRight'
    BY <1>9, CountedFrame DEF UpdateBatch, IInv, TypeOK
  <2>5. /\ UntakenIsPending' /\ GatewayCalledAtMostOnce' /\ ResultIsTheGatewaysAnswer'
        /\ AnnouncedIsCommitted' /\ FinalBatchStatusIsTruthful'
    BY <1>9, TablesFrame DEF UpdateBatch, IInv, TypeOK
  <2>6. QED
    BY <2>1, <2>2, <2>3, <2>4, <2>5 DEF IInv
<1>10. ASSUME NEW w \in Workers, Commit(w) PROVE IInv'
  <2>1. JobsAreDistinct'
    BY <1>10 DEF Commit, ServerCommit, IInv, TypeOK, JobsAreDistinct
  <2>2. ProgressMatchesLabel'
    BY <1>10 DEF Commit, ServerCommit, IInv, TypeOK, JobsAreDistinct, ProgressMatchesLabel, BeforeCommit
  <2>3. LockHolderCommits'
    BY <1>10 DEF Commit, ServerCommit, IInv, TypeOK, LockHolderCommits
  <2>4. CountedFinalIsRight' /\ FinalBatchStatusIsTruthful'
    BY <1>10, CommitKeepsCounts DEF Commit, ServerCommit, IInv, TypeOK
  <2>5. UntakenIsPending'
    BY <1>10 DEF Commit, ServerCommit, IInv, TypeOK, JobsAreDistinct, UntakenIsPending
  <2>6. GatewayCalledAtMostOnce' /\ ResultIsTheGatewaysAnswer'
    BY <1>10 DEF Commit, ServerCommit, IInv, TypeOK, JobsAreDistinct, ProgressMatchesLabel, BeforeCommit,
           GatewayCalledAtMostOnce, ResultIsTheGatewaysAnswer
  <2>7. AnnouncedIsCommitted'
    BY <1>10 DEF Commit, ServerCommit, IInv, TypeOK, JobsAreDistinct, ProgressMatchesLabel, BeforeCommit,
           AnnouncedIsCommitted, Ledger!Successors, Ledger!Terminal
  <2>8. QED
    BY <2>1, <2>2, <2>3, <2>4, <2>5, <2>6, <2>7 DEF IInv
<1>11. ASSUME NEW w \in Workers, CommitLost(w) PROVE IInv'
  <2>1. JobsAreDistinct'
    BY <1>11 DEF CommitLost, ServerCommit, Return, IInv, TypeOK, JobsAreDistinct
  <2>2. ProgressMatchesLabel'
    BY <1>11 DEF CommitLost, ServerCommit, Return, IInv, TypeOK, JobsAreDistinct, ProgressMatchesLabel, BeforeCommit
  <2>3. LockHolderCommits'
    BY <1>11 DEF CommitLost, ServerCommit, Return, IInv, TypeOK, LockHolderCommits
  <2>4. CountedFinalIsRight' /\ FinalBatchStatusIsTruthful'
    BY <1>11, CommitKeepsCounts DEF CommitLost, Return, ServerCommit, IInv, TypeOK
  <2>5. UntakenIsPending'
    BY <1>11 DEF CommitLost, ServerCommit, Return, IInv, TypeOK, JobsAreDistinct, UntakenIsPending
  <2>6. GatewayCalledAtMostOnce' /\ ResultIsTheGatewaysAnswer'
    BY <1>11 DEF CommitLost, ServerCommit, Return, IInv, TypeOK, JobsAreDistinct, ProgressMatchesLabel, BeforeCommit,
           GatewayCalledAtMostOnce, ResultIsTheGatewaysAnswer
  <2>7. AnnouncedIsCommitted'
    BY <1>11 DEF CommitLost, ServerCommit, Return, IInv, TypeOK, JobsAreDistinct, ProgressMatchesLabel, BeforeCommit,
           AnnouncedIsCommitted, Ledger!Successors, Ledger!Terminal
  <2>8. QED
    BY <2>1, <2>2, <2>3, <2>4, <2>5, <2>6, <2>7 DEF IInv
<1>12. ASSUME NEW w \in Workers, UpdateStatusFails(w) PROVE IInv'
  <2>1. JobsAreDistinct'
    BY <1>12 DEF UpdateStatusFails, Return, IInv, TypeOK, JobsAreDistinct
  <2>2. ProgressMatchesLabel'
    BY <1>12 DEF UpdateStatusFails, Return, IInv, TypeOK, JobsAreDistinct, ProgressMatchesLabel, BeforeCommit
  <2>3. LockHolderCommits'
    BY <1>12 DEF UpdateStatusFails, Return, IInv, TypeOK, LockHolderCommits
  <2>4. CountedFinalIsRight'
    BY <1>12, CountedFrame DEF UpdateStatusFails, Return, IInv, TypeOK
  <2>5. /\ UntakenIsPending' /\ GatewayCalledAtMostOnce' /\ ResultIsTheGatewaysAnswer'
        /\ AnnouncedIsCommitted' /\ FinalBatchStatusIsTruthful'
    BY <1>12, TablesFrame DEF UpdateStatusFails, Return, IInv, TypeOK
  <2>6. QED
    BY <2>1, <2>2, <2>3, <2>4, <2>5 DEF IInv
<1>13. ASSUME NEW w \in Workers, SetProcessedAt(w) PROVE IInv'
  <2>1. JobsAreDistinct'
    BY <1>13 DEF SetProcessedAt, Return, IInv, TypeOK, JobsAreDistinct
  <2>2. ProgressMatchesLabel'
    BY <1>13 DEF SetProcessedAt, Return, IInv, TypeOK, JobsAreDistinct, ProgressMatchesLabel, BeforeCommit
  <2>3. LockHolderCommits'
    BY <1>13 DEF SetProcessedAt, Return, IInv, TypeOK, LockHolderCommits
  <2>4. CountedFinalIsRight'
    BY <1>13, CountedFrame DEF SetProcessedAt, Return, IInv, TypeOK
  <2>5. /\ UntakenIsPending' /\ GatewayCalledAtMostOnce' /\ ResultIsTheGatewaysAnswer'
        /\ AnnouncedIsCommitted' /\ FinalBatchStatusIsTruthful'
    BY <1>13, TablesFrame DEF SetProcessedAt, Return, IInv, TypeOK
  <2>6. QED
    BY <2>1, <2>2, <2>3, <2>4, <2>5 DEF IInv
<1>14. ASSUME NEW w \in Workers, SetProcessedAtFails(w) PROVE IInv'
  <2>1. JobsAreDistinct'
    BY <1>14 DEF SetProcessedAtFails, Return, IInv, TypeOK, JobsAreDistinct
  <2>2. ProgressMatchesLabel'
    BY <1>14 DEF SetProcessedAtFails, Return, IInv, TypeOK, JobsAreDistinct, ProgressMatchesLabel, BeforeCommit
  <2>3. LockHolderCommits'
    BY <1>14 DEF SetProcessedAtFails, Return, IInv, TypeOK, LockHolderCommits
  <2>4. CountedFinalIsRight'
    BY <1>14, CountedFrame DEF SetProcessedAtFails, Return, IInv, TypeOK
  <2>5. /\ UntakenIsPending' /\ GatewayCalledAtMostOnce' /\ ResultIsTheGatewaysAnswer'
        /\ AnnouncedIsCommitted' /\ FinalBatchStatusIsTruthful'
    BY <1>14, TablesFrame DEF SetProcessedAtFails, Return, IInv, TypeOK
  <2>6. QED
    BY <2>1, <2>2, <2>3, <2>4, <2>5 DEF IInv
<1>15. CASE Crash
  <2> USE <1>15 DEF Crash
  <2>1. JobsAreDistinct' /\ ProgressMatchesLabel' /\ LockHolderCommits'
    BY DEF IInv, TypeOK, JobsAreDistinct, ProgressMatchesLabel, LockHolderCommits
  <2>2. CountedFinalIsRight'
    BY CountedFrame
  <2>3. /\ UntakenIsPending' /\ GatewayCalledAtMostOnce' /\ ResultIsTheGatewaysAnswer'
        /\ AnnouncedIsCommitted' /\ FinalBatchStatusIsTruthful'
    BY TablesFrame DEF IInv, TypeOK
  <2>4. QED
    BY <2>1, <2>2, <2>3 DEF IInv
<1>16. CASE Finished \/ UNCHANGED vars
  <2> USE <1>16 DEF Finished, vars
  <2>1. JobsAreDistinct' /\ ProgressMatchesLabel' /\ LockHolderCommits'
    BY DEF IInv, JobsAreDistinct, ProgressMatchesLabel, BeforeCommit, LockHolderCommits
  <2>2. CountedFinalIsRight'
    BY CountedFrame
  <2>3. /\ UntakenIsPending' /\ GatewayCalledAtMostOnce' /\ ResultIsTheGatewaysAnswer'
        /\ AnnouncedIsCommitted' /\ FinalBatchStatusIsTruthful'
    BY TablesFrame DEF IInv, TypeOK
  <2>4. QED
    BY <2>1, <2>2, <2>3 DEF IInv
<1>17. QED
  BY <1>1, <1>2, <1>3, <1>4, <1>5, <1>6, <1>7, <1>8, <1>9, <1>10, <1>11, <1>12, <1>13, <1>14, <1>15, <1>16 DEF Next, Worker, UpdateStatus

THEOREM InvCorrect == Spec => []IInv
  BY InitInv, NextInv, PTL DEF Spec

\* No payment is handed to the gateway twice.
THEOREM AtMostOneGatewayCall == Spec => []GatewayCalledAtMostOnce
  BY InvCorrect, PTL DEF IInv

\* The stored result of a payment is the gateway's answer, and the call was
\* preceded by the commit of "processing".
THEOREM StoredResultIsTheAnswer == Spec => []ResultIsTheGatewaysAnswer
  BY InvCorrect, PTL DEF IInv

\* Published statuses are committed statuses.
THEOREM PublishedIsCommitted == Spec => []AnnouncedIsCommitted
  BY InvCorrect, PTL DEF IInv

\* A batch that reads "success" or "failed" is finished and reads right, for any
\* number of concurrent workers, failing calls and crashes.
THEOREM FinalBatchStatusTruthful == Spec => []FinalBatchStatusIsTruthful
  BY InvCorrect, PTL DEF IInv

-----------------------------------------------------------------------------
(* wg.Wait returns *)

\* Who is killed is killed with Dispatch.
Killed == \A w \in Workers : pc[w] = "killed" => dispatcher = "killed"

LEMMA KilledNext == IInv /\ Killed /\ [Next]_vars => Killed'
<1> SUFFICES ASSUME IInv, Killed, [Next]_vars PROVE Killed'
  OBVIOUS
<1>t. pc \in [Workers -> Label]
  BY DEF IInv, TypeOK
<1>1. CASE Dispatcher
  BY <1>1 DEF Dispatcher, Push, CloseJobs, PublishBatchDone, Killed
<1>2. ASSUME NEW w \in Workers, Worker(w) PROVE Killed'
  <2>1. \/ Take(w) \/ Exit(w) \/ Announce(w) \/ CallGateway(w)
        \/ SetProcessedAt(w) \/ SetProcessedAtFails(w)
        \/ BeginTx(w) \/ UpdatePayment(w) \/ CountPayments(w) \/ UpdateBatch(w)
        \/ Commit(w) \/ CommitLost(w) \/ UpdateStatusFails(w)
    BY <1>2 DEF Worker, UpdateStatus
  <2>2. dispatcher' = dispatcher
    BY <2>1 DEF Take, Exit, Announce, CallGateway, SetProcessedAt, SetProcessedAtFails, BeginTx,
                UpdatePayment, CountPayments, UpdateBatch, Commit, CommitLost, UpdateStatusFails,
                pool
  <2>3. \E l \in Label \ {"killed"} : pc' = [pc EXCEPT ![w] = l]
    BY <2>1 DEF Take, Exit, Announce, CallGateway, SetProcessedAt, SetProcessedAtFails, BeginTx,
                UpdatePayment, CountPayments, UpdateBatch, Commit, CommitLost, UpdateStatusFails,
                Return, Label, Busy, InTx
  <2> QED
    BY <1>t, <2>2, <2>3 DEF Killed
<1>3. CASE Crash
  BY <1>3 DEF Crash, Killed
<1>4. CASE UNCHANGED vars
  BY <1>4 DEF vars, Killed
<1> QED
  BY <1>1, <1>2, <1>3, <1>4 DEF Next, Finished

\* Who is in a transaction goes on, or the worker that has locked the batch row does.
LEMMA TransactionsGoOn ==
  ASSUME IInv, NEW w \in Workers, pc[w] \in InTx
  PROVE  \E v \in Workers : GoesOn(v)
<1>1. CASE pc[w] = "lock" /\ batchLock # NoWorker
  <2>1. batchLock \in Workers /\ pc[batchLock] = "commit"
    BY <1>1 DEF IInv, TypeOK, LockHolderCommits
  <2> QED
    BY <2>1 DEF GoesOn
<1> QED
  BY <1>1 DEF GoesOn, InTx

\* However many workers share however few connections, Dispatch never waits for workers
\* that all wait for each other.
THEOREM WaitIsForSomebody == Spec => []WaitingIsForWorkers
<1>1. Init => Killed
  BY DEF Init, Killed
<1>2. IInv /\ Killed => WaitingIsForWorkers
  <2> SUFFICES ASSUME IInv, Killed, dispatcher = "waiting",
                      NEW w \in Workers, pc[w] # "exited"
               PROVE  \E v \in Workers : GoesOn(v)
    BY DEF WaitingIsForWorkers
  <2>1. pc[w] \in Label \ {"exited", "killed"}
    BY DEF IInv, TypeOK, Killed
  <2>2. CASE pc[w] \in InTx
    BY <2>2, TransactionsGoOn
  <2>3. CASE pc[w] \in {"receive", "announce", "gateway"}
    BY <2>3 DEF GoesOn
  <2>4. CASE pc[w] \in {"begin", "stamp"} /\ ConnectionFree
    BY <2>4 DEF GoesOn
  <2>5. CASE ~ConnectionFree
    <3> DEFINE open == {v \in Workers : pc[v] \in InTx}
    <3>1. ~(Cardinality(open) < MaxConns)
      BY <2>5 DEF ConnectionFree
    <3>2. open # {}
      BY <3>1, FS_EmptySet, MaxConnsAssumption
    <3> QED
      BY <3>2, TransactionsGoOn
  <2> QED
    BY <2>1, <2>2, <2>3, <2>4, <2>5 DEF Label, Busy
<1> QED
  BY <1>1, <1>2, InvCorrect, KilledNext, PTL DEF Spec

-----------------------------------------------------------------------------
(* WorkerPool implements BatchLedger *)

\* A commit is one step of the ledger.
LEMMA CommitIsAdvance ==
  ASSUME IInv, IInv', NEW w \in Workers, ServerCommit(w)
  PROVE  Ledger!Next
<1>1. job[w] \in Payments /\ target[w] \in Status
  BY NAssumption DEF IInv, TypeOK, JobsAreDistinct, ServerCommit, Busy, InTx, Payments
<1>2. target[w] \in Ledger!Successors(status[job[w]])
  BY DEF IInv, ProgressMatchesLabel, BeforeCommit, ServerCommit, InTx, Ledger!Successors,
         Terminal, Ledger!Terminal
<1>3. batchStatus' \in Ledger!Status
  BY DEF IInv, TypeOK, Status, Terminal, Ledger!Status, Ledger!Terminal
<1>4. batchStatus' \in Ledger!Terminal =>
        Ledger!AllTerminal(status') /\ batchStatus' = Ledger!DeriveBatchStatus(status')
  BY DEF IInv, FinalBatchStatusIsTruthful, AllTerminal, DeriveBatchStatus, Has, Terminal,
         Ledger!AllTerminal, Ledger!DeriveBatchStatus, Ledger!Has, Ledger!Terminal
<1>5. Ledger!Advance(job[w], target[w])
  BY <1>2, <1>3, <1>4 DEF Ledger!Advance, ServerCommit
<1>6. QED
  BY <1>1, <1>5 DEF Ledger!Next, Status, Terminal, Ledger!Status, Ledger!Terminal

\* Every other step leaves the two tables alone.
LEMMA StepIsLedgerStep == IInv /\ IInv' /\ [Next]_vars => [Ledger!Next]_Ledger!ledger
<1> SUFFICES ASSUME IInv, IInv', [Next]_vars PROVE [Ledger!Next]_Ledger!ledger
  OBVIOUS
<1>1. ASSUME NEW w \in Workers, Commit(w) \/ CommitLost(w) PROVE Ledger!Next
  BY <1>1, CommitIsAdvance DEF Commit, CommitLost
<1>2. ASSUME NEW w \in Workers, Worker(w), ~Commit(w), ~CommitLost(w)
      PROVE  UNCHANGED Ledger!ledger
  BY <1>2 DEF Worker, UpdateStatus, Take, Exit, Announce, CallGateway, BeginTx, UpdatePayment,
              CountPayments, UpdateBatch, UpdateStatusFails, SetProcessedAt,
              SetProcessedAtFails, db, Ledger!ledger
<1>3. CASE Dispatcher \/ Crash \/ Finished \/ UNCHANGED vars
  BY <1>3 DEF Dispatcher, Push, CloseJobs, PublishBatchDone, Crash, Finished, vars, db, Ledger!ledger
<1>4. QED
  BY <1>1, <1>2, <1>3 DEF Next

\* What the workers do to the two tables is what BatchLedger allows: payments only
\* move forward, and a final batch status is right and stays.
THEOREM Refinement == Spec => ImplementsLedger
<1>1. Init => Ledger!Init
  BY DEF Init, Ledger!Init
<1>2. QED
  BY <1>1, InvCorrect, StepIsLedgerStep, PTL DEF Spec, ImplementsLedger, Ledger!Spec

-----------------------------------------------------------------------------
(* A pool of one worker *)

\* What the only worker has counted is what its commit will make true.
CountedIsRight ==
  \A w \in Workers : pc[w] \in {"lock", "commit"} => counted[w] = DeriveBatchStatus(Snapshot(w))

LEMMA OneWorkerStep ==
  ASSUME \A w, v \in Workers : w = v
  PROVE  TypeOK /\ CountedIsRight /\ BatchStatusIsDerived /\ [Next]_vars
           => CountedIsRight' /\ BatchStatusIsDerived'
<1> SUFFICES ASSUME TypeOK, CountedIsRight, BatchStatusIsDerived, [Next]_vars
             PROVE  CountedIsRight' /\ BatchStatusIsDerived'
  OBVIOUS
<1> USE DEF db, pool, hist
<1>1. ASSUME NEW w \in Workers, ServerCommit(w), pc'[w] \notin {"lock", "commit"}
      PROVE  CountedIsRight' /\ BatchStatusIsDerived'
  BY <1>1 DEF ServerCommit, CountedIsRight, BatchStatusIsDerived, Snapshot
<1>2. ASSUME NEW w \in Workers, CountPayments(w) PROVE CountedIsRight' /\ BatchStatusIsDerived'
  BY <1>2 DEF TypeOK, CountPayments, CountedIsRight, BatchStatusIsDerived, Snapshot
<1>3. ASSUME UNCHANGED <<status, batchStatus>>,
             \A w \in Workers : pc'[w] \in {"lock", "commit"} =>
               /\ pc[w] \in {"lock", "commit"}
               /\ UNCHANGED <<counted[w], job[w], target[w]>>
      PROVE  CountedIsRight' /\ BatchStatusIsDerived'
  BY <1>3 DEF CountedIsRight, BatchStatusIsDerived, Snapshot
<1>4. CASE \E w \in Workers : Commit(w) \/ CommitLost(w)
  BY <1>1, <1>4 DEF TypeOK, Commit, CommitLost, ServerCommit, Return
<1>5. CASE \E w \in Workers : Worker(w) /\ ~Commit(w) /\ ~CommitLost(w) /\ ~CountPayments(w)
  BY <1>3, <1>5 DEF TypeOK, Worker, UpdateStatus, Take, Exit, Announce, CallGateway, BeginTx,
       UpdatePayment, UpdateBatch, UpdateStatusFails, SetProcessedAt, SetProcessedAtFails, Return
<1>6. CASE Dispatcher \/ Crash \/ Finished \/ UNCHANGED vars
  BY <1>3, <1>6 DEF TypeOK, Dispatcher, Push, CloseJobs, PublishBatchDone, Crash, Finished, vars
<1>7. QED
  BY <1>2, <1>4, <1>5, <1>6 DEF Next

\* With WORKER_POOL_SIZE = 1 the batch row is the derived status after every commit,
\* errors and crashes included: concurrency alone makes it lag.
THEOREM OneWorkerDerives ==
  ASSUME \A w, v \in Workers : w = v
  PROVE  Spec => []BatchStatusIsDerived
<1>1. Init => CountedIsRight /\ BatchStatusIsDerived
  <2> SUFFICES ASSUME Init PROVE CountedIsRight /\ BatchStatusIsDerived
    OBVIOUS
  <2>1. CountedIsRight
    BY DEF Init, CountedIsRight
  <2>2. 1 \in DOMAIN status /\ status[1] = "pending" /\ \A p \in DOMAIN status : status[p] = "pending"
    BY NAssumption DEF Init, Payments
  <2>3. DeriveBatchStatus(status) = "pending"
    BY <2>2 DEF DeriveBatchStatus, Has
  <2>4. QED
    BY <2>1, <2>3 DEF Init, BatchStatusIsDerived
<1>2. QED
  BY <1>1, OneWorkerStep, TypeCorrect, PTL DEF Spec

-----------------------------------------------------------------------------
(* What is missing when the batch is done *)

\* Payments that have been taken from the channel, are in no worker's hands and have
\* not got all a payment is to get.
Lost == {p \in 1..taken : ~Settled(p) /\ \A w \in Workers : pc[w] \in Busy => job[w] # p}

\* A payment is stamped after its result has been announced.
StampedIsAnnounced == \A w \in Workers : pc[w] = "stamp" => announced[job[w]] = status[job[w]]

\* Dispatch comes to its end after the workers, and these after the channel is drained.
EndsInOrder ==
  /\ dispatcher \in {"waiting", "done"} => sent = N
  /\ dispatcher = "done" => \A w \in Workers : pc[w] = "exited"
  /\ \A w \in Workers : /\ pc[w] = "exited" => taken = sent /\ dispatcher # "sending"
                        /\ pc[w] = "killed" => dispatcher = "killed"

\* A payment is lost only with an error of its own.
LostAreFew == dispatcher # "killed" => Cardinality(Lost) <= errors

LEMMA InitAccount == Init => StampedIsAnnounced /\ EndsInOrder /\ LostAreFew
<1> SUFFICES ASSUME Init PROVE StampedIsAnnounced /\ EndsInOrder /\ LostAreFew
  OBVIOUS
<1>1. StampedIsAnnounced /\ EndsInOrder
  BY DEF Init, StampedIsAnnounced, EndsInOrder
<1>2. Lost = {}
  BY DEF Init, Lost
<1>3. QED
  BY <1>1, <1>2, FS_EmptySet DEF Init, LostAreFew

LEMMA StampedStep == IInv /\ StampedIsAnnounced /\ [Next]_vars => StampedIsAnnounced'
<1> SUFFICES ASSUME IInv, StampedIsAnnounced, [Next]_vars PROVE StampedIsAnnounced'
  OBVIOUS
<1>0. /\ pc \in [Workers -> Label] /\ job \in [Workers -> 0..N] /\ target \in [Workers -> Status]
      /\ status \in [Payments -> Status] /\ announced \in [Payments -> Status]
  BY DEF IInv, TypeOK
<1>d. JobsAreDistinct /\ ProgressMatchesLabel
  BY DEF IInv
<1>1. ASSUME NEW w \in Workers, ServerCommit(w), announced' = announced, job'[w] = 0 \/ job' = job,
             pc'[w] # "stamp",
             \A v \in Workers : v # w => pc'[v] = pc[v] /\ job'[v] = job[v]
      PROVE  StampedIsAnnounced'
  <2>1. ASSUME NEW v \in Workers, pc'[v] = "stamp" PROVE announced'[job'[v]] = status'[job'[v]]
    <3>1. v # w /\ pc[v] = "stamp" /\ job'[v] = job[v]
      BY <1>1, <2>1
    <3>2. job[v] # job[w]
      BY <1>1, <1>d, <3>1 DEF ServerCommit, JobsAreDistinct, Busy, InTx
    <3>3. status'[job[v]] = status[job[v]]
      BY <1>0, <1>1, <3>2 DEF ServerCommit
    <3>4. QED
      BY <1>1, <3>1, <3>3 DEF StampedIsAnnounced
  <2>2. QED
    BY <2>1 DEF StampedIsAnnounced
<1>2. ASSUME NEW w \in Workers, Commit(w) \/ CommitLost(w) PROVE StampedIsAnnounced'
  BY <1>0, <1>1, <1>2 DEF Commit, CommitLost, ServerCommit, Return, pool, hist
<1>3. ASSUME NEW w \in Workers, Announce(w) PROVE StampedIsAnnounced'
  <2>1. ASSUME NEW v \in Workers, pc'[v] = "stamp" PROVE announced'[job'[v]] = status'[job'[v]]
    <3>1. job' = job /\ status' = status /\ announced' = [announced EXCEPT ![job[w]] = target[w]]
      BY <1>3 DEF Announce, db, pool
    <3>2. job[w] \in Payments
      BY <1>0, <1>3, <1>d, NAssumption DEF Announce, IInv, TypeOK, JobsAreDistinct, Busy, Payments
    <3>3. CASE v = w
      BY <1>0, <1>3, <1>d, <3>1, <3>2, <3>3 DEF Announce, ProgressMatchesLabel
    <3>4. CASE v # w
      <4>1. pc[v] = "stamp"
        BY <1>0, <1>3, <2>1, <3>4 DEF Announce
      <4>2. job[v] # job[w]
        BY <1>3, <1>d, <3>4, <4>1 DEF Announce, JobsAreDistinct, Busy
      <4>3. QED
        BY <1>0, <3>1, <4>1, <4>2 DEF StampedIsAnnounced
    <3>5. QED
      BY <3>3, <3>4
  <2>2. QED
    BY <2>1 DEF StampedIsAnnounced
<1>4. ASSUME UNCHANGED <<status, announced>>,
             \A v \in Workers : pc'[v] = "stamp" => pc[v] = "stamp" /\ job'[v] = job[v]
      PROVE  StampedIsAnnounced'
  BY <1>4 DEF StampedIsAnnounced
<1>5. ASSUME NEW w \in Workers, Worker(w), ~Commit(w), ~CommitLost(w), ~Announce(w)
      PROVE  StampedIsAnnounced'
  BY <1>0, <1>4, <1>5 DEF Worker, UpdateStatus, Take, Exit, CallGateway, BeginTx, UpdatePayment,
       CountPayments, UpdateBatch, UpdateStatusFails, SetProcessedAt, SetProcessedAtFails, Return,
       db, pool, hist
<1>6. CASE Dispatcher \/ Crash \/ Finished \/ UNCHANGED vars
  BY <1>0, <1>4, <1>6 DEF Dispatcher, Push, CloseJobs, PublishBatchDone, Crash, Finished, vars,
       db, pool, hist
<1>7. QED
  BY <1>2, <1>3, <1>5, <1>6 DEF Next

LEMMA EndsStep == IInv /\ EndsInOrder /\ [Next]_vars => EndsInOrder'
<1> SUFFICES ASSUME IInv, EndsInOrder, [Next]_vars PROVE EndsInOrder'
  OBVIOUS
<1>0. /\ pc \in [Workers -> Label]
      /\ dispatcher \in {"sending", "waiting", "done", "killed"}
  BY DEF IInv, TypeOK
<1>1. CASE Dispatcher
  BY <1>0, <1>1 DEF Dispatcher, Push, CloseJobs, PublishBatchDone, EndsInOrder
<1>2. ASSUME NEW w \in Workers, Worker(w) PROVE EndsInOrder'
  <2>1. pc[w] \notin {"exited", "killed"} /\ UNCHANGED <<dispatcher, sent>>
    BY <1>2 DEF Worker, UpdateStatus, Take, Exit, Announce, CallGateway, BeginTx, UpdatePayment,
         CountPayments, UpdateBatch, Commit, CommitLost, ServerCommit, UpdateStatusFails,
         SetProcessedAt, SetProcessedAtFails, InTx, pool
  <2>2. dispatcher # "done"
    BY <2>1 DEF EndsInOrder
  <2>3. \A v \in Workers : v # w => pc'[v] = pc[v]
    BY <1>0, <1>2 DEF Worker, UpdateStatus, Take, Exit, Announce, CallGateway, BeginTx, UpdatePayment,
         CountPayments, UpdateBatch, Commit, CommitLost, ServerCommit, UpdateStatusFails,
         SetProcessedAt, SetProcessedAtFails, Return
  <2>4. pc'[w] # "killed" /\ (pc'[w] = "exited" => taken = sent /\ dispatcher # "sending")
    BY <1>0, <1>2 DEF Worker, UpdateStatus, Take, Exit, Announce, CallGateway, BeginTx, UpdatePayment,
         CountPayments, UpdateBatch, Commit, CommitLost, ServerCommit, UpdateStatusFails,
         SetProcessedAt, SetProcessedAtFails, Return
  <2>5. taken' = taken \/ (taken # sent /\ pc'[w] = "begin")
    <3>1. taken \in Nat
      BY DEF IInv, TypeOK
    <3>2. QED
      BY <1>0, <1>2, <3>1 DEF Worker, UpdateStatus, Take, Exit, Announce, CallGateway, BeginTx,
         UpdatePayment, CountPayments, UpdateBatch, Commit, CommitLost, ServerCommit,
         UpdateStatusFails, SetProcessedAt, SetProcessedAtFails, pool
  <2>6. QED
    BY <2>1, <2>2, <2>3, <2>4, <2>5 DEF EndsInOrder
<1>3. CASE Crash
  BY <1>0, <1>3 DEF Crash, EndsInOrder
<1>4. CASE Finished \/ UNCHANGED vars
  BY <1>4 DEF Finished, vars, EndsInOrder
<1>5. QED
  BY <1>1, <1>2, <1>3, <1>4 DEF Next

\* A step of a worker loses at most the payment in its hands, and that with an error.
LEMMA LostStep ==
  ASSUME IInv, StampedIsAnnounced, NEW w \in Workers, Worker(w)
  PROVE  \/ Lost' \subseteq Lost /\ errors' = errors
         \/ Lost' \subseteq Lost \cup {job[w]} /\ errors' = errors + 1
<1>0. /\ pc \in [Workers -> Label] /\ job \in [Workers -> 0..N] /\ taken \in 0..N
      /\ status \in [Payments -> Status] /\ announced \in [Payments -> Status]
      /\ stamped \in [Payments -> BOOLEAN]
  BY DEF IInv, TypeOK
<1>d. JobsAreDistinct /\ ProgressMatchesLabel
  BY DEF IInv
<1>p. \A p \in 1..taken : p \in Payments
  BY <1>0, NAssumption DEF Payments
<1>1. ASSUME taken' = taken,
             \A p \in 1..taken : p # job[w] =>
               UNCHANGED <<status[p], announced[p], stamped[p]>>,
             \A v \in Workers : v # w => pc'[v] = pc[v] /\ job'[v] = job[v]
      PROVE  Lost' \subseteq Lost \cup {job[w]}
  <2>1. ASSUME NEW p \in Lost', p # job[w] PROVE p \in Lost
    <3>1. p \in 1..taken /\ ~Settled(p)' /\ \A v \in Workers : pc'[v] \in Busy => job'[v] # p
      BY <1>1, <2>1 DEF Lost
    <3>2. ~Settled(p)
      BY <1>1, <2>1, <3>1 DEF Settled
    <3>3. \A v \in Workers : pc[v] \in Busy => job[v] # p
      BY <1>1, <2>1, <3>1
    <3>4. QED
      BY <3>1, <3>2, <3>3 DEF Lost
  <2>2. QED
    BY <2>1
<1>2. ASSUME Lost' \subseteq Lost \cup {job[w]}, job'[w] = job[w], pc'[w] \in Busy
      PROVE  Lost' \subseteq Lost
  BY <1>2 DEF Lost
<1>3. CASE Take(w)
  <2>1. /\ pc[w] = "receive" /\ taken' = taken + 1
        /\ job' = [job EXCEPT ![w] = taken + 1] /\ pc' = [pc EXCEPT ![w] = "begin"]
        /\ UNCHANGED <<status, announced, stamped, errors>>
    BY <1>3 DEF Take, db, hist
  <2>2. ASSUME NEW p \in Lost' PROVE p \in Lost
    <3>1. p \in 1..(taken + 1) /\ ~Settled(p)' /\ \A v \in Workers : pc'[v] \in Busy => job'[v] # p
      BY <2>1, <2>2 DEF Lost
    <3>2. p # taken + 1
      BY <1>0, <2>1, <3>1 DEF Busy
    <3>3. p \in 1..taken
      BY <1>0, <3>1, <3>2
    <3>4. ~Settled(p)
      BY <2>1, <3>1 DEF Settled
    <3>5. \A v \in Workers : pc[v] \in Busy => job[v] # p
      BY <1>0, <2>1, <3>1 DEF Busy, InTx
    <3>6. QED
      BY <3>3, <3>4, <3>5 DEF Lost
  <2>3. QED
    BY <2>1, <2>2
<1>4. CASE Exit(w)
  <2>1. /\ pc[w] = "receive" /\ pc' = [pc EXCEPT ![w] = "exited"]
        /\ UNCHANGED <<status, announced, stamped, errors, job, taken>>
    BY <1>4 DEF Exit, db, hist, pool
  <2>2. \A v \in Workers : pc[v] \in Busy => pc'[v] \in Busy
    BY <1>0, <2>1 DEF Busy, InTx
  <2>3. QED
    BY <2>1, <2>2 DEF Lost, Settled
<1>5. CASE Announce(w)
  <2>1. /\ announced' = [announced EXCEPT ![job[w]] = target[w]]
        /\ UNCHANGED <<status, stamped, errors, job, taken>>
    BY <1>5 DEF Announce, db, hist, pool
  <2>2. pc'[w] \in Busy /\ \A v \in Workers : v # w => pc'[v] = pc[v]
    BY <1>0, <1>5 DEF Announce, Busy
  <2>3. QED
    BY <1>0, <1>1, <1>2, <1>p, <2>1, <2>2
<1>6. CASE CallGateway(w) \/ BeginTx(w) \/ UpdatePayment(w) \/ CountPayments(w) \/ UpdateBatch(w)
  <2>1. UNCHANGED <<status, announced, stamped, errors, job, taken>>
    BY <1>6 DEF CallGateway, BeginTx, UpdatePayment, CountPayments, UpdateBatch, db, hist, pool
  <2>2. pc'[w] \in Busy /\ \A v \in Workers : v # w => pc'[v] = pc[v]
    BY <1>0, <1>6 DEF CallGateway, BeginTx, UpdatePayment, CountPayments, UpdateBatch, Busy, InTx
  <2>3. QED
    BY <1>1, <1>2, <2>1, <2>2
<1>7. CASE Commit(w)
  <2>1. /\ status' = [status EXCEPT ![job[w]] = target[w]]
        /\ UNCHANGED <<announced, stamped, errors, job, taken>>
    BY <1>7 DEF Commit, ServerCommit, hist, pool
  <2>2. pc'[w] \in Busy /\ \A v \in Workers : v # w => pc'[v] = pc[v]
    BY <1>0, <1>7 DEF Commit, Busy
  <2>3. QED
    BY <1>0, <1>1, <1>2, <1>p, <2>1, <2>2
<1>8. CASE CommitLost(w)
  <2>1. /\ status' = [status EXCEPT ![job[w]] = target[w]]
        /\ UNCHANGED <<announced, stamped, taken>> /\ errors' = errors + 1
    BY <1>8 DEF CommitLost, ServerCommit, hist, pool
  <2>2. \A v \in Workers : v # w => pc'[v] = pc[v] /\ job'[v] = job[v]
    BY <1>0, <1>8 DEF CommitLost, Return
  <2>3. QED
    BY <1>0, <1>1, <1>p, <2>1, <2>2
<1>9. CASE UpdateStatusFails(w)
  <2>1. UNCHANGED <<status, announced, stamped, taken>> /\ errors' = errors + 1
    BY <1>9 DEF UpdateStatusFails, db, hist, pool
  <2>2. \A v \in Workers : v # w => pc'[v] = pc[v] /\ job'[v] = job[v]
    BY <1>0, <1>9 DEF UpdateStatusFails, Return
  <2>3. QED
    BY <1>1, <2>1, <2>2
<1>10. CASE SetProcessedAtFails(w)
  <2>1. UNCHANGED <<status, announced, taken>> /\ errors' = errors + 1
    BY <1>10 DEF SetProcessedAtFails, hist, pool
  <2>2. PICK applied \in BOOLEAN : stamped' = [stamped EXCEPT ![job[w]] = applied]
    BY <1>10 DEF SetProcessedAtFails
  <2>3. \A v \in Workers : v # w => pc'[v] = pc[v] /\ job'[v] = job[v]
    BY <1>0, <1>10 DEF SetProcessedAtFails, Return
  <2>4. \A p \in 1..taken : p # job[w] => stamped'[p] = stamped[p]
    BY <1>0, <1>p, <2>2
  <2>5. QED
    BY <1>1, <2>1, <2>3, <2>4
<1>11. CASE SetProcessedAt(w)
  <2>1. /\ stamped' = [stamped EXCEPT ![job[w]] = TRUE] /\ pc[w] = "stamp"
        /\ UNCHANGED <<status, announced, taken, errors>>
    BY <1>11 DEF SetProcessedAt, hist, pool
  <2>2. \A v \in Workers : v # w => pc'[v] = pc[v] /\ job'[v] = job[v]
    BY <1>0, <1>11 DEF SetProcessedAt, Return
  <2>3. \A p \in 1..taken : p # job[w] => stamped'[p] = stamped[p]
    BY <1>0, <1>p, <2>1
  <2>4. Lost' \subseteq Lost \cup {job[w]}
    BY <1>1, <2>1, <2>2, <2>3
  <2>5. job[w] \in 1..taken
    BY <1>d, <2>1 DEF JobsAreDistinct, Busy
  <2>6. status[job[w]] \in Terminal /\ announced[job[w]] = status[job[w]]
    BY <1>d, <2>1 DEF ProgressMatchesLabel, StampedIsAnnounced
  <2>7. stamped'[job[w]]
    BY <1>0, <1>p, <2>1, <2>5
  <2>8. \A q \in 1..taken : q = job[w] => Settled(q)'
    BY <2>1, <2>6, <2>7 DEF Settled
  <2>9. \A q \in Lost' : q # job[w]
    BY <2>1, <2>8 DEF Lost
  <2>10. QED
    BY <2>1, <2>4, <2>9
<1>12. QED
  BY <1>3, <1>4, <1>5, <1>6, <1>7, <1>8, <1>9, <1>10, <1>11 DEF Worker, UpdateStatus

\* The set of the lost payments is finite.
LEMMA LostIsFinite ==
  ASSUME taken \in Nat PROVE IsFiniteSet(Lost) /\ Cardinality(Lost) \in Nat
<1>1. IsFiniteSet(1..taken)
  BY FS_Interval
<1>2. IsFiniteSet(Lost)
  BY <1>1, FS_Subset DEF Lost
<1>3. QED
  BY <1>2, FS_CardinalityType

LEMMA FewStep ==
  IInv /\ IInv' /\ StampedIsAnnounced /\ EndsInOrder /\ LostAreFew /\ [Next]_vars => LostAreFew'
<1> SUFFICES ASSUME IInv, IInv', StampedIsAnnounced, EndsInOrder, LostAreFew, [Next]_vars,
                    dispatcher' # "killed"
             PROVE  Cardinality(Lost)' <= errors'
  BY DEF LostAreFew
<1>1. taken \in Nat /\ errors \in Nat /\ taken' \in Nat
  BY NAssumption, MaxErrorsAssumption DEF IInv, TypeOK
<1>2. IsFiniteSet(Lost) /\ Cardinality(Lost) \in Nat
  BY <1>1, LostIsFinite
<1>3. CASE Dispatcher \/ Finished \/ UNCHANGED vars
  <2>1. UNCHANGED <<status, announced, stamped, pc, job, taken, errors>>
    BY <1>3 DEF Dispatcher, Push, CloseJobs, PublishBatchDone, Finished, vars, db, hist
  <2>2. dispatcher # "killed"
    BY <1>3 DEF Dispatcher, Push, CloseJobs, PublishBatchDone, Finished, vars
  <2>3. Lost' = Lost
    BY <2>1 DEF Lost, Settled
  <2>4. QED
    BY <2>1, <2>2, <2>3 DEF LostAreFew
<1>4. ASSUME NEW w \in Workers, Worker(w) PROVE Cardinality(Lost)' <= errors'
  <2>1. dispatcher # "killed"
    BY <1>4 DEF Worker, UpdateStatus, Take, Exit, Announce, CallGateway, BeginTx, UpdatePayment,
         CountPayments, UpdateBatch, Commit, CommitLost, UpdateStatusFails,
         SetProcessedAt, SetProcessedAtFails, pool
  <2>2. Cardinality(Lost) <= errors
    BY <2>1 DEF LostAreFew
  <2>3. CASE Lost' \subseteq Lost /\ errors' = errors
    <3>1. Cardinality(Lost') \in Nat /\ Cardinality(Lost') <= Cardinality(Lost)
      BY <1>2, <2>3, FS_Subset, FS_CardinalityType
    <3>2. QED
      BY <1>1, <1>2, <2>2, <2>3, <3>1
  <2>4. CASE Lost' \subseteq Lost \cup {job[w]} /\ errors' = errors + 1
    <3> DEFINE more == Lost \cup {job[w]}
    <3>1. IsFiniteSet(more) /\ Cardinality(more) <= Cardinality(Lost) + 1
      BY <1>2, FS_AddElement, FS_CardinalityType
    <3>2. Cardinality(more) \in Nat
      BY <3>1, FS_CardinalityType
    <3>3. Lost' \subseteq more
      BY <2>4
    <3>4. Cardinality(Lost') \in Nat /\ Cardinality(Lost') <= Cardinality(more)
      BY <3>1, <3>3, FS_Subset, FS_CardinalityType
    <3> HIDE DEF more
    <3>5. QED
      BY <1>1, <1>2, <2>2, <2>4, <3>1, <3>2, <3>4
  <2>5. QED
    BY <1>4, <2>3, <2>4, LostStep
<1>5. CASE Crash
  BY <1>5 DEF Crash
<1>6. QED
  BY <1>3, <1>4, <1>5 DEF Next

\* When batch_done is published every payment is final, announced and stamped, but for
\* at most one per failed database call: for any number of workers and payments.
THEOREM DoneIsAccountedFor == Spec => []DoneAccountsForAllPayments
<1>1. IInv /\ EndsInOrder /\ LostAreFew => DoneAccountsForAllPayments
  <2> SUFFICES ASSUME IInv, EndsInOrder, LostAreFew, dispatcher = "done"
               PROVE  Cardinality({p \in Payments : ~Settled(p)}) <= errors
    BY DEF DoneAccountsForAllPayments
  <2>1. \A w \in Workers : pc[w] = "exited"
    BY DEF EndsInOrder
  <2>2. taken = N
    BY <2>1, WorkersAssumption DEF EndsInOrder
  <2>3. {p \in Payments : ~Settled(p)} = Lost
    BY <2>1, <2>2 DEF Payments, Lost, Busy, InTx
  <2>4. QED
    BY <2>3 DEF LostAreFew
<1>2. QED
  BY <1>1, InitAccount, InvCorrect, StampedStep, EndsStep, FewStep, PTL DEF Spec

-----------------------------------------------------------------------------
(* What the pages count on: WorkerPool implements BatchFeed until a call fails. *)

LEMMA NoneIsLeft ==
  ASSUME NEW left \in SUBSET Payments, Cardinality(left) <= 0
  PROVE  left = {}
<1>1. IsFiniteSet(Payments)
  BY NAssumption, FS_Interval DEF Payments
<1>2. IsFiniteSet(left)
  BY <1>1, FS_Subset
<1>3. Cardinality(left) \in Nat
  BY <1>2, FS_CardinalityType
<1> QED
  BY <1>2, <1>3, FS_EmptySet

\* A commit stores the next status of a payment whose last one has been published.
LEMMA CommitFeeds ==
  ASSUME IInv, NEW w \in Workers, Commit(w)
  PROVE  Feed!Next
<1>1. job[w] \in Payments /\ target[w] \in Status
  BY NAssumption DEF IInv, TypeOK, JobsAreDistinct, Commit, ServerCommit, Busy, InTx, Payments
<1>2. /\ target[w] \in Feed!Successors(status[job[w]])
      /\ announced[job[w]] = status[job[w]]
  BY DEF IInv, ProgressMatchesLabel, BeforeCommit, Commit, ServerCommit, InTx, Feed!Successors,
         Terminal, Feed!Terminal
<1>3. Feed!Commit(job[w], target[w])
  BY <1>2 DEF Feed!Commit, Commit, ServerCommit, hist, pool
<1> QED
  BY <1>1, <1>3 DEF Feed!Next, Status, Terminal, Feed!Status, Feed!Terminal

\* What is announced is what has been stored and was not announced before.
LEMMA AnnounceFeeds ==
  ASSUME IInv, NEW w \in Workers, Announce(w)
  PROVE  Feed!Next
<1>1. job[w] \in Payments
  BY NAssumption DEF IInv, TypeOK, JobsAreDistinct, Announce, Busy, InTx, Payments
<1>2. status[job[w]] = target[w] /\ announced[job[w]] # target[w]
  BY DEF IInv, ProgressMatchesLabel, Announce, Terminal
<1>3. Feed!Publish(job[w])
  BY <1>2 DEF Feed!Publish, Announce, db, pool
<1> QED
  BY <1>1, <1>3 DEF Feed!Next

\* batch_done is published when each payment has been stored and published to its end.
LEMMA DoneFeeds ==
  ASSUME IInv, IInv', DoneAccountsForAllPayments', errors' = 0, PublishBatchDone
  PROVE  Feed!Next
<1>1. \A p \in Payments : Settled(p)'
  <2> DEFINE left == {p \in Payments : ~Settled(p)'}
  <2>1. Cardinality(left) <= 0
    BY DEF PublishBatchDone, DoneAccountsForAllPayments
  <2>2. left = {}
    BY <2>1, NoneIsLeft
  <2> QED
    BY <2>2
<1>2. \A p \in Payments : status[p] \in Terminal /\ announced[p] = status[p]
  BY <1>1 DEF Settled, PublishBatchDone, db, hist
<1>3. announced = status
  BY <1>2 DEF IInv, TypeOK
<1>4. Feed!AllTerminal(status)
  BY <1>2 DEF IInv, TypeOK, Feed!AllTerminal, Terminal, Feed!Terminal
<1>5. Feed!PublishDone
  BY <1>3, <1>4 DEF Feed!PublishDone, PublishBatchDone, db, hist
<1> QED
  BY <1>5 DEF Feed!Next

\* The other steps are not seen by readers; those that would be are failures.
LEMMA StepFeeds ==
  ASSUME IInv, IInv', DoneAccountsForAllPayments', [Next]_vars, errors' = 0
  PROVE  [Feed!Next]_(Feed!feed)
<1>1. errors \in Nat
  BY MaxErrorsAssumption DEF IInv, TypeOK
<1>2. ASSUME NEW w \in Workers, Commit(w) \/ Announce(w) PROVE Feed!Next
  BY <1>2, CommitFeeds, AnnounceFeeds
<1>3. ASSUME NEW w \in Workers, CommitLost(w) PROVE FALSE
  BY <1>1, <1>3 DEF CommitLost
<1>4. ASSUME NEW w \in Workers, Worker(w), ~Commit(w), ~CommitLost(w), ~Announce(w)
      PROVE  UNCHANGED <<status, announced, dispatcher>>
  BY <1>4 DEF Worker, UpdateStatus, Take, Exit, CallGateway, BeginTx, UpdatePayment,
              CountPayments, UpdateBatch, UpdateStatusFails, SetProcessedAt,
              SetProcessedAtFails, db, pool, hist
<1>5. CASE PublishBatchDone
  BY <1>5, DoneFeeds
<1>6. ASSUME Push \/ CloseJobs \/ Crash
      PROVE  UNCHANGED <<status, announced>> /\ dispatcher # "done" /\ dispatcher' # "done"
  BY <1>6 DEF Push, CloseJobs, Crash, db, hist
<1>7. ASSUME UNCHANGED <<status, announced, dispatcher>> PROVE UNCHANGED Feed!feed
  BY <1>7 DEF Feed!feed
<1>8. ASSUME UNCHANGED <<status, announced>>, dispatcher # "done", dispatcher' # "done"
      PROVE  UNCHANGED Feed!feed
  BY <1>8 DEF Feed!feed
<1>9. CASE Finished \/ UNCHANGED vars
  BY <1>7, <1>9 DEF Finished, vars
<1> QED
  BY <1>2, <1>3, <1>4, <1>5, <1>6, <1>7, <1>8, <1>9 DEF Next, Dispatcher

\* Until a database call fails, readers of the tables and of the stream see what the model
\* of the page expects of its backend, however the workers interleave and whenever the
\* process dies.
THEOREM PoolFeedsReaders == Spec => FeedUntilError
<1>1. Init => Feed!Init
  <2> SUFFICES ASSUME Init PROVE Feed!Init
    OBVIOUS
  <2>1. (dispatcher = "done") = FALSE
    BY DEF Init
  <2> QED
    BY <2>1 DEF Init, Feed!Init
<1>2. IInv /\ IInv' /\ DoneAccountsForAllPayments' /\ [Next]_vars
        => [errors' = 0 => [Feed!Next]_(Feed!feed)]_vars
  BY StepFeeds
<1> QED
  BY <1>1, <1>2, InvCorrect, DoneIsAccountedFor, PTL DEF Spec, FeedUntilError

\* For any number of workers, payments and failures, the pool keeps what it promises
\* its readers.
THEOREM PromisesAreKept == Spec => KeepsItsPromises
  BY Refinement, PoolFeedsReaders, PTL DEF KeepsItsPromises

=============================================================================
