----------------------------- MODULE WorkerPool -----------------------------
(***************************************************************************)
(* Pool.Dispatch and Pool.process for one batch, down to the statements of *)
(* the repository transaction they run.                                    *)
(*                                                                         *)
(* Dispatch starts the workers, pushes the payment ids into a buffered     *)
(* channel, closes it, waits for the workers and announces batch_done.  A  *)
(* worker takes a payment, commits "processing", announces it, calls the   *)
(* gateway, commits and announces the result, and stamps processed_at.     *)
(*                                                                         *)
(* UpdateStatus runs at READ COMMITTED: its first statement updates the    *)
(* payment, its second one counts the batch's payments in the snapshot the *)
(* statement starts with (the transaction's own update is visible, other   *)
(* uncommitted ones are not), waits for the row lock of the batch and      *)
(* writes the status derived from the counts it already has.  The lock is  *)
(* held until the transaction ends.                                        *)
(*                                                                         *)
(* The channel holds the ids taken+1 .. sent: it is FIFO and large enough  *)
(* for all of them, so two cursors say what it contains.                   *)
(***************************************************************************)
EXTENDS Naturals, FiniteSets, PaymentStatus

CONSTANTS
  N,          \* payments of the batch, numbered in the order of the upload
  Workers,    \* the goroutines Dispatch starts: numWorkers of them
  NoWorker,   \* nobody holds the row lock of the batch
  MaxConns,   \* size of the pgx connection pool
  MaxErrors,  \* bound on the database calls that fail
  MayCrash    \* whether the process may be killed

ASSUME NAssumption         == N \in Nat \ {0}
ASSUME WorkersAssumption   == Workers # {} /\ NoWorker \notin Workers
ASSUME MaxConnsAssumption  == MaxConns \in Nat \ {0}
ASSUME MaxErrorsAssumption == MaxErrors \in Nat
ASSUME MayCrashAssumption  == MayCrash \in BOOLEAN

Payments == 1..N

VARIABLES
  status,       \* payments.status, committed
  batchStatus,  \* batches.status, committed
  stamped,      \* payments.processed_at is set
  batchLock,    \* the worker whose transaction has updated the batch row
  dispatcher,   \* where Dispatch is
  sent, taken,  \* payments pushed into the channel, and taken out of it
  pc,           \* where each worker is
  job,          \* the payment a worker processes, 0 for none
  target,       \* the status its UpdateStatus call is to write
  counted,      \* the batch status its second statement has derived
  calls,        \* how often ProcessPayment was called for a payment
  outcome,      \* what the gateway answered
  announced,    \* the last status published for a payment
  errors        \* database calls that have failed so far

db   == <<status, batchStatus, stamped>>
pool == <<dispatcher, sent, taken>>
hist == <<calls, outcome, announced>>
vars == <<status, batchStatus, stamped, batchLock, dispatcher, sent, taken,
          pc, job, target, counted, calls, outcome, announced, errors>>

InTx  == {"payment", "count", "lock", "commit"}
Busy  == InTx \cup {"begin", "announce", "gateway", "stamp"}
Label == Busy \cup {"receive", "exited", "killed"}

TypeOK ==
  /\ status \in [Payments -> Status]
  /\ batchStatus \in Status
  /\ stamped \in [Payments -> BOOLEAN]
  /\ batchLock \in Workers \cup {NoWorker}
  /\ dispatcher \in {"sending", "waiting", "done", "killed"}
  /\ sent \in 0..N
  /\ taken \in 0..N
  /\ pc \in [Workers -> Label]
  /\ job \in [Workers -> 0..N]
  /\ target \in [Workers -> Status]
  /\ counted \in [Workers -> Status]
  /\ calls \in [Payments -> Nat]
  /\ outcome \in [Payments -> Terminal \cup {"none"}]
  /\ announced \in [Payments -> Status]
  /\ errors \in 0..MaxErrors

Init ==
  /\ status = [p \in Payments |-> "pending"]
  /\ batchStatus = "pending"
  /\ stamped = [p \in Payments |-> FALSE]
  /\ batchLock = NoWorker
  /\ dispatcher = "sending"
  /\ sent = 0
  /\ taken = 0
  /\ pc = [w \in Workers |-> "receive"]
  /\ job = [w \in Workers |-> 0]
  /\ target = [w \in Workers |-> "pending"]
  /\ counted = [w \in Workers |-> "pending"]
  /\ calls = [p \in Payments |-> 0]
  /\ outcome = [p \in Payments |-> "none"]
  /\ announced = [p \in Payments |-> "pending"]
  /\ errors = 0

-----------------------------------------------------------------------------
(* Dispatch *)

Push ==
  /\ dispatcher = "sending"
  /\ sent < N
  /\ sent' = sent + 1
  /\ UNCHANGED <<db, batchLock, dispatcher, taken, pc, job, target, counted, hist, errors>>

CloseJobs ==
  /\ dispatcher = "sending"
  /\ sent = N
  /\ dispatcher' = "waiting"
  /\ UNCHANGED <<db, batchLock, sent, taken, pc, job, target, counted, hist, errors>>

\* Mutation: batch_done once the channel is drained, without the wait group.
PublishBatchDoneUnwaited ==
  /\ dispatcher = "waiting"
  /\ taken = N
  /\ dispatcher' = "done"
  /\ UNCHANGED <<db, batchLock, sent, taken, pc, job, target, counted, hist, errors>>

PublishBatchDone ==
  /\ dispatcher = "waiting"
  /\ \A w \in Workers : pc[w] = "exited"
  /\ dispatcher' = "done"
  /\ UNCHANGED <<db, batchLock, sent, taken, pc, job, target, counted, hist, errors>>

-----------------------------------------------------------------------------
(* The worker loop *)

Take(w) ==
  /\ pc[w] = "receive"
  /\ taken < sent
  /\ taken' = taken + 1
  /\ job' = [job EXCEPT ![w] = taken + 1]
  /\ target' = [target EXCEPT ![w] = "processing"]
  /\ pc' = [pc EXCEPT ![w] = "begin"]
  /\ UNCHANGED <<db, batchLock, dispatcher, sent, counted, hist, errors>>

Exit(w) ==
  /\ pc[w] = "receive"
  /\ taken = sent
  /\ dispatcher # "sending"
  /\ pc' = [pc EXCEPT ![w] = "exited"]
  /\ UNCHANGED <<db, batchLock, pool, job, target, counted, hist, errors>>

\* process returns: the worker goes back to its range loop.
Return(w) ==
  /\ pc' = [pc EXCEPT ![w] = "receive"]
  /\ job' = [job EXCEPT ![w] = 0]
  /\ target' = [target EXCEPT ![w] = "pending"]
  /\ counted' = [counted EXCEPT ![w] = "pending"]

\* What process does once UpdateStatus has returned nil: publish the status;
\* then it calls the gateway, or stamps the payment.
Announce(w) ==
  /\ pc[w] = "announce"
  /\ announced' = [announced EXCEPT ![job[w]] = target[w]]
  /\ pc' = [pc EXCEPT ![w] = IF target[w] = "processing" THEN "gateway" ELSE "stamp"]
  /\ UNCHANGED <<db, batchLock, pool, job, target, counted, calls, outcome, errors>>

\* What ProcessPayment may answer: its context is never cancelled, so it waits its
\* delay out and draws success or failure.
Answers == Terminal

\* Mutation: the answer is published before it is stored.
CallGatewayAndAnnounce(w) ==
  /\ pc[w] = "gateway"
  /\ \E answer \in Answers :
       /\ outcome' = [outcome EXCEPT ![job[w]] = answer]
       /\ target' = [target EXCEPT ![w] = answer]
       /\ announced' = [announced EXCEPT ![job[w]] = answer]
  /\ calls' = [calls EXCEPT ![job[w]] = @ + 1]
  /\ pc' = [pc EXCEPT ![w] = "begin"]
  /\ UNCHANGED <<db, batchLock, pool, job, counted, errors>>

\* The gateway's answer decides which status UpdateStatus is called with next.
CallGateway(w) ==
  /\ pc[w] = "gateway"
  /\ \E answer \in Answers :
       /\ outcome' = [outcome EXCEPT ![job[w]] = answer]
       /\ target' = [target EXCEPT ![w] = answer]
  /\ calls' = [calls EXCEPT ![job[w]] = @ + 1]
  /\ pc' = [pc EXCEPT ![w] = "begin"]
  /\ UNCHANGED <<db, batchLock, pool, job, counted, announced, errors>>

-----------------------------------------------------------------------------
(* UpdateStatus: one transaction on one pooled connection *)

ConnectionFree == Cardinality({w \in Workers : pc[w] \in InTx}) < MaxConns

BeginTx(w) ==
  /\ pc[w] = "begin"
  /\ ConnectionFree
  /\ pc' = [pc EXCEPT ![w] = "payment"]
  /\ UNCHANGED <<db, batchLock, pool, job, target, counted, hist, errors>>

UpdatePayment(w) ==
  /\ pc[w] = "payment"
  /\ pc' = [pc EXCEPT ![w] = "count"]
  /\ UNCHANGED <<db, batchLock, pool, job, target, counted, hist, errors>>

\* The payments a statement of w's transaction sees: committed, and its own.
Snapshot(w) == [status EXCEPT ![job[w]] = target[w]]

CountPayments(w) ==
  /\ pc[w] = "count"
  /\ counted' = [counted EXCEPT ![w] = DeriveBatchStatus(Snapshot(w))]
  /\ pc' = [pc EXCEPT ![w] = "lock"]
  /\ UNCHANGED <<db, batchLock, pool, job, target, hist, errors>>

\* Mutation: the batch row is written outside the payment's transaction.
UpdateBatchAutocommit(w) ==
  /\ pc[w] = "lock"
  /\ batchLock = NoWorker
  /\ batchLock' = w
  /\ batchStatus' = counted[w]
  /\ pc' = [pc EXCEPT ![w] = "commit"]
  /\ UNCHANGED <<status, stamped, pool, job, target, counted, hist, errors>>

UpdateBatch(w) ==
  /\ pc[w] = "lock"
  /\ batchLock = NoWorker
  /\ batchLock' = w
  /\ pc' = [pc EXCEPT ![w] = "commit"]
  /\ UNCHANGED <<db, pool, job, target, counted, hist, errors>>

\* The server commits: both updates become visible, the row lock is released.
ServerCommit(w) ==
  /\ pc[w] = "commit"
  /\ status' = [status EXCEPT ![job[w]] = target[w]]
  /\ batchStatus' = counted[w]
  /\ batchLock' = NoWorker
  /\ UNCHANGED stamped

Commit(w) ==
  /\ ServerCommit(w)
  /\ pc' = [pc EXCEPT ![w] = "announce"]
  /\ UNCHANGED <<pool, job, target, counted, hist, errors>>

\* A commit that fails for the caller, its answer being lost.
CommitLost(w) ==
  /\ errors < MaxErrors
  /\ ServerCommit(w)
  /\ Return(w)
  /\ errors' = errors + 1
  /\ UNCHANGED <<pool, hist>>

\* Mutation: a failed UpdateStatus starts the payment over.
UpdateStatusRetries(w) ==
  /\ pc[w] \in InTx \cup {"begin"}
  /\ errors < MaxErrors
  /\ batchLock' = IF batchLock = w THEN NoWorker ELSE batchLock
  /\ pc' = [pc EXCEPT ![w] = "gateway"]
  /\ errors' = errors + 1
  /\ UNCHANGED <<db, pool, job, target, counted, hist>>

\* Mutation: a failed UpdateStatus leaves its transaction open.
UpdateStatusWithoutRollback(w) ==
  /\ pc[w] \in InTx \cup {"begin"}
  /\ errors < MaxErrors
  /\ Return(w)
  /\ errors' = errors + 1
  /\ UNCHANGED <<db, batchLock, pool, hist>>

\* Any call of the transaction fails: rollback, and process gives the payment up.
UpdateStatusFails(w) ==
  /\ pc[w] \in InTx \cup {"begin"}
  /\ errors < MaxErrors
  /\ batchLock' = IF batchLock = w THEN NoWorker ELSE batchLock
  /\ Return(w)
  /\ errors' = errors + 1
  /\ UNCHANGED <<db, pool, hist>>

SetProcessedAt(w) ==
  /\ pc[w] = "stamp"
  /\ ConnectionFree
  /\ stamped' = [stamped EXCEPT ![job[w]] = TRUE]
  /\ Return(w)
  /\ UNCHANGED <<status, batchStatus, batchLock, pool, hist, errors>>

\* The error is only logged; an update whose answer is lost has been applied.
SetProcessedAtFails(w) ==
  /\ pc[w] = "stamp"
  /\ errors < MaxErrors
  /\ \E applied \in BOOLEAN : stamped' = [stamped EXCEPT ![job[w]] = applied]
  /\ Return(w)
  /\ errors' = errors + 1
  /\ UNCHANGED <<status, batchStatus, batchLock, pool, hist>>

-----------------------------------------------------------------------------
\* The process dies: the channel and the goroutines are gone, the server rolls
\* open transactions back.  main starts without looking for unfinished batches,
\* so nothing of this batch ever runs again.
Crash ==
  /\ MayCrash
  /\ dispatcher \notin {"done", "killed"}
  /\ dispatcher' = "killed"
  /\ pc' = [w \in Workers |-> "killed"]
  /\ batchLock' = NoWorker
  /\ UNCHANGED <<db, sent, taken, job, target, counted, hist, errors>>

\* Dispatch has returned, or died with the process.
Finished ==
  /\ dispatcher \in {"done", "killed"}
  /\ UNCHANGED vars

Dispatcher == Push \/ CloseJobs \/ PublishBatchDone

UpdateStatus(w) ==
  \/ BeginTx(w) \/ UpdatePayment(w) \/ CountPayments(w) \/ UpdateBatch(w)
  \/ Commit(w) \/ CommitLost(w) \/ UpdateStatusFails(w)

Worker(w) ==
  \/ Take(w) \/ Exit(w) \/ Announce(w) \/ CallGateway(w)
  \/ UpdateStatus(w)
  \/ SetProcessedAt(w) \/ SetProcessedAtFails(w)

Next == Dispatcher \/ (\E w \in Workers : Worker(w)) \/ Crash \/ Finished

Spec == Init /\ [][Next]_vars

\* Goroutines are scheduled, the gateway's timer fires, the database answers.
FairSpec == Spec /\ WF_vars(Dispatcher) /\ \A w \in Workers : WF_vars(Worker(w))

-----------------------------------------------------------------------------
(* Properties *)

\* The two columns are those of the abstract specification, the rest is internal.
Ledger == INSTANCE BatchLedger WITH status <- status, batchStatus <- batchStatus

\* A payment reaches the gateway at most once, whichever worker handles it.
GatewayCalledAtMostOnce == \A p \in Payments : calls[p] <= 1

\* The gateway is only called for a payment whose "processing" is committed,
\* and a final status in the table is the answer the gateway gave: a stored
\* result never precedes, contradicts or stands in for the call.
ResultIsTheGatewaysAnswer ==
  \A p \in Payments :
    /\ calls[p] > 0 => status[p] # "pending"
    /\ status[p] \in Terminal => status[p] = outcome[p]

\* Subscribers are never told of a status the database does not have: what was
\* published for a payment is its committed status, or the one before it.
AnnouncedIsCommitted ==
  \A p \in Payments :
    announced[p] = status[p] \/ status[p] \in Ledger!Successors(announced[p])

\* However the transactions of the workers interleave, fail or are cut off by a
\* crash, a batch row that reads "success" or "failed" is right: every payment
\* is final and the row agrees with them.
FinalBatchStatusIsTruthful ==
  batchStatus \in Terminal =>
    AllTerminal(status) /\ batchStatus = DeriveBatchStatus(status)

\* Nothing is lost on the way without an error: when batch_done is published,
\* each payment has a final status that was announced and stamped, except for
\* at most one payment per database call that failed.
Settled(p) == status[p] \in Terminal /\ announced[p] = status[p] /\ stamped[p]

DoneAccountsForAllPayments ==
  dispatcher = "done" => Cardinality({p \in Payments : ~Settled(p)}) <= errors

\* The two tables keep the promise of BatchLedger: payments only move forward,
\* and a final batch status is truthful and is never overwritten by a worker
\* that counted earlier.
ImplementsLedger == Ledger!Spec

\* What the pages of the frontend count on: as long as no database call has failed, every
\* step of the pool is one that readers of the tables and the stream expect.
Feed == INSTANCE BatchFeed WITH stored <- status, published <- announced,
                                done <- dispatcher = "done"

FeedUntilError == Feed!Init /\ [][errors' = 0 => [Feed!Next]_(Feed!feed)]_vars

\* What the pool owes to whoever reads the tables or follows the stream, however its
\* workers interleave: the ledger whatever fails, the feed while nothing does.
KeepsItsPromises == ImplementsLedger /\ FeedUntilError

\* With one worker the batch row always is the status derived from its payments.
BatchStatusIsDerived == batchStatus = DeriveBatchStatus(status)

\* When the batch is done its row has the status derived from its payments.
DoneBatchStatusIsDerived == dispatcher = "done" => BatchStatusIsDerived

\* batch_done reports every payment as completed: none is pending or processing.
DoneReportsCompletedPayments == dispatcher = "done" => AllTerminal(status)

\* The next step of a worker waits for nobody: these are the guards of its steps.
GoesOn(w) ==
  \/ pc[w] \in {"payment", "count", "commit", "announce", "gateway"}
  \/ pc[w] = "receive" /\ (taken < sent \/ dispatcher # "sending")
  \/ pc[w] \in {"begin", "stamp"} /\ ConnectionFree
  \/ pc[w] = "lock" /\ batchLock = NoWorker

\* wg.Wait returns: while it waits, a worker that is left goes on, without a call having
\* to fail for it.  A worker waits for a pooled connection, and with one in hand for the
\* batch row, but they never all wait for each other.
WaitingIsForWorkers ==
  dispatcher = "waiting" =>
    (\A w \in Workers : pc[w] = "exited") \/ \E w \in Workers : GoesOn(w)

\* Dispatch comes to publish batch_done unless the process is killed: workers waiting for
\* the batch row or for a pooled connection do not wait for one another forever.
DispatchCompletes == <>(dispatcher \in {"done", "killed"})

=============================================================================
