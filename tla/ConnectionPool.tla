--------------------------- MODULE ConnectionPool ---------------------------
(***************************************************************************)
(* What the batches of one server share.  Every Dispatch starts its own    *)
(* numWorkers workers, so their number grows with the batches under way,   *)
(* while all of them, and every request that reads or writes batches, draw *)
(* from one pool of connections.  A worker's transaction then waits for    *)
(* the row of its batch with the connection in hand.                       *)
(*                                                                         *)
(* WorkerPool has the statements of one batch; here a call of the          *)
(* repository is known by what it occupies.                                *)
(***************************************************************************)
EXTENDS Naturals, Sequences, FiniteSets, SequencesExt

CONSTANTS
  Batches, Requests,
  NumWorkers,  \* numWorkers of the pool
  NumPayments, \* payments of every batch
  MaxConns,    \* connections of the pgx pool
  MaxFaults,   \* bound on calls that fail and requests that are cancelled
  None

ASSUME NumbersAssumption == NumWorkers \in Nat \ {0} /\ MaxConns \in Nat \ {0}
ASSUME ConnectionsBounds == NumPayments \in Nat /\ MaxFaults \in Nat

Workers == Batches \X (1..NumWorkers)
Holders == Workers \cup Requests

ASSUME HoldersAssumption == Workers \cap Requests = {} /\ None \notin Holders

VARIABLES
  dispatched, \* batches whose Dispatch has been called
  jobs,       \* payments left in the channel of a batch
  at,         \* where a client is in what it does
  call,       \* the repository call a worker is in: UpdateStatus, UpdateStatus, SetProcessedAt
  queue,      \* clients that wait for a connection
  holders,    \* clients that have one
  row,        \* the worker that has locked the row of a batch
  faults

connectionsVars == <<dispatched, jobs, at, call, queue, holders, row, faults>>

ConnectionsTypeOK ==
  /\ dispatched \subseteq Batches
  /\ jobs \in [Batches -> 0..NumPayments]
  /\ at \in [Holders -> {"idle", "ready", "waiting", "holding", "locked", "gateway", "done"}]
  /\ call \in [Workers -> 0..3]
  /\ queue \in Seq(Holders) /\ IsInjective(queue)
  /\ holders \subseteq Holders /\ Cardinality(holders) <= MaxConns
  /\ row \in [Batches -> Workers \cup {None}]
  /\ faults \in 0..MaxFaults

ConnectionsInit ==
  /\ dispatched = {}
  /\ jobs = [b \in Batches |-> NumPayments]
  /\ at = [c \in Holders |-> "idle"]
  /\ call = [w \in Workers |-> 0]
  /\ queue = <<>>
  /\ holders = {}
  /\ row = [b \in Batches |-> None]
  /\ faults = 0

-----------------------------------------------------------------------------
(* The pool of connections: first come, first served, and no time limit *)

Ask(c) ==
  /\ at' = [at EXCEPT ![c] = "waiting"]
  /\ queue' = Append(queue, c)

Grant ==
  /\ queue # <<>>
  /\ Cardinality(holders) < MaxConns
  /\ holders' = holders \cup {Head(queue)}
  /\ at' = [at EXCEPT ![Head(queue)] = "holding"]
  /\ queue' = Tail(queue)
  /\ UNCHANGED <<dispatched, jobs, call, row, faults>>

-----------------------------------------------------------------------------
(* Workers *)

\* go func() for each of the numWorkers, and all payments into the channel.
Dispatch(b) ==
  /\ b \notin dispatched
  /\ dispatched' = dispatched \cup {b}
  /\ at' = [c \in Holders |-> IF c \in Workers /\ c[1] = b THEN "ready" ELSE at[c]]
  /\ UNCHANGED <<jobs, call, queue, holders, row, faults>>

Take(w) ==
  /\ at[w] = "ready" /\ jobs[w[1]] > 0
  /\ jobs' = [jobs EXCEPT ![w[1]] = @ - 1]
  /\ call' = [call EXCEPT ![w] = 1]
  /\ Ask(w)
  /\ UNCHANGED <<dispatched, holders, row, faults>>

\* The channel is closed and empty.
Exit(w) ==
  /\ at[w] = "ready" /\ jobs[w[1]] = 0
  /\ at' = [at EXCEPT ![w] = "done"]
  /\ UNCHANGED <<dispatched, jobs, call, queue, holders, row, faults>>

\* The second statement of UpdateStatus locks the row of the batch.
LockRow(w) ==
  /\ at[w] = "holding" /\ call[w] < 3
  /\ row[w[1]] = None
  /\ row' = [row EXCEPT ![w[1]] = w]
  /\ at' = [at EXCEPT ![w] = "locked"]
  /\ UNCHANGED <<dispatched, jobs, call, queue, holders, faults>>

\* The transaction is over: row and connection are free again.
Release(w) ==
  /\ holders' = holders \ {w}
  /\ row' = [b \in Batches |-> IF row[b] = w THEN None ELSE row[b]]

\* Mutation: SetProcessedAt is called inside the transaction, on a connection of its own.
CommitAfterProcessedAt(w) ==
  /\ at[w] = "locked"
  /\ call' = [call EXCEPT ![w] = @ + 1]
  /\ IF call[w] = 1 THEN /\ Release(w)
                         /\ at' = [at EXCEPT ![w] = "gateway"]
                         /\ UNCHANGED queue
     ELSE Ask(w) /\ UNCHANGED <<holders, row>>
  /\ UNCHANGED <<dispatched, jobs, faults>>

\* "processing" is stored: to the gateway; the result is: on to SetProcessedAt.
Commit(w) ==
  /\ at[w] = "locked"
  /\ Release(w)
  /\ call' = [call EXCEPT ![w] = @ + 1]
  /\ IF call[w] = 1 THEN at' = [at EXCEPT ![w] = "gateway"] /\ UNCHANGED queue
                    ELSE Ask(w)
  /\ UNCHANGED <<dispatched, jobs, faults>>

GatewayAnswers(w) ==
  /\ at[w] = "gateway"
  /\ Ask(w)
  /\ UNCHANGED <<dispatched, jobs, call, holders, row, faults>>

SetProcessedAt(w) ==
  /\ at[w] = "holding" /\ call[w] = 3
  /\ Release(w)
  /\ at' = [at EXCEPT ![w] = "ready"]
  /\ call' = [call EXCEPT ![w] = 0]
  /\ UNCHANGED <<dispatched, jobs, queue, faults>>

\* Mutation: no deferred Rollback.
CallFailsUnrolled(w) ==
  /\ at[w] \in {"holding", "locked"}
  /\ faults < MaxFaults
  /\ at' = [at EXCEPT ![w] = "ready"]
  /\ call' = [call EXCEPT ![w] = 0]
  /\ faults' = faults + 1
  /\ UNCHANGED <<dispatched, jobs, queue, holders, row>>

\* A statement fails: rolled back, and on to the next payment.
CallFails(w) ==
  /\ at[w] \in {"holding", "locked"}
  /\ faults < MaxFaults
  /\ Release(w)
  /\ at' = [at EXCEPT ![w] = "ready"]
  /\ call' = [call EXCEPT ![w] = 0]
  /\ faults' = faults + 1
  /\ UNCHANGED <<dispatched, jobs, queue>>

-----------------------------------------------------------------------------
(* Requests, each known by the statement it is in *)

Arrive(r) ==
  /\ at[r] = "idle"
  /\ Ask(r)
  /\ UNCHANGED <<dispatched, jobs, call, holders, row, faults>>

AnswerRequest(r) ==
  /\ at[r] = "holding"
  /\ holders' = holders \ {r}
  /\ at' = [at EXCEPT ![r] = "done"]
  /\ UNCHANGED <<dispatched, jobs, call, queue, row, faults>>

\* The context of the request ends, and with it the wait or the statement.
Cancel(r) ==
  /\ faults < MaxFaults
  /\ \/ at[r] = "holding" /\ UNCHANGED queue
     \/ at[r] = "waiting" /\ \E i \in DOMAIN queue : queue[i] = r /\ queue' = RemoveAt(queue, i)
  /\ holders' = holders \ {r}
  /\ at' = [at EXCEPT ![r] = "done"]
  /\ faults' = faults + 1
  /\ UNCHANGED <<dispatched, jobs, call, row>>

-----------------------------------------------------------------------------
Worker(w) == Take(w) \/ Exit(w) \/ LockRow(w) \/ Commit(w) \/ GatewayAnswers(w) \/ SetProcessedAt(w)

Finished == \A c \in Holders : at[c] = "done"

ConnectionsNext ==
  \/ Grant
  \/ \E b \in Batches : Dispatch(b)
  \/ \E w \in Workers : Worker(w) \/ CallFails(w)
  \/ \E r \in Requests : Arrive(r) \/ AnswerRequest(r) \/ Cancel(r)
  \/ Finished /\ UNCHANGED connectionsVars

ConnectionsSpec == ConnectionsInit /\ [][ConnectionsNext]_connectionsVars

\* A goroutine is scheduled, the database executes statements, a lock that is free
\* again and again is given to whoever waits.
Fairness ==
  /\ WF_connectionsVars(Grant)
  /\ \A w \in Workers : WF_connectionsVars(Worker(w)) /\ SF_connectionsVars(LockRow(w))
  /\ \A r \in Requests : WF_connectionsVars(AnswerRequest(r))

ConnectionsFairSpec == ConnectionsSpec /\ Fairness

-----------------------------------------------------------------------------
(* Nobody waits for a connection while it has one, or the row of a batch:   *)
(* the nesting that would let the batches of a server block each other.     *)
(* process calls the repository again only after a call has returned.       *)
NoHoldAndWait ==
  \A c \in Range(queue) : c \notin holders /\ \A b \in Batches : row[b] # c

(* Whatever is given up, by an error too, is given back: a connection or a  *)
(* row is held only by a client that is at work with it.                    *)
NothingLeaks ==
  /\ \A c \in holders : at[c] \in {"holding", "locked"}
  /\ \A b \in Batches : row[b] # None => at[row[b]] = "locked"

(* What is held is in use: waiting for a connection is not, and neither is  *)
(* waiting for the gateway, so that the other workers of the batch, and the *)
(* requests of the page that watches it, go on.                             *)
HeldIsInUse == NoHoldAndWait /\ NothingLeaks

(* The next statement of a client waits for nobody: these are the guards of *)
(* its steps.                                                               *)
GoesOn(c) ==
  \/ at[c] \in {"ready", "locked", "gateway"}
  \/ at[c] = "waiting" /\ queue # <<>> /\ Head(queue) = c /\ Cardinality(holders) < MaxConns
  \/ at[c] = "holding" /\ (c \in Workers => call[c] = 3 \/ row[c[1]] = None)

(* However many batches and requests queue for the connections, and however *)
(* many workers for the row of a batch, they do not all wait for each other *)
(* - nor for a call to fail: while anybody has work to do, somebody goes on.*)
SomebodyGoesOn ==
  (\E c \in Holders : at[c] \notin {"idle", "done"}) => \E c \in Holders : GoesOn(c)

(* The connections are shared: nobody keeps one without using it, and       *)
(* whoever wants one waits for somebody who goes on.                        *)
ConnectionsAreShared == HeldIsInUse /\ SomebodyGoesOn

(* Every Dispatch comes to its end, however many of them share the          *)
(* connections: wg.Wait returns.                                            *)
DispatchesEnd ==
  \A b \in Batches : b \in dispatched ~> \A i \in 1..NumWorkers : at[<<b, i>>] = "done"

(* A request is answered, whatever number of workers queues with it.        *)
RequestsAreAnswered ==
  \A r \in Requests : at[r] = "waiting" ~> at[r] = "done"

(* One pool of connections serves them all.                                 *)
EverybodyIsServed == DispatchesEnd /\ RequestsAreAnswered
=============================================================================
