---------------------------- MODULE WorkerPoolInv ----------------------------
(***************************************************************************)
(* The inductive invariant of WorkerPool, in named parts.  TLC checks it   *)
(* on small instances, WorkerPool_proofs proves it for all of them.        *)
(***************************************************************************)
EXTENDS WorkerPool

\* The channel hands each payment to one worker.
JobsAreDistinct ==
  /\ taken <= sent
  /\ \A w \in Workers : pc[w] \in Busy => job[w] \in 1..taken
  /\ \A w, v \in Workers :
       pc[w] \in Busy /\ pc[v] \in Busy /\ job[w] = job[v] => w = v

\* Nobody has touched a payment that is still in the channel.
UntakenIsPending ==
  \A p \in Payments : p > taken => status[p] = "pending" /\ announced[p] = "pending" /\ calls[p] = 0

\* Before the commit of an UpdateStatus call: the payment still has, in the table
\* and for the subscribers, the status the call is to move it on from.
BeforeCommit(w, p) ==
  /\ announced[p] = status[p]
  /\ \/ target[w] = "processing" /\ status[p] = "pending" /\ calls[p] = 0
     \/ target[w] \in Terminal /\ status[p] = "processing" /\ calls[p] = 1 /\ outcome[p] = target[w]

\* Where a worker is says how far its payment has come.
ProgressMatchesLabel ==
  \A w \in Workers :
    LET p == job[w] IN
    /\ pc[w] \in InTx \cup {"begin"} => BeforeCommit(w, p)
    /\ pc[w] = "announce" =>
         /\ status[p] = target[w]
         /\ target[w] = "processing" => announced[p] = "pending" /\ calls[p] = 0
         /\ target[w] # "processing" => target[w] \in Terminal /\ announced[p] = "processing"
    /\ pc[w] = "gateway" => status[p] = "processing" /\ announced[p] = "processing" /\ calls[p] = 0
    /\ pc[w] = "stamp" => status[p] \in Terminal

\* The row lock belongs to the worker that is about to commit.
LockHolderCommits == \A w \in Workers : batchLock = w <=> pc[w] = "commit"

\* A worker that counted only final payments counted the final payments: no other
\* worker has one left to move.
CountedFinalIsRight ==
  \A w \in Workers :
    pc[w] \in {"lock", "commit"} /\ counted[w] \in Terminal =>
      AllTerminal(Snapshot(w)) /\ counted[w] = DeriveBatchStatus(Snapshot(w))

\* The conjunction that every step preserves.
IInv ==
  /\ TypeOK
  /\ JobsAreDistinct
  /\ UntakenIsPending
  /\ ProgressMatchesLabel
  /\ LockHolderCommits
  /\ CountedFinalIsRight
  /\ GatewayCalledAtMostOnce
  /\ ResultIsTheGatewaysAnswer
  /\ AnnouncedIsCommitted
  /\ FinalBatchStatusIsTruthful

=============================================================================
