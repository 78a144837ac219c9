---------------------------- MODULE BatchStream ----------------------------
(***************************************************************************)
(* The stream endpoint of a batch while the batch is being processed:      *)
(* Service.Stream and Handler.Stream on top of StreamBroker, the workers   *)
(* of WorkerPool reduced to what a stream can observe of them (a status is *)
(* committed, then published), and clients that connect again when a       *)
(* stream ends before they have seen batch_done.                           *)
(*                                                                         *)
(* Service.Stream subscribes first and counts the final payments           *)
(* afterwards.  If they are all there it drops the subscription and hands  *)
(* the client a channel with a batch_done of its own making.               *)
(***************************************************************************)
EXTENDS StreamBroker

CONSTANTS
  Clients,      \* browsers that watch the batch
  Attempts,     \* bound on the stream requests of one client
  Total,        \* batches.total_payments
  MaxFailures   \* bound on the database calls that fail

ASSUME WorkersAssumption     == IsFiniteSet(Workers)
ASSUME SubsAssumption        == Subs = Clients \X (1..Attempts)
ASSUME TotalAssumption       == Total \in Nat \ {0} /\ Events >= 2 * Total
ASSUME MaxFailuresAssumption == MaxFailures \in Nat

VARIABLES
  left,      \* payments no worker has taken yet
  final,     \* payments whose final status is committed
  work,      \* what each worker does next
  failures,  \* database calls that have failed so far
  request,   \* where Service.Stream is in each stream request
  seen       \* the clients that have seen a batch_done

progress   == <<left, final, work>>
streamVars == <<vars, progress, failures, request, seen>>

StreamTypeOK ==
  /\ TypeOK
  /\ left \in 0..Total
  /\ final \in 0..Total
  /\ work \in [Workers -> {"take", "announce processing", "gateway", "announce result"}]
  /\ failures \in 0..MaxFailures
  /\ request \in [Subs -> {"none", "counting", "streaming", "answered"}]
  /\ seen \in SUBSET Clients

StreamInit ==
  /\ Init
  /\ left = Total
  /\ final = 0
  /\ work = [w \in Workers |-> "take"]
  /\ failures = 0
  /\ request = [s \in Subs |-> "none"]
  /\ seen = {}

-----------------------------------------------------------------------------
(* Workers *)

Ready(w, step) == Running /\ stage[w] = "idle" /\ work[w] = step

\* Take a payment and commit "processing".
StartPayment(w) ==
  /\ Ready(w, "take")
  /\ left > 0
  /\ left' = left - 1
  /\ work' = [work EXCEPT ![w] = "announce processing"]
  /\ UNCHANGED <<vars, final, failures, request, seen>>

\* The gateway has answered: commit the final status.
FinishPayment(w) ==
  /\ Ready(w, "gateway")
  /\ final' = final + 1
  /\ work' = [work EXCEPT ![w] = "announce result"]
  /\ UNCHANGED <<vars, left, failures, request, seen>>

\* Either UpdateStatus call of process fails: the payment never becomes final, or
\* it does without being announced when only the answer to the commit is lost.
GiveUpPayment(w) ==
  /\ failures < MaxFailures
  /\ \/ Ready(w, "take") /\ left > 0 /\ left' = left - 1 /\ UNCHANGED <<final, work>>
     \/ /\ Ready(w, "gateway")
        /\ final' \in {final, final + 1}
        /\ work' = [work EXCEPT ![w] = "take"]
        /\ UNCHANGED left
  /\ failures' = failures + 1
  /\ UNCHANGED <<vars, request, seen>>

Announce(w) ==
  /\ work[w] \in {"announce processing", "announce result"}
  /\ PublishPaymentStatus(w)
  /\ work' = [work EXCEPT ![w] = IF @ = "announce processing" THEN "gateway" ELSE "take"]
  /\ UNCHANGED <<left, final, failures, request, seen>>

WorkerReturns(w) ==
  /\ work[w] = "take"
  /\ left = 0
  /\ Return(w)
  /\ UNCHANGED <<progress, failures, request, seen>>

PoolWorker(w) ==
  \/ StartPayment(w) \/ FinishPayment(w) \/ GiveUpPayment(w) \/ Announce(w) \/ WorkerReturns(w)
  \/ Publisher(w) /\ UNCHANGED <<progress, failures, request, seen>>

PoolDispatch == Dispatch /\ UNCHANGED <<progress, failures, request, seen>>

-----------------------------------------------------------------------------
(* Stream requests *)

\* The client has no request open and has not been told that the batch is done.
Wanted(s) ==
  /\ s[1] \notin seen
  /\ \A i \in 1 .. s[2] - 1 : request[<<s[1], i>>] = "answered"

\* Service.Stream, up to the subscription.
Open(s) ==
  /\ Wanted(s)
  /\ Subscribe(s)
  /\ request' = [request EXCEPT ![s] = "counting"]
  /\ UNCHANGED <<progress, failures, seen>>

\* Mutations: off by one in either direction.
CompleteTooEarly == final + 1 >= Total

CompleteNever == final > Total

\* batchProcessingComplete
Complete == final >= Total

\* Mutation: the stream is handed out without looking at the counts.
CountIgnored(s) ==
  /\ Running
  /\ request[s] = "counting"
  /\ request' = [request EXCEPT ![s] = "streaming"]
  /\ UNCHANGED <<vars, progress, failures, seen>>

\* Not all payments are final: the handler goes on to read the subscription.
CountIncomplete(s) ==
  /\ Running
  /\ request[s] = "counting"
  /\ ~Complete
  /\ request' = [request EXCEPT ![s] = "streaming"]
  /\ UNCHANGED <<vars, progress, failures, seen>>

\* All payments are final: close the subscription and stream a synthetic event.
CountComplete(s) ==
  /\ request[s] = "counting"
  /\ Complete
  /\ Leave(s)
  /\ request' = [request EXCEPT ![s] = "answered"]
  /\ seen' = seen \cup {s[1]}
  /\ UNCHANGED <<progress, failures>>

\* CountByStatus fails: close the subscription, answer 500.
CountFails(s) ==
  /\ request[s] = "counting"
  /\ failures < MaxFailures
  /\ Leave(s)
  /\ request' = [request EXCEPT ![s] = "answered"]
  /\ failures' = failures + 1
  /\ UNCHANGED <<progress, seen>>

\* Handler.Stream forwards an event; a client that reads batch_done is through.
Forward(s) ==
  /\ request[s] = "streaming"
  /\ Receive(s)
  /\ seen' = IF Head(chan[s]) = BatchDone THEN seen \cup {s[1]} ELSE seen
  /\ UNCHANGED <<progress, failures, request>>

EndStream(s) ==
  /\ request[s] = "streaming"
  /\ EndOfStream(s)
  /\ request' = [request EXCEPT ![s] = "answered"]
  /\ UNCHANGED <<progress, failures, seen>>

\* The connection breaks.  The last attempt of a client is not broken, which
\* bounds how often this happens.
BreakStream(s) ==
  /\ request[s] = "streaming"
  /\ s[2] < Attempts
  /\ Disconnect(s)
  /\ request' = [request EXCEPT ![s] = "answered"]
  /\ UNCHANGED <<progress, failures, seen>>

\* Nothing to forward: the handler's ticker fires, a comment line is written.
KeepAlive(s) ==
  /\ Running
  /\ request[s] = "streaming"
  /\ UNCHANGED streamVars

StreamRequest(s) ==
  \/ Open(s) \/ CountIncomplete(s) \/ CountComplete(s) \/ CountFails(s)
  \/ Forward(s) \/ EndStream(s)

\* The batch is done and no request is under way, or the process is dead.
Quiet ==
  /\ \/ ~Running
     \/ /\ stage[Dispatcher] = "returned"
        /\ \A s \in Subs : request[s] \in {"none", "answered"}
        /\ \A c \in Clients : c \in seen \/ request[<<c, Attempts>>] = "answered"
  /\ UNCHANGED streamVars

StreamNext ==
  \/ \E w \in Workers : PoolWorker(w)
  \/ PoolDispatch
  \/ \E s \in Subs : StreamRequest(s) \/ BreakStream(s) \/ KeepAlive(s)
  \/ Quiet

StreamSpec == StreamInit /\ [][StreamNext]_streamVars

\* Goroutines are scheduled, the database answers, clients read and reconnect.
FairStreamSpec ==
  /\ StreamSpec
  /\ \A w \in Workers : WF_streamVars(PoolWorker(w))
  /\ WF_streamVars(PoolDispatch)
  /\ \A s \in Subs : WF_streamVars(StreamRequest(s))

-----------------------------------------------------------------------------
(* Properties *)

\* Unless a database call has failed, no stream outlives its batch: once batch_done has
\* been published and the batch closed, a subscription that is still in the map belongs
\* to a request that has yet to count, and will find the batch complete.  After a failure
\* the counts may never be complete, and such a request is handed a stream that nobody
\* closes (the run on ClientsLearnTheEnd with a failing call).
NoOrphanedStream ==
  stage[Dispatcher] = "returned" /\ failures = 0 =>
    \A s \in registered : request[s] = "counting" /\ Complete

\* A client is told that the batch is done only after every payment that could be
\* recorded has its final status, whichever way it learns it.
DoneIsNotEarly == seen # {} => final + failures >= Total

\* Every client that keeps watching learns that the batch is done, unless the
\* process dies or all its attempts are used up.
ClientsLearnTheEnd ==
  \A c \in Clients : <>(c \in seen \/ ~Running \/ request[<<c, Attempts>>] = "answered")

=============================================================================
