----------------------------- MODULE BatchView -----------------------------
(***************************************************************************)
(* What the detail page of a batch shows while the batch is processed: the *)
(* slice batchDetails, the hook useBatchStream that feeds it, and the      *)
(* requests and the stream that connect them to the backend.               *)
(*                                                                         *)
(* The backend appears as it looks from outside.  A worker commits a       *)
(* status and then publishes it; batch_done follows the last payment; a    *)
(* stream on a finished batch is answered with a batch_done at once; and   *)
(* the answer to a detail request is put together from two queries, the    *)
(* counts first and the payments after them.                               *)
(*                                                                         *)
(* A detail request has no abort signal and nothing orders its answer with *)
(* other answers or with the events of the stream.                         *)
(***************************************************************************)
EXTENDS Integers, Sequences, FiniteSets, Functions, PaymentStatus

CONSTANTS
  Payments,   \* the payments of the batch
  MaxMounts,  \* bound on how often the page is opened
  MaxQueries, \* bound on the queries of the page that its cache does not answer
  Faults,     \* what may fail: "stream", "snapshot", "access"
  MaxFaults,  \* bound on how often something fails
  Denials     \* whether the batch is one the user may not see: the possible answers

ASSUME PaymentsAssumption   == IsFiniteSet(Payments) /\ Payments # {}
ASSUME MaxMountsAssumption  == MaxMounts \in Nat
ASSUME MaxQueriesAssumption == MaxQueries \in Nat
ASSUME FaultsAssumption     == Faults \subseteq {"stream", "snapshot", "access"}
ASSUME MaxFaultsAssumption  == MaxFaults \in Nat
ASSUME DenialsAssumption    == Denials \subseteq BOOLEAN

Update(p, s) == [payment |-> p, status |-> s]
BatchDone    == [payment |-> "all", status |-> "done"]
Event        == [payment : Payments, status : Status] \cup {BatchDone}

VARIABLES
  denied,    \* the batch is somebody else's, or does not exist
  stored,    \* payments.status, committed
  published, \* the last status published for each payment
  done,      \* batch_done has been published
  requests,  \* detail requests that have not been answered
  made,      \* number of detail requests made so far
  hook,      \* where the loop of useBatchStream is
  retries,   \* its retryCount
  wire,      \* events sent on the open stream and not read yet
  mounts,    \* how often the page has been opened
  faults,    \* how often something has failed
  loaded,    \* the slice has a detail
  shown,     \* detail.payments[].status
  count,     \* detail.status_count
  completed, \* progress.completedPayments
  stream,    \* stream.status
  applied    \* history: the detail request whose answer the slice took over last, counted
             \* from 1

backend  == <<denied, stored, published, done>>
slice    == <<loaded, shown, count, completed, stream, applied>>
loop     == <<hook, retries, wire>>
viewVars == <<denied, stored, published, done, requests, made, hook, retries, wire,
          mounts, faults, loaded, shown, count, completed, stream, applied>>

\* The two queries of a detail request: not run yet, counted, both run.
Request == [id : Nat, step : {"asked", "counted", "answered"},
            count : [Status -> Nat], shown : [Payments -> Status]]

ViewTypeOK ==
  /\ denied \in BOOLEAN
  /\ stored \in [Payments -> Status]
  /\ published \in [Payments -> Status]
  /\ done \in BOOLEAN
  /\ requests \in SUBSET Request
  /\ made \in Nat
  /\ hook \in {"off", "asking", "accepted", "reading", "waiting", "done", "failed"}
  /\ retries \in Nat
  /\ wire \in Seq(Event)
  /\ mounts \in 0..MaxMounts
  /\ faults \in 0..MaxFaults
  /\ loaded \in BOOLEAN
  /\ shown \in [Payments -> Status]
  /\ count \in [Status -> Nat]
  /\ completed \in Nat
  /\ stream \in {"idle", "connecting", "connected", "reconnecting",
                 "disconnected", "completed", "error"}
  /\ applied \in Nat

AllPending == [p \in Payments |-> "pending"]
NoCounts   == [s \in Status |-> 0]

ViewInit ==
  /\ denied \in Denials
  /\ stored = AllPending
  /\ published = AllPending
  /\ done = FALSE
  /\ requests = {}
  /\ made = 0
  /\ hook = "off"
  /\ retries = 0
  /\ wire = <<>>
  /\ mounts = 0
  /\ faults = 0
  /\ loaded = FALSE
  /\ shown = AllPending
  /\ count = NoCounts
  /\ completed = 0
  /\ stream = "idle"
  /\ applied = 0

-----------------------------------------------------------------------------
(* The backend *)

Successors(s) == CASE s = "pending"    -> {"processing"}
                   [] s = "processing" -> Terminal
                   [] OTHER            -> {}

\* A worker commits the next status of a payment.
Commit(p) ==
  /\ published[p] = stored[p]
  /\ \E s \in Successors(stored[p]) : stored' = [stored EXCEPT ![p] = s]
  /\ UNCHANGED <<denied, published, done, requests, made, loop, mounts, faults, slice>>

\* The stream of the page gets the event if it is subscribed and not closing.
Emit(e) ==
  wire' = IF hook \in {"accepted", "reading"} /\ ~denied /\ BatchDone \notin Range(wire)
          THEN Append(wire, e) ELSE wire

Publish(p) ==
  /\ published[p] # stored[p]
  /\ published' = [published EXCEPT ![p] = stored[p]]
  /\ Emit(Update(p, stored[p]))
  /\ UNCHANGED <<denied, stored, done, requests, made, hook, retries, mounts, faults, slice>>

PublishDone ==
  /\ ~done
  /\ AllTerminal(stored) /\ published = stored
  /\ done' = TRUE
  /\ Emit(BatchDone)
  /\ UNCHANGED <<denied, stored, published, requests, made, hook, retries, mounts, faults, slice>>

\* Mutation: the stream is handed out without looking at the counts.
AcceptUncounted ==
  /\ hook = "asking"
  /\ hook' = "accepted"
  /\ UNCHANGED <<backend, requests, made, retries, wire, mounts, faults, slice>>

\* The server subscribes the request; a finished batch is answered with batch_done.
\* The handler flushes before it knows whether the user may see the batch, so the
\* answer is a 200 either way: a refusal is a stream without events.
Accept ==
  /\ hook = "asking"
  /\ hook' = "accepted"
  /\ wire' = IF AllTerminal(stored) /\ ~denied THEN <<BatchDone>> ELSE <<>>
  /\ UNCHANGED <<backend, requests, made, retries, mounts, faults, slice>>

\* syncBatchDetail and the query of the page: one more detail request.  One that the
\* server refuses changes nothing on the page and is not kept.
Ask == IF denied THEN UNCHANGED <<requests, made>>
       ELSE /\ requests' = requests \cup
                 {[id |-> made, step |-> "asked", count |-> NoCounts, shown |-> AllPending]}
            /\ made' = made + 1

StoredCount == [s \in Status |-> Cardinality({p \in Payments : stored[p] = s})]

\* GetByID: CountByStatus.
CountByStatus(r) ==
  /\ r.step = "asked"
  /\ requests' = (requests \ {r}) \cup {[r EXCEPT !.step = "counted", !.count = StoredCount]}
  /\ UNCHANGED <<backend, made, loop, mounts, faults, slice>>

\* GetByID: FindByBatchID.
FindByBatchID(r) ==
  /\ r.step = "counted"
  /\ requests' = (requests \ {r}) \cup {[r EXCEPT !.step = "answered", !.shown = stored]}
  /\ UNCHANGED <<backend, made, loop, mounts, faults, slice>>

-----------------------------------------------------------------------------
(* Reducers of the slice *)

\* applyHydratedDetail
Hydrate(r) ==
  /\ loaded' = TRUE
  /\ shown' = r.shown
  /\ count' = r.count
  /\ completed' = r.count["success"] + r.count["failed"]
  /\ applied' = r.id + 1

\* Mutation: the decrement is not clamped.
MoveUnclamped(from, to) ==
  IF from = to THEN count ELSE [count EXCEPT ![from] = 0 - 1 + @, ![to] = @ + 1]

\* Mutation: an event counts although the payment already has its status.
MoveRepeated(from, to) == [count EXCEPT ![to] = @ + 1]

\* decrementStatusCount, clamped at zero, and incrementStatusCount.
Move(from, to) ==
  IF from = to THEN count
  ELSE [count EXCEPT ![from] = IF @ > 0 THEN @ - 1 ELSE 0, ![to] = @ + 1]

\* streamEventReceived for a payment: nothing to update before a detail is loaded.
PaymentEvent(e) ==
  /\ IF loaded
     THEN /\ shown' = [shown EXCEPT ![e.payment] = e.status]
          /\ count' = Move(shown[e.payment], e.status)
          /\ completed' = count'["success"] + count'["failed"]
     ELSE UNCHANGED <<shown, count, completed>>
  /\ UNCHANGED <<loaded, stream, applied>>

\* Mutation: whatever is still open is shown as successful.
DoneEventMarksSuccess ==
  /\ completed' = Cardinality(Payments)
  /\ stream' = "completed"
  /\ shown' = [p \in Payments |-> IF shown[p] \in Terminal THEN shown[p] ELSE "success"]
  /\ UNCHANGED <<loaded, count, applied>>

\* applyBatchDoneState
DoneEvent ==
  /\ completed' = Cardinality(Payments)
  /\ stream' = "completed"
  /\ count' = IF loaded THEN [count EXCEPT !["pending"] = 0, !["processing"] = 0] ELSE count
  /\ UNCHANGED <<loaded, shown, applied>>

Stream(s) == stream' = s /\ UNCHANGED <<loaded, shown, count, completed, applied>>

-----------------------------------------------------------------------------
(* The hook *)

\* The page is opened: its query asks for the detail, or finds it in its cache,
\* and the effect of the hook starts its loop.
Mount ==
  /\ hook = "off"
  /\ mounts < MaxMounts
  /\ mounts' = mounts + 1
  /\ hook' = "asking"
  /\ retries' = 0
  /\ Stream("connecting")
  /\ IF mounts < MaxQueries THEN Ask ELSE UNCHANGED <<requests, made>>
  /\ UNCHANGED <<backend, wire, faults>>

\* The effect is cleaned up: the page is left, or the token is gone.
Unmount ==
  /\ hook # "off"
  /\ hook' = "off"
  /\ wire' = <<>>
  /\ IF hook = "done" \/ stream = "completed" THEN UNCHANGED slice ELSE Stream("disconnected")
  /\ UNCHANGED <<backend, requests, made, retries, mounts, faults>>

\* The answer has arrived: the snapshot is asked for and nobody waits for it.
Connected ==
  /\ hook = "accepted"
  /\ hook' = "reading"
  /\ retries' = 0
  /\ Stream("connected")
  /\ Ask
  /\ UNCHANGED <<backend, wire, mounts, faults>>

ReadPaymentEvent ==
  /\ hook = "reading"
  /\ wire # <<>> /\ Head(wire) # BatchDone
  /\ PaymentEvent(Head(wire))
  /\ wire' = Tail(wire)
  /\ UNCHANGED <<backend, requests, made, hook, retries, mounts, faults>>

\* Mutation: the snapshot of the end is not asked for.
ReadBatchDoneUnsynced ==
  /\ hook = "reading"
  /\ wire # <<>> /\ Head(wire) = BatchDone
  /\ DoneEvent
  /\ hook' = "done"
  /\ wire' = <<>>
  /\ UNCHANGED <<backend, requests, made, retries, mounts, faults>>

\* batch_done: ask for a last snapshot, close the stream, leave the loop.
ReadBatchDone ==
  /\ hook = "reading"
  /\ wire # <<>> /\ Head(wire) = BatchDone
  /\ DoneEvent
  /\ Ask
  /\ hook' = "done"
  /\ wire' = <<>>
  /\ UNCHANGED <<backend, retries, mounts, faults>>

MayFail(f) == f \in Faults /\ faults < MaxFaults /\ faults' = faults + 1

\* The stream ends early, or is refused with another error: wait and try again.
StreamBreaks ==
  /\ hook \in {"asking", "accepted", "reading"}
  /\ MayFail("stream")
  /\ hook' = "waiting"
  /\ wire' = <<>>
  /\ retries' = retries + 1
  /\ Stream("reconnecting")
  /\ UNCHANGED <<backend, requests, made, mounts>>

\* The timer of waitForRetry fires.
Reconnect ==
  /\ hook = "waiting"
  /\ hook' = "asking"
  /\ Stream(IF retries > 0 THEN "reconnecting" ELSE "connecting")
  /\ UNCHANGED <<backend, requests, made, retries, wire, mounts, faults>>

\* The body of a refusal comes to its end, and the hook takes it for a stream that broke.
RefusalEnds ==
  /\ hook = "reading" /\ denied
  /\ hook' = "waiting"
  /\ retries' = retries + 1
  /\ Stream("reconnecting")
  /\ UNCHANGED <<backend, requests, made, wire, mounts, faults>>

\* A 401, which the middleware answers before the handler: no further attempt.  It also
\* ends the session, and with it the page: Unmount.
Refused ==
  /\ hook = "asking"
  /\ MayFail("access")
  /\ hook' = "failed"
  /\ Stream("error")
  /\ UNCHANGED <<backend, requests, made, retries, wire, mounts>>

\* The answer to a detail request arrives, whatever has happened to the page and whatever
\* was asked for later.
Answer(r) ==
  /\ r.step = "answered"
  /\ Hydrate(r)
  /\ requests' = requests \ {r}
  /\ UNCHANGED <<backend, made, loop, mounts, faults, stream>>

\* A detail request fails: the hook ignores it.
RequestFails(r) ==
  /\ MayFail("snapshot")
  /\ requests' = requests \ {r}
  /\ UNCHANGED <<backend, made, loop, mounts, slice>>

-----------------------------------------------------------------------------
Backend == PublishDone \/ \E p \in Payments : Commit(p) \/ Publish(p)

Serve(r) == CountByStatus(r) \/ FindByBatchID(r) \/ Answer(r)

Hook == Accept \/ Connected \/ ReadPaymentEvent \/ ReadBatchDone \/ RefusalEnds \/ Reconnect

ViewNext ==
  \/ Backend
  \/ Hook
  \/ \E r \in requests : Serve(r) \/ RequestFails(r)
  \/ Mount \/ Unmount
  \/ StreamBreaks \/ Refused

ViewSpec == ViewInit /\ [][ViewNext]_viewVars

\* The backend works, the network delivers, React runs the effects.  Nobody is
\* obliged to open or leave the page, and nothing has to fail.
ViewFairness ==
  /\ WF_viewVars(Backend)
  /\ WF_viewVars(Hook)
  /\ WF_viewVars(\E r \in requests : Serve(r))

ViewFairSpec == ViewSpec /\ ViewFairness

-----------------------------------------------------------------------------
(* Properties *)

\* What processing promises to readers, in general and while no call fails; the view is
\* checked against a backend that keeps both promises, and WorkerPool is shown to keep them.
Ledger == INSTANCE BatchLedger WITH status <- stored, batchStatus <- DeriveBatchStatus(stored)

StoredIsALedger == Ledger!Spec

Feed == INSTANCE BatchFeed

BackendIsAFeed == Feed!Spec

\* s is a status that a payment now at t may have had.
NotAfter(s, t) == s \in {"pending", t} \/ (s = "processing" /\ t \in Terminal)

\* In whatever order snapshots and events arrive, the page never shows a status
\* the payment has not reached, and never a result that is not the stored one.
ShownIsNotAhead == \A p \in Payments : NotAfter(shown[p], stored[p])

\* The counters of the page may lag behind its list, never run ahead of it: no more
\* payments are counted as successful, or as failed, than the list shows as such, and the
\* progress bar counts none that is not final in the database.  The counts of a snapshot
\* are older than its payments, events repeat what it knows, and decrements are clamped.
CountersAreNotAhead ==
  /\ \A s \in Terminal : count[s] <= Cardinality({p \in Payments : shown[p] = s})
  /\ completed <= Cardinality({p \in Payments : stored[p] \in Terminal})

\* In whatever order snapshots, events and reconnects come, the page is never ahead of
\* the table, neither in its list nor in its counters.
PageIsNotAhead == ShownIsNotAhead /\ CountersAreNotAhead

\* A page that stays open comes to know how its batch ends, whatever broke meanwhile.
WatchingEnds == []<>(hook \in {"off", "done", "failed"})

\* The page shows the batch as it is stored, in the list, the counters and the progress.
ViewIsStored ==
  loaded /\ shown = stored /\ count = StoredCount /\ completed = Cardinality(Payments)

\* Once the page has read batch_done and taken over the answer it asked for last, and no
\* older one after it, it shows the batch as it is stored.
LastSnapshotIsTrue == stream = "completed" /\ applied = made => ViewIsStored

\* While no detail request fails, the answer asked for last does come, and when it comes the
\* page shows the batch as it is.  It need not be the last to come: an older one may follow
\* and put an older state of the batch back.
LastSnapshotComes ==
  stream = "completed" /\ (\E r \in requests : r.id + 1 = made)
    ~> stream # "completed" \/ ViewIsStored

\* A page that is kept open sees the end of its batch, and comes to see the batch as it is;
\* it goes back from there only if the answer to an older detail request comes last.
WatchingSucceeds == WatchingEnds /\ LastSnapshotComes /\ []LastSnapshotIsTrue

\* What "resynchronizes batch details after connecting and completing the stream" promises:
\* in the end the page, if it is still open, shows the batch as it is stored.
CompletedViewIsStored == <>[](stream = "completed" /\ hook # "off" => ViewIsStored)

=============================================================================
