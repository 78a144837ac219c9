---------------------------- MODULE StreamBroker ----------------------------
(***************************************************************************)
(* The broker that carries the progress of one batch to its SSE requests   *)
(* (batch/stream.go), with the goroutines that use it: the workers that    *)
(* publish payment events, Dispatch that publishes batch_done once they    *)
(* have all returned and then closes the batch, and one handler per        *)
(* subscription that reads its channel until it is closed or the client    *)
(* goes away.                                                              *)
(*                                                                         *)
(* publish copies the subscribers under the read lock and sends after      *)
(* releasing it; a channel is closed under the write lock by whoever takes *)
(* its subscription out of the map.  A send on a closed channel and a      *)
(* second close panic; nothing recovers a worker, so the process dies.     *)
(***************************************************************************)
EXTENDS Naturals, Sequences, FiniteSets

CONSTANTS
  Workers,     \* goroutines of the pool
  Dispatcher,  \* the goroutine of Dispatch
  Subs,        \* subscriptions: each stream request gets one of its own
  Buffer,      \* capacity of a subscriber's channel
  Events       \* bound on the events a worker publishes

ASSUME PublishersAssumption == Workers # {} /\ Dispatcher \notin Workers
ASSUME BufferAssumption     == Buffer \in Nat \ {0}
ASSUME EventsAssumption     == Events \in Nat

Publishers == Workers \cup {Dispatcher}

\* An event is known by its publisher and its place among the events of that one.
Event     == Publishers \X Nat
BatchDone == <<Dispatcher, 1>>

VARIABLES
  registered,  \* b.subscribers[batchID]
  chan,        \* what each channel has in its buffer
  closed,      \* whether each channel has been closed
  stage,       \* where each publisher is in publish
  current,     \* the number of events each publisher has begun to publish
  todo,        \* copied subscribers it has still to send the event to
  stale,       \* subscribers whose channel it found full
  handler,     \* what the handler of each subscription is doing
  received,    \* what each handler has read
  joined,      \* for each subscription, what had been published when it began
  panicked     \* the runtime panic that has killed the process

broker == <<registered, chan, closed>>
pub    == <<stage, current, todo, stale>>
reader == <<handler, received, joined>>
vars   == <<registered, chan, closed, stage, current, todo, stale,
            handler, received, joined, panicked>>

Running == panicked = "no"

TypeOK ==
  /\ registered \in SUBSET Subs
  /\ chan \in [Subs -> Seq(Event)]
  /\ \A s \in Subs : Len(chan[s]) <= Buffer
  /\ closed \in [Subs -> BOOLEAN]
  /\ stage \in [Publishers -> {"idle", "sending", "evicting", "closing", "returned"}]
  /\ current \in [Publishers -> Nat]
  /\ todo \in [Publishers -> SUBSET Subs]
  /\ stale \in [Publishers -> SUBSET Subs]
  /\ handler \in [Subs -> {"new", "reading", "left"}]
  /\ received \in [Subs -> Seq(Event)]
  /\ joined \in [Subs -> [Publishers -> Nat]]
  /\ panicked \in {"no", "send on closed channel", "close of closed channel"}

Init ==
  /\ registered = {}
  /\ chan = [s \in Subs |-> <<>>]
  /\ closed = [s \in Subs |-> FALSE]
  /\ stage = [p \in Publishers |-> "idle"]
  /\ current = [p \in Publishers |-> 0]
  /\ todo = [p \in Publishers |-> {}]
  /\ stale = [p \in Publishers |-> {}]
  /\ handler = [s \in Subs |-> "new"]
  /\ received = [s \in Subs |-> <<>>]
  /\ joined = [s \in Subs |-> [p \in Publishers |-> 0]]
  /\ panicked = "no"

-----------------------------------------------------------------------------
(* Operations of the broker *)

\* close(ch) for each channel of S, taken out of the map in the same critical section.
CloseAll(S) ==
  /\ registered' = registered \ S
  /\ closed' = [s \in Subs |-> closed[s] \/ s \in S]
  /\ panicked' = IF \E s \in S : closed[s] THEN "close of closed channel" ELSE panicked
  /\ UNCHANGED chan

\* Mutation: the channel is closed without looking the subscription up.
RemoveSubscriberUnchecked(s) == CloseAll({s})

RemoveSubscriber(s) == CloseAll({s} \cap registered)

CloseBatch == CloseAll(registered)

\* Mutation: an event that does not fit is dropped and the subscriber kept.
SendOrDrop(p, s) ==
  /\ todo' = [todo EXCEPT ![p] = @ \ {s}]
  /\ UNCHANGED <<registered, closed, stale>>
  /\ \/ /\ closed[s]
        /\ panicked' = "send on closed channel"
        /\ UNCHANGED chan
     \/ /\ ~closed[s] /\ Len(chan[s]) < Buffer
        /\ chan' = [chan EXCEPT ![s] = Append(@, <<p, current[p]>>)]
        /\ UNCHANGED panicked
     \/ /\ ~closed[s] /\ Len(chan[s]) = Buffer
        /\ UNCHANGED <<chan, panicked>>

\* The unlocked, non-blocking send of one event to one copied subscriber.
Send(p, s) ==
  /\ todo' = [todo EXCEPT ![p] = @ \ {s}]
  /\ UNCHANGED <<registered, closed>>
  /\ \/ /\ closed[s]
        /\ panicked' = "send on closed channel"
        /\ UNCHANGED <<chan, stale>>
     \/ /\ ~closed[s] /\ Len(chan[s]) < Buffer
        /\ chan' = [chan EXCEPT ![s] = Append(@, <<p, current[p]>>)]
        /\ UNCHANGED <<stale, panicked>>
     \/ /\ ~closed[s] /\ Len(chan[s]) = Buffer
        /\ stale' = [stale EXCEPT ![p] = @ \cup {s}]
        /\ UNCHANGED <<chan, panicked>>

-----------------------------------------------------------------------------
(* Publishers *)

\* publish: number the event and copy the subscribers under the read lock.
BeginPublish(p) ==
  /\ Running
  /\ stage[p] = "idle"
  /\ stage' = [stage EXCEPT ![p] = "sending"]
  /\ current' = [current EXCEPT ![p] = @ + 1]
  /\ todo' = [todo EXCEPT ![p] = registered]
  /\ UNCHANGED <<broker, stale, reader, panicked>>

SendOne(p) ==
  /\ Running
  /\ stage[p] = "sending"
  /\ \E s \in todo[p] : Send(p, s)
  /\ UNCHANGED <<stage, current, reader>>

\* Mutation: the loop stops at the first full channel.
SendLoopBreaks(p) ==
  /\ Running
  /\ stage[p] = "sending"
  /\ todo[p] = {} \/ stale[p] # {}
  /\ stage' = [stage EXCEPT ![p] = "evicting"]
  /\ UNCHANGED <<broker, current, todo, stale, reader, panicked>>

SendLoopEnds(p) ==
  /\ Running
  /\ stage[p] = "sending"
  /\ todo[p] = {}
  /\ stage' = [stage EXCEPT ![p] = "evicting"]
  /\ UNCHANGED <<broker, current, todo, stale, reader, panicked>>

Evict(p) ==
  /\ Running
  /\ stage[p] = "evicting"
  /\ \E s \in stale[p] :
       /\ RemoveSubscriber(s)
       /\ stale' = [stale EXCEPT ![p] = @ \ {s}]
  /\ UNCHANGED <<stage, current, todo, reader>>

\* publish returns; PublishBatchDone still has to close the batch.
EndPublish(p) ==
  /\ Running
  /\ stage[p] = "evicting"
  /\ stale[p] = {}
  /\ stage' = [stage EXCEPT ![p] = IF p = Dispatcher THEN "closing" ELSE "idle"]
  /\ UNCHANGED <<broker, current, todo, stale, reader, panicked>>

PublishPaymentStatus(w) ==
  /\ current[w] < Events
  /\ BeginPublish(w)

\* The worker's goroutine ends.
Return(w) ==
  /\ Running
  /\ stage[w] = "idle"
  /\ stage' = [stage EXCEPT ![w] = "returned"]
  /\ UNCHANGED <<broker, current, todo, stale, reader, panicked>>

\* Mutation: batch_done is published while workers are still at it.
PublishBatchDoneUnwaited == BeginPublish(Dispatcher)

\* Dispatch's wait group lets it publish batch_done after the last worker.
PublishBatchDone ==
  /\ \A w \in Workers : stage[w] = "returned"
  /\ BeginPublish(Dispatcher)

CloseBatchDone ==
  /\ Running
  /\ stage[Dispatcher] = "closing"
  /\ CloseBatch
  /\ stage' = [stage EXCEPT ![Dispatcher] = "returned"]
  /\ UNCHANGED <<current, todo, stale, reader>>

-----------------------------------------------------------------------------
(* Handlers *)

\* Under the write lock; what is already being published has been copied before.
Subscribe(s) ==
  /\ Running
  /\ handler[s] = "new"
  /\ registered' = registered \cup {s}
  /\ handler' = [handler EXCEPT ![s] = "reading"]
  /\ joined' = [joined EXCEPT ![s] = current]
  /\ UNCHANGED <<chan, closed, pub, received, panicked>>

Receive(s) ==
  /\ Running
  /\ handler[s] = "reading"
  /\ chan[s] # <<>>
  /\ received' = [received EXCEPT ![s] = Append(@, Head(chan[s]))]
  /\ chan' = [chan EXCEPT ![s] = Tail(@)]
  /\ UNCHANGED <<registered, closed, pub, handler, joined, panicked>>

\* The handler returns, since the channel is closed and drained, or because the
\* client went away: its deferred Close removes the subscription if it is there.
Leave(s) ==
  /\ Running
  /\ handler[s] = "reading"
  /\ RemoveSubscriber(s)
  /\ handler' = [handler EXCEPT ![s] = "left"]
  /\ UNCHANGED <<pub, received, joined>>

EndOfStream(s) == closed[s] /\ chan[s] = <<>> /\ Leave(s)

Disconnect(s) == Leave(s)

-----------------------------------------------------------------------------
Publisher(p) == SendOne(p) \/ SendLoopEnds(p) \/ Evict(p) \/ EndPublish(p)

Worker(w) == Publisher(w) \/ PublishPaymentStatus(w) \/ Return(w)

Dispatch == Publisher(Dispatcher) \/ PublishBatchDone \/ CloseBatchDone

Handler(s) == Receive(s) \/ EndOfStream(s)

\* Nothing runs any more: everyone has returned, or the process is dead.
Stopped ==
  /\ \/ ~Running
     \/ stage[Dispatcher] = "returned" /\ \A s \in Subs : handler[s] = "left"
  /\ UNCHANGED vars

Next ==
  \/ \E w \in Workers : Worker(w)
  \/ Dispatch
  \/ \E s \in Subs : Subscribe(s) \/ Handler(s) \/ Disconnect(s)
  \/ Stopped

Spec == Init /\ [][Next]_vars

\* Goroutines are scheduled, and a connected client reads.
FairSpec ==
  /\ Spec
  /\ \A w \in Workers : WF_vars(Worker(w))
  /\ WF_vars(Dispatch)
  /\ \A s \in Subs : WF_vars(Handler(s))

-----------------------------------------------------------------------------
(* Properties *)

\* A channel is closed once, whoever takes the subscription out of the map: the
\* handler, a publisher that found the channel full, or the end of the batch.
NoDoubleClose == panicked # "close of closed channel"

\* A subscription that is in the map has an open channel.
RegisteredIsOpen == \A s \in registered : ~closed[s]

\* What a subscription has been sent, read or still buffered.
Stream(s) == received[s] \o chan[s]

\* The stream of a subscription has no holes and no repetitions: of each publisher
\* it holds the events that follow the moment it subscribed, each behind the one
\* before it, even when the channel was full in between.
StreamHasNoGaps ==
  \A s \in Subs : \A j \in DOMAIN Stream(s) :
    LET p == Stream(s)[j][1]
        n == Stream(s)[j][2]
    IN /\ n > joined[s][p]
       /\ n = joined[s][p] + 1 \/ \E i \in 1 .. j - 1 : Stream(s)[i] = <<p, n - 1>>
       /\ \A i \in 1 .. j - 1 : Stream(s)[i] # Stream(s)[j]

\* The last event of p that s must have: the current one, but for a send that is
\* under way or for the full channel p is about to close.
Owed(s, p) == IF s \in todo[p] \cup stale[p] THEN current[p] - 1 ELSE current[p]

\* A subscription that has missed an event does not stay: one that is in the map
\* has every event since it subscribed, the last one with all before it.
RegisteredMissesNothing ==
  \A s \in registered, p \in Publishers :
    Owed(s, p) > joined[s][p] => \E i \in DOMAIN Stream(s) : Stream(s)[i] = <<p, Owed(s, p)>>

\* batch_done closes the stream: no payment event follows it.
DoneIsLast ==
  \A s \in Subs : \A i \in DOMAIN Stream(s) : Stream(s)[i] = BatchDone => i = Len(Stream(s))

\* Publishing never brings the process down.
NoSendOnClosedChannel == panicked # "send on closed channel"

=============================================================================
