------------------------- MODULE StreamBroker_proofs -------------------------
(***************************************************************************)
(* Proofs about StreamBroker, for any number of publishers, subscriptions  *)
(* and events and any buffer.                                              *)
(***************************************************************************)
EXTENDS StreamBroker, SequenceTheorems, TLAPS

\* The map holds known subscriptions whose channels are open, and no close has hit
\* a closed channel: each close takes the channel out of the map first.
BrokerInv ==
  /\ registered \in SUBSET Subs
  /\ closed \in [Subs -> BOOLEAN]
  /\ \A s \in Subs : handler[s] = "new" => ~closed[s]
  /\ \A s \in registered : handler[s] # "new"
  /\ handler \in [Subs -> {"new", "reading", "left"}]
  /\ RegisteredIsOpen
  /\ NoDoubleClose

LEMMA InitBroker == Init => BrokerInv
  BY DEF Init, BrokerInv, RegisteredIsOpen, NoDoubleClose

\* Closing channels that are taken out of the map under the same lock is safe.
LEMMA CloseAllKeepsInv ==
  ASSUME BrokerInv, NEW S \in SUBSET registered, CloseAll(S),
         handler' \in [Subs -> {"new", "reading", "left"}],
         \A s \in Subs : handler'[s] = "new" <=> handler[s] = "new"
  PROVE  BrokerInv'
<1>1. ~ \E s \in S : closed[s]
  BY DEF BrokerInv, RegisteredIsOpen
<1>2. panicked' = panicked /\ registered' = registered \ S
  BY <1>1 DEF CloseAll
<1>3. closed' = [s \in Subs |-> closed[s] \/ s \in S]
  BY DEF CloseAll
<1>4. \A s \in Subs : closed'[s] = (closed[s] \/ s \in S)
  BY <1>3
<1>5. closed' \in [Subs -> BOOLEAN]
  BY <1>3 DEF BrokerInv
<1>6. QED
  BY <1>2, <1>4, <1>5 DEF BrokerInv, RegisteredIsOpen, NoDoubleClose

LEMMA NextBroker == BrokerInv /\ [Next]_vars => BrokerInv'
<1> SUFFICES ASSUME BrokerInv, [Next]_vars PROVE BrokerInv'
  OBVIOUS
<1> USE DEF broker, pub, reader
<1>1. ASSUME UNCHANGED <<registered, closed, handler>>, panicked' # "close of closed channel" \/ UNCHANGED panicked
      PROVE  BrokerInv'
  BY <1>1 DEF BrokerInv, RegisteredIsOpen, NoDoubleClose
<1>2. ASSUME NEW p \in Publishers, Publisher(p) PROVE BrokerInv'
  <2>1. CASE SendOne(p)
    BY <1>1, <2>1 DEF SendOne, Send
  <2>2. CASE SendLoopEnds(p) \/ EndPublish(p)
    BY <1>1, <2>2 DEF SendLoopEnds, EndPublish
  <2>3. CASE Evict(p)
    BY <2>3, CloseAllKeepsInv DEF Evict, RemoveSubscriber, BrokerInv
  <2>4. QED
    BY <1>2, <2>1, <2>2, <2>3 DEF Publisher
<1>3. ASSUME NEW p \in Publishers, BeginPublish(p) PROVE BrokerInv'
  BY <1>1, <1>3 DEF BeginPublish
<1>4. ASSUME NEW w \in Workers, Worker(w) PROVE BrokerInv'
  <2>1. w \in Publishers
    BY DEF Publishers
  <2>2. CASE Return(w)
    BY <1>1, <2>2 DEF Return
  <2>3. QED
    BY <1>2, <1>3, <1>4, <2>1, <2>2 DEF Worker, PublishPaymentStatus
<1>5. CASE Dispatch
  <2>1. Dispatcher \in Publishers
    BY DEF Publishers
  <2>2. CASE CloseBatchDone
    BY <2>2, CloseAllKeepsInv DEF CloseBatchDone, CloseBatch, BrokerInv
  <2>3. QED
    BY <1>2, <1>3, <1>5, <2>1, <2>2 DEF Dispatch, PublishBatchDone
<1>6. ASSUME NEW s \in Subs, Subscribe(s) PROVE BrokerInv'
  BY <1>6 DEF Subscribe, BrokerInv, RegisteredIsOpen, NoDoubleClose
<1>7. ASSUME NEW s \in Subs, Leave(s) PROVE BrokerInv'
  <2>1. handler' \in [Subs -> {"new", "reading", "left"}]
    BY <1>7 DEF Leave, BrokerInv
  <2>2. \A t \in Subs : handler'[t] = "new" <=> handler[t] = "new"
    BY <1>7 DEF Leave, BrokerInv
  <2>3. QED
    BY <1>7, <2>1, <2>2, CloseAllKeepsInv DEF Leave, RemoveSubscriber
<1>8. ASSUME NEW s \in Subs, Receive(s) PROVE BrokerInv'
  BY <1>1, <1>8 DEF Receive
<1>9. CASE Stopped \/ UNCHANGED vars
  BY <1>1, <1>9 DEF Stopped, vars
<1>10. QED
  BY <1>4, <1>5, <1>6, <1>7, <1>8, <1>9 DEF Next, Handler, EndOfStream, Disconnect

LEMMA BrokerInvariant == Spec => []BrokerInv
  BY InitBroker, NextBroker, PTL DEF Spec

\* Handlers, publishers that evict and the end of the batch race to close the same
\* channels; none is ever closed twice.
THEOREM ChannelsAreClosedOnce == Spec => []NoDoubleClose
  BY BrokerInvariant, PTL DEF BrokerInv

\* The map never hands out a closed channel: a publisher that meets one has copied
\* it before it was closed.
THEOREM MapHoldsOpenChannels == Spec => []RegisteredIsOpen
  BY BrokerInvariant, PTL DEF BrokerInv

-----------------------------------------------------------------------------
(* Types *)

LEMMA NextTypes == TypeOK /\ [Next]_vars => TypeOK'
<1> SUFFICES ASSUME TypeOK, [Next]_vars PROVE TypeOK'
  OBVIOUS
<1> USE DEF broker, pub, reader
<1>1. ASSUME NEW p \in Publishers, BeginPublish(p) PROVE TypeOK'
  <2>1. current' \in [Publishers -> Nat]
    <3>1. current' = [current EXCEPT ![p] = current[p] + 1] /\ current \in [Publishers -> Nat]
      BY <1>1 DEF BeginPublish, TypeOK
    <3>2. QED
      BY <3>1
  <2>2. todo' \in [Publishers -> SUBSET Subs]
    BY <1>1 DEF BeginPublish, TypeOK
  <2>3. stage' \in [Publishers -> {"idle", "sending", "evicting", "closing", "returned"}]
    BY <1>1 DEF BeginPublish, TypeOK
  <2>4. QED
    BY <1>1, <2>1, <2>2, <2>3 DEF BeginPublish, TypeOK
<1>2. ASSUME NEW p \in Publishers, SendOne(p) PROVE TypeOK'
  <2>1. PICK s \in todo[p] : Send(p, s)
    BY <1>2 DEF SendOne
  <2>2. s \in Subs
    BY DEF TypeOK
  <2>3. todo' \in [Publishers -> SUBSET Subs]
    BY <2>1 DEF Send, TypeOK
  <2>4. UNCHANGED <<registered, closed, stage, current, handler, received, joined>>
    BY <1>2, <2>1 DEF SendOne, Send
  <2>5. CASE closed[s] /\ UNCHANGED <<chan, stale>> /\ panicked' = "send on closed channel"
    BY <2>3, <2>4, <2>5 DEF TypeOK
  <2>6. CASE /\ Len(chan[s]) < Buffer
             /\ chan' = [chan EXCEPT ![s] = Append(@, <<p, current[p]>>)]
             /\ UNCHANGED <<stale, panicked>>
    <3>1. chan[s] \in Seq(Event) /\ <<p, current[p]>> \in Event
      BY <2>2 DEF Event, TypeOK
    <3>2. Append(chan[s], <<p, current[p]>>) \in Seq(Event)
          /\ Len(Append(chan[s], <<p, current[p]>>)) = Len(chan[s]) + 1
      BY <3>1, AppendProperties
    <3>3. Len(chan[s]) + 1 <= Buffer
      BY <2>6, <3>1, LenProperties, BufferAssumption
    <3>4. chan' \in [Subs -> Seq(Event)] /\ \A t \in Subs : Len(chan'[t]) <= Buffer
      BY <2>2, <2>6, <3>2, <3>3 DEF TypeOK
    <3>5. QED
      BY <2>3, <2>4, <2>6, <3>4 DEF TypeOK
  <2>7. CASE stale' = [stale EXCEPT ![p] = @ \cup {s}] /\ UNCHANGED <<chan, panicked>>
    BY <2>2, <2>3, <2>4, <2>7 DEF TypeOK
  <2>8. QED
    BY <2>1, <2>5, <2>6, <2>7 DEF Send
<1>3. ASSUME NEW p \in Publishers, Publisher(p) PROVE TypeOK'
  <2>1. CASE SendLoopEnds(p)
    BY <2>1 DEF SendLoopEnds, TypeOK
  <2>2. CASE Evict(p)
    <3>1. PICK s \in stale[p] : RemoveSubscriber(s) /\ stale' = [stale EXCEPT ![p] = @ \ {s}]
      BY <2>2 DEF Evict
    <3>2. stale' \in [Publishers -> SUBSET Subs]
      BY <3>1 DEF TypeOK
    <3>3. QED
      BY <2>2, <3>1, <3>2 DEF Evict, RemoveSubscriber, CloseAll, TypeOK
  <2>3. CASE EndPublish(p)
    BY <2>3 DEF EndPublish, TypeOK
  <2>4. QED
    BY <1>2, <1>3, <2>1, <2>2, <2>3 DEF Publisher
<1>4. ASSUME NEW w \in Workers, Worker(w) PROVE TypeOK'
  <2>1. w \in Publishers
    BY DEF Publishers
  <2>2. CASE Return(w)
    BY <2>1, <2>2 DEF Return, TypeOK
  <2>3. QED
    BY <1>1, <1>3, <1>4, <2>1, <2>2 DEF Worker, PublishPaymentStatus
<1>5. CASE Dispatch
  <2>1. Dispatcher \in Publishers
    BY DEF Publishers
  <2>2. CASE CloseBatchDone
    BY <2>1, <2>2 DEF CloseBatchDone, CloseBatch, CloseAll, TypeOK
  <2>3. QED
    BY <1>1, <1>3, <1>5, <2>1, <2>2 DEF Dispatch, PublishBatchDone
<1>6. ASSUME NEW s \in Subs, Subscribe(s) PROVE TypeOK'
  BY <1>6 DEF Subscribe, TypeOK
<1>7. ASSUME NEW s \in Subs, Leave(s) PROVE TypeOK'
  BY <1>7 DEF Leave, RemoveSubscriber, CloseAll, TypeOK
<1>8. ASSUME NEW s \in Subs, Receive(s) PROVE TypeOK'
  <2>1. chan[s] \in Seq(Event) /\ chan[s] # <<>> /\ received[s] \in Seq(Event)
    BY <1>8 DEF Receive, TypeOK
  <2>2. Head(chan[s]) \in Event /\ Tail(chan[s]) \in Seq(Event)
        /\ Len(Tail(chan[s])) = Len(chan[s]) - 1
    BY <2>1, HeadTailProperties
  <2>3. Append(received[s], Head(chan[s])) \in Seq(Event)
    BY <2>1, <2>2, AppendProperties
  <2>5. received' \in [Subs -> Seq(Event)]
    BY <1>8, <2>3 DEF Receive, TypeOK
  <2>6. chan' \in [Subs -> Seq(Event)] /\ \A t \in Subs : Len(chan'[t]) <= Buffer
    <3>1. chan' = [chan EXCEPT ![s] = Tail(chan[s])]
      BY <1>8 DEF Receive
    <3>2. \A t \in Subs : chan[t] \in Seq(Event) /\ Len(chan[t]) <= Buffer
      BY DEF TypeOK
    <3>3. \A t \in Subs : Len(chan[t]) \in Nat
      BY <3>2, LenProperties
    <3>4. Len(Tail(chan[s])) <= Buffer
      BY <2>2, <3>2, <3>3, BufferAssumption
    <3>5. chan' \in [Subs -> Seq(Event)]
      BY <2>2, <3>1 DEF TypeOK
    <3>6. QED
      BY <3>1, <3>2, <3>4, <3>5 DEF TypeOK
  <2>7. QED
    BY <1>8, <2>5, <2>6 DEF Receive, TypeOK
<1>9. CASE Stopped \/ UNCHANGED vars
  BY <1>9 DEF Stopped, vars, TypeOK
<1>10. QED
  BY <1>4, <1>5, <1>6, <1>7, <1>8, <1>9 DEF Next, Handler, EndOfStream, Disconnect

LEMMA InitTypes == Init => TypeOK
<1> SUFFICES ASSUME Init PROVE TypeOK
  OBVIOUS
<1>1. <<>> \in Seq(Event) /\ Len(<<>>) = 0
  OBVIOUS
<1>2. QED
  BY <1>1, BufferAssumption DEF Init, TypeOK

\* Channels hold no more than their capacity, whoever sends and however slowly they
\* are read.
THEOREM TypeCorrect == Spec => []TypeOK
  BY InitTypes, NextTypes, PTL DEF Spec

-----------------------------------------------------------------------------
(* What the streams hold *)

\* What publishers have copied or found full, they are still at work on.
Copied ==
  \A p \in Publishers :
    /\ todo[p] # {} => stage[p] = "sending"
    /\ stale[p] # {} => stage[p] \in {"sending", "evicting"}

\* Of each publisher a stream has what follows the subscription, up to what has been
\* published, and not yet what the publisher is about to send.
Bounded ==
  /\ \A s \in Subs, p \in Publishers :
       /\ joined[s][p] <= current[p]
       /\ s \in todo[p] => joined[s][p] < current[p]
  /\ \A s \in Subs : \A j \in DOMAIN Stream(s) : \A p \in Publishers : \A n \in Nat :
       Stream(s)[j] = <<p, n>> =>
         joined[s][p] < n /\ n <= current[p] /\ (s \in todo[p] => n < current[p])

\* Who is not in the map yet has been sent nothing and is not about to be.
NewIsEmpty ==
  \A s \in Subs : handler[s] = "new" =>
    Stream(s) = <<>> /\ \A p \in Publishers : s \notin todo[p]

\* Who is in the map, or has been copied from it, has every event up to the last.
UpToDate ==
  \A s \in Subs, p \in Publishers :
    (s \in registered \/ s \in todo[p]) /\ Owed(s, p) > joined[s][p] =>
      \E i \in DOMAIN Stream(s) : Stream(s)[i] = <<p, Owed(s, p)>>

\* The streams have no holes, event by event.
Preceded(s, j, p, n) ==
  n = joined[s][p] + 1 \/ \E i \in 1 .. j - 1 : Stream(s)[i] = <<p, n - 1>>

Fresh(s, j) == \A i \in 1 .. j - 1 : Stream(s)[i] # Stream(s)[j]

Gapless ==
  \A s \in Subs : \A j \in DOMAIN Stream(s) : \A p \in Publishers : \A n \in Nat :
    Stream(s)[j] = <<p, n>> => Preceded(s, j, p, n) /\ Fresh(s, j)

\* batch_done comes when the workers have returned, and is sent to nobody twice.
Ended ==
  /\ stage[Dispatcher] # "idle" => \A w \in Workers : stage[w] = "returned"
  /\ \A s \in Subs : \A i \in DOMAIN Stream(s) : Stream(s)[i] = BatchDone =>
       i = Len(Stream(s)) /\ s \notin todo[Dispatcher] /\ stage[Dispatcher] # "idle"

StreamInv ==
  /\ TypeOK /\ BrokerInv
  /\ Copied /\ Bounded /\ NewIsEmpty /\ UpToDate /\ Gapless /\ Ended

SameStreams == \A s \in Subs : Stream(s)' = Stream(s)

LEMMA StreamType ==
  ASSUME TypeOK, NEW s \in Subs
  PROVE  /\ Stream(s) \in Seq(Event)
         /\ Len(Stream(s)) \in Nat
         /\ DOMAIN Stream(s) = 1 .. Len(Stream(s))
         /\ \A i \in DOMAIN Stream(s) : \E p \in Publishers, n \in Nat : Stream(s)[i] = <<p, n>>
<1>1. received[s] \in Seq(Event) /\ chan[s] \in Seq(Event)
  BY DEF TypeOK
<1>2. Stream(s) \in Seq(Event)
  BY <1>1, ConcatProperties DEF Stream
<1>3. Len(Stream(s)) \in Nat /\ DOMAIN Stream(s) = 1 .. Len(Stream(s))
  BY <1>2, LenProperties
<1>4. \A i \in DOMAIN Stream(s) : Stream(s)[i] \in Event
  BY <1>2, <1>3, ElementOfSeq
<1>5. QED
  BY <1>2, <1>3, <1>4 DEF Event

LEMMA HeadMoves ==
  ASSUME NEW T, NEW r \in Seq(T), NEW c \in Seq(T), c # <<>>
  PROVE  Append(r, Head(c)) \o Tail(c) = r \o c
OBVIOUS

LEMMA AppendMoves ==
  ASSUME NEW T, NEW r \in Seq(T), NEW c \in Seq(T), NEW e \in T
  PROVE  r \o Append(c, e) = Append(r \o c, e)
OBVIOUS

\* What a handler reads moves within its stream.
LEMMA ReceiveKeepsStreams ==
  ASSUME TypeOK, NEW s \in Subs, Receive(s)
  PROVE  SameStreams
<1>1. received[s] \in Seq(Event) /\ chan[s] \in Seq(Event) /\ chan[s] # <<>>
  BY DEF TypeOK, Receive
<1>2. /\ received' = [received EXCEPT ![s] = Append(received[s], Head(chan[s]))]
      /\ chan' = [chan EXCEPT ![s] = Tail(chan[s])]
      /\ received \in [Subs -> Seq(Event)] /\ chan \in [Subs -> Seq(Event)]
  BY DEF Receive, TypeOK
<1>3. Append(received[s], Head(chan[s])) \o Tail(chan[s]) = received[s] \o chan[s]
  BY <1>1, HeadMoves
<1>4. received'[s] \o chan'[s] = received[s] \o chan[s]
  BY <1>2, <1>3
<1>5. \A t \in Subs : t # s => received'[t] = received[t] /\ chan'[t] = chan[t]
  BY <1>2
<1>6. QED
  BY <1>4, <1>5 DEF SameStreams, Stream

\* A send adds its event behind the stream of one subscription.
LEMMA SendExtends ==
  ASSUME TypeOK, NEW s \in Subs, NEW e \in Event,
         chan' = [chan EXCEPT ![s] = Append(@, e)], UNCHANGED received
  PROVE  /\ Len(Stream(s)') = Len(Stream(s)) + 1
         /\ DOMAIN Stream(s)' = 1 .. Len(Stream(s)) + 1
         /\ \A i \in DOMAIN Stream(s) : Stream(s)'[i] = Stream(s)[i]
         /\ Stream(s)'[Len(Stream(s)) + 1] = e
         /\ \A t \in Subs : t # s => Stream(t)' = Stream(t)
<1>1. received[s] \in Seq(Event) /\ chan[s] \in Seq(Event) /\ chan \in [Subs -> Seq(Event)]
  BY DEF TypeOK
<1>2. received[s] \o Append(chan[s], e) = Append(received[s] \o chan[s], e)
  <2> DEFINE r == received[s]
             c == chan[s]
  <2>1. r \in Seq(Event) /\ c \in Seq(Event)
    BY <1>1
  <2> HIDE DEF r, c
  <2>2. r \o Append(c, e) = Append(r \o c, e)
    BY <2>1, AppendMoves
  <2>3. QED
    BY <2>2 DEF r, c
<1>3. chan'[s] = Append(chan[s], e) /\ received'[s] = received[s]
  BY <1>1
<1>4. Stream(s) \in Seq(Event) /\ Len(Stream(s)) \in Nat /\ DOMAIN Stream(s) = 1 .. Len(Stream(s))
  BY StreamType
<1>5. Stream(s)' = Append(Stream(s), e)
  BY <1>2, <1>3 DEF Stream
<1>6. \A t \in Subs : t # s => chan'[t] = chan[t]
  BY <1>1
<1>7. /\ Append(Stream(s), e) \in Seq(Event)
       /\ Len(Append(Stream(s), e)) = Len(Stream(s)) + 1
       /\ \A i \in 1 .. Len(Stream(s)) : Append(Stream(s), e)[i] = Stream(s)[i]
       /\ Append(Stream(s), e)[Len(Stream(s)) + 1] = e
  BY <1>4, AppendProperties
<1>8. DOMAIN Append(Stream(s), e) = 1 .. Len(Stream(s)) + 1
  BY <1>7, LenProperties
<1>9. \A t \in Subs : t # s => Stream(t)' = Stream(t)
  BY <1>6 DEF Stream
<1>10. QED
  BY <1>4, <1>5, <1>7, <1>8, <1>9

\* A step that moves no event, publishes none and copies nobody.
LEMMA SameKeeps ==
  ASSUME TypeOK, SameStreams, UNCHANGED <<joined, current>>,
         \A p \in Publishers : todo'[p] \subseteq todo[p],
         \A s \in Subs : handler'[s] = "new" => handler[s] = "new"
  PROVE  Bounded /\ NewIsEmpty /\ Gapless => Bounded' /\ NewIsEmpty' /\ Gapless'
<1>1. ASSUME Bounded PROVE Bounded'
  BY <1>1 DEF Bounded, SameStreams
<1>2. ASSUME NewIsEmpty PROVE NewIsEmpty'
  BY <1>2 DEF NewIsEmpty, SameStreams
<1>3. ASSUME Gapless PROVE Gapless'
  <2>1. \A s \in Subs : \A j, p, n : Preceded(s, j, p, n)' = Preceded(s, j, p, n)
    BY DEF Preceded, SameStreams
  <2>2. \A s \in Subs : \A j : Fresh(s, j)' = Fresh(s, j)
    BY DEF Fresh, SameStreams
  <2>3. QED
    BY <1>3, <2>1, <2>2 DEF Gapless, SameStreams
<1>4. QED
  BY <1>1, <1>2, <1>3

\* ... and after which nobody in the map owes more.
LEMMA SameOwes ==
  ASSUME UpToDate, SameStreams, UNCHANGED joined,
         \A s \in Subs, p \in Publishers :
           s \in registered' \/ s \in todo'[p] =>
             (s \in registered \/ s \in todo[p]) /\ Owed(s, p)' = Owed(s, p)
  PROVE  UpToDate'
  BY DEF UpToDate, SameStreams

LEMMA SameEnded ==
  ASSUME Ended, SameStreams, Dispatcher \in Publishers,
         \A p \in Publishers : todo'[p] \subseteq todo[p],
         stage'[Dispatcher] = "idle" <=> stage[Dispatcher] = "idle",
         \A w \in Workers : stage[w] = "returned" => stage'[w] = "returned"
  PROVE  Ended'
<1>1. stage'[Dispatcher] # "idle" => \A w \in Workers : stage'[w] = "returned"
  BY DEF Ended
<1>2. \A s \in Subs : s \in todo'[Dispatcher] => s \in todo[Dispatcher]
  OBVIOUS
<1>3. QED
  BY <1>1, <1>2 DEF Ended, SameStreams

\* What the steps that send nothing leave as it is.
LEMMA StepKeeps ==
  ASSUME StreamInv, SameStreams, UNCHANGED <<joined, current>>, Dispatcher \in Publishers,
         \A p \in Publishers : todo'[p] \subseteq todo[p],
         \A s \in Subs : handler'[s] = "new" => handler[s] = "new",
         \A s \in Subs, p \in Publishers :
           s \in registered' \/ s \in todo'[p] =>
             (s \in registered \/ s \in todo[p]) /\ Owed(s, p)' = Owed(s, p),
         stage'[Dispatcher] = "idle" <=> stage[Dispatcher] = "idle",
         \A w \in Workers : stage[w] = "returned" => stage'[w] = "returned"
  PROVE  Bounded' /\ NewIsEmpty' /\ UpToDate' /\ Gapless' /\ Ended'
<1>1. TypeOK /\ Bounded /\ NewIsEmpty /\ UpToDate /\ Gapless /\ Ended
  BY DEF StreamInv
<1>2. Bounded' /\ NewIsEmpty' /\ Gapless'
  BY <1>1, SameKeeps
<1>3. UpToDate'
  BY <1>1, SameOwes
<1>4. Ended'
  BY <1>1, SameEnded
<1>5. QED
  BY <1>2, <1>3, <1>4

\* The event goes to a channel that has room: it follows the one before it, is new,
\* and comes from a publisher that has not returned.
LEMMA SendKeeps ==
  ASSUME StreamInv, NEW p \in Publishers, NEW s \in todo[p], stage[p] = "sending",
         todo' = [todo EXCEPT ![p] = @ \ {s}],
         chan' = [chan EXCEPT ![s] = Append(@, <<p, current[p]>>)],
         UNCHANGED <<registered, closed, stage, current, stale, handler, received, joined>>
  PROVE  Bounded' /\ NewIsEmpty' /\ UpToDate' /\ Gapless' /\ Ended'
<1> DEFINE L == Len(Stream(s))
<1>1. TypeOK /\ Bounded /\ NewIsEmpty /\ UpToDate /\ Gapless /\ Ended
  BY DEF StreamInv
<1>2. s \in Subs /\ current[p] \in Nat /\ <<p, current[p]>> \in Event
  BY <1>1 DEF TypeOK, Event
<1>3. L \in Nat /\ DOMAIN Stream(s) = 1 .. L
  BY <1>1, <1>2, StreamType
<1>4. /\ Len(Stream(s)') = L + 1
      /\ DOMAIN Stream(s)' = 1 .. L + 1
      /\ \A i \in 1 .. L : Stream(s)'[i] = Stream(s)[i]
      /\ Stream(s)'[L + 1] = <<p, current[p]>>
      /\ \A t \in Subs : t # s => Stream(t)' = Stream(t)
  BY <1>1, <1>2, <1>3, SendExtends
<1>5. /\ \A q \in Publishers : q # p => todo'[q] = todo[q]
      /\ todo'[p] = todo[p] \ {s}
      /\ \A q \in Publishers : todo'[q] \subseteq todo[q]
  BY <1>1 DEF TypeOK
<1>6. \A i \in 1 .. L + 1 : i \in 1 .. L \/ i = L + 1
  BY <1>3
<1> HIDE DEF L
<1>7. joined[s][p] < current[p]
      /\ \A i \in 1 .. L : Stream(s)[i] # <<p, current[p]>>
  <2>1. \A i \in 1 .. L : \A n \in Nat : Stream(s)[i] = <<p, n>> => n < current[p]
    BY <1>1, <1>2, <1>3 DEF Bounded
  <2>2. ~ current[p] < current[p]
    BY <1>2
  <2>3. \A i \in 1 .. L : Stream(s)[i] # <<p, current[p]>>
    BY <1>2, <2>1, <2>2, Zenon
  <2>4. joined[s][p] < current[p]
    BY <1>1, <1>2 DEF Bounded
  <2>5. QED
    BY <2>3, <2>4
<1>8. Bounded'
  <2>1. ASSUME NEW t \in Subs, NEW q \in Publishers
        PROVE  joined[t][q] <= current[q] /\ (t \in todo'[q] => joined[t][q] < current[q])
    BY <1>1, <1>5 DEF Bounded
  <2>2. ASSUME NEW t \in Subs, NEW j \in DOMAIN Stream(t)', NEW q \in Publishers, NEW n \in Nat,
               Stream(t)'[j] = <<q, n>>
        PROVE  joined[t][q] < n /\ n <= current[q] /\ (t \in todo'[q] => n < current[q])
    <3>1. CASE t # s \/ j \in 1 .. L
      <4>1. j \in DOMAIN Stream(t) /\ Stream(t)[j] = <<q, n>>
        BY <1>3, <1>4, <2>2, <3>1
      <4>2. QED
        BY <1>1, <1>5, <4>1 DEF Bounded
    <3>2. CASE t = s /\ j = L + 1
      <4>1. q = p /\ n = current[p]
        BY <1>4, <2>2, <3>2
      <4>2. QED
        BY <1>2, <1>5, <1>7, <3>2, <4>1
    <3>3. QED
      BY <1>4, <1>6, <2>2, <3>1, <3>2
  <2>3. QED
    BY <2>1, <2>2 DEF Bounded
<1>9. NewIsEmpty'
  BY <1>1, <1>2, <1>4, <1>5 DEF NewIsEmpty
<1>10. UpToDate'
  <2> SUFFICES ASSUME NEW t \in Subs, NEW q \in Publishers,
                      t \in registered \/ t \in todo'[q], Owed(t, q)' > joined[t][q]
               PROVE  \E i \in DOMAIN Stream(t)' : Stream(t)'[i] = <<q, Owed(t, q)'>>
    BY DEF UpToDate
  <2>1. CASE Owed(t, q)' = Owed(t, q)
    <3>1. t \in registered \/ t \in todo[q]
      BY <1>5
    <3>2. PICK i \in DOMAIN Stream(t) : Stream(t)[i] = <<q, Owed(t, q)>>
      BY <1>1, <2>1, <3>1 DEF UpToDate
    <3>3. i \in DOMAIN Stream(t)' /\ Stream(t)'[i] = Stream(t)[i]
      BY <1>3, <1>4
    <3>4. QED
      BY <2>1, <3>2, <3>3
  <2>2. CASE Owed(t, q)' # Owed(t, q)
    <3>1. q = p /\ t = s
      BY <1>5, <2>2 DEF Owed
    <3>2. Owed(t, q)' = current[p]
      BY <1>5, <2>2, <3>1 DEF Owed
    <3>3. L + 1 \in DOMAIN Stream(s)'
      BY <1>3, <1>4
    <3>4. QED
      BY <1>4, <3>1, <3>2, <3>3
  <2>3. QED
    BY <2>1, <2>2
<1>11. Gapless'
  <2> SUFFICES ASSUME NEW t \in Subs, NEW j \in DOMAIN Stream(t)', NEW q \in Publishers,
                      NEW n \in Nat, Stream(t)'[j] = <<q, n>>
               PROVE  Preceded(t, j, q, n)' /\ Fresh(t, j)'
    BY DEF Gapless
  <2>1. CASE t # s
    <3>1. Stream(t)' = Stream(t)
      BY <1>4, <2>1
    <3>2. Preceded(t, j, q, n) /\ Fresh(t, j)
      BY <1>1, <3>1 DEF Gapless
    <3>3. QED
      BY <3>1, <3>2 DEF Preceded, Fresh
  <2>2. CASE t = s /\ j \in 1 .. L
    <3>1. \A i \in 1 .. j - 1 : i \in 1 .. L
      BY <1>3, <2>2
    <3>2. j \in DOMAIN Stream(s) /\ Stream(s)[j] = <<q, n>>
      BY <1>3, <1>4, <2>2
    <3>3. Preceded(s, j, q, n) /\ Fresh(s, j)
      BY <1>1, <1>2, <3>2 DEF Gapless
    <3>4. Preceded(s, j, q, n)'
      BY <1>4, <2>2, <3>1, <3>3 DEF Preceded
    <3>5. Fresh(s, j)'
      BY <1>4, <2>2, <3>1, <3>3 DEF Fresh
    <3>6. QED
      BY <2>2, <3>4, <3>5
  <2>3. CASE t = s /\ j = L + 1
    <3>1. q = p /\ n = current[p] /\ 1 .. j - 1 = 1 .. L
      BY <1>3, <1>4, <2>3
    <3>2. Owed(s, p) = current[p] - 1
      BY DEF Owed
    <3>3. current[p] - 1 > joined[s][p] => \E i \in 1 .. L : Stream(s)[i] = <<p, current[p] - 1>>
      BY <1>1, <1>2, <1>3, <3>2 DEF UpToDate
    <3>4. joined[s][p] \in Nat
      BY <1>1, <1>2 DEF TypeOK
    <3>5. current[p] - 1 > joined[s][p] \/ current[p] = joined[s][p] + 1
      BY <1>2, <1>7, <3>4
    <3>6. Preceded(s, j, p, current[p])'
      BY <1>4, <3>1, <3>3, <3>5 DEF Preceded
    <3>7. Fresh(s, j)'
      BY <1>4, <1>7, <2>3, <3>1 DEF Fresh
    <3>8. QED
      BY <2>3, <3>1, <3>6, <3>7
  <2>4. QED
    BY <1>4, <1>6, <2>1, <2>2, <2>3
<1>12. Ended'
  <2>1. stage' = stage /\ Dispatcher \in Publishers
    BY DEF Publishers
  <2>2. \A i \in 1 .. L : Stream(s)[i] # BatchDone
    <3> SUFFICES ASSUME NEW i \in 1 .. L, Stream(s)[i] = BatchDone PROVE FALSE
      OBVIOUS
    <3>1. s \notin todo[Dispatcher] /\ \A w \in Workers : stage[w] = "returned"
      BY <1>1, <1>2, <1>3 DEF Ended
    <3>2. p \in Workers
      BY <3>1 DEF Publishers
    <3>3. QED
      BY <3>1, <3>2
  <2>3. ASSUME NEW t \in Subs, NEW i \in DOMAIN Stream(t)', Stream(t)'[i] = BatchDone
        PROVE  i = Len(Stream(t)') /\ t \notin todo'[Dispatcher] /\ stage[Dispatcher] # "idle"
    <3>1. CASE t # s
      BY <1>1, <1>4, <1>5, <2>1, <2>3, <3>1 DEF Ended
    <3>2. CASE t = s
      <4>1. i = L + 1
        BY <1>4, <1>6, <2>2, <2>3, <3>2
      <4>2. p = Dispatcher
        BY <1>4, <2>3, <3>2, <4>1 DEF BatchDone
      <4>3. QED
        BY <1>4, <1>5, <3>2, <4>1, <4>2
    <3>3. QED
      BY <3>1, <3>2
  <2>4. QED
    BY <1>1, <2>1, <2>3 DEF Ended
<1>13. QED
  BY <1>8, <1>9, <1>10, <1>11, <1>12

\* A publisher copies the map: everybody in it has all that came before.
LEMMA BeginKeeps ==
  ASSUME StreamInv, NEW p \in Publishers, BeginPublish(p),
         p = Dispatcher => \A w \in Workers : stage[w] = "returned"
  PROVE  Copied' /\ Bounded' /\ NewIsEmpty' /\ UpToDate' /\ Gapless' /\ Ended'
<1>1. TypeOK /\ Copied /\ Bounded /\ NewIsEmpty /\ UpToDate /\ Gapless /\ Ended
      /\ (\A s \in registered : handler[s] # "new")
  BY DEF StreamInv, BrokerInv
<1>2. /\ stage[p] = "idle" /\ stage' = [stage EXCEPT ![p] = "sending"]
      /\ current' = [current EXCEPT ![p] = current[p] + 1]
      /\ todo' = [todo EXCEPT ![p] = registered]
      /\ UNCHANGED <<registered, chan, closed, stale, handler, received, joined>>
  BY DEF BeginPublish, broker, reader
<1>3. SameStreams
  BY <1>2 DEF SameStreams, Stream
<1>4. todo[p] = {} /\ stale[p] = {}
  BY <1>1, <1>2 DEF Copied
<1>5. /\ current'[p] = current[p] + 1 /\ todo'[p] = registered
      /\ stage'[p] = "sending" /\ current[p] \in Nat
      /\ \A q \in Publishers : q # p =>
           current'[q] = current[q] /\ todo'[q] = todo[q] /\ stage'[q] = stage[q]
  BY <1>1, <1>2 DEF TypeOK
<1>6. \A s \in Subs, q \in Publishers : joined[s][q] \in Nat /\ current[q] \in Nat
  BY <1>1 DEF TypeOK
<1>7. Copied'
  BY <1>1, <1>2, <1>4, <1>5 DEF Copied
<1>8. Bounded'
  <2>1. ASSUME NEW s \in Subs, NEW q \in Publishers
        PROVE  joined[s][q] <= current'[q] /\ (s \in todo'[q] => joined[s][q] < current'[q])
    <3>1. joined[s][q] <= current[q] /\ (s \in todo[q] => joined[s][q] < current[q])
      BY <1>1 DEF Bounded
    <3>2. QED
      BY <1>5, <1>6, <3>1
  <2>2. ASSUME NEW s \in Subs, NEW j \in DOMAIN Stream(s), NEW q \in Publishers, NEW n \in Nat,
               Stream(s)[j] = <<q, n>>
        PROVE  joined[s][q] < n /\ n <= current'[q] /\ (s \in todo'[q] => n < current'[q])
    <3>1. joined[s][q] < n /\ n <= current[q] /\ (s \in todo[q] => n < current[q])
      BY <1>1, <2>2 DEF Bounded
    <3>2. QED
      BY <1>5, <1>6, <3>1
  <2>3. QED
    BY <1>2, <1>3, <2>1, <2>2 DEF Bounded, SameStreams
<1>9. NewIsEmpty'
  BY <1>1, <1>2, <1>3, <1>5 DEF NewIsEmpty, SameStreams
<1>10. UpToDate'
  <2> SUFFICES ASSUME NEW s \in Subs, NEW q \in Publishers,
                      s \in registered \/ s \in todo'[q], Owed(s, q)' > joined[s][q]
               PROVE  \E i \in DOMAIN Stream(s) : Stream(s)[i] = <<q, Owed(s, q)'>>
    BY <1>2, <1>3 DEF UpToDate, SameStreams
  <2>1. s \in registered \/ s \in todo[q]
    BY <1>5
  <2>2. Owed(s, q)' = Owed(s, q)
    <3>1. CASE q # p
      BY <1>2, <1>5, <3>1 DEF Owed
    <3>2. CASE q = p
      BY <1>2, <1>4, <1>5, <2>1, <3>2 DEF Owed
    <3>3. QED
      BY <3>1, <3>2
  <2>3. QED
    BY <1>1, <2>1, <2>2 DEF UpToDate
<1>11. Gapless'
  <2>1. \A s \in Subs : \A j, q, n : Preceded(s, j, q, n)' = Preceded(s, j, q, n)
    BY <1>2, <1>3 DEF Preceded, SameStreams
  <2>2. \A s \in Subs : \A j : Fresh(s, j)' = Fresh(s, j)
    BY <1>3 DEF Fresh, SameStreams
  <2>3. QED
    BY <1>1, <1>3, <2>1, <2>2 DEF Gapless, SameStreams
<1>12. Ended'
  <2>1. Dispatcher \in Publishers /\ \A w \in Workers : w \in Publishers /\ w # Dispatcher
    BY PublishersAssumption DEF Publishers
  <2>2. stage'[Dispatcher] # "idle" => \A w \in Workers : stage'[w] = "returned"
    <3>1. CASE p = Dispatcher
      BY <1>5, <2>1, <3>1
    <3>2. CASE p # Dispatcher
      BY <1>1, <1>2, <1>5, <2>1, <3>2 DEF Ended, Publishers
    <3>3. QED
      BY <3>1, <3>2
  <2>3. ASSUME NEW s \in Subs, NEW i \in DOMAIN Stream(s), Stream(s)[i] = BatchDone
        PROVE  i = Len(Stream(s)) /\ s \notin todo'[Dispatcher] /\ stage'[Dispatcher] # "idle"
    <3>1. i = Len(Stream(s)) /\ s \notin todo[Dispatcher] /\ stage[Dispatcher] # "idle"
      BY <1>1, <2>3 DEF Ended
    <3>2. p # Dispatcher
      BY <1>2, <3>1
    <3>3. QED
      BY <1>5, <2>1, <3>1, <3>2
  <2>4. QED
    BY <1>3, <2>2, <2>3 DEF Ended, SameStreams
<1>13. QED
  BY <1>7, <1>8, <1>9, <1>10, <1>11, <1>12

\* A subscription begins with an empty stream, behind everything that was published.
LEMMA SubscribeKeeps ==
  ASSUME StreamInv, NEW s \in Subs, Subscribe(s)
  PROVE  Copied' /\ Bounded' /\ NewIsEmpty' /\ UpToDate' /\ Gapless' /\ Ended'
<1>1. TypeOK /\ Copied /\ Bounded /\ NewIsEmpty /\ UpToDate /\ Gapless /\ Ended
  BY DEF StreamInv
<1>2. /\ handler[s] = "new" /\ handler' = [handler EXCEPT ![s] = "reading"]
      /\ registered' = registered \cup {s}
      /\ joined' = [joined EXCEPT ![s] = current]
      /\ UNCHANGED <<chan, closed, stage, current, todo, stale, received>>
  BY DEF Subscribe, pub
<1>3. SameStreams
  BY <1>2 DEF SameStreams, Stream
<1>4. Stream(s) = <<>> /\ DOMAIN Stream(s) = {} /\ \A p \in Publishers : s \notin todo[p]
  BY <1>1, <1>2 DEF NewIsEmpty
<1>5. /\ joined'[s] = current
      /\ \A t \in Subs : t # s => joined'[t] = joined[t] /\ handler'[t] = handler[t]
  BY <1>1, <1>2 DEF TypeOK
<1>6. \A p \in Publishers : current[p] \in Nat
  BY <1>1 DEF TypeOK
<1>7. Copied'
  BY <1>1, <1>2 DEF Copied
<1>8. Bounded'
  <2>1. ASSUME NEW t \in Subs, NEW p \in Publishers
        PROVE  joined'[t][p] <= current[p] /\ (t \in todo[p] => joined'[t][p] < current[p])
    BY <1>1, <1>4, <1>5, <1>6 DEF Bounded
  <2>2. ASSUME NEW t \in Subs, NEW j \in DOMAIN Stream(t), NEW p \in Publishers, NEW n \in Nat,
               Stream(t)[j] = <<p, n>>
        PROVE  joined'[t][p] < n /\ n <= current[p] /\ (t \in todo[p] => n < current[p])
    BY <1>1, <1>4, <1>5, <2>2 DEF Bounded
  <2>3. QED
    BY <1>2, <1>3, <2>1, <2>2 DEF Bounded, SameStreams
<1>9. NewIsEmpty'
  BY <1>1, <1>2, <1>3, <1>5 DEF NewIsEmpty, SameStreams, TypeOK
<1>10. UpToDate'
  <2> SUFFICES ASSUME NEW t \in Subs, NEW p \in Publishers,
                      t \in registered' \/ t \in todo[p], Owed(t, p) > joined'[t][p]
               PROVE  \E i \in DOMAIN Stream(t) : Stream(t)[i] = <<p, Owed(t, p)>>
    <3>1. \A t \in Subs, p \in Publishers : Owed(t, p)' = Owed(t, p)
      BY <1>2 DEF Owed
    <3>2. QED
      BY <1>2, <1>3, <3>1 DEF UpToDate, SameStreams
  <2>1. CASE t = s
    BY <1>5, <1>6, <2>1 DEF Owed
  <2>2. CASE t # s
    BY <1>1, <1>2, <1>5, <2>2 DEF UpToDate
  <2>3. QED
    BY <2>1, <2>2
<1>11. Gapless'
  <2>1. \A t \in Subs : t # s => \A j, p, n : Preceded(t, j, p, n)' = Preceded(t, j, p, n)
    BY <1>3, <1>5 DEF Preceded, SameStreams
  <2>2. \A t \in Subs : \A j : Fresh(t, j)' = Fresh(t, j)
    BY <1>3 DEF Fresh, SameStreams
  <2>3. QED
    BY <1>1, <1>3, <1>4, <2>1, <2>2 DEF Gapless, SameStreams
<1>12. Ended'
  BY <1>1, <1>2, <1>3 DEF Ended, SameStreams
<1>13. QED
  BY <1>7, <1>8, <1>9, <1>10, <1>11, <1>12

\* Channels are closed and taken out of the map; nothing is sent.
LEMMA CloseKeeps ==
  ASSUME StreamInv, NEW S, CloseAll(S), UNCHANGED <<stage, current, todo, received, joined>>,
         \A s \in Subs : handler'[s] = "new" => handler[s] = "new",
         \A s \in Subs, p \in Publishers :
           s \in registered' \/ s \in todo[p] => (s \in stale'[p] <=> s \in stale[p])
  PROVE  Bounded' /\ NewIsEmpty' /\ UpToDate' /\ Gapless' /\ Ended'
<1>1. SameStreams
  BY DEF CloseAll, SameStreams, Stream
<1>2. \A s \in Subs, p \in Publishers :
        s \in registered' \/ s \in todo'[p] =>
          (s \in registered \/ s \in todo[p]) /\ Owed(s, p)' = Owed(s, p)
  BY DEF CloseAll, Owed
<1>3. Dispatcher \in Publishers
  BY DEF Publishers
<1>4. QED
  BY <1>1, <1>2, <1>3, StepKeeps

LEMMA PublisherKeeps ==
  ASSUME StreamInv, NEW p \in Publishers, Publisher(p)
  PROVE  Copied' /\ Bounded' /\ NewIsEmpty' /\ UpToDate' /\ Gapless' /\ Ended'
<1>1. TypeOK /\ Copied /\ RegisteredIsOpen
  BY DEF StreamInv, BrokerInv
<1>2. Dispatcher \in Publishers /\ \A w \in Workers : w \in Publishers
  BY DEF Publishers
<1>3. CASE SendOne(p)
  <2>1. PICK s \in todo[p] : Send(p, s)
    BY <1>3 DEF SendOne
  <2>2. /\ stage[p] = "sending" /\ s \in Subs
        /\ todo' = [todo EXCEPT ![p] = @ \ {s}]
        /\ UNCHANGED <<registered, closed, stage, current, handler, received, joined>>
    BY <1>1, <1>3, <2>1 DEF SendOne, Send, reader, TypeOK
  <2>3. /\ todo'[p] = todo[p] \ {s}
        /\ \A q \in Publishers : todo'[q] \subseteq todo[q] /\ (q # p => todo'[q] = todo[q])
    BY <1>1, <2>2 DEF TypeOK
  <2>4. CASE /\ chan' = [chan EXCEPT ![s] = Append(@, <<p, current[p]>>)]
             /\ UNCHANGED <<stale, panicked>>
    <3>1. Copied'
      BY <1>1, <2>2, <2>3, <2>4 DEF Copied
    <3>2. QED
      BY <2>2, <2>4, <3>1, SendKeeps
  <2>5. CASE UNCHANGED chan /\ closed[s] /\ UNCHANGED stale
    <3>1. s \notin registered
      BY <1>1, <2>5 DEF RegisteredIsOpen
    <3>2. SameStreams
      BY <2>2, <2>5 DEF SameStreams, Stream
    <3>3. \A t \in Subs, q \in Publishers :
            t \in registered' \/ t \in todo'[q] =>
              (t \in registered \/ t \in todo[q]) /\ Owed(t, q)' = Owed(t, q)
      BY <2>2, <2>3, <2>5, <3>1 DEF Owed
    <3>4. Copied'
      BY <1>1, <2>2, <2>3, <2>5 DEF Copied
    <3>5. QED
      BY <1>2, <2>2, <2>3, <3>2, <3>3, <3>4, StepKeeps
  <2>6. CASE UNCHANGED chan /\ stale' = [stale EXCEPT ![p] = @ \cup {s}]
    <3>1. stale'[p] = stale[p] \cup {s} /\ \A q \in Publishers : q # p => stale'[q] = stale[q]
      BY <1>1, <2>6 DEF TypeOK
    <3>2. SameStreams
      BY <2>2, <2>6 DEF SameStreams, Stream
    <3>3. \A t \in Subs, q \in Publishers :
            t \in registered' \/ t \in todo'[q] =>
              (t \in registered \/ t \in todo[q]) /\ Owed(t, q)' = Owed(t, q)
      BY <2>2, <2>3, <3>1 DEF Owed
    <3>4. Copied'
      BY <1>1, <2>2, <2>3, <3>1 DEF Copied
    <3>5. QED
      BY <1>2, <2>2, <2>3, <3>2, <3>3, <3>4, StepKeeps
  <2>7. QED
    BY <2>1, <2>4, <2>5, <2>6 DEF Send
<1>4. CASE SendLoopEnds(p) \/ EndPublish(p)
  <2>1. UNCHANGED <<registered, chan, closed, current, todo, stale, handler, received, joined>>
    BY <1>4 DEF SendLoopEnds, EndPublish, broker, reader
  <2>2. /\ p = Dispatcher => stage'[p] # "idle" /\ stage[p] # "idle"
        /\ stage[p] # "returned"
        /\ \A q \in Publishers : q # p => stage'[q] = stage[q]
        /\ todo[p] # {} => stage'[p] = "sending"
        /\ stale[p] # {} => stage'[p] \in {"sending", "evicting"}
    BY <1>1, <1>4 DEF SendLoopEnds, EndPublish, TypeOK, Copied
  <2>3. SameStreams /\ \A t \in Subs, q \in Publishers : Owed(t, q)' = Owed(t, q)
    BY <2>1 DEF SameStreams, Stream, Owed
  <2>4. Copied'
    BY <1>1, <2>1, <2>2 DEF Copied
  <2>5. stage'[Dispatcher] = "idle" <=> stage[Dispatcher] = "idle"
    BY <1>2, <2>2
  <2>6. \A w \in Workers : stage[w] = "returned" => stage'[w] = "returned"
    BY <1>2, <2>2
  <2>7. QED
    BY <1>2, <2>1, <2>3, <2>4, <2>5, <2>6, StepKeeps
<1>5. CASE Evict(p)
  <2>1. PICK s \in stale[p] : RemoveSubscriber(s) /\ stale' = [stale EXCEPT ![p] = @ \ {s}]
    BY <1>5 DEF Evict
  <2>2. /\ CloseAll({s} \cap registered) /\ s \notin registered'
        /\ UNCHANGED <<stage, current, todo, handler, received, joined>>
    BY <1>5, <2>1 DEF Evict, RemoveSubscriber, CloseAll, reader
  <2>3. /\ stale'[p] = stale[p] \ {s} /\ todo[p] = {}
        /\ \A q \in Publishers : q # p => stale'[q] = stale[q]
    BY <1>1, <1>5, <2>1 DEF Evict, TypeOK, Copied
  <2>4. \A t \in Subs, q \in Publishers :
          t \in registered' \/ t \in todo[q] => (t \in stale'[q] <=> t \in stale[q])
    BY <2>2, <2>3
  <2>5. Copied'
    BY <1>1, <2>2, <2>3 DEF Copied
  <2>6. QED
    BY <2>2, <2>4, <2>5, CloseKeeps
<1>6. QED
  BY <1>3, <1>4, <1>5 DEF Publisher

LEMMA NextStream == StreamInv /\ [Next]_vars => StreamInv'
<1> SUFFICES ASSUME StreamInv, [Next]_vars PROVE StreamInv'
  OBVIOUS
<1>1. TypeOK' /\ BrokerInv'
  BY NextTypes, NextBroker DEF StreamInv
<1>2. TypeOK /\ Copied /\ Dispatcher \in Publishers /\ \A w \in Workers : w \in Publishers
  BY DEF StreamInv, Publishers
<1>3. ASSUME NEW w \in Workers, Worker(w)
      PROVE  Copied' /\ Bounded' /\ NewIsEmpty' /\ UpToDate' /\ Gapless' /\ Ended'
  <2>1. w # Dispatcher
    BY PublishersAssumption
  <2>2. CASE Return(w)
    <3>1. UNCHANGED <<registered, chan, closed, current, todo, stale, handler, received, joined>>
      BY <2>2 DEF Return, broker, reader
    <3>2. stage[w] = "idle" /\ stage'[w] = "returned"
          /\ \A q \in Publishers : q # w => stage'[q] = stage[q]
      BY <1>2, <2>2 DEF Return, TypeOK
    <3>3. SameStreams /\ \A t \in Subs, q \in Publishers : Owed(t, q)' = Owed(t, q)
      BY <3>1 DEF SameStreams, Stream, Owed
    <3>4. Copied'
      BY <1>2, <3>1, <3>2 DEF Copied
    <3>5. (stage'[Dispatcher] = "idle" <=> stage[Dispatcher] = "idle")
          /\ \A v \in Workers : stage[v] = "returned" => stage'[v] = "returned"
      BY <1>2, <2>1, <3>2
    <3>6. QED
      BY <1>2, <3>1, <3>3, <3>4, <3>5, StepKeeps
  <2>3. CASE BeginPublish(w)
    BY <1>2, <2>1, <2>3, BeginKeeps
  <2>4. CASE Publisher(w)
    BY <1>2, <2>4, PublisherKeeps
  <2>5. QED
    BY <1>3, <2>2, <2>3, <2>4 DEF Worker, PublishPaymentStatus
<1>4. ASSUME Dispatch
      PROVE  Copied' /\ Bounded' /\ NewIsEmpty' /\ UpToDate' /\ Gapless' /\ Ended'
  <2>1. CASE Publisher(Dispatcher)
    BY <1>2, <2>1, PublisherKeeps
  <2>2. CASE PublishBatchDone
    BY <1>2, <2>2, BeginKeeps DEF PublishBatchDone
  <2>3. CASE CloseBatchDone
    <3>1. /\ stage[Dispatcher] = "closing" /\ stage' = [stage EXCEPT ![Dispatcher] = "returned"]
          /\ CloseAll(registered) /\ UNCHANGED <<current, todo, stale, handler, received, joined>>
      BY <2>3 DEF CloseBatchDone, CloseBatch, reader
    <3>2. stage'[Dispatcher] = "returned"
          /\ \A q \in Publishers : q # Dispatcher => stage'[q] = stage[q]
      BY <1>2, <3>1 DEF TypeOK
    <3>3. SameStreams /\ registered' = {} /\ \A t \in Subs, q \in Publishers : Owed(t, q)' = Owed(t, q)
      BY <3>1 DEF SameStreams, Stream, Owed, CloseAll
    <3>4. Copied'
      BY <1>2, <3>1, <3>2 DEF Copied
    <3>5. stage'[Dispatcher] = "idle" <=> stage[Dispatcher] = "idle"
      BY <3>1, <3>2
    <3>6. \A v \in Workers : stage[v] = "returned" => stage'[v] = "returned"
      BY <1>2, <3>2
    <3>7. QED
      BY <1>2, <3>1, <3>3, <3>4, <3>5, <3>6, StepKeeps
  <2>4. QED
    BY <1>4, <2>1, <2>2, <2>3 DEF Dispatch
<1>5. ASSUME NEW s \in Subs, Subscribe(s) \/ Receive(s) \/ Leave(s)
      PROVE  Copied' /\ Bounded' /\ NewIsEmpty' /\ UpToDate' /\ Gapless' /\ Ended'
  <2>1. CASE Subscribe(s)
    BY <2>1, SubscribeKeeps
  <2>2. CASE Receive(s)
    <3>1. UNCHANGED <<registered, closed, stage, current, todo, stale, handler, joined>>
      BY <2>2 DEF Receive, pub
    <3>2. SameStreams
      BY <1>2, <2>2, ReceiveKeepsStreams
    <3>3. \A t \in Subs, q \in Publishers : Owed(t, q)' = Owed(t, q)
      BY <3>1 DEF Owed
    <3>4. Copied'
      BY <1>2, <3>1 DEF Copied
    <3>5. QED
      BY <1>2, <3>1, <3>2, <3>3, <3>4, StepKeeps
  <2>3. CASE Leave(s)
    <3>1. CloseAll({s} \cap registered) /\ UNCHANGED <<stage, current, todo, stale, received, joined>>
      BY <2>3 DEF Leave, RemoveSubscriber, pub
    <3>2. \A t \in Subs : handler'[t] = "new" => handler[t] = "new"
      BY <1>2, <2>3 DEF Leave, TypeOK
    <3>3. Copied'
      BY <1>2, <3>1 DEF Copied
    <3>4. QED
      BY <3>1, <3>2, <3>3, CloseKeeps
  <2>4. QED
    BY <1>5, <2>1, <2>2, <2>3
<1>6. ASSUME Stopped \/ UNCHANGED vars
      PROVE  Copied' /\ Bounded' /\ NewIsEmpty' /\ UpToDate' /\ Gapless' /\ Ended'
  <2>1. UNCHANGED <<registered, chan, closed, stage, current, todo, stale, handler, received, joined>>
    BY <1>6 DEF Stopped, vars
  <2>2. SameStreams /\ \A t \in Subs, q \in Publishers : Owed(t, q)' = Owed(t, q)
    BY <2>1 DEF SameStreams, Stream, Owed
  <2>3. Copied'
    BY <1>2, <2>1 DEF Copied
  <2>4. QED
    BY <1>2, <2>1, <2>2, <2>3, StepKeeps
<1>7. Copied' /\ Bounded' /\ NewIsEmpty' /\ UpToDate' /\ Gapless' /\ Ended'
  BY <1>3, <1>4, <1>5, <1>6 DEF Next, Handler, EndOfStream, Disconnect
<1>8. QED
  BY <1>1, <1>7 DEF StreamInv

LEMMA InitStream == Init => StreamInv
<1> SUFFICES ASSUME Init PROVE StreamInv
  OBVIOUS
<1>1. TypeOK /\ BrokerInv
  BY InitTypes, InitBroker
<1>2. \A s \in Subs : Stream(s) = <<>> /\ DOMAIN Stream(s) = {}
  BY DEF Init, Stream
<1>3. /\ registered = {} /\ stage[Dispatcher] = "idle"
      /\ \A p \in Publishers : todo[p] = {} /\ stale[p] = {} /\ current[p] = 0
      /\ \A s \in Subs, p \in Publishers : joined[s][p] = 0
  BY DEF Init, Publishers
<1>4. QED
  BY <1>1, <1>2, <1>3
     DEF StreamInv, Copied, Bounded, NewIsEmpty, UpToDate, Gapless, Ended

LEMMA StreamInvariant == Spec => []StreamInv
  BY InitStream, NextStream, PTL DEF Spec

\* A stream that a client sees has no holes and no repetitions, whatever the buffer,
\* the number of workers, and the moment it was opened, evicted or left.
THEOREM StreamsHaveNoGaps == Spec => []StreamHasNoGaps
<1>1. StreamInv => StreamHasNoGaps
  <2> SUFFICES ASSUME StreamInv, NEW s \in Subs, NEW j \in DOMAIN Stream(s)
               PROVE  LET p == Stream(s)[j][1]
                          n == Stream(s)[j][2]
                      IN /\ n > joined[s][p]
                         /\ n = joined[s][p] + 1 \/ \E i \in 1 .. j - 1 : Stream(s)[i] = <<p, n - 1>>
                         /\ \A i \in 1 .. j - 1 : Stream(s)[i] # Stream(s)[j]
    BY DEF StreamHasNoGaps
  <2>1. TypeOK /\ Bounded /\ Gapless
    BY DEF StreamInv
  <2>2. PICK p \in Publishers, n \in Nat : Stream(s)[j] = <<p, n>>
    BY <2>1, StreamType
  <2>3. joined[s][p] < n /\ joined[s][p] \in Nat
    BY <2>1, <2>2 DEF Bounded, TypeOK
  <2>4. Preceded(s, j, p, n) /\ Fresh(s, j)
    BY <2>1, <2>2 DEF Gapless
  <2>5. Stream(s)[j][1] = p /\ Stream(s)[j][2] = n /\ n > joined[s][p]
    BY <2>2, <2>3
  <2>6. QED
    BY <2>4, <2>5 DEF Preceded, Fresh
<1>2. QED
  BY <1>1, StreamInvariant, PTL

\* Whoever is in the map has missed nothing: a subscriber that cannot keep up is
\* closed, never left with a hole.
THEOREM SubscribersMissNothing == Spec => []RegisteredMissesNothing
<1>1. StreamInv => RegisteredMissesNothing
  BY DEF StreamInv, UpToDate, RegisteredMissesNothing, BrokerInv
<1>2. QED
  BY <1>1, StreamInvariant, PTL

\* batch_done is the last event of a stream.
THEOREM DoneEndsTheStream == Spec => []DoneIsLast
<1>1. StreamInv => DoneIsLast
  BY DEF StreamInv, Ended, DoneIsLast
<1>2. QED
  BY <1>1, StreamInvariant, PTL

=============================================================================
