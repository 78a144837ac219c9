------------------------- MODULE BatchStream_proofs -------------------------
(***************************************************************************)
(* Proofs about BatchStream, for any number of workers, clients, attempts  *)
(* and payments: the stream endpoint uses the broker as StreamBroker says, *)
(* so that what is proved of the broker holds of its streams, and no       *)
(* stream is left behind when its batch has ended.                         *)
(***************************************************************************)
EXTENDS BatchStream, StreamBroker_proofs, FiniteSetTheorems

-----------------------------------------------------------------------------
(* The endpoint implements the broker *)

LEMMA StepOfBroker == [StreamNext]_streamVars => [Next]_vars
<1> SUFFICES ASSUME [StreamNext]_streamVars PROVE [Next]_vars
  OBVIOUS
<1>1. ASSUME NEW w \in Workers, PoolWorker(w) PROVE [Next]_vars
  <2>1. CASE Announce(w) \/ WorkerReturns(w) \/ Publisher(w)
    BY <2>1 DEF Announce, WorkerReturns, Worker, Next
  <2>2. CASE StartPayment(w) \/ FinishPayment(w) \/ GiveUpPayment(w)
    BY <2>2 DEF StartPayment, FinishPayment, GiveUpPayment
  <2>3. QED
    BY <1>1, <2>1, <2>2 DEF PoolWorker
<1>2. CASE PoolDispatch
  BY <1>2 DEF PoolDispatch, Next
<1>3. ASSUME NEW s \in Subs, StreamRequest(s) \/ BreakStream(s) \/ KeepAlive(s) PROVE [Next]_vars
  <2>1. CASE Open(s)
    BY <2>1 DEF Open, Next
  <2>2. CASE CountComplete(s) \/ CountFails(s) \/ BreakStream(s)
    BY <2>2 DEF CountComplete, CountFails, BreakStream, Disconnect, Next
  <2>3. CASE Forward(s) \/ EndStream(s)
    BY <2>3 DEF Forward, EndStream, Handler, Next
  <2>4. CASE CountIncomplete(s) \/ KeepAlive(s)
    BY <2>4 DEF CountIncomplete, KeepAlive, streamVars
  <2>5. QED
    BY <1>3, <2>1, <2>2, <2>3, <2>4 DEF StreamRequest
<1>4. CASE Quiet \/ UNCHANGED streamVars
  BY <1>4 DEF Quiet, streamVars
<1>5. QED
  BY <1>1, <1>2, <1>3, <1>4 DEF StreamNext

\* What Service.Stream, the workers and Dispatch do to the broker is what StreamBroker
\* lets its users do.
THEOREM StreamRefinement == StreamSpec => Spec
<1>1. StreamInit => Init
  BY DEF StreamInit
<1>2. QED
  BY <1>1, StepOfBroker, PTL DEF StreamSpec, Spec

\* So the streams that clients are served are whole, and closed once.
THEOREM ServedStreamsAreWhole ==
  StreamSpec => [](NoDoubleClose /\ StreamHasNoGaps /\ RegisteredMissesNothing /\ DoneIsLast)
  BY StreamRefinement, ChannelsAreClosedOnce, StreamsHaveNoGaps, SubscribersMissNothing,
     DoneEndsTheStream, PTL

-----------------------------------------------------------------------------
(* The end of the batch *)

\* Workers that have taken a payment which is not final yet.
Busy == {w \in Workers : work[w] \in {"announce processing", "gateway"}}

\* Every payment waits, is in a worker's hands or is final, but for those that were
\* given up with a failure; a worker returns when none is left.
Accounted ==
  /\ left + final + Cardinality(Busy) <= Total
  /\ left + final + Cardinality(Busy) + failures >= Total
  /\ \A w \in Workers : stage[w] = "returned" => work[w] = "take" /\ left = 0

CountingAtTheEnd ==
  stage[Dispatcher] = "returned" /\ failures = 0 => \A s \in registered : request[s] = "counting"

CounterTypes ==
  left \in Nat /\ final \in Nat /\ failures \in Nat /\ failures <= MaxFailures

EndpointTypes ==
  /\ work \in [Workers -> {"take", "announce processing", "gateway", "announce result"}]
  /\ request \in [Subs -> {"none", "counting", "streaming", "answered"}]
  /\ seen \in SUBSET Clients

EndInv ==
  /\ StreamInv /\ CounterTypes /\ EndpointTypes
  /\ Accounted /\ CountingAtTheEnd /\ DoneIsNotEarly

LEMMA BusyIsFinite ==
  ASSUME NEW S \in SUBSET Workers
  PROVE  IsFiniteSet(S) /\ Cardinality(S) \in Nat
<1>1. IsFiniteSet(Workers)
  BY WorkersAssumption
<1>2. IsFiniteSet(S)
  BY <1>1, FS_Subset
<1>3. QED
  BY <1>2, FS_CardinalityType

\* When no worker is left, what is not final has failed.
LEMMA AllReturned ==
  ASSUME StreamInv, CounterTypes, Accounted, stage[Dispatcher] # "idle"
  PROVE  final + failures >= Total
<1>1. \A w \in Workers : stage[w] = "returned"
  BY DEF StreamInv, Ended
<1>2. Busy = {} /\ left = 0
  BY <1>1, PublishersAssumption DEF Accounted, Busy
<1>3. Cardinality(Busy) = 0
  BY <1>2, FS_EmptySet
<1>4. final \in Nat /\ failures \in Nat /\ Total \in Nat
  BY TotalAssumption DEF CounterTypes
<1>5. left + final + Cardinality(Busy) + failures >= Total
  BY DEF Accounted
<1>6. 0 + final + 0 + failures >= Total
  BY <1>2, <1>3, <1>5
<1>7. QED
  BY <1>4, <1>6

LEMMA InitEnd == StreamInit => EndInv
<1> SUFFICES ASSUME StreamInit PROVE EndInv
  OBVIOUS
<1>1. StreamInv
  BY InitStream DEF StreamInit
<1>2. Busy = {} /\ Cardinality(Busy) = 0
  BY FS_EmptySet DEF StreamInit, Busy
<1>3. CounterTypes /\ EndpointTypes
  BY TotalAssumption, MaxFailuresAssumption DEF StreamInit, CounterTypes, EndpointTypes
<1>4. Accounted
  BY <1>2, TotalAssumption DEF StreamInit, Init, Accounted, Publishers
<1>5. CountingAtTheEnd /\ DoneIsNotEarly
  BY DEF StreamInit, Init, CountingAtTheEnd, DoneIsNotEarly
<1>6. QED
  BY <1>1, <1>3, <1>4, <1>5 DEF EndInv

\* Steps that leave the payments, the workers and the clients alone.
LEMMA AccountedKeeps ==
  ASSUME Accounted, UNCHANGED <<left, final, work>>, failures' = failures,
         \A w \in Workers : stage'[w] = "returned" => stage[w] = "returned"
  PROVE  Accounted'
  BY DEF Accounted, Busy

LEMMA WorkerKeeps ==
  ASSUME EndInv, NEW w \in Workers, PoolWorker(w)
  PROVE  CounterTypes' /\ EndpointTypes' /\ Accounted' /\ CountingAtTheEnd' /\ DoneIsNotEarly'
<1>1. TypeOK /\ CounterTypes /\ EndpointTypes /\ Accounted /\ CountingAtTheEnd /\ DoneIsNotEarly
  BY DEF EndInv, StreamInv
<1>2. /\ w # Dispatcher /\ Dispatcher \in Publishers
      /\ w \in Publishers /\ \A v \in Workers : v \in Publishers
  BY PublishersAssumption DEF Publishers
<1>3. /\ left \in Nat /\ final \in Nat /\ failures \in Nat /\ Total \in Nat /\ MaxFailures \in Nat
      /\ IsFiniteSet(Busy) /\ Cardinality(Busy) \in Nat
  BY <1>1, BusyIsFinite, TotalAssumption, MaxFailuresAssumption DEF CounterTypes, Busy
<1>4. CASE StartPayment(w)
  <2>1. left > 0 /\ left' = left - 1 /\ final' = final /\ failures' = failures
    BY <1>4 DEF StartPayment
  <2>2. work[w] = "take" /\ work' = [work EXCEPT ![w] = "announce processing"]
    BY <1>4 DEF StartPayment, Ready
  <2>3. UNCHANGED <<registered, stage, request, seen>>
    BY <1>4 DEF StartPayment, vars
  <2>4. Busy' = Busy \cup {w} /\ w \notin Busy
    BY <1>1, <2>2 DEF Busy, EndpointTypes
  <2>5. Cardinality(Busy') = Cardinality(Busy) + 1
    BY <1>3, <2>4, FS_AddElement
  <2>6. CounterTypes'
    BY <1>1, <1>3, <2>1 DEF CounterTypes
  <2>7. EndpointTypes'
    BY <1>1, <2>2, <2>3 DEF EndpointTypes
  <2>8. \A v \in Workers : stage[v] # "returned"
    <3>1. left # 0
      BY <1>3, <2>1
    <3>2. QED
      BY <1>1, <3>1 DEF Accounted
  <2>9. left' + final' + Cardinality(Busy') = left + final + Cardinality(Busy)
    BY <1>3, <2>1, <2>5
  <2>10. Accounted'
    BY <1>1, <2>1, <2>3, <2>8, <2>9 DEF Accounted
  <2>11. QED
    BY <1>1, <2>1, <2>3, <2>6, <2>7, <2>10 DEF CountingAtTheEnd, DoneIsNotEarly
<1>5. CASE FinishPayment(w)
  <2>1. final' = final + 1 /\ left' = left /\ failures' = failures
    BY <1>5 DEF FinishPayment
  <2>2. work[w] = "gateway" /\ work' = [work EXCEPT ![w] = "announce result"] /\ stage[w] = "idle"
    BY <1>5 DEF FinishPayment, Ready
  <2>3. UNCHANGED <<registered, stage, request, seen>>
    BY <1>5 DEF FinishPayment, vars
  <2>4. Busy' = Busy \ {w} /\ w \in Busy
    BY <1>1, <2>2 DEF Busy, EndpointTypes
  <2>5. Cardinality(Busy') = Cardinality(Busy) - 1
    BY <1>3, <2>4, FS_RemoveElement
  <2>6. CounterTypes'
    BY <1>1, <1>3, <2>1 DEF CounterTypes
  <2>7. EndpointTypes'
    BY <1>1, <2>2, <2>3 DEF EndpointTypes
  <2>8. \A v \in Workers : stage[v] = "returned" => work'[v] = "take" /\ left = 0
    BY <1>1, <2>2 DEF Accounted, EndpointTypes
  <2>9. left' + final' + Cardinality(Busy') = left + final + Cardinality(Busy)
    BY <1>3, <2>1, <2>5
  <2>10. Accounted'
    BY <1>1, <2>1, <2>3, <2>8, <2>9 DEF Accounted
  <2>11. DoneIsNotEarly'
    <3>1. final + failures >= Total => final' + failures' >= Total
      BY <1>3, <2>1
    <3>2. QED
      BY <1>1, <2>3, <3>1 DEF DoneIsNotEarly
  <2>12. QED
    BY <1>1, <2>1, <2>3, <2>6, <2>7, <2>10, <2>11 DEF CountingAtTheEnd
<1>6. CASE GiveUpPayment(w)
  <2>1. failures < MaxFailures /\ failures' = failures + 1 /\ failures' # 0
    BY <1>3, <1>6 DEF GiveUpPayment
  <2>2. stage[w] = "idle" /\ UNCHANGED <<registered, stage, request, seen>>
    BY <1>6 DEF GiveUpPayment, Ready, vars
  <2>3. CASE work[w] = "take" /\ left > 0 /\ left' = left - 1 /\ UNCHANGED <<final, work>>
    <3>1. Busy' = Busy
      BY <2>3 DEF Busy
    <3>2. \A v \in Workers : stage[v] # "returned"
      <4>1. left # 0
        BY <1>3, <2>3
      <4>2. QED
        BY <1>1, <4>1 DEF Accounted
    <3>3. CounterTypes'
      BY <1>1, <1>3, <2>1, <2>3 DEF CounterTypes
    <3>4. left' + final' + Cardinality(Busy') + 1 = left + final + Cardinality(Busy)
      BY <1>3, <2>3, <3>1
    <3>5. /\ left' + final' + Cardinality(Busy') <= Total
          /\ left' + final' + Cardinality(Busy') + failures' >= Total
      <4>1. /\ left + final + Cardinality(Busy) <= Total
            /\ left + final + Cardinality(Busy) + failures >= Total
        BY <1>1 DEF Accounted
      <4>2. left' \in Nat /\ final' = final /\ Cardinality(Busy') \in Nat
        BY <1>3, <2>3, <3>1
      <4>3. QED
        BY <1>3, <2>1, <3>4, <4>1, <4>2
    <3>6. Accounted'
      BY <2>2, <3>2, <3>5 DEF Accounted
    <3>7. final + failures >= Total => final' + failures' >= Total
      BY <1>3, <2>1, <2>3
    <3>8. QED
      BY <1>1, <2>1, <2>2, <2>3, <3>3, <3>6, <3>7 DEF CountingAtTheEnd, DoneIsNotEarly, EndpointTypes
  <2>4. CASE work[w] = "gateway" /\ final' \in {final, final + 1}
             /\ work' = [work EXCEPT ![w] = "take"] /\ UNCHANGED left
    <3>1. Busy' = Busy \ {w} /\ w \in Busy
      BY <1>1, <2>4 DEF Busy, EndpointTypes
    <3>2. Cardinality(Busy') = Cardinality(Busy) - 1
      BY <1>3, <3>1, FS_RemoveElement
    <3>3. left' = left /\ (final' = final \/ final' = final + 1)
      BY <2>4
    <3>4. CounterTypes'
      BY <1>1, <1>3, <2>1, <3>3 DEF CounterTypes
    <3>5. EndpointTypes'
      BY <1>1, <2>2, <2>4 DEF EndpointTypes
    <3>6. \A v \in Workers : stage[v] = "returned" => work'[v] = "take" /\ left = 0
      BY <1>1, <2>2, <2>4 DEF Accounted, EndpointTypes
    <3>7. /\ left' + final' + Cardinality(Busy') <= Total
          /\ left' + final' + Cardinality(Busy') + failures' >= Total
      <4>1. /\ left + final + Cardinality(Busy) <= Total
            /\ left + final + Cardinality(Busy) + failures >= Total
        BY <1>1 DEF Accounted
      <4>2. QED
        BY <1>3, <2>1, <3>2, <3>3, <4>1
    <3>8. Accounted'
      BY <2>2, <3>3, <3>6, <3>7 DEF Accounted
    <3>9. final + failures >= Total => final' + failures' >= Total
      BY <1>3, <2>1, <3>3
    <3>10. QED
      BY <1>1, <2>1, <2>2, <3>4, <3>5, <3>8, <3>9 DEF CountingAtTheEnd, DoneIsNotEarly
  <2>5. QED
    BY <1>6, <2>3, <2>4 DEF GiveUpPayment, Ready
<1>7. CASE Announce(w)
  <2>1. /\ stage[w] = "idle" /\ stage' = [stage EXCEPT ![w] = "sending"]
        /\ work[w] \in {"announce processing", "announce result"}
        /\ work' = [work EXCEPT ![w] = IF @ = "announce processing" THEN "gateway" ELSE "take"]
        /\ UNCHANGED <<registered, left, final, failures, request, seen>>
    BY <1>7 DEF Announce, PublishPaymentStatus, BeginPublish, broker
  <2>2. Busy' = Busy
    BY <1>1, <2>1 DEF Busy, EndpointTypes
  <2>3. CounterTypes' /\ EndpointTypes'
    <3>1. CounterTypes'
      BY <1>1, <2>1 DEF CounterTypes
    <3>2. EndpointTypes'
      BY <1>1, <2>1 DEF EndpointTypes
    <3>3. QED
      BY <3>1, <3>2
  <2>4. \A v \in Workers : stage'[v] = "returned" => work'[v] = "take" /\ left = 0
    BY <1>1, <1>2, <2>1 DEF Accounted, TypeOK, EndpointTypes
  <2>5. Accounted'
    BY <1>1, <2>1, <2>2, <2>4 DEF Accounted
  <2>6. stage'[Dispatcher] = stage[Dispatcher]
    BY <1>1, <1>2, <2>1 DEF TypeOK
  <2>7. QED
    BY <1>1, <2>1, <2>3, <2>5, <2>6 DEF CountingAtTheEnd, DoneIsNotEarly
<1>8. CASE WorkerReturns(w)
  <2>1. /\ work[w] = "take" /\ left = 0 /\ stage' = [stage EXCEPT ![w] = "returned"]
        /\ UNCHANGED <<registered, left, final, work, failures, request, seen>>
    BY <1>8 DEF WorkerReturns, Return, broker, progress
  <2>2. CounterTypes' /\ EndpointTypes'
    <3>1. CounterTypes'
      BY <1>1, <2>1 DEF CounterTypes
    <3>2. EndpointTypes'
      BY <1>1, <2>1 DEF EndpointTypes
    <3>3. QED
      BY <3>1, <3>2
  <2>3. \A v \in Workers : stage'[v] = "returned" => work'[v] = "take" /\ left = 0
    BY <1>1, <1>2, <2>1 DEF Accounted, TypeOK
  <2>4. Accounted'
    BY <1>1, <2>1, <2>3 DEF Accounted, Busy
  <2>5. stage'[Dispatcher] = stage[Dispatcher]
    BY <1>1, <1>2, <2>1 DEF TypeOK
  <2>6. QED
    BY <1>1, <2>1, <2>2, <2>4, <2>5 DEF CountingAtTheEnd, DoneIsNotEarly
<1>9. CASE Publisher(w) /\ UNCHANGED <<progress, failures, request, seen>>
  <2>1. /\ registered' \subseteq registered
        /\ \A p \in Publishers : p # w => stage'[p] = stage[p]
        /\ stage'[w] # "returned"
    BY <1>1, <1>2, <1>9
       DEF Publisher, SendOne, Send, SendLoopEnds, Evict, RemoveSubscriber, CloseAll, EndPublish,
           broker, TypeOK
  <2>2. UNCHANGED <<left, final, work, failures, request, seen>>
    BY <1>9 DEF progress
  <2>3. CounterTypes' /\ EndpointTypes'
    <3>1. CounterTypes'
      BY <1>1, <2>2 DEF CounterTypes
    <3>2. EndpointTypes'
      BY <1>1, <2>2 DEF EndpointTypes
    <3>3. QED
      BY <3>1, <3>2
  <2>4. \A v \in Workers : stage'[v] = "returned" => stage[v] = "returned"
    BY <1>2, <2>1
  <2>5. Accounted'
    BY <1>1, <2>2, <2>4, AccountedKeeps
  <2>6. QED
    BY <1>1, <1>2, <2>1, <2>2, <2>3, <2>5 DEF CountingAtTheEnd, DoneIsNotEarly
<1>10. QED
  BY <1>4, <1>5, <1>6, <1>7, <1>8, <1>9 DEF PoolWorker

LEMMA DispatchKeeps ==
  ASSUME EndInv, PoolDispatch
  PROVE  CounterTypes' /\ EndpointTypes' /\ Accounted' /\ CountingAtTheEnd' /\ DoneIsNotEarly'
<1>1. TypeOK /\ CounterTypes /\ EndpointTypes /\ Accounted /\ CountingAtTheEnd /\ DoneIsNotEarly
  BY DEF EndInv, StreamInv
<1>2. Dispatcher \in Publishers /\ \A v \in Workers : v \in Publishers /\ v # Dispatcher
  BY PublishersAssumption DEF Publishers
<1>3. UNCHANGED <<left, final, work, failures, request, seen>>
  BY DEF PoolDispatch, progress
<1>4. /\ \A p \in Publishers : p # Dispatcher => stage'[p] = stage[p]
      /\ stage'[Dispatcher] = "returned" => registered' = {}
  <2>1. CASE CloseBatchDone
    BY <1>1, <2>1 DEF CloseBatchDone, CloseBatch, CloseAll, TypeOK
  <2>2. CASE PublishBatchDone
    BY <1>1, <1>2, <2>2 DEF PublishBatchDone, BeginPublish, TypeOK
  <2>3. CASE Publisher(Dispatcher)
    BY <1>1, <1>2, <2>3 DEF Publisher, SendOne, SendLoopEnds, Evict, EndPublish, TypeOK
  <2>4. QED
    BY <2>1, <2>2, <2>3 DEF PoolDispatch, Dispatch
<1>5. CounterTypes' /\ EndpointTypes'
  <2>1. CounterTypes'
    BY <1>1, <1>3 DEF CounterTypes
  <2>2. EndpointTypes'
    BY <1>1, <1>3 DEF EndpointTypes
  <2>3. QED
    BY <2>1, <2>2
<1>6. Accounted'
  BY <1>1, <1>2, <1>3, <1>4, AccountedKeeps
<1>7. QED
  BY <1>1, <1>3, <1>4, <1>5, <1>6 DEF CountingAtTheEnd, DoneIsNotEarly

LEMMA RequestKeeps ==
  ASSUME EndInv, NEW s \in Subs, StreamRequest(s) \/ BreakStream(s)
  PROVE  CounterTypes' /\ EndpointTypes' /\ Accounted' /\ CountingAtTheEnd' /\ DoneIsNotEarly'
<1>1. /\ StreamInv /\ TypeOK /\ CounterTypes /\ EndpointTypes
      /\ Accounted /\ CountingAtTheEnd /\ DoneIsNotEarly
  BY DEF EndInv, StreamInv
<1>2. /\ left \in Nat /\ final \in Nat /\ failures \in Nat /\ Total \in Nat /\ MaxFailures \in Nat
      /\ IsFiniteSet(Busy) /\ Cardinality(Busy) \in Nat /\ s[1] \in Clients
  BY <1>1, BusyIsFinite, TotalAssumption, MaxFailuresAssumption, SubsAssumption
     DEF CounterTypes, Busy
<1>3. Dispatcher \in Publishers
  BY DEF Publishers
<1>4. CASE Open(s)
  <2>1. /\ registered' = registered \cup {s} /\ request' = [request EXCEPT ![s] = "counting"]
        /\ UNCHANGED <<stage, left, final, work, failures, seen>>
    BY <1>4 DEF Open, Subscribe, pub, progress
  <2>2. CounterTypes' /\ EndpointTypes'
    <3>1. CounterTypes'
      BY <1>1, <2>1 DEF CounterTypes
    <3>2. EndpointTypes'
      BY <1>1, <2>1 DEF EndpointTypes
    <3>3. QED
      BY <3>1, <3>2
  <2>3. Accounted'
    BY <1>1, <2>1, AccountedKeeps
  <2>4. request'[s] = "counting" /\ \A t \in Subs : t # s => request'[t] = request[t]
    BY <1>1, <2>1 DEF EndpointTypes
  <2>5. CountingAtTheEnd'
    BY <1>1, <2>1, <2>4 DEF CountingAtTheEnd, TypeOK
  <2>6. QED
    BY <1>1, <2>1, <2>2, <2>3, <2>5 DEF DoneIsNotEarly
<1>5. CASE CountIncomplete(s)
  <2>1. /\ ~ final >= Total /\ request' = [request EXCEPT ![s] = "streaming"]
        /\ UNCHANGED <<registered, stage, left, final, work, failures, seen>>
    BY <1>5 DEF CountIncomplete, Complete, vars, progress
  <2>2. CounterTypes' /\ EndpointTypes'
    <3>1. CounterTypes'
      BY <1>1, <2>1 DEF CounterTypes
    <3>2. EndpointTypes'
      BY <1>1, <2>1 DEF EndpointTypes
    <3>3. QED
      BY <3>1, <3>2
  <2>3. Accounted'
    BY <1>1, <2>1, AccountedKeeps
  <2>4. ~ (stage[Dispatcher] = "returned" /\ failures = 0)
    BY <1>1, <1>2, <2>1, AllReturned
  <2>5. QED
    BY <1>1, <2>1, <2>2, <2>3, <2>4 DEF CountingAtTheEnd, DoneIsNotEarly
<1>6. CASE CountComplete(s) \/ EndStream(s) \/ BreakStream(s)
  <2>1. /\ registered' = registered \ {s} /\ request' = [request EXCEPT ![s] = "answered"]
        /\ UNCHANGED <<stage, left, final, work, failures>>
    BY <1>1, <1>6
       DEF CountComplete, EndStream, BreakStream, EndOfStream, Disconnect, Leave, RemoveSubscriber,
           CloseAll, pub, progress, TypeOK
  <2>2. seen' \in SUBSET Clients /\ (seen' = seen \/ final >= Total)
    BY <1>1, <1>2, <1>6 DEF CountComplete, EndStream, BreakStream, Complete, EndpointTypes
  <2>3. CounterTypes' /\ EndpointTypes'
    <3>1. CounterTypes'
      BY <1>1, <2>1, <2>2 DEF CounterTypes
    <3>2. EndpointTypes'
      BY <1>1, <2>1, <2>2 DEF EndpointTypes
    <3>3. QED
      BY <3>1, <3>2
  <2>4. Accounted'
    BY <1>1, <2>1, AccountedKeeps
  <2>5. CountingAtTheEnd'
    BY <1>1, <2>1 DEF CountingAtTheEnd, EndpointTypes, TypeOK
  <2>6. DoneIsNotEarly'
    BY <1>1, <1>2, <2>1, <2>2 DEF DoneIsNotEarly
  <2>7. QED
    BY <2>3, <2>4, <2>5, <2>6
<1>7. CASE CountFails(s)
  <2>1. /\ failures < MaxFailures /\ failures' = failures + 1
        /\ request' = [request EXCEPT ![s] = "answered"]
        /\ UNCHANGED <<stage, left, final, work, seen>>
    BY <1>7 DEF CountFails, Leave, pub, progress
  <2>2. CounterTypes' /\ EndpointTypes'
    <3>1. CounterTypes'
      BY <1>1, <1>2, <2>1 DEF CounterTypes
    <3>2. EndpointTypes'
      BY <1>1, <1>2, <2>1 DEF EndpointTypes
    <3>3. QED
      BY <3>1, <3>2
  <2>3. Accounted'
    <3>1. left + final + Cardinality(Busy) + failures >= Total
      BY <1>1 DEF Accounted
    <3>2. left + final + Cardinality(Busy) + failures' >= Total
      BY <1>2, <2>1, <3>1
    <3>3. Busy' = Busy
      BY <2>1 DEF Busy
    <3>4. QED
      BY <1>1, <2>1, <3>2, <3>3 DEF Accounted
  <2>4. failures' # 0 /\ final + failures' >= final + failures
    BY <1>2, <2>1
  <2>5. QED
    BY <1>1, <1>2, <2>1, <2>2, <2>3, <2>4 DEF CountingAtTheEnd, DoneIsNotEarly
<1>8. CASE Forward(s)
  <2>1. /\ chan[s] # <<>>
        /\ seen' = IF Head(chan[s]) = BatchDone THEN seen \cup {s[1]} ELSE seen
        /\ UNCHANGED <<registered, stage, left, final, work, failures, request>>
    BY <1>8 DEF Forward, Receive, pub, progress
  <2>2. Head(chan[s]) = BatchDone => final + failures >= Total
    <3> SUFFICES ASSUME Head(chan[s]) = BatchDone PROVE final + failures >= Total
      OBVIOUS
    <3>1. chan[s] \in Seq(Event) /\ received[s] \in Seq(Event) /\ chan[s] # <<>>
      BY <1>1, <2>1 DEF TypeOK
    <3>2. Len(received[s]) + 1 \in DOMAIN Stream(s)
          /\ Stream(s)[Len(received[s]) + 1] = Head(chan[s])
      <4> DEFINE r == received[s]
                 c == chan[s]
      <4>1. r \in Seq(Event) /\ c \in Seq(Event) /\ c # <<>>
        BY <3>1
      <4> HIDE DEF r, c
      <4>2. Len(r) + 1 \in DOMAIN (r \o c) /\ (r \o c)[Len(r) + 1] = Head(c)
        BY <4>1
      <4>3. QED
        BY <4>2 DEF r, c, Stream
    <3>3. stage[Dispatcher] # "idle"
      BY <1>1, <3>2 DEF StreamInv, Ended
    <3>4. QED
      BY <1>1, <3>3, AllReturned
  <2>3. CounterTypes' /\ EndpointTypes'
    <3>1. CounterTypes'
      BY <1>1, <1>2, <2>1 DEF CounterTypes
    <3>2. EndpointTypes'
      BY <1>1, <1>2, <2>1 DEF EndpointTypes
    <3>3. QED
      BY <3>1, <3>2
  <2>4. Accounted'
    BY <1>1, <2>1, AccountedKeeps
  <2>5. QED
    BY <1>1, <2>1, <2>2, <2>3, <2>4 DEF CountingAtTheEnd, DoneIsNotEarly
<1>9. QED
  BY <1>4, <1>5, <1>6, <1>7, <1>8 DEF StreamRequest

LEMMA NextEnd == EndInv /\ [StreamNext]_streamVars => EndInv'
<1> SUFFICES ASSUME EndInv, [StreamNext]_streamVars PROVE EndInv'
  OBVIOUS
<1>1. StreamInv'
  BY StepOfBroker, NextStream DEF EndInv
<1>2. CASE (\E s \in Subs : KeepAlive(s)) \/ Quiet \/ UNCHANGED streamVars
  <2>1. UNCHANGED <<registered, stage, left, final, work, failures, request, seen>>
    BY <1>2 DEF KeepAlive, Quiet, streamVars, vars, progress
  <2>2. CounterTypes' /\ EndpointTypes' /\ CountingAtTheEnd' /\ DoneIsNotEarly'
    BY <2>1 DEF EndInv, CounterTypes, EndpointTypes, CountingAtTheEnd, DoneIsNotEarly
  <2>3. Accounted'
    BY <2>1, AccountedKeeps DEF EndInv
  <2>4. QED
    BY <1>1, <2>2, <2>3 DEF EndInv
<1>3. CASE (\E w \in Workers : PoolWorker(w)) \/ PoolDispatch
           \/ (\E s \in Subs : StreamRequest(s) \/ BreakStream(s))
  BY <1>1, <1>3, WorkerKeeps, DispatchKeeps, RequestKeeps DEF EndInv
<1>4. QED
  BY <1>2, <1>3 DEF StreamNext

LEMMA EndInvariant == StreamSpec => []EndInv
  BY InitEnd, NextEnd, PTL DEF StreamSpec

\* Counters and channels stay within their bounds: no payment is counted twice.
THEOREM StreamTypeCorrect == StreamSpec => []StreamTypeOK
<1>1. EndInv => StreamTypeOK
  <2> SUFFICES ASSUME EndInv PROVE StreamTypeOK
    OBVIOUS
  <2>1. TypeOK /\ CounterTypes /\ EndpointTypes /\ left + final + Cardinality(Busy) <= Total
    BY DEF EndInv, StreamInv, Accounted
  <2>2. Cardinality(Busy) \in Nat
    BY BusyIsFinite DEF Busy
  <2>3. left \in 0..Total /\ final \in 0..Total
    BY <2>1, <2>2, TotalAssumption DEF CounterTypes
  <2>4. failures \in 0..MaxFailures
    BY <2>1, MaxFailuresAssumption DEF CounterTypes
  <2>5. QED
    BY <2>1, <2>3, <2>4 DEF StreamTypeOK, EndpointTypes
<1>2. QED
  BY <1>1, EndInvariant, PTL

\* Unless a database call has failed, a client that comes as the batch ends is not left
\* with a stream that nobody will close: it has still to count, and finds the batch
\* complete.
THEOREM NoStreamIsOrphaned == StreamSpec => []NoOrphanedStream
<1>1. EndInv => NoOrphanedStream
  <2> SUFFICES ASSUME EndInv, stage[Dispatcher] = "returned", failures = 0, NEW s \in registered
               PROVE  request[s] = "counting" /\ Complete
    BY DEF NoOrphanedStream
  <2>1. StreamInv /\ CounterTypes /\ Accounted /\ CountingAtTheEnd
    BY DEF EndInv
  <2>2. final + failures >= Total
    BY <2>1, AllReturned
  <2>3. final >= Total
    BY <2>1, <2>2, TotalAssumption DEF CounterTypes
  <2>4. QED
    BY <2>1, <2>3 DEF CountingAtTheEnd, Complete
<1>2. QED
  BY <1>1, EndInvariant, PTL

\* No client is told that the batch is done while a payment may still change.
THEOREM DoneIsTold == StreamSpec => []DoneIsNotEarly
  BY EndInvariant, PTL DEF EndInv

=============================================================================
