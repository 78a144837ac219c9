---------------------------- MODULE Service_proofs ----------------------------
(***************************************************************************)
(* Proofs about the connections of the service, for any number of batches, *)
(* workers, requests, connections and failures; about the harness that     *)
(* loads it, for any number of scenarios, rows and ticks; and about the    *)
(* parser of the uploaded file, for files of any length.                   *)
(***************************************************************************)
EXTENDS MCService, Accounts_proofs, FiniteSetTheorems, WellFoundedInduction, TLAPS

-----------------------------------------------------------------------------
(* Connections *)

Place == {"idle", "ready", "waiting", "holding", "locked", "gateway", "done"}

\* What the steps preserve of the types.
PoolTypes ==
  /\ dispatched \subseteq Batches
  /\ at \in [Holders -> Place]
  /\ queue \in Seq(Holders)
  /\ holders \subseteq Holders
  /\ row \in [Batches -> Workers \cup {None}]

\* A client is in the queue once, and only while it waits.
QueuedWait ==
  /\ \A i \in 1..Len(queue) : at[queue[i]] = "waiting"
  /\ \A i, j \in 1..Len(queue) : queue[i] = queue[j] => i = j

\* The goroutines of a batch do not exist before its Dispatch.
UndispatchedIdle == \A w \in Workers : w[1] \notin dispatched => at[w] = "idle"

ConnInv == PoolTypes /\ QueuedWait /\ UndispatchedIdle /\ NothingLeaks

-----------------------------------------------------------------------------
(* Queues *)

\* A client that was not in the queue goes to its end.
LEMMA AskQueues ==
  ASSUME PoolTypes, QueuedWait, NEW c \in Holders, at[c] # "waiting", Ask(c)
  PROVE  /\ at' \in [Holders -> Place] /\ queue' \in Seq(Holders)
         /\ QueuedWait'
<1>1. queue \in Seq(Holders) /\ at \in [Holders -> Place] /\ Len(queue) \in Nat
  BY DEF PoolTypes
<1>2. /\ queue' \in Seq(Holders) /\ Len(queue') = Len(queue) + 1
      /\ queue'[Len(queue) + 1] = c
      /\ \A i \in 1..Len(queue) : queue'[i] = queue[i]
  BY <1>1 DEF Ask
<1>3. at' = [at EXCEPT ![c] = "waiting"]
  BY DEF Ask
<1>4. at' \in [Holders -> Place]
  BY <1>1, <1>3 DEF Place
<1>5. \A i \in 1..Len(queue) : queue[i] \in Holders /\ at[queue[i]] = "waiting" /\ queue[i] # c
  BY <1>1 DEF QueuedWait
<1>6. \A i \in 1..Len(queue') : i = Len(queue) + 1 \/ i \in 1..Len(queue)
  BY <1>1, <1>2
<1>7. \A i \in 1..Len(queue') : at'[queue'[i]] = "waiting"
  BY <1>1, <1>2, <1>3, <1>5, <1>6
<1>8. \A i, j \in 1..Len(queue') : queue'[i] = queue'[j] => i = j
  BY <1>2, <1>5, <1>6 DEF QueuedWait
<1>9. QED
  BY <1>2, <1>4, <1>7, <1>8 DEF QueuedWait

\* The queue stays as it is, and so do the clients in it.
LEMMA QueueKeeps ==
  ASSUME PoolTypes, QueuedWait, queue' = queue,
         \A c \in Holders : at[c] = "waiting" => at'[c] = "waiting"
  PROVE  QueuedWait'
  BY DEF PoolTypes, QueuedWait

\* What RemoveAt leaves.
LEMMA RemovedAt ==
  ASSUME NEW S, NEW q \in Seq(S), NEW k \in 1..Len(q)
  PROVE  /\ RemoveAt(q, k) \in Seq(S) /\ Len(RemoveAt(q, k)) = Len(q) - 1
         /\ \A i \in 1..Len(q) - 1 : RemoveAt(q, k)[i] = IF i < k THEN q[i] ELSE q[i + 1]
<1> DEFINE front == SubSeq(q, 1, k - 1)
           back  == SubSeq(q, k + 1, Len(q))
           r     == RemoveAt(q, k)
<1>0. Len(q) \in Nat
  OBVIOUS
<1>1. /\ front \in Seq(S) /\ Len(front) = k - 1
      /\ \A i \in 1..k - 1 : front[i] = q[i]
  OBVIOUS
<1>2. /\ back \in Seq(S) /\ Len(back) = Len(q) - k
      /\ \A i \in 1..Len(q) - k : back[i] = q[k + i]
  OBVIOUS
<1>3. r = front \o back
  BY DEF RemoveAt
<1> HIDE DEF front, back, r
<1>4. r \in Seq(S) /\ Len(r) = Len(q) - 1
  <2>1. front \in Seq(S) /\ back \in Seq(S)
    BY <1>1, <1>2
  <2>2. r \in Seq(S) /\ Len(r) = Len(front) + Len(back)
    BY <2>1, <1>3
  <2>3. Len(front) = k - 1 /\ Len(back) = Len(q) - k
    BY <1>1, <1>2
  <2> QED
    BY <1>0, <2>2, <2>3
<1>5. ASSUME NEW i \in 1..Len(q) - 1, i < k PROVE r[i] = q[i]
  BY <1>0, <1>1, <1>2, <1>3, <1>5
<1>6. ASSUME NEW i \in 1..Len(q) - 1, ~(i < k) PROVE r[i] = q[i + 1]
  <2>1. r[i] = back[i - (k - 1)]
    BY <1>0, <1>1, <1>2, <1>3, <1>6
  <2>2. i - (k - 1) \in 1..Len(q) - k /\ k + (i - (k - 1)) = i + 1
    BY <1>0, <1>6
  <2> QED
    BY <1>2, <2>1, <2>2
<1> QED
  BY <1>4, <1>5, <1>6 DEF r

LEMMA TailRemoves ==
  ASSUME NEW S, NEW q \in Seq(S), q # <<>>
  PROVE  Tail(q) = RemoveAt(q, 1)
<1>1. SubSeq(q, 1, 0) = <<>> /\ SubSeq(q, 2, Len(q)) = Tail(q)
  OBVIOUS
<1>2. Tail(q) \in Seq(S)
  OBVIOUS
<1>3. <<>> \o Tail(q) = Tail(q)
  BY <1>2
<1> QED
  BY <1>1, <1>3 DEF RemoveAt

\* One of the clients in the queue leaves it and does not wait any more.
LEMMA LeaveQueues ==
  ASSUME PoolTypes, QueuedWait, NEW k \in 1..Len(queue), NEW p \in Place,
         queue' = RemoveAt(queue, k), at' = [at EXCEPT ![queue[k]] = p]
  PROVE  queue' \in Seq(Holders) /\ QueuedWait'
<1>1. queue \in Seq(Holders) /\ at \in [Holders -> Place] /\ Len(queue) \in Nat
  BY DEF PoolTypes
<1>3. /\ queue' \in Seq(Holders) /\ Len(queue') = Len(queue) - 1
      /\ \A i \in 1..Len(queue) - 1 : queue'[i] = IF i < k THEN queue[i] ELSE queue[i + 1]
  BY <1>1, RemovedAt
<1>4. \A i \in 1..Len(queue) : i # k => queue[i] \in Holders /\ at[queue[i]] = "waiting"
                                        /\ queue[i] # queue[k]
  BY <1>1 DEF QueuedWait
<1>5. \A i \in 1..Len(queue') : \E j \in 1..Len(queue) :
        j # k /\ queue'[i] = queue[j] /\ j = IF i < k THEN i ELSE i + 1
  BY <1>1, <1>3
<1>6. \A i \in 1..Len(queue') : at'[queue'[i]] = "waiting"
  BY <1>1, <1>4, <1>5
<1>7. \A i, j \in 1..Len(queue') : queue'[i] = queue'[j] => i = j
  BY <1>1, <1>3, <1>5 DEF QueuedWait
<1>8. QED
  BY <1>3, <1>6, <1>7 DEF QueuedWait

-----------------------------------------------------------------------------
(* The steps *)

LEMMA InitConn == ConnectionsInit => ConnInv
<1> SUFFICES ASSUME ConnectionsInit PROVE ConnInv
  OBVIOUS
<1>1. PoolTypes /\ QueuedWait
  BY DEF ConnectionsInit, PoolTypes, QueuedWait, Place
<1>2. UndispatchedIdle /\ NothingLeaks
  BY DEF ConnectionsInit, UndispatchedIdle, NothingLeaks, Holders
<1>3. QED
  BY <1>1, <1>2 DEF ConnInv

\* Who gives connection and row back may go anywhere.
LEMMA ReleaseLeavesNothing ==
  ASSUME PoolTypes, NothingLeaks, NEW w \in Workers, Release(w),
         \A c \in Holders : c # w => at'[c] = at[c]
  PROVE  /\ NothingLeaks' /\ holders' \subseteq Holders
         /\ row' \in [Batches -> Workers \cup {None}]
<1>1. holders' = holders \ {w} /\ row' = [b \in Batches |-> IF row[b] = w THEN None ELSE row[b]]
  BY DEF Release
<1>2. row \in [Batches -> Workers \cup {None}] /\ holders \subseteq Holders
  BY DEF PoolTypes
<1>3. \A c \in holders' : at'[c] \in {"holding", "locked"}
  BY <1>1, <1>2 DEF NothingLeaks
<1>4. ASSUME NEW b \in Batches, row'[b] # None PROVE at'[row'[b]] = "locked"
  <2>1. row'[b] = row[b] /\ row[b] # w /\ row[b] # None /\ row[b] \in Workers
    BY <1>1, <1>2, <1>4
  <2>2. QED
    BY <2>1 DEF NothingLeaks, Holders
<1>5. QED
  BY <1>1, <1>2, <1>3, <1>4 DEF NothingLeaks

\* Who has neither connection nor row may go anywhere.
LEMMA MovesHoldingNothing ==
  ASSUME PoolTypes, NothingLeaks, UNCHANGED <<holders, row>>,
         \A c \in Holders : at[c] \in {"holding", "locked"} => at'[c] = at[c]
  PROVE  NothingLeaks'
<1>1. row \in [Batches -> Workers \cup {None}] /\ holders \subseteq Holders
  BY DEF PoolTypes
<1>2. \A c \in holders' : at'[c] \in {"holding", "locked"}
  BY <1>1 DEF NothingLeaks
<1>3. ASSUME NEW b \in Batches, row'[b] # None PROVE at'[row'[b]] = "locked"
  <2>1. row[b] \in Holders /\ row'[b] = row[b] /\ at[row[b]] = "locked"
    BY <1>1, <1>3 DEF NothingLeaks, Holders
  <2>2. QED
    BY <2>1
<1>4. QED
  BY <1>2, <1>3 DEF NothingLeaks

LEMMA ConnStep == ConnInv /\ [ConnectionsNext]_connectionsVars => ConnInv'
<1> SUFFICES ASSUME ConnInv, [ConnectionsNext]_connectionsVars PROVE ConnInv'
  OBVIOUS
<1>0. PoolTypes /\ QueuedWait /\ UndispatchedIdle /\ NothingLeaks
  BY DEF ConnInv
<1>t. /\ dispatched \subseteq Batches /\ at \in [Holders -> Place]
      /\ queue \in Seq(Holders) /\ Len(queue) \in Nat
      /\ holders \subseteq Holders /\ row \in [Batches -> Workers \cup {None}]
  BY <1>0 DEF PoolTypes
<1>n. Workers \subseteq Holders /\ Requests \subseteq Holders
      /\ Workers \cap Requests = {} /\ None \notin Holders
  BY HoldersAssumption DEF Holders
<1>b. \A w \in Workers : w[1] \in Batches
  BY DEF Workers
<1>1. CASE Grant
  <2>1. /\ queue # <<>> /\ holders' = holders \cup {Head(queue)}
        /\ at' = [at EXCEPT ![Head(queue)] = "holding"]
        /\ queue' = Tail(queue) /\ UNCHANGED <<dispatched, row>>
    BY <1>1 DEF Grant
  <2>2. 1 \in 1..Len(queue) /\ Head(queue) = queue[1] /\ queue[1] \in Holders
    BY <1>t, <2>1
  <2>3. Tail(queue) = RemoveAt(queue, 1)
    BY <1>t, <2>1, TailRemoves
  <2>4. queue' \in Seq(Holders) /\ QueuedWait'
    BY <1>0, <2>1, <2>2, <2>3, LeaveQueues DEF Place
  <2>5. at[queue[1]] = "waiting"
    BY <1>0, <2>2 DEF QueuedWait
  <2>6. NothingLeaks'
    <3>1. \A c \in holders' : at'[c] \in {"holding", "locked"}
      BY <1>0, <1>t, <2>1, <2>2 DEF NothingLeaks
    <3>2. ASSUME NEW b \in Batches, row'[b] # None PROVE at'[row'[b]] = "locked"
      <4>1. row[b] \in Holders /\ row'[b] = row[b] /\ at[row[b]] = "locked"
        BY <1>0, <1>t, <1>n, <2>1, <3>2 DEF NothingLeaks
      <4>2. QED
        BY <1>t, <2>1, <2>2, <2>5, <4>1
    <3>3. QED
      BY <3>1, <3>2 DEF NothingLeaks
  <2>7. UndispatchedIdle'
    BY <1>0, <1>t, <1>n, <2>1, <2>2, <2>5 DEF UndispatchedIdle
  <2>8. at' \in [Holders -> Place] /\ holders' \subseteq Holders
    BY <1>t, <2>1, <2>2 DEF Place
  <2>9. QED
    BY <1>t, <2>1, <2>4, <2>6, <2>7, <2>8 DEF ConnInv, PoolTypes
<1>2. ASSUME NEW b \in Batches, Dispatch(b) PROVE ConnInv'
  <2>1. /\ b \notin dispatched /\ dispatched' = dispatched \cup {b}
        /\ at' = [c \in Holders |-> IF c \in Workers /\ c[1] = b THEN "ready" ELSE at[c]]
        /\ UNCHANGED <<queue, holders, row>>
    BY <1>2 DEF Dispatch
  <2>2. \A c \in Holders : at[c] # "idle" => at'[c] = at[c]
    BY <1>0, <2>1 DEF UndispatchedIdle
  <2>3. QueuedWait'
    BY <1>0, <2>1, <2>2, QueueKeeps
  <2>4. NothingLeaks'
    BY <1>0, <2>1, <2>2, MovesHoldingNothing
  <2>5. UndispatchedIdle'
    BY <1>0, <1>n, <2>1 DEF UndispatchedIdle
  <2>6. PoolTypes'
    BY <1>t, <2>1 DEF PoolTypes, Place
  <2>7. QED
    BY <2>3, <2>4, <2>5, <2>6 DEF ConnInv
<1>3. ASSUME NEW w \in Workers, at[w] # "idle", \A c \in Holders : c # w => at'[c] = at[c],
             UNCHANGED dispatched
      PROVE  UndispatchedIdle'
  BY <1>0, <1>3, <1>n DEF UndispatchedIdle
<1>4. ASSUME NEW w \in Workers, Take(w) \/ GatewayAnswers(w) PROVE ConnInv'
  <2>1. Ask(w) /\ at[w] \in {"ready", "gateway"} /\ UNCHANGED <<dispatched, holders, row>>
    BY <1>4 DEF Take, GatewayAnswers
  <2>2. at' \in [Holders -> Place] /\ queue' \in Seq(Holders) /\ QueuedWait'
    BY <1>0, <1>n, <2>1, AskQueues
  <2>3. \A c \in Holders : c # w => at'[c] = at[c]
    BY <1>t, <2>1 DEF Ask
  <2>4. NothingLeaks'
    BY <1>0, <2>1, <2>3, MovesHoldingNothing
  <2>5. QED
    BY <1>3, <1>t, <2>1, <2>2, <2>3, <2>4 DEF ConnInv, PoolTypes
<1>5. ASSUME NEW w \in Workers, Exit(w) PROVE ConnInv'
  <2>1. at[w] = "ready" /\ at' = [at EXCEPT ![w] = "done"] /\ UNCHANGED <<dispatched, queue, holders, row>>
    BY <1>5 DEF Exit
  <2>2. at' \in [Holders -> Place] /\ \A c \in Holders : c # w => at'[c] = at[c]
    BY <1>t, <2>1 DEF Place
  <2>3. QueuedWait' /\ NothingLeaks'
    BY <1>0, <2>1, <2>2, QueueKeeps, MovesHoldingNothing
  <2>4. QED
    BY <1>3, <1>t, <2>1, <2>2, <2>3 DEF ConnInv, PoolTypes
<1>6. ASSUME NEW w \in Workers, LockRow(w) PROVE ConnInv'
  <2>1. /\ at[w] = "holding" /\ row[w[1]] = None /\ row' = [row EXCEPT ![w[1]] = w]
        /\ at' = [at EXCEPT ![w] = "locked"] /\ UNCHANGED <<dispatched, queue, holders>>
    BY <1>6 DEF LockRow
  <2>2. at' \in [Holders -> Place] /\ \A c \in Holders : c # w => at'[c] = at[c]
    BY <1>t, <2>1 DEF Place
  <2>3. at'[w] = "locked" /\ row' \in [Batches -> Workers \cup {None}]
    BY <1>t, <1>n, <1>b, <2>1
  <2>4. QueuedWait'
    BY <1>0, <2>1, <2>2, QueueKeeps
  <2>5. \A c \in holders' : at'[c] \in {"holding", "locked"}
    BY <1>0, <1>t, <2>1, <2>2, <2>3 DEF NothingLeaks
  <2>6. ASSUME NEW b \in Batches, row'[b] # None PROVE at'[row'[b]] = "locked"
    <3>1. row'[b] = w \/ (row'[b] = row[b] /\ row[b] # None)
      BY <1>t, <2>1, <2>6
    <3>2. (row'[b] = row[b] /\ row[b] # None) => (row[b] \in Holders /\ at[row[b]] = "locked")
      BY <1>0, <1>t, <1>n DEF NothingLeaks
    <3>3. QED
      BY <2>2, <2>3, <3>1, <3>2
  <2>7. QED
    BY <1>3, <1>t, <2>1, <2>2, <2>3, <2>4, <2>5, <2>6 DEF ConnInv, PoolTypes, NothingLeaks
<1>7. ASSUME NEW w \in Workers, Commit(w) PROVE ConnInv'
  <2>1. at[w] = "locked" /\ Release(w) /\ UNCHANGED dispatched
        /\ \/ at' = [at EXCEPT ![w] = "gateway"] /\ UNCHANGED queue
           \/ Ask(w)
    BY <1>7 DEF Commit
  <2>2. \A c \in Holders : c # w => at'[c] = at[c]
    BY <1>t, <2>1 DEF Ask
  <2>3. at' \in [Holders -> Place] /\ queue' \in Seq(Holders) /\ QueuedWait'
    <3>1. CASE Ask(w)
      BY <1>0, <1>n, <2>1, <3>1, AskQueues
    <3>2. CASE at' = [at EXCEPT ![w] = "gateway"] /\ UNCHANGED queue
      BY <1>0, <1>t, <2>1, <2>2, <3>2, QueueKeeps DEF Place
    <3>3. QED
      BY <2>1, <3>1, <3>2
  <2>4. NothingLeaks' /\ holders' \subseteq Holders /\ row' \in [Batches -> Workers \cup {None}]
    BY <1>0, <2>1, <2>2, ReleaseLeavesNothing
  <2>5. QED
    BY <1>3, <1>t, <2>1, <2>2, <2>3, <2>4 DEF ConnInv, PoolTypes
<1>8. ASSUME NEW w \in Workers, SetProcessedAt(w) \/ CallFails(w) PROVE ConnInv'
  <2>1. /\ at[w] \in {"holding", "locked"} /\ Release(w) /\ UNCHANGED <<dispatched, queue>>
        /\ at' = [at EXCEPT ![w] = "ready"]
    BY <1>8 DEF SetProcessedAt, CallFails
  <2>2. at' \in [Holders -> Place] /\ \A c \in Holders : c # w => at'[c] = at[c]
    BY <1>t, <2>1 DEF Place
  <2>3. QueuedWait'
    BY <1>0, <2>1, <2>2, QueueKeeps
  <2>4. NothingLeaks' /\ holders' \subseteq Holders /\ row' \in [Batches -> Workers \cup {None}]
    BY <1>0, <2>1, <2>2, ReleaseLeavesNothing
  <2>5. QED
    BY <1>3, <1>t, <2>1, <2>2, <2>3, <2>4 DEF ConnInv, PoolTypes
<1>9. ASSUME NEW r \in Requests, \A c \in Holders : c # r => at'[c] = at[c], UNCHANGED dispatched
      PROVE  UndispatchedIdle'
  BY <1>0, <1>9, <1>n DEF UndispatchedIdle
<1>10. ASSUME NEW r \in Requests, Arrive(r) PROVE ConnInv'
  <2>1. Ask(r) /\ at[r] = "idle" /\ UNCHANGED <<dispatched, holders, row>>
    BY <1>10 DEF Arrive
  <2>2. at' \in [Holders -> Place] /\ queue' \in Seq(Holders) /\ QueuedWait'
    BY <1>0, <1>n, <2>1, AskQueues
  <2>3. \A c \in Holders : c # r => at'[c] = at[c]
    BY <1>t, <2>1 DEF Ask
  <2>4. NothingLeaks'
    BY <1>0, <2>1, <2>3, MovesHoldingNothing
  <2>5. QED
    BY <1>9, <1>t, <2>1, <2>2, <2>3, <2>4 DEF ConnInv, PoolTypes
<1>11. ASSUME NEW r \in Requests, AnswerRequest(r) \/ Cancel(r) PROVE ConnInv'
  <2>1. /\ at[r] \in {"waiting", "holding"} /\ holders' = holders \ {r}
        /\ at' = [at EXCEPT ![r] = "done"] /\ UNCHANGED <<dispatched, row>>
    BY <1>11 DEF AnswerRequest, Cancel
  <2>2. at' \in [Holders -> Place] /\ \A c \in Holders : c # r => at'[c] = at[c]
    BY <1>t, <2>1 DEF Place
  <2>3. queue' \in Seq(Holders) /\ QueuedWait'
    <3>1. CASE at[r] = "holding"
      <4>1. UNCHANGED queue
        BY <1>11, <3>1 DEF AnswerRequest, Cancel
      <4>2. QED
        BY <1>0, <1>t, <2>2, <3>1, <4>1, QueueKeeps
    <3>2. CASE at[r] = "waiting"
      <4>1. PICK i \in DOMAIN queue : queue[i] = r /\ queue' = RemoveAt(queue, i)
        BY <1>11, <3>2 DEF AnswerRequest, Cancel
      <4>2. i \in 1..Len(queue)
        BY <1>t
      <4>3. QED
        BY <1>0, <2>1, <4>1, <4>2, LeaveQueues DEF Place
    <3>3. QED
      BY <2>1, <3>1, <3>2
  <2>4. NothingLeaks'
    <3>1. \A c \in holders' : at'[c] \in {"holding", "locked"}
      BY <1>0, <1>t, <2>1, <2>2 DEF NothingLeaks
    <3>2. ASSUME NEW b \in Batches, row'[b] # None PROVE at'[row'[b]] = "locked"
      <4>1. row[b] \in Holders /\ row'[b] = row[b] /\ at[row[b]] = "locked"
        BY <1>0, <1>t, <1>n, <2>1, <3>2 DEF NothingLeaks
      <4>2. QED
        BY <2>1, <2>2, <4>1
    <3>3. QED
      BY <3>1, <3>2 DEF NothingLeaks
  <2>5. QED
    BY <1>9, <1>t, <2>1, <2>2, <2>3, <2>4 DEF ConnInv, PoolTypes
<1>12. CASE UNCHANGED connectionsVars
  BY <1>0, <1>12 DEF connectionsVars, ConnInv, PoolTypes, QueuedWait, UndispatchedIdle, NothingLeaks
<1>13. QED
  BY <1>1, <1>2, <1>4, <1>5, <1>6, <1>7, <1>8, <1>10, <1>11, <1>12 DEF ConnectionsNext, Worker

THEOREM ConnectionsInvCorrect == ConnectionsSpec => []ConnInv
  BY InitConn, ConnStep, PTL DEF ConnectionsSpec

\* Connections and row locks are held only by clients that are at work with them, and
\* nobody waits for a connection with one in hand: for any number of batches on any pool.
THEOREM WhatIsHeldIsUsed == ConnectionsSpec => []HeldIsInUse
<1>1. ConnInv => HeldIsInUse
  <2> SUFFICES ASSUME ConnInv PROVE HeldIsInUse
    OBVIOUS
  <2>1. ASSUME NEW c \in Range(queue) PROVE c \notin holders /\ \A b \in Batches : row[b] # c
    <3>1. PICK i \in 1..Len(queue) : c = queue[i]
      BY DEF ConnInv, PoolTypes, Range
    <3>2. at[c] = "waiting" /\ c \in Holders
      BY <3>1 DEF ConnInv, PoolTypes, QueuedWait
    <3>3. QED
      BY <3>2, HoldersAssumption DEF ConnInv, NothingLeaks
  <2>2. QED
    BY <2>1 DEF HeldIsInUse, NoHoldAndWait, ConnInv
<1>2. QED
  BY <1>1, ConnectionsInvCorrect, PTL

-----------------------------------------------------------------------------
(* Nobody waits for nothing: the waiting clients, and those they wait for. *)

\* Who waits for a connection is in the queue.
WaitersQueue == \A c \in Holders : at[c] = "waiting" => \E i \in 1..Len(queue) : queue[i] = c

\* Who has not just begun to wait waited before.
LEMMA WaitersStay ==
  ASSUME WaitersQueue, queue' = queue,
         \A c \in Holders : at'[c] = "waiting" => at[c] = "waiting"
  PROVE  WaitersQueue'
BY DEF WaitersQueue

LEMMA WaitersAsk ==
  ASSUME PoolTypes, WaitersQueue, NEW c \in Holders, Ask(c)
  PROVE  WaitersQueue'
<1>1. queue \in Seq(Holders) /\ at \in [Holders -> Place] /\ Len(queue) \in Nat
  BY DEF PoolTypes
<1>2. /\ Len(queue') = Len(queue) + 1 /\ queue'[Len(queue) + 1] = c
      /\ \A i \in 1..Len(queue) : queue'[i] = queue[i]
  BY <1>1 DEF Ask
<1>3. \A d \in Holders : d # c => at'[d] = at[d]
  BY <1>1 DEF Ask
<1>4. ASSUME NEW d \in Holders, at'[d] = "waiting"
      PROVE  \E i \in 1..Len(queue') : queue'[i] = d
  <2>1. CASE d = c
    <3>1. Len(queue) + 1 \in 1..Len(queue')
      BY <1>1, <1>2
    <3> QED
      BY <1>2, <2>1, <3>1
  <2>2. CASE d # c
    <3>1. PICK i \in 1..Len(queue) : queue[i] = d
      BY <1>3, <1>4, <2>2 DEF WaitersQueue
    <3>2. i \in 1..Len(queue')
      BY <1>1, <1>2
    <3> QED
      BY <1>2, <3>1, <3>2
  <2> QED
    BY <2>1, <2>2
<1> QED
  BY <1>4 DEF WaitersQueue

\* The others keep their place in the order when one leaves.
LEMMA WaitersLeave ==
  ASSUME PoolTypes, WaitersQueue, NEW k \in 1..Len(queue), NEW p, p # "waiting",
         queue' = RemoveAt(queue, k), at' = [at EXCEPT ![queue[k]] = p]
  PROVE  WaitersQueue'
<1>1. queue \in Seq(Holders) /\ at \in [Holders -> Place] /\ Len(queue) \in Nat
  BY DEF PoolTypes
<1>2. /\ Len(queue') = Len(queue) - 1
      /\ \A i \in 1..Len(queue) - 1 : queue'[i] = IF i < k THEN queue[i] ELSE queue[i + 1]
  BY <1>1, RemovedAt
<1>3. ASSUME NEW d \in Holders, at'[d] = "waiting"
      PROVE  \E i \in 1..Len(queue') : queue'[i] = d
  <2>1. d # queue[k] /\ at[d] = "waiting"
    BY <1>1, <1>3
  <2>2. PICK i \in 1..Len(queue) : queue[i] = d
    BY <2>1 DEF WaitersQueue
  <2>3. i # k
    BY <2>1, <2>2
  <2>4. CASE i < k
    <3>1. i \in 1..Len(queue) - 1
      BY <1>1, <2>4
    <3> QED
      BY <1>2, <2>2, <2>4, <3>1
  <2>5. CASE i > k
    <3>1. i - 1 \in 1..Len(queue) - 1 /\ ~(i - 1 < k) /\ (i - 1) + 1 = i
      BY <1>1, <2>5
    <3> QED
      BY <1>2, <2>2, <3>1
  <2> QED
    BY <1>1, <2>3, <2>4, <2>5
<1> QED
  BY <1>3 DEF WaitersQueue

LEMMA WaitersStep == ConnInv /\ WaitersQueue /\ [ConnectionsNext]_connectionsVars => WaitersQueue'
<1> SUFFICES ASSUME ConnInv, WaitersQueue, [ConnectionsNext]_connectionsVars PROVE WaitersQueue'
  OBVIOUS
<1>0. PoolTypes /\ QueuedWait
  BY DEF ConnInv
<1>t. at \in [Holders -> Place] /\ queue \in Seq(Holders) /\ Len(queue) \in Nat
  BY <1>0 DEF PoolTypes
<1>n. Workers \subseteq Holders /\ Requests \subseteq Holders
  BY DEF Holders
<1>1. CASE Grant
  <2>1. /\ queue # <<>> /\ queue' = Tail(queue)
        /\ at' = [at EXCEPT ![Head(queue)] = "holding"]
    BY <1>1 DEF Grant
  <2>2. 1 \in 1..Len(queue) /\ Head(queue) = queue[1] /\ Tail(queue) = RemoveAt(queue, 1)
    BY <1>t, <2>1, TailRemoves
  <2> QED
    BY <1>0, <2>1, <2>2, WaitersLeave
<1>2. ASSUME NEW b \in Batches, Dispatch(b) PROVE WaitersQueue'
  BY <1>2, WaitersStay DEF Dispatch
<1>3. ASSUME NEW w \in Workers, Take(w) \/ GatewayAnswers(w) PROVE WaitersQueue'
  BY <1>0, <1>3, <1>n, WaitersAsk DEF Take, GatewayAnswers
<1>4. ASSUME NEW w \in Workers, Exit(w) \/ LockRow(w) \/ SetProcessedAt(w) \/ CallFails(w)
      PROVE  WaitersQueue'
  BY <1>4, <1>t, <1>n, WaitersStay DEF Exit, LockRow, SetProcessedAt, CallFails
<1>5. ASSUME NEW w \in Workers, Commit(w) PROVE WaitersQueue'
  <2>1. CASE Ask(w)
    BY <1>0, <1>n, <2>1, WaitersAsk
  <2>2. CASE at' = [at EXCEPT ![w] = "gateway"] /\ UNCHANGED queue
    BY <1>t, <2>2, WaitersStay
  <2> QED
    BY <1>5, <2>1, <2>2 DEF Commit
<1>6. ASSUME NEW r \in Requests, Arrive(r) PROVE WaitersQueue'
  BY <1>0, <1>6, <1>n, WaitersAsk DEF Arrive
<1>7. ASSUME NEW r \in Requests, at' = [at EXCEPT ![r] = "done"], queue' = queue
      PROVE  WaitersQueue'
  BY <1>7, <1>t, WaitersStay
<1>8. ASSUME NEW r \in Requests, AnswerRequest(r) \/ Cancel(r) PROVE WaitersQueue'
  <2>1. ASSUME NEW i \in DOMAIN queue, queue[i] = r, queue' = RemoveAt(queue, i),
               at' = [at EXCEPT ![r] = "done"]
        PROVE  WaitersQueue'
    <3>1. i \in 1..Len(queue)
      BY <1>t
    <3> QED
      BY <1>0, <2>1, <3>1, WaitersLeave
  <2> QED
    BY <1>7, <1>8, <2>1 DEF AnswerRequest, Cancel
<1>9. CASE UNCHANGED connectionsVars
  BY <1>9 DEF connectionsVars, WaitersQueue
<1> QED
  BY <1>1, <1>2, <1>3, <1>4, <1>5, <1>6, <1>8, <1>9 DEF ConnectionsNext, Worker

\* Who has a connection can use it, or waits for the row of its batch, and then the worker
\* that has locked the row can commit.
LEMMA HoldersGoOn ==
  ASSUME ConnInv, NEW c \in Holders, at[c] \in {"holding", "locked"}
  PROVE  \E d \in Holders : GoesOn(d)
<1>1. CASE GoesOn(c)
  BY <1>1
<1>2. CASE ~GoesOn(c)
  <2>1. c \in Workers /\ row[c[1]] # None
    BY <1>2 DEF GoesOn
  <2>2. c[1] \in Batches
    BY <2>1 DEF Workers
  <2>3. row[c[1]] \in Workers /\ at[row[c[1]]] = "locked"
    BY <2>1, <2>2 DEF ConnInv, PoolTypes, NothingLeaks
  <2> QED
    BY <2>3 DEF GoesOn, Holders
<1> QED
  BY <1>1, <1>2

\* Batches, workers and requests never all wait for each other, for any number of them and
\* any pool of connections: while anybody has work to do, somebody goes on.
THEOREM NobodyWaitsForever == ConnectionsSpec => []SomebodyGoesOn
<1>1. ConnectionsInit => WaitersQueue
  BY DEF ConnectionsInit, WaitersQueue
<1>2. ConnInv /\ WaitersQueue => SomebodyGoesOn
  <2> SUFFICES ASSUME ConnInv, WaitersQueue,
                      NEW c \in Holders, at[c] \notin {"idle", "done"}
               PROVE  \E d \in Holders : GoesOn(d)
    BY DEF SomebodyGoesOn
  <2>1. at[c] \in Place
    BY DEF ConnInv, PoolTypes
  <2>2. CASE at[c] \in {"ready", "gateway"}
    BY <2>2 DEF GoesOn
  <2>3. CASE at[c] \in {"holding", "locked"}
    BY <2>3, HoldersGoOn
  <2>4. CASE at[c] = "waiting"
    <3>1. queue \in Seq(Holders) /\ 1 \in 1..Len(queue)
      BY <2>4 DEF WaitersQueue, ConnInv, PoolTypes
    <3>2. queue # <<>> /\ Head(queue) = queue[1] /\ queue[1] \in Holders
      BY <3>1
    <3>3. at[queue[1]] = "waiting"
      BY <3>1 DEF ConnInv, QueuedWait
    <3>4. CASE Cardinality(holders) < MaxConns
      BY <3>2, <3>3, <3>4 DEF GoesOn
    <3>5. CASE ~(Cardinality(holders) < MaxConns)
      <4>1. holders # {}
        BY <3>5, FS_EmptySet, NumbersAssumption
      <4>2. PICK h \in holders : h \in Holders /\ at[h] \in {"holding", "locked"}
        BY <4>1 DEF ConnInv, PoolTypes, NothingLeaks
      <4> QED
        BY <4>2, HoldersGoOn
    <3> QED
      BY <3>4, <3>5
  <2> QED
    BY <2>1, <2>2, <2>3, <2>4 DEF Place
<1> QED
  BY <1>1, <1>2, ConnectionsInvCorrect, WaitersStep, PTL DEF ConnectionsSpec

\* Connections are kept by nobody who does not use them, and waited for by nobody in vain.
THEOREM ConnectionsAreSharedAlways == ConnectionsSpec => []ConnectionsAreShared
  BY WhatIsHeldIsUsed, NobodyWaitsForever, PTL DEF ConnectionsAreShared

-----------------------------------------------------------------------------
(* Types and bounds *)

\* The counters, and what keeps them within their bounds.
Bounded ==
  /\ jobs \in [Batches -> 0..NumPayments]
  /\ call \in [Workers -> 0..3]
  /\ faults \in 0..MaxFaults
  /\ IsFiniteSet(holders) /\ Cardinality(holders) <= MaxConns
  /\ \A w \in Workers : at[w] = "locked" => call[w] < 3

\* A step that gives connections back keeps their number within the bound.
LEMMA FewerHolders ==
  ASSUME Bounded, holders' \subseteq holders
  PROVE  IsFiniteSet(holders') /\ Cardinality(holders') <= MaxConns
<1>1. /\ IsFiniteSet(holders') /\ Cardinality(holders') <= Cardinality(holders)
      /\ Cardinality(holders') \in Nat /\ Cardinality(holders) \in Nat
  BY FS_Subset, FS_CardinalityType DEF Bounded
<1>2. QED
  BY <1>1, NumbersAssumption DEF Bounded

LEMMA BoundedStep == ConnInv /\ Bounded /\ [ConnectionsNext]_connectionsVars => Bounded'
<1> SUFFICES ASSUME ConnInv, Bounded, [ConnectionsNext]_connectionsVars PROVE Bounded'
  OBVIOUS
<1>t. /\ at \in [Holders -> Place] /\ queue \in Seq(Holders) /\ Workers \subseteq Holders
      /\ jobs \in [Batches -> 0..NumPayments] /\ call \in [Workers -> 0..3]
      /\ faults \in 0..MaxFaults
      /\ \A w \in Workers : at[w] = "locked" => call[w] < 3
  BY DEF ConnInv, PoolTypes, Bounded, Holders
<1>n. Workers \cap Requests = {} /\ \A w \in Workers : w[1] \in Batches
  BY HoldersAssumption DEF Workers
<1>k. NumPayments \in Nat /\ MaxFaults \in Nat
  BY ConnectionsBounds
<1>1. CASE Grant
  <2>1. /\ holders' = holders \cup {Head(queue)} /\ Cardinality(holders) < MaxConns
        /\ at' = [at EXCEPT ![Head(queue)] = "holding"] /\ UNCHANGED <<jobs, call, faults>>
    BY <1>1 DEF Grant
  <2>2. IsFiniteSet(holders) /\ Cardinality(holders) \in Nat
    BY FS_CardinalityType DEF Bounded
  <2> DEFINE c == Head(queue)
  <2>a. /\ IsFiniteSet(holders \cup {c})
        /\ Cardinality(holders \cup {c}) <= Cardinality(holders) + 1
        /\ Cardinality(holders \cup {c}) \in Nat
    <3> HIDE DEF c
    <3>1. /\ IsFiniteSet(holders \cup {c})
          /\ \/ Cardinality(holders \cup {c}) = Cardinality(holders)
             \/ Cardinality(holders \cup {c}) = Cardinality(holders) + 1
      BY <2>2, FS_AddElement
    <3>2. QED
      BY <2>2, <3>1
  <2>3. /\ IsFiniteSet(holders') /\ Cardinality(holders') <= Cardinality(holders) + 1
        /\ Cardinality(holders') \in Nat
    BY <2>1, <2>a
  <2>4. Cardinality(holders') <= MaxConns
    BY <2>1, <2>2, <2>3, NumbersAssumption
  <2>5. \A w \in Workers : at'[w] = "locked" => call'[w] < 3
    BY <1>t, <2>1
  <2>6. QED
    BY <1>t, <2>1, <2>3, <2>4, <2>5 DEF Bounded
<1>2. ASSUME NEW b \in Batches, Dispatch(b) PROVE Bounded'
  <2>1. /\ at' = [c \in Holders |-> IF c \in Workers /\ c[1] = b THEN "ready" ELSE at[c]]
        /\ UNCHANGED <<jobs, call, holders, faults>>
    BY <1>2 DEF Dispatch
  <2>2. \A w \in Workers : at'[w] = "locked" => at[w] = "locked"
    BY <1>t, <2>1
  <2>3. QED
    BY <1>t, <2>1, <2>2 DEF Bounded
<1>3. ASSUME NEW w \in Workers, Worker(w) \/ CallFails(w) PROVE Bounded'
  <2>1. holders' \subseteq holders
    BY <1>3 DEF Worker, Take, Exit, LockRow, Commit, GatewayAnswers, SetProcessedAt, CallFails, Release
  <2>2. jobs' \in [Batches -> 0..NumPayments]
    <3>1. CASE Take(w)
      <4>1. jobs' = [jobs EXCEPT ![w[1]] = @ - 1] /\ jobs[w[1]] > 0
        BY <3>1 DEF Take
      <4>2. w[1] \in Batches /\ jobs[w[1]] \in 0..NumPayments
        BY <1>t, <1>n
      <4>3. jobs[w[1]] - 1 \in 0..NumPayments
        BY <1>k, <4>1, <4>2
      <4>4. QED
        BY <1>t, <4>1, <4>2, <4>3
    <3>2. CASE ~Take(w)
      BY <1>3, <1>t, <3>2
      DEF Worker, Exit, LockRow, Commit, GatewayAnswers, SetProcessedAt, CallFails
    <3>3. QED
      BY <3>1, <3>2
  <2>3. call' \in [Workers -> 0..3]
    <3>1. CASE Commit(w)
      <4>1. call' = [call EXCEPT ![w] = @ + 1] /\ call[w] \in 0..3 /\ call[w] < 3
        BY <1>t, <3>1 DEF Commit
      <4>2. call[w] + 1 \in 0..3
        BY <4>1
      <4>3. QED
        BY <1>t, <4>1, <4>2
    <3>2. CASE ~Commit(w)
      <4>1. \/ call' = call \/ call' = [call EXCEPT ![w] = 1] \/ call' = [call EXCEPT ![w] = 0]
        BY <1>3, <3>2
        DEF Worker, Take, Exit, LockRow, GatewayAnswers, SetProcessedAt, CallFails
      <4>2. QED
        BY <1>t, <4>1
    <3>3. QED
      BY <3>1, <3>2
  <2>4. faults' \in 0..MaxFaults
    BY <1>3, <1>k, <1>t
    DEF Worker, Take, Exit, LockRow, Commit, GatewayAnswers, SetProcessedAt, CallFails
  <2>5. \A v \in Workers : v # w => at'[v] = at[v] /\ call'[v] = call[v]
    BY <1>3, <1>t
    DEF Worker, Take, Exit, LockRow, Commit, GatewayAnswers, SetProcessedAt, CallFails, Ask
  <2>6. at'[w] = "locked" => call'[w] < 3
    BY <1>3, <1>t
    DEF Worker, Take, Exit, LockRow, Commit, GatewayAnswers, SetProcessedAt, CallFails, Ask
  <2>7. \A v \in Workers : at'[v] = "locked" => call'[v] < 3
    BY <1>t, <2>5, <2>6
  <2>8. QED
    BY <2>1, <2>2, <2>3, <2>4, <2>7, FewerHolders DEF Bounded
<1>4. ASSUME NEW r \in Requests, Arrive(r) \/ AnswerRequest(r) \/ Cancel(r) PROVE Bounded'
  <2>1. holders' \subseteq holders /\ UNCHANGED <<jobs, call>>
    BY <1>4 DEF Arrive, AnswerRequest, Cancel
  <2>2. faults' \in 0..MaxFaults
    BY <1>4, <1>k, <1>t DEF Arrive, AnswerRequest, Cancel
  <2>3. \A w \in Workers : at'[w] = at[w]
    BY <1>4, <1>t, <1>n DEF Arrive, AnswerRequest, Cancel, Ask
  <2>4. QED
    BY <1>t, <2>1, <2>2, <2>3, FewerHolders DEF Bounded
<1>5. CASE UNCHANGED connectionsVars
  BY <1>5 DEF connectionsVars, Bounded
<1>6. QED
  BY <1>1, <1>2, <1>3, <1>4, <1>5 DEF ConnectionsNext

\* Every variable keeps its type; in particular no more connections are out than there
\* are, and nobody queues twice.
THEOREM ConnectionsTypeCorrect == ConnectionsSpec => []ConnectionsTypeOK
<1>1. ConnectionsInit => Bounded
  <2> SUFFICES ASSUME ConnectionsInit PROVE Bounded
    OBVIOUS
  <2>1. IsFiniteSet(holders) /\ Cardinality(holders) = 0
    BY FS_EmptySet DEF ConnectionsInit
  <2>2. \A w \in Workers : at[w] = "idle"
    BY DEF ConnectionsInit, Holders
  <2>3. QED
    BY <2>1, <2>2, NumbersAssumption, ConnectionsBounds DEF ConnectionsInit, Bounded
<1>2. ConnInv /\ Bounded => ConnectionsTypeOK
  <2> SUFFICES ASSUME ConnInv, Bounded PROVE ConnectionsTypeOK
    OBVIOUS
  <2>1. IsInjective(queue)
    BY DEF ConnInv, PoolTypes, QueuedWait, IsInjective
  <2>2. QED
    BY <2>1 DEF ConnInv, PoolTypes, Place, Bounded, ConnectionsTypeOK
<1>3. QED
  BY <1>1, <1>2, ConnectionsInvCorrect, BoundedStep, PTL DEF ConnectionsSpec

-----------------------------------------------------------------------------
(* The load harness: what it reports is true. *)

LEMMA SomeScenario == 1 \in Scenarios
<1>1. /\ Users \in Nat \ {0} /\ BatchesPerUser \in Nat \ {0}
  BY OptionsAssumption
<1>2. Users * BatchesPerUser \in Nat /\ Users * BatchesPerUser >= 1
  BY <1>1
<1> QED
  BY <1>2 DEF Scenarios

\* What is known of one scenario: it has a result when it has ended, and what it has waited
\* for has happened.
ScenarioInv(o) ==
  /\ result[o] = "none" <=> step[o] # "ended"
  /\ lost[o] <= open[o]
  /\ step[o] = "polling" /\ OpenStream => announced[o]
  /\ result[o] = "ok" /\ ~Invalid(o) => open[o] = 0 /\ (OpenStream => announced[o])

\* What is known of main: scenarios start after registration, and the exit code follows
\* their results.
MainInv ==
  /\ main \in {"registering", "unregistered"} => \A o \in Scenarios : step[o] = "sleeping"
  /\ main \in {"registering", "running"} => exitCode = 0
  /\ main \in {"unregistered", "rejected"} => exitCode = 1
  /\ main = "rejected" => \E o \in Scenarios : result[o] = "thrown"
  /\ main = "summarized" =>
       /\ \A o \in Scenarios : result[o] \in {"ok", "failed"}
       /\ exitCode = 1 <=> \E o \in Scenarios : result[o] = "failed"

HarnessInv == HarnessTypeOK /\ (\A o \in Scenarios : ScenarioInv(o)) /\ MainInv

LEMMA InitHarness == HarnessInit => HarnessInv
<1> SUFFICES ASSUME HarnessInit PROVE HarnessInv
  OBVIOUS
<1>1. HarnessTypeOK
  BY OptionsAssumption, MaxLostAssumption DEF HarnessInit, HarnessTypeOK
<1>2. ASSUME NEW o \in Scenarios PROVE ScenarioInv(o)
  BY DEF HarnessInit, ScenarioInv
<1>3. MainInv
  BY DEF HarnessInit, MainInv
<1> QED
  BY <1>1, <1>2, <1>3 DEF HarnessInv

\* Counters stay in their bounds: a tick needs time left, a loss needs a payment.
LEMMA NextHarnessTypes == HarnessInv /\ [HarnessNext]_harnessVars => HarnessTypeOK'
<1> SUFFICES ASSUME HarnessInv, [HarnessNext]_harnessVars PROVE HarnessTypeOK'
  OBVIOUS
<1> USE OptionsAssumption, MaxLostAssumption
       DEF HarnessInv, HarnessTypeOK, ScenarioInv, process, batch
<1>0. CASE UNCHANGED harnessVars
  BY <1>0 DEF harnessVars
<1>1. CASE Register
  BY <1>1 DEF Register
<1>2. CASE RegistrationFails
  BY <1>2 DEF RegistrationFails
<1>3. CASE Summarize
  BY <1>3 DEF Summarize, Failures
<1>4. CASE Reject
  BY <1>4 DEF Reject
<1>5. ASSUME NEW o \in Scenarios, Launch(o) PROVE HarnessTypeOK'
  BY <1>5 DEF Launch, GoTo
<1>6. ASSUME NEW o \in Scenarios, UploadAccepted(o) PROVE HarnessTypeOK'
  BY <1>6 DEF UploadAccepted, Wait, GoTo
<1>7. ASSUME NEW o \in Scenarios, UploadRefused(o) PROVE HarnessTypeOK'
  BY <1>7 DEF UploadRefused, End, GoTo
<1>8. ASSUME NEW o \in Scenarios, StreamOpens(o) PROVE HarnessTypeOK'
  BY <1>8 DEF StreamOpens, GoTo
<1>9. ASSUME NEW o \in Scenarios, StreamDone(o) PROVE HarnessTypeOK'
  BY <1>9 DEF StreamDone, Wait, GoTo
<1>10. ASSUME NEW o \in Scenarios, StreamTimesOut(o) PROVE HarnessTypeOK'
  BY <1>10 DEF StreamTimesOut, End, InStream, GoTo
<1>11. ASSUME NEW o \in Scenarios, PollFinal(o) PROVE HarnessTypeOK'
  BY <1>11 DEF PollFinal, End, SeenFinal, GoTo
<1>12. ASSUME NEW o \in Scenarios, PollTimesOut(o) PROVE HarnessTypeOK'
  BY <1>12 DEF PollTimesOut, End, GoTo
<1>13. ASSUME NEW o \in Scenarios, Tick(o) PROVE HarnessTypeOK'
  BY <1>13 DEF Tick, InStream
<1>14. ASSUME NEW o \in Scenarios, UploadFails(o) PROVE HarnessTypeOK'
  BY <1>14 DEF UploadFails, End, GoTo
<1>15. ASSUME NEW o \in Scenarios, StreamFails(o) PROVE HarnessTypeOK'
  BY <1>15 DEF StreamFails, End, InStream, GoTo
<1>16. ASSUME NEW o \in Scenarios, PollFails(o) PROVE HarnessTypeOK'
  BY <1>16 DEF PollFails, End, GoTo
<1>17. ASSUME NEW o \in Scenarios, FinishPayment(o) PROVE HarnessTypeOK'
  BY <1>17 DEF FinishPayment
<1>18. ASSUME NEW o \in Scenarios, AnnounceDone(o) PROVE HarnessTypeOK'
  BY <1>18 DEF AnnounceDone, Accepted
<1>19. ASSUME NEW o \in Scenarios, LosePayment(o) PROVE HarnessTypeOK'
  BY <1>19 DEF LosePayment
<1> QED
    BY <1>0, <1>1, <1>2, <1>3, <1>4, <1>5, <1>6, <1>7, <1>8, <1>9, <1>10, <1>11, <1>12, <1>13,
     <1>14, <1>15, <1>16, <1>17, <1>18, <1>19
     DEF HarnessNext, Main, Scenario, Failure, Backend

\* A result is given once, and only for what has been waited for.
LEMMA NextScenarios == HarnessInv /\ [HarnessNext]_harnessVars => \A x \in Scenarios : ScenarioInv(x)'
<1> SUFFICES ASSUME HarnessInv, [HarnessNext]_harnessVars PROVE \A x \in Scenarios : ScenarioInv(x)'
  OBVIOUS
<1> USE OptionsAssumption, MaxLostAssumption
       DEF HarnessInv, HarnessTypeOK, ScenarioInv, Invalid, process, batch
<1>0. CASE UNCHANGED harnessVars
  BY <1>0 DEF harnessVars
<1>1. CASE Register
  BY <1>1 DEF Register
<1>2. CASE RegistrationFails
  BY <1>2 DEF RegistrationFails
<1>3. CASE Summarize
  BY <1>3 DEF Summarize, Failures
<1>4. CASE Reject
  BY <1>4 DEF Reject
<1>5. ASSUME NEW o \in Scenarios, Launch(o) PROVE \A x \in Scenarios : ScenarioInv(x)'
  BY <1>5 DEF Launch, GoTo
<1>6. ASSUME NEW o \in Scenarios, UploadAccepted(o) PROVE \A x \in Scenarios : ScenarioInv(x)'
  BY <1>6 DEF UploadAccepted, Wait, GoTo
<1>7. ASSUME NEW o \in Scenarios, UploadRefused(o) PROVE \A x \in Scenarios : ScenarioInv(x)'
  BY <1>7 DEF UploadRefused, End, GoTo
<1>8. ASSUME NEW o \in Scenarios, StreamOpens(o) PROVE \A x \in Scenarios : ScenarioInv(x)'
  BY <1>8 DEF StreamOpens, GoTo
<1>9. ASSUME NEW o \in Scenarios, StreamDone(o) PROVE \A x \in Scenarios : ScenarioInv(x)'
  BY <1>9 DEF StreamDone, Wait, GoTo
<1>10. ASSUME NEW o \in Scenarios, StreamTimesOut(o) PROVE \A x \in Scenarios : ScenarioInv(x)'
  BY <1>10 DEF StreamTimesOut, End, InStream, GoTo
<1>11. ASSUME NEW o \in Scenarios, PollFinal(o) PROVE \A x \in Scenarios : ScenarioInv(x)'
  BY <1>11 DEF PollFinal, End, SeenFinal, GoTo
<1>12. ASSUME NEW o \in Scenarios, PollTimesOut(o) PROVE \A x \in Scenarios : ScenarioInv(x)'
  BY <1>12 DEF PollTimesOut, End, GoTo
<1>13. ASSUME NEW o \in Scenarios, Tick(o) PROVE \A x \in Scenarios : ScenarioInv(x)'
  BY <1>13 DEF Tick, InStream
<1>14. ASSUME NEW o \in Scenarios, UploadFails(o) PROVE \A x \in Scenarios : ScenarioInv(x)'
  BY <1>14 DEF UploadFails, End, GoTo
<1>15. ASSUME NEW o \in Scenarios, StreamFails(o) PROVE \A x \in Scenarios : ScenarioInv(x)'
  BY <1>15 DEF StreamFails, End, InStream, GoTo
<1>16. ASSUME NEW o \in Scenarios, PollFails(o) PROVE \A x \in Scenarios : ScenarioInv(x)'
  BY <1>16 DEF PollFails, End, GoTo
<1>17. ASSUME NEW o \in Scenarios, FinishPayment(o) PROVE \A x \in Scenarios : ScenarioInv(x)'
  BY <1>17 DEF FinishPayment
<1>18. ASSUME NEW o \in Scenarios, AnnounceDone(o) PROVE \A x \in Scenarios : ScenarioInv(x)'
  BY <1>18 DEF AnnounceDone, Accepted
<1>19. ASSUME NEW o \in Scenarios, LosePayment(o) PROVE \A x \in Scenarios : ScenarioInv(x)'
  BY <1>19 DEF LosePayment
<1> QED
    BY <1>0, <1>1, <1>2, <1>3, <1>4, <1>5, <1>6, <1>7, <1>8, <1>9, <1>10, <1>11, <1>12, <1>13,
     <1>14, <1>15, <1>16, <1>17, <1>18, <1>19
     DEF HarnessNext, Main, Scenario, Failure, Backend

\* Results do not change any more once main has looked at all of them.
LEMMA NextMain == HarnessInv /\ [HarnessNext]_harnessVars => MainInv'
<1> SUFFICES ASSUME HarnessInv, [HarnessNext]_harnessVars PROVE MainInv'
  OBVIOUS
<1> USE SomeScenario DEF HarnessInv, HarnessTypeOK, ScenarioInv, MainInv, process, batch
<1>0. CASE UNCHANGED harnessVars
  BY <1>0 DEF harnessVars
<1>1. CASE Register
  BY <1>1 DEF Register
<1>2. CASE RegistrationFails
  BY <1>2 DEF RegistrationFails
<1>3. CASE Summarize
  BY <1>3 DEF Summarize, Failures
<1>4. CASE Reject
  BY <1>4 DEF Reject
<1>5. ASSUME NEW o \in Scenarios, Launch(o) PROVE MainInv'
  BY <1>5 DEF Launch, GoTo
<1>6. ASSUME NEW o \in Scenarios, UploadAccepted(o) PROVE MainInv'
  BY <1>6 DEF UploadAccepted, Wait, GoTo
<1>7. ASSUME NEW o \in Scenarios, UploadRefused(o) PROVE MainInv'
  BY <1>7 DEF UploadRefused, End, GoTo
<1>8. ASSUME NEW o \in Scenarios, StreamOpens(o) PROVE MainInv'
  BY <1>8 DEF StreamOpens, GoTo
<1>9. ASSUME NEW o \in Scenarios, StreamDone(o) PROVE MainInv'
  BY <1>9 DEF StreamDone, Wait, GoTo
<1>10. ASSUME NEW o \in Scenarios, StreamTimesOut(o) PROVE MainInv'
  BY <1>10 DEF StreamTimesOut, End, InStream, GoTo
<1>11. ASSUME NEW o \in Scenarios, PollFinal(o) PROVE MainInv'
  BY <1>11 DEF PollFinal, End, SeenFinal, GoTo
<1>12. ASSUME NEW o \in Scenarios, PollTimesOut(o) PROVE MainInv'
  BY <1>12 DEF PollTimesOut, End, GoTo
<1>13. ASSUME NEW o \in Scenarios, Tick(o) PROVE MainInv'
  BY <1>13 DEF Tick, InStream
<1>14. ASSUME NEW o \in Scenarios, UploadFails(o) PROVE MainInv'
  BY <1>14 DEF UploadFails, End, GoTo
<1>15. ASSUME NEW o \in Scenarios, StreamFails(o) PROVE MainInv'
  BY <1>15 DEF StreamFails, End, InStream, GoTo
<1>16. ASSUME NEW o \in Scenarios, PollFails(o) PROVE MainInv'
  BY <1>16 DEF PollFails, End, GoTo
<1>17. ASSUME NEW o \in Scenarios, FinishPayment(o) PROVE MainInv'
  BY <1>17 DEF FinishPayment
<1>18. ASSUME NEW o \in Scenarios, AnnounceDone(o) PROVE MainInv'
  BY <1>18 DEF AnnounceDone, Accepted
<1>19. ASSUME NEW o \in Scenarios, LosePayment(o) PROVE MainInv'
  BY <1>19 DEF LosePayment
<1> QED
    BY <1>0, <1>1, <1>2, <1>3, <1>4, <1>5, <1>6, <1>7, <1>8, <1>9, <1>10, <1>11, <1>12, <1>13,
     <1>14, <1>15, <1>16, <1>17, <1>18, <1>19
     DEF HarnessNext, Main, Scenario, Failure, Backend


\* Success means that the batch was waited for to its end, and the exit code tells whether
\* any scenario failed, whatever the backend loses, refuses or drops.
THEOREM HarnessReportsTruly == HarnessSpec => []ReportIsTrue
<1>1. HarnessInv /\ [HarnessNext]_harnessVars => HarnessInv'
  BY NextHarnessTypes, NextScenarios, NextMain DEF HarnessInv
<1>2. HarnessInv => ReportIsTrue
  <2> SUFFICES ASSUME HarnessInv PROVE ReportIsTrue
    OBVIOUS
  <2>1. SuccessIsFinal
    BY OptionsAssumption, MaxLostAssumption
       DEF HarnessInv, HarnessTypeOK, ScenarioInv, SuccessIsFinal
  <2>2. ExitCodeTellsFailure
    BY SomeScenario DEF HarnessInv, HarnessTypeOK, ScenarioInv, MainInv, ExitCodeTellsFailure, Exited
  <2> QED
    BY <2>1, <2>2 DEF HarnessInv, ReportIsTrue
<1> QED
  BY <1>1, <1>2, InitHarness, PTL DEF HarnessSpec

-----------------------------------------------------------------------------
(* The parser of the uploaded file *)

Below == {x \in Nat \X Nat : x[1] < x[2]}

\* Induction enters here: a set of numbers has a least one.
LEMMA Least ==
  ASSUME NEW S, S \subseteq Nat, S # {}
  PROVE  \E i \in S : \A j \in S : i <= j
<1>1. OpToRel(<, Nat) = Below
  BY DEF OpToRel, Below
<1>2. IsWellFoundedOn(Below, Nat)
  BY <1>1, NatLessThanWellFounded
<1>3. PICK i \in S : \A j \in S : ~ (<<j, i>> \in Below)
  BY <1>2, WFMin
<1>4. ASSUME NEW j \in S PROVE i <= j
  <2>1. i \in Nat /\ j \in Nat
    OBVIOUS
  <2>2. j < i => <<j, i>> \in Below
    BY <2>1 DEF Below
  <2> QED
    BY <1>3, <2>1, <2>2
<1> QED
  BY <1>4

LEMMA FirstIsLeast ==
  ASSUME file \in Seq(Kinds), NEW S, S \subseteq DOMAIN file
  PROVE  /\ FirstOf(S) \in 1..Len(file) + 1
         /\ FirstOf(S) <= Len(file) => FirstOf(S) \in S
         /\ \A j \in S : FirstOf(S) <= j
<1>1. S \subseteq Nat /\ S \subseteq 1..Len(file) /\ Len(file) \in Nat
  OBVIOUS
<1>2. CASE S = {}
  BY <1>1, <1>2 DEF FirstOf
<1>3. CASE S # {}
  <2>1. \E i \in S : \A j \in S : i <= j
    BY <1>1, <1>3, Least
  <2>2. FirstOf(S) \in S /\ \A j \in S : FirstOf(S) <= j
    BY <1>3, <2>1 DEF FirstOf
  <2> QED
    BY <1>1, <2>2
<1> QED
  BY <1>2, <1>3

\* The first line that is not empty, and the end of a record that begins on line b.
LEMMA BeginProperties ==
  ASSUME file \in Seq(Kinds), pos \in 0..Len(file)
  PROVE  /\ BeginParse \in pos + 1..Len(file) + 1
         /\ BeginParse <= Len(file) => file[BeginParse] # "blank"
         /\ \A i \in pos + 1..BeginParse - 1 : file[i] = "blank"
<1> DEFINE S == {i \in pos + 1..Len(file) : file[i] # "blank"}
<1>1. BeginParse = FirstOf(S)
  BY DEF BeginParse
<1>2. S \subseteq DOMAIN file /\ Len(file) \in Nat
  OBVIOUS
<1>3. /\ FirstOf(S) \in 1..Len(file) + 1
      /\ FirstOf(S) <= Len(file) => FirstOf(S) \in S
      /\ \A j \in S : FirstOf(S) <= j
  BY <1>2, FirstIsLeast
<1>4. BeginParse \in pos + 1..Len(file) + 1 /\ (BeginParse <= Len(file) => BeginParse \in S)
  BY <1>1, <1>2, <1>3
<1>5. ASSUME NEW i \in pos + 1..BeginParse - 1 PROVE file[i] = "blank"
  <2>1. i \in pos + 1..Len(file) /\ ~(FirstOf(S) <= i)
    BY <1>1, <1>2, <1>4
  <2> QED
    BY <1>3, <2>1
<1> QED
  BY <1>4, <1>5

LEMMA EndProperties ==
  ASSUME file \in Seq(Kinds), NEW b \in DOMAIN file
  PROVE  /\ EndParse(b) \in b..Len(file) + 1
         /\ file[b] # "opens" => EndParse(b) = b
         /\ file[b] = "opens" =>
              /\ EndParse(b) > b
              /\ EndParse(b) <= Len(file) => file[EndParse(b)] \in Quote
              /\ \A i \in b + 1..EndParse(b) - 1 : file[i] \notin Quote
<1> DEFINE S == {i \in b + 1..Len(file) : file[i] \in Quote}
<1>1. S \subseteq DOMAIN file /\ Len(file) \in Nat
  OBVIOUS
<1>2. /\ FirstOf(S) \in 1..Len(file) + 1
      /\ FirstOf(S) <= Len(file) => FirstOf(S) \in S
      /\ \A j \in S : FirstOf(S) <= j
  BY <1>1, FirstIsLeast
<1>3. CASE file[b] # "opens"
  BY <1>1, <1>3 DEF EndParse
<1>4. CASE file[b] = "opens"
  <2>1. EndParse(b) = FirstOf(S)
    BY <1>4 DEF EndParse
  <2>2. /\ EndParse(b) \in b + 1..Len(file) + 1
        /\ EndParse(b) <= Len(file) => EndParse(b) \in S
    BY <1>1, <1>2, <2>1
  <2>3. ASSUME NEW i \in b + 1..EndParse(b) - 1 PROVE file[i] \notin Quote
    <3>1. i \in b + 1..Len(file) /\ ~(FirstOf(S) <= i)
      BY <1>1, <2>1, <2>2
    <3> QED
      BY <1>2, <3>1
  <2> QED
    BY <1>1, <1>4, <2>2, <2>3
<1> QED
  BY <1>3, <1>4

-----------------------------------------------------------------------------
(* Pairs of quotes *)

Quotes(k) == {j \in 1..k : file[j] \in Quote}

Even(k) == Cardinality(Quotes(k)) % 2 = 0

LEMMA QuotesAreFinite ==
  ASSUME NEW k \in Nat
  PROVE  IsFiniteSet(Quotes(k)) /\ Cardinality(Quotes(k)) \in Nat
<1>1. IsFiniteSet(1..k)
  BY FS_Interval
<1> QED
  BY <1>1, FS_Subset, FS_CardinalityType DEF Quotes

\* Lines without a quote change nothing.
LEMMA EvenStays ==
  ASSUME NEW k \in Nat, NEW m \in Nat, k <= m,
         \A j \in k + 1..m : file[j] \notin Quote
  PROVE  Even(m) <=> Even(k)
<1>1. Quotes(m) = Quotes(k)
  BY DEF Quotes
<1> QED
  BY <1>1 DEF Even

\* One line with a quote turns the inside out.
LEMMA EvenTurns ==
  ASSUME NEW k \in Nat, NEW q \in Nat, NEW m \in Nat, k < q, q <= m, file[q] \in Quote,
         \A j \in k + 1..m : j # q => file[j] \notin Quote
  PROVE  Even(m) <=> ~Even(k)
<1>1. Quotes(m) = Quotes(k) \cup {q} /\ q \notin Quotes(k)
  BY DEF Quotes
<1>2. Cardinality(Quotes(m)) = Cardinality(Quotes(k)) + 1
  BY <1>1, QuotesAreFinite, FS_AddElement
<1>3. Cardinality(Quotes(k)) \in Nat
  BY QuotesAreFinite
<1> QED
  BY <1>2, <1>3 DEF Even

LEMMA OutsideIsEven ==
  ASSUME NEW i \in Nat \ {0}
  PROVE  Outside(i) <=> Even(i - 1)
  BY DEF Outside, Even, Quotes

LEMMA NothingIsEven == Even(0)
<1>1. Quotes(0) = {}
  BY DEF Quotes
<1> QED
  BY <1>1, FS_EmptySet DEF Even

-----------------------------------------------------------------------------
(* ParseCSV *)

LEMMA SequenceFacts ==
  ASSUME NEW S, NEW T, S \subseteq T, NEW s \in Seq(S), NEW t \in Seq(T)
  PROVE  /\ s \in Seq(T) /\ t \o s \in Seq(T)
         /\ \A i \in DOMAIN s : s[i] \in S
         /\ Len(t \o s) = Len(t) + Len(s)
         /\ \A i \in 1..Len(t) : (t \o s)[i] = t[i]
         /\ \A i \in 1..Len(s) : (t \o s)[Len(t) + i] = s[i]
  OBVIOUS

LEMMA AppendFacts ==
  ASSUME NEW S, NEW s \in Seq(S), NEW e \in S
  PROVE  /\ Append(s, e) \in Seq(S) /\ Len(Append(s, e)) = Len(s) + 1
         /\ \A i \in 1..Len(s) : Append(s, e)[i] = s[i]
         /\ Append(s, e)[Len(s) + 1] = e
  OBVIOUS

Reported == [line : 1..Len(file) + 1, column : Columns, begin : 1..Len(file) + 1]

\* The errors of one record: they have a number and a place in common.
Together(l, b) == [line : {l}, column : Columns, begin : {b}]

\* The parser comes down the file, and its numbers with it.
ReadInv ==
  /\ CsvTypeOK
  /\ phase = "header" => pos = 0 /\ line = 1 /\ rows = <<>> /\ errors = <<>>
  /\ phase = "rows" => 1 <= pos /\ line <= pos

LEMMA InitRead == CsvInit => ReadInv
<1> SUFFICES ASSUME CsvInit PROVE ReadInv
  OBVIOUS
<1>1. PICK n \in 0..MaxLines : file \in [1..n -> Kinds]
  BY DEF CsvInit
<1>2. file \in Seq(Kinds) /\ Len(file) = n
  BY <1>1, LinesAssumption
<1> QED
  BY <1>1, <1>2, LinesAssumption DEF CsvInit, ReadInv, CsvTypeOK

\* What reading one record does, whatever is wrong with it.
LEMMA RecordStep ==
  ASSUME ReadInv, ReadRecord
  PROVE  /\ BeginParse \in pos + 1..Len(file)
         /\ pos' \in BeginParse..Len(file)
         /\ line' = line + 1 /\ file' = file /\ phase' = phase
         /\ EndParse(BeginParse) <= Len(file) => pos' = EndParse(BeginParse)
         /\ EndParse(BeginParse) > Len(file) => pos' = Len(file)
         /\ EndParse(BeginParse) \in BeginParse..Len(file) + 1
<1> DEFINE b == BeginParse
<1>1. file \in Seq(Kinds) /\ pos \in 0..Len(file) /\ Len(file) \in Nat
  BY DEF ReadInv, CsvTypeOK
<1>2. b \in pos + 1..Len(file) /\ b \in DOMAIN file
  BY <1>1, BeginProperties DEF ReadRecord
<1>3. EndParse(b) \in b..Len(file) + 1
  BY <1>1, <1>2, EndProperties
<1> QED
  BY <1>1, <1>2, <1>3 DEF ReadRecord, NextPos

LEMMA ReportType ==
  ASSUME NEW columns \in Seq(Columns), NEW b
  PROVE  /\ Report(b, columns) \in Seq(Together(line', b))
         /\ Len(Report(b, columns)) = Len(columns)
<1> DEFINE r == Report(b, columns)
<1>1. r = [i \in 1..Len(columns) |-> [line |-> line', column |-> columns[i], begin |-> b]]
  BY DEF Report
<1>2. ASSUME NEW i \in 1..Len(columns)
      PROVE  [line |-> line', column |-> columns[i], begin |-> b] \in Together(line', b)
  BY DEF Together
<1> QED
  BY <1>1, <1>2

LEMMA FaultsType ==
  ASSUME NEW b, NEW wrong \in Faults(b)
  PROVE  wrong \in Seq(Columns)
<1>1. wrong \in {<<"row">>, <<"amount", "last_4_digits">>, <<"recipient", "payment_method">>,
                   <<"payment_method", "recipient">>, <<>>}
  BY DEF Faults, Unquoted
<1>2. <<"row">> \in Seq(Columns) /\ <<>> \in Seq(Columns)
  BY DEF Columns
<1>3. <<"amount", "last_4_digits">> \in Seq(Columns)
  BY DEF Columns
<1>4. /\ <<"recipient", "payment_method">> \in Seq(Columns)
      /\ <<"payment_method", "recipient">> \in Seq(Columns)
  BY DEF Columns
<1> QED
  BY <1>1, <1>2, <1>3, <1>4

LEMMA NextRead == ReadInv /\ [CsvNext]_csvVars => ReadInv'
<1> SUFFICES ASSUME ReadInv, [CsvNext]_csvVars PROVE ReadInv'
  OBVIOUS
<1>1. file \in Seq(Kinds) /\ pos \in 0..Len(file) /\ Len(file) \in Nat
  BY DEF ReadInv, CsvTypeOK
<1>2. CASE UNCHANGED csvVars
  BY <1>2 DEF ReadInv, CsvTypeOK, csvVars
<1>3. CASE ReadHeader
  <2>1. BeginParse \in 1..Len(file) + 1 /\ pos = 0 /\ line = 1
    BY <1>1, <1>3, BeginProperties DEF ReadHeader, ReadInv
  <2>2. CASE BeginParse <= Len(file) /\ file[BeginParse] = "header"
    BY <1>1, <1>3, <2>1, <2>2 DEF ReadHeader, ReadInv, CsvTypeOK
  <2>3. CASE ~(BeginParse <= Len(file) /\ file[BeginParse] = "header")
    <3>1. /\ errors' = Report(BeginParse, <<"header">>) /\ line' = 1
          /\ pos' = Len(file) /\ phase' = "done" /\ file' = file /\ rows' = <<>>
      BY <1>3, <2>1, <2>3 DEF ReadHeader, ReadInv
    <3>2. <<"header">> \in Seq(Columns)
      BY DEF Columns
    <3>3. errors' \in Seq(Together(1, BeginParse))
      BY <3>1, <3>2, ReportType
    <3>4. Together(1, BeginParse) \subseteq Reported /\ Reported' = Reported
      BY <1>1, <2>1, <3>1 DEF Together, Reported
    <3>5. errors' \in Seq(Reported')
      BY <3>3, <3>4, SequenceFacts
    <3> QED
      BY <1>1, <3>1, <3>5 DEF ReadInv, CsvTypeOK, Reported
  <2> QED
    BY <2>2, <2>3
<1>4. CASE ReadRecord
  <2> DEFINE b == BeginParse
  <2>1. /\ b \in pos + 1..Len(file) /\ pos' \in b..Len(file)
        /\ line' = line + 1 /\ file' = file /\ phase' = phase /\ phase = "rows"
    BY <1>4, RecordStep DEF ReadRecord
  <2>2. line \in 1..pos
    BY <1>1, <2>1 DEF ReadInv, CsvTypeOK
  <2>3. PICK wrong \in Faults(b) :
          /\ errors' = errors \o Report(b, wrong)
          /\ rows' = IF wrong = <<>> THEN Append(rows, b) ELSE rows
    BY <1>4 DEF ReadRecord
  <2>4. Report(b, wrong) \in Seq(Together(line', b))
    BY FaultsType, ReportType
  <2>5. errors' \in Seq(Reported')
    <3>1. Together(line', b) \subseteq Reported /\ Reported' = Reported
      BY <1>1, <2>1, <2>2 DEF Together, Reported
    <3>2. errors \in Seq(Reported)
      BY DEF ReadInv, CsvTypeOK, Reported
    <3> QED
      BY <2>3, <2>4, <3>1, <3>2, SequenceFacts
  <2>6. rows' \in Seq(DOMAIN file)
    <3>1. rows \in Seq(DOMAIN file) /\ b \in DOMAIN file
      BY <1>1, <2>1 DEF ReadInv, CsvTypeOK
    <3> HIDE DEF b
    <3> QED
      BY <2>3, <3>1, AppendFacts
  <2> QED
    BY <1>1, <2>1, <2>2, <2>5, <2>6 DEF ReadInv, CsvTypeOK, Reported
<1>5. CASE EndOfFile
  BY <1>5 DEF EndOfFile, ReadInv, CsvTypeOK
<1> QED
  BY <1>2, <1>3, <1>4, <1>5 DEF CsvNext

\* An error is never reported with a number that is ahead of the records read, nor before
\* they are.
ErrorsInv ==
  /\ phase = "rows" =>
       \A i \in DOMAIN errors : errors[i].line <= line /\ errors[i].begin <= pos
  /\ ErrorsFollowTheFile

LEMMA InitErrors == CsvInit => ErrorsInv
  BY DEF CsvInit, ErrorsInv, ErrorsFollowTheFile

LEMMA NextErrors == ReadInv /\ ErrorsInv /\ [CsvNext]_csvVars => ErrorsInv'
<1> SUFFICES ASSUME ReadInv, ErrorsInv, [CsvNext]_csvVars PROVE ErrorsInv'
  OBVIOUS
<1>1. file \in Seq(Kinds) /\ pos \in 0..Len(file) /\ Len(file) \in Nat
  BY DEF ReadInv, CsvTypeOK
<1>2. CASE UNCHANGED csvVars
  BY <1>2 DEF ErrorsInv, ErrorsFollowTheFile, csvVars
<1>3. CASE ReadHeader
  <2>1. BeginParse \in 1..Len(file) + 1 /\ pos = 0 /\ line = 1 /\ errors = <<>>
    BY <1>1, <1>3, BeginProperties DEF ReadHeader, ReadInv
  <2>2. CASE BeginParse <= Len(file) /\ file[BeginParse] = "header"
    BY <1>1, <1>3, <2>1, <2>2 DEF ReadHeader, ErrorsInv, ErrorsFollowTheFile
  <2>3. CASE ~(BeginParse <= Len(file) /\ file[BeginParse] = "header")
    <3>1. errors' = Report(BeginParse, <<"header">>) /\ line' = 1 /\ phase' = "done"
      BY <1>3, <2>1, <2>3 DEF ReadHeader
    <3>2. DOMAIN errors' = {1} /\ errors'[1].line = 1 /\ errors'[1].begin = BeginParse
      BY <3>1 DEF Report
    <3> QED
      BY <2>1, <3>1, <3>2 DEF ErrorsInv, ErrorsFollowTheFile
  <2> QED
    BY <2>2, <2>3
<1>4. CASE ReadRecord
  <2> DEFINE b == BeginParse
             n == Len(errors)
  <2>1. /\ b \in pos + 1..Len(file) /\ pos' \in b..Len(file)
        /\ line' = line + 1 /\ phase' = phase /\ phase = "rows"
    BY <1>4, RecordStep DEF ReadRecord
  <2>2. line \in 1..pos /\ n \in Nat /\ errors \in Seq(Reported)
    BY <1>1, <2>1 DEF ReadInv, CsvTypeOK, Reported
  <2>3. PICK wrong \in Faults(b) : errors' = errors \o Report(b, wrong)
    BY <1>4 DEF ReadRecord
  <2> DEFINE new == Report(b, wrong)
  <2>4. new \in Seq(Together(line', b))
    BY FaultsType, ReportType
  <2> HIDE DEF new
  <2>5. /\ errors' = errors \o new /\ Len(errors') = n + Len(new) /\ Len(new) \in Nat
        /\ DOMAIN errors' = 1..n + Len(new)
    BY <2>2, <2>3, <2>4 DEF new
  <2>6. ASSUME NEW i \in DOMAIN errors'
        PROVE  \/ i <= n /\ errors'[i] = errors[i] /\ errors[i].line \in 1..line
                         /\ errors[i].begin \in 1..pos
               \/ i > n /\ errors'[i].line = line + 1 /\ errors'[i].begin = b
    <3>1. CASE i <= n
      <4>1. i \in DOMAIN errors /\ errors'[i] = errors[i]
        BY <2>2, <2>4, <2>5, <3>1
      <4>2. errors[i] \in Reported
        BY <2>2, <4>1
      <4>3. errors[i].line \in Nat \ {0} /\ errors[i].begin \in Nat \ {0}
        BY <1>1, <4>2 DEF Reported
      <4> QED
        BY <1>1, <2>1, <2>2, <3>1, <4>1, <4>3 DEF ErrorsInv
    <3>2. CASE i > n
      <4>1. i - n \in DOMAIN new /\ errors'[i] = new[i - n]
        BY <2>2, <2>4, <2>5, <3>2
      <4>2. new[i - n] \in Together(line', b)
        BY <2>4, <4>1 DEF new
      <4> QED
        BY <2>1, <3>2, <4>1, <4>2 DEF Together
    <3> QED
      BY <2>2, <2>5, <3>1, <3>2
  <2>7. ErrorsFollowTheFile'
    <3> SUFFICES ASSUME NEW i \in DOMAIN errors', NEW j \in DOMAIN errors'
                 PROVE  /\ errors'[i].line <= errors'[i].begin
                        /\ i < j => errors'[i].begin <= errors'[j].begin
                        /\ errors'[i].line = errors'[j].line <=>
                             errors'[i].begin = errors'[j].begin
      BY DEF ErrorsFollowTheFile
    <3>1. i \in Nat /\ j \in Nat /\ pos \in Nat /\ line \in Nat /\ line <= pos /\ pos < b /\ b \in Nat
      BY <1>1, <2>1, <2>2, <2>5
    <3>2. CASE i <= n /\ j <= n
      <4>1. i \in DOMAIN errors /\ j \in DOMAIN errors
        BY <2>2, <2>5, <3>2
      <4> QED
        BY <2>6, <3>1, <3>2, <4>1 DEF ErrorsInv, ErrorsFollowTheFile
    <3>3. CASE i <= n /\ j > n
      <4>1. i \in DOMAIN errors
        BY <2>2, <2>5, <3>3
      <4>2. errors[i].line <= errors[i].begin
        BY <4>1 DEF ErrorsInv, ErrorsFollowTheFile
      <4>3. errors'[i] = errors[i] /\ errors[i].line \in 1..line /\ errors[i].begin \in 1..pos
        BY <2>2, <2>6, <3>1, <3>3
      <4>4. errors'[j].line = line + 1 /\ errors'[j].begin = b
        BY <2>2, <2>6, <3>1, <3>3
      <4> QED
        BY <3>1, <3>3, <2>2, <4>2, <4>3, <4>4
    <3>4. CASE i > n
      BY <2>6, <3>1, <3>4, <2>2
    <3> QED
      BY <2>2, <3>1, <3>2, <3>3, <3>4
  <2>8. \A i \in DOMAIN errors' : errors'[i].line <= line' /\ errors'[i].begin <= pos'
    <3> SUFFICES ASSUME NEW i \in DOMAIN errors'
                 PROVE  errors'[i].line <= line' /\ errors'[i].begin <= pos'
      OBVIOUS
    <3>1. /\ pos \in Nat /\ line \in Nat /\ b \in Nat /\ pos < b /\ pos' \in Nat /\ b <= pos'
          /\ line' = line + 1
      BY <1>1, <2>1, <2>2
    <3>2. \/ errors'[i].line \in 1..line /\ errors'[i].begin \in 1..pos
          \/ errors'[i].line = line + 1 /\ errors'[i].begin = b
      BY <2>6
    <3> QED
      BY <3>1, <3>2
  <2> QED
    BY <2>7, <2>8 DEF ErrorsInv
<1>5. CASE EndOfFile
  BY <1>5 DEF EndOfFile, ErrorsInv, ErrorsFollowTheFile
<1> QED
  BY <1>2, <1>3, <1>4, <1>5 DEF CsvNext


\* What has been read of a file without errors is well formed, and its payments are the
\* rows; a file with errors is not.
Heard ==
  /\ Even(pos)
  /\ Lists(rows, Payments \cap 1..pos)
  /\ \A i \in 1..pos : InPlace(i)
  /\ phase # "header" => \E h \in 1..pos : HeaderLine(h)
  /\ phase = "done" => \A i \in pos + 1..Len(file) : file[i] = "blank"

RecordsInv == IF errors = <<>> THEN Heard ELSE ~WellFormed

\* The file does not change under the parser.
LEMMA FileStays ==
  ASSUME file' = file
  PROVE  /\ Payments' = Payments /\ (WellFormed' <=> WellFormed)
         /\ \A i : (InPlace(i)' <=> InPlace(i)) /\ (HeaderLine(i)' <=> HeaderLine(i))
         /\ Even(pos)' <=> Even(pos')
  BY DEF Payments, WellFormed, InPlace, HeaderLine, Outside, Even, Quotes

LEMMA InitRecords == CsvInit => RecordsInv
<1> SUFFICES ASSUME CsvInit PROVE Heard /\ errors = <<>>
  BY DEF RecordsInv
<1>1. pos = 0 /\ phase = "header" /\ rows = <<>> /\ errors = <<>>
  BY DEF CsvInit
<1>2. 1..pos = {}
  BY <1>1
<1>3. Lists(<<>>, {})
  BY DEF Lists, Range
<1> QED
  BY <1>1, <1>2, <1>3, NothingIsEven DEF Heard

\* The header is the first line that is not empty, or the file is not well formed.
LEMMA HeaderStep == ReadInv /\ RecordsInv /\ ReadHeader => RecordsInv'
<1> SUFFICES ASSUME ReadInv, RecordsInv, ReadHeader PROVE RecordsInv'
  OBVIOUS
<1> DEFINE b == BeginParse
<1>1. file \in Seq(Kinds) /\ pos = 0 /\ Len(file) \in Nat /\ rows = <<>> /\ errors = <<>>
  BY DEF ReadInv, CsvTypeOK, ReadHeader
<1>2. /\ b \in 1..Len(file) + 1
      /\ b <= Len(file) => file[b] # "blank"
      /\ \A i \in 1..b - 1 : file[i] = "blank"
  BY <1>1, BeginProperties
<1>3. file' = file /\ rows' = rows
  BY DEF ReadHeader
<1> HIDE DEF b
<1>4. CASE b <= Len(file) /\ file[b] = "header"
  <2>1. pos' = b /\ phase' = "rows" /\ errors' = <<>>
    BY <1>1, <1>4 DEF ReadHeader, b
  <2>2. ASSUME NEW i \in 1..b PROVE file[i] \in {"blank", "header"} /\ file[i] \notin Quote
    BY <1>2, <1>4 DEF Quote
  <2>3. ASSUME NEW i \in 1..b PROVE Even(i) /\ Outside(i)
    <3>1. Even(i) /\ Even(i - 1)
      BY <1>2, <2>2, NothingIsEven, EvenStays
    <3> QED
      BY <1>2, <3>1, OutsideIsEven
  <2>4. HeaderLine(b)
    BY <1>2, <1>4 DEF HeaderLine
  <2>5. \A i \in 1..b : InPlace(i)
    <3> SUFFICES ASSUME NEW i \in 1..b PROVE InPlace(i)
      OBVIOUS
    <3>1. CASE i = b
      BY <2>3, <2>4, <3>1 DEF InPlace
    <3>2. CASE i # b
      BY <1>2, <2>3, <3>2 DEF InPlace
    <3> QED
      BY <3>1, <3>2
  <2>6. Payments \cap 1..b = {}
    BY <2>2 DEF Payments
  <2>7. Lists(<<>>, {})
    BY DEF Lists, Range
  <2>8. Heard'
    <3>1. b \in 1..b
      BY <1>2
    <3>2. Even(pos)' /\ (Lists(rows, Payments \cap 1..pos))'
      BY <1>1, <1>3, <2>1, <2>3, <2>6, <2>7, <3>1, FileStays DEF Lists
    <3>3. /\ (\A i \in 1..pos : InPlace(i))'
          /\ (\E h \in 1..pos : HeaderLine(h))'
      BY <1>3, <2>1, <2>4, <2>5, <3>1, FileStays
    <3> QED
      BY <2>1, <3>2, <3>3 DEF Heard
  <2> QED
    BY <2>1, <2>8 DEF RecordsInv
<1>5. CASE ~(b <= Len(file) /\ file[b] = "header")
  <2>1. errors' = Report(b, <<"header">>)
    BY <1>5 DEF ReadHeader, b
  <2>2. errors' # <<>>
    BY <2>1 DEF Report
  <2>3. ~WellFormed
    <3> SUFFICES ASSUME NEW i \in DOMAIN file, HeaderLine(i) PROVE FALSE
      BY DEF WellFormed
    <3>1. i \in 1..Len(file) /\ file[i] = "header" /\ \A j \in 1..i - 1 : file[j] = "blank"
      BY <1>1 DEF HeaderLine
    <3>2. i >= b
      BY <1>2, <3>1
    <3>3. i = b
      BY <1>2, <3>1, <3>2
    <3> QED
      BY <1>5, <3>1, <3>3
  <2> QED
    BY <1>3, <2>2, <2>3, FileStays DEF RecordsInv
<1> QED
  BY <1>4, <1>5

\* Between two records nothing but empty lines: the next record begins outside all quotes.
LEMMA RecordBeginsOutside ==
  ASSUME ReadInv, Heard, ReadRecord
  PROVE  /\ BeginParse \in pos + 1..Len(file) /\ file[BeginParse] # "blank"
         /\ \A i \in pos + 1..BeginParse : Outside(i) /\ ~HeaderLine(i)
         /\ \A i \in pos + 1..BeginParse - 1 : file[i] = "blank"
<1> DEFINE b == BeginParse
<1>1. file \in Seq(Kinds) /\ pos \in 0..Len(file) /\ Len(file) \in Nat
  BY DEF ReadInv, CsvTypeOK
<1>2. b \in pos + 1..Len(file) /\ file[b] # "blank" /\ \A i \in pos + 1..b - 1 : file[i] = "blank"
  BY <1>1, BeginProperties DEF ReadRecord
<1>3. PICK h \in 1..pos : file[h] = "header"
  BY DEF Heard, ReadRecord, HeaderLine
<1> HIDE DEF b
<1>4. ASSUME NEW i \in pos + 1..b PROVE Outside(i) /\ ~HeaderLine(i)
  <2>1. \A j \in pos + 1..i - 1 : file[j] \notin Quote
    BY <1>2 DEF Quote
  <2>2. Even(i - 1)
    BY <1>1, <1>2, <2>1, EvenStays DEF Heard
  <2>3. i \in Nat \ {0} /\ h \in 1..i - 1 /\ file[h] # "blank"
    BY <1>1, <1>2, <1>3
  <2> QED
    BY <2>2, <2>3, OutsideIsEven DEF HeaderLine
<1> QED
  BY <1>2, <1>4 DEF b

\* A record that begins in no proper way, or does not end, is an error of the file.
LEMMA FaultIsReal ==
  ASSUME ReadInv, Heard, ReadRecord, NEW wrong \in Faults(BeginParse), wrong # <<>>
  PROVE  ~WellFormed
<1> DEFINE b == BeginParse
           e == EndParse(b)
<1>1. file \in Seq(Kinds) /\ pos \in 0..Len(file) /\ Len(file) \in Nat
  BY DEF ReadInv, CsvTypeOK
<1>2. b \in pos + 1..Len(file) /\ b \in DOMAIN file /\ Outside(b) /\ ~HeaderLine(b) /\ file[b] # "blank"
  BY <1>1, RecordBeginsOutside
<1> SUFFICES ASSUME WellFormed PROVE FALSE
  OBVIOUS
<1>3. file[b] \in {"row", "opens"}
  BY <1>2 DEF WellFormed, InPlace
<1>4. Unquoted(b)
  BY <1>3 DEF Faults, Unquoted
<1>5. file[b] = "opens" /\ (e > Len(file) \/ file[e] = "opens")
  BY <1>3, <1>4 DEF Unquoted
<1>6. /\ e \in b + 1..Len(file) + 1
      /\ e <= Len(file) => file[e] \in Quote
      /\ \A i \in b + 1..e - 1 : file[i] \notin Quote
  BY <1>1, <1>2, <1>5, EndProperties
<1> HIDE DEF b, e
<1>7. Even(b - 1) /\ file[b] \in Quote
  BY <1>1, <1>2, <1>5, OutsideIsEven DEF Quote
<1>8. ~Even(e - 1)
  BY <1>1, <1>2, <1>6, <1>7, EvenTurns
<1>9. CASE e > Len(file)
  <2>1. e - 1 = Len(file)
    BY <1>1, <1>6, <1>9
  <2>2. Even(Len(file))
    <3>1. Quotes(Len(file)) = {i \in DOMAIN file : file[i] \in Quote}
      BY <1>1 DEF Quotes
    <3> QED
      BY <3>1 DEF WellFormed, Even
  <2> QED
    BY <1>8, <2>1, <2>2
<1>10. CASE e <= Len(file)
  <2>1. e \in DOMAIN file /\ ~Outside(e) /\ file[e] = "opens"
    BY <1>1, <1>2, <1>5, <1>6, <1>8, <1>10, OutsideIsEven
  <2> QED
    BY <2>1 DEF WellFormed, InPlace
<1> QED
  BY <1>1, <1>6, <1>9, <1>10

\* A good record is one payment, on the line where it begins.
LEMMA GoodRecordStep ==
  ASSUME ReadInv, Heard, ReadRecord, <<>> \in Faults(BeginParse),
         rows' = Append(rows, BeginParse)
  PROVE  Heard'
<1> DEFINE b == BeginParse
           e == EndParse(b)
<1>1. /\ file \in Seq(Kinds) /\ pos \in 0..Len(file) /\ Len(file) \in Nat
      /\ rows \in Seq(DOMAIN file) /\ phase = "rows"
  BY DEF ReadInv, CsvTypeOK, ReadRecord
<1>2. /\ b \in pos + 1..Len(file) /\ b \in DOMAIN file /\ file[b] # "blank"
      /\ \A i \in pos + 1..b : Outside(i) /\ ~HeaderLine(i)
      /\ \A i \in pos + 1..b - 1 : file[i] = "blank"
  BY <1>1, RecordBeginsOutside
<1>3. file' = file /\ phase' = phase /\ e \in b..Len(file) + 1
      /\ (e <= Len(file) => pos' = e)
  BY RecordStep
<1>4. /\ ~Unquoted(b)
      /\ file[b] \notin {"short", "spaces", "unpriced", "header", "unfilled"}
  BY DEF Faults, Unquoted
<1>5. /\ file[b] # "opens" => e = b
      /\ file[b] = "opens" => /\ e > b
                              /\ e <= Len(file) => file[e] \in Quote
                              /\ \A i \in b + 1..e - 1 : file[i] \notin Quote
  BY <1>1, <1>2, EndProperties
<1>6. file[b] \in Kinds
  BY <1>1, <1>2
<1>7. /\ file[b] \in {"row", "opens"}
      /\ file[b] = "row" => e = b
      /\ file[b] = "opens" => e > b /\ e <= Len(file) /\ file[e] = "closes"
  <2>1. file[b] \in {"row", "opens"}
    BY <1>2, <1>4, <1>6 DEF Unquoted, Kinds, Whole, Quote
  <2>2. file[b] = "opens" => e <= Len(file) /\ file[e] # "opens"
    <3>1. Len(file) \in Nat /\ e \in Nat
      BY <1>1, <1>2, <1>3
    <3> QED
      BY <1>4, <3>1 DEF Unquoted
  <2> HIDE DEF b, e
  <2> QED
    BY <1>5, <2>1, <2>2 DEF Quote
<1>8. pos' = e /\ e \in b..Len(file)
  BY <1>2, <1>3, <1>7
<1> HIDE DEF b, e
<1>9. Even(b - 1) /\ Outside(b)
  BY <1>1, <1>2, OutsideIsEven
<1>10. ASSUME NEW i \in b + 1..e PROVE ~Outside(i) /\ file[i] # "opens"
  <2>1. file[b] = "opens" /\ file[b] \in Quote
    BY <1>2, <1>7, <1>8 DEF Quote
  <2>2. \A j \in b - 1 + 1..i - 1 : j # b => file[j] \notin Quote
    BY <1>2, <1>5, <1>8, <2>1
  <2>3. ~Even(i - 1)
    <3>1. b - 1 \in Nat /\ b \in Nat /\ i - 1 \in Nat /\ b - 1 < b /\ b <= i - 1
      BY <1>1, <1>2, <1>8
    <3> QED
      BY <1>9, <2>1, <2>2, <3>1, EvenTurns
  <2>4. file[i] # "opens"
    BY <1>2, <1>5, <1>7, <1>8, <2>1 DEF Quote
  <2> QED
    BY <1>2, <1>8, <2>3, <2>4, OutsideIsEven
<1>11. Even(e)
  <2>1. CASE file[b] = "row"
    <3>1. \A j \in b - 1 + 1..b : file[j] \notin Quote
      BY <1>2, <2>1 DEF Quote
    <3> QED
      BY <1>2, <1>7, <1>9, <2>1, <3>1, EvenStays
  <2>2. CASE file[b] = "opens"
    <3>1. ~Even(e - 1)
      BY <1>2, <1>7, <1>8, <1>10, <2>2, OutsideIsEven
    <3>2. \A j \in e - 1 + 1..e : j # e => file[j] \notin Quote
      BY <1>2, <1>8
    <3> QED
      BY <1>2, <1>7, <1>8, <2>2, <3>1, <3>2, EvenTurns DEF Quote
  <2> QED
    BY <1>7, <2>1, <2>2
<1>12. \A i \in 1..e : InPlace(i)
  <2> SUFFICES ASSUME NEW i \in 1..e PROVE InPlace(i)
    OBVIOUS
  <2>1. CASE i <= pos
    BY <1>1, <2>1 DEF Heard
  <2>2. CASE i \in pos + 1..b
    BY <1>2, <1>7, <2>2 DEF InPlace
  <2>3. CASE i \in b + 1..e
    BY <1>10, <2>3 DEF InPlace
  <2> QED
    BY <1>1, <1>2, <1>8, <2>1, <2>2, <2>3
<1>13. Payments \cap 1..e = (Payments \cap 1..pos) \cup {b}
  <2>1. b \in Payments
    BY <1>2, <1>7 DEF Payments
  <2>2. \A i \in pos + 1..b - 1 : i \notin Payments
    BY <1>2 DEF Payments
  <2>3. \A i \in b + 1..e : i \notin Payments
    BY <1>10 DEF Payments
  <2> QED
    BY <1>1, <1>2, <1>8, <2>1, <2>2, <2>3
<1>14. Lists(Append(rows, b), Payments \cap 1..e)
  <2>1. Range(rows) = Payments \cap 1..pos /\ \A i, j \in DOMAIN rows : i < j => rows[i] < rows[j]
    BY DEF Heard, Lists
  <2> DEFINE n == Len(rows)
             s == Append(rows, b)
  <2>2. /\ n \in Nat /\ DOMAIN rows = 1..n /\ DOMAIN s = 1..n + 1
        /\ \A i \in 1..n : s[i] = rows[i]
        /\ s[n + 1] = b
    BY <1>1, <1>2, AppendFacts
  <2> HIDE DEF s, n
  <2>3. Range(s) = Range(rows) \cup {b}
    BY <2>2 DEF Range
  <2>4. \A i \in 1..n : rows[i] \in 1..pos
    BY <2>1, <2>2 DEF Range
  <2>5. ASSUME NEW i \in DOMAIN s, NEW j \in DOMAIN s, i < j PROVE s[i] < s[j]
    <3>1. CASE j \in 1..n
      BY <2>1, <2>2, <2>5, <3>1
    <3>2. CASE j = n + 1
      BY <1>1, <1>2, <2>2, <2>4, <2>5, <3>2
    <3> QED
      BY <2>2, <3>1, <3>2
  <2> QED
    BY <1>13, <2>1, <2>3, <2>5 DEF Lists, s
<1>15. rows' = Append(rows, b)
  BY DEF b
<1>16. \E h \in 1..e : HeaderLine(h)
  BY <1>1, <1>2, <1>8 DEF Heard
<1>17. Even(pos)' /\ (Lists(rows, Payments \cap 1..pos))'
  BY <1>3, <1>8, <1>11, <1>14, <1>15, FileStays DEF Lists
<1>18. (\A i \in 1..pos : InPlace(i))' /\ (\E h \in 1..pos : HeaderLine(h))'
  BY <1>3, <1>8, <1>12, <1>16, FileStays
<1> QED
  BY <1>1, <1>3, <1>17, <1>18 DEF Heard

LEMMA RecordsStep == ReadInv /\ RecordsInv /\ ReadRecord => RecordsInv'
<1> SUFFICES ASSUME ReadInv, RecordsInv, ReadRecord PROVE RecordsInv'
  OBVIOUS
<1> DEFINE b == BeginParse
<1>1. file' = file /\ errors \in Seq(Reported)
  BY DEF ReadRecord, ReadInv, CsvTypeOK, Reported
<1>2. PICK wrong \in Faults(b) :
        /\ errors' = errors \o Report(b, wrong)
        /\ rows' = IF wrong = <<>> THEN Append(rows, b) ELSE rows
  BY DEF ReadRecord
<1>3. /\ Report(b, wrong) \in Seq(Together(line', b))
      /\ Len(Report(b, wrong)) = Len(wrong) /\ wrong \in Seq(Columns)
  BY FaultsType, ReportType
<1>4. Len(errors') = Len(errors) + Len(wrong) /\ Len(errors) \in Nat /\ Len(wrong) \in Nat
  <2> DEFINE new == Report(b, wrong)
  <2>1. new \in Seq(Together(line', b)) /\ Len(new) = Len(wrong) /\ errors' = errors \o new
    BY <1>2, <1>3
  <2> HIDE DEF new
  <2>2. errors \in Seq(UNION {Reported, Together(line', b)}) /\ new \in Seq(UNION {Reported, Together(line', b)})
    BY <1>1, <2>1, SequenceFacts
  <2>3. Len(errors \o new) = Len(errors) + Len(new) /\ Len(errors) \in Nat /\ Len(new) \in Nat
    BY <2>2, SequenceFacts
  <2> QED
    BY <2>1, <2>3
<1>5. /\ errors = <<>> <=> Len(errors) = 0
      /\ wrong = <<>> <=> Len(wrong) = 0
  BY <1>1, <1>3
<1>6. errors' = <<>> <=> Len(errors') = 0
  BY <1>1, <1>2, <1>3
<1> HIDE DEF b
<1>7. CASE errors # <<>>
  BY <1>1, <1>4, <1>5, <1>6, <1>7, FileStays DEF RecordsInv
<1>8. CASE errors = <<>> /\ wrong = <<>>
  BY <1>2, <1>4, <1>5, <1>6, <1>8, GoodRecordStep DEF RecordsInv, b
<1>9. CASE errors = <<>> /\ wrong # <<>>
  <2>1. ~WellFormed
    BY <1>2, <1>9, FaultIsReal DEF RecordsInv, b
  <2> QED
    BY <1>1, <1>4, <1>5, <1>6, <1>9, <2>1, FileStays DEF RecordsInv
<1> QED
  BY <1>7, <1>8, <1>9

LEMMA NextRecords == ReadInv /\ RecordsInv /\ [CsvNext]_csvVars => RecordsInv'
<1> SUFFICES ASSUME ReadInv, RecordsInv, [CsvNext]_csvVars PROVE RecordsInv'
  OBVIOUS
<1>1. CASE UNCHANGED csvVars
  <2>1. Heard' <=> Heard
    BY <1>1, FileStays DEF csvVars, Heard, Lists
  <2> QED
    BY <1>1, <2>1, FileStays DEF csvVars, RecordsInv
<1>2. CASE EndOfFile
  <2>1. file \in Seq(Kinds) /\ pos \in 0..Len(file) /\ Len(file) \in Nat
    BY DEF ReadInv, CsvTypeOK
  <2>2. \A i \in pos + 1..Len(file) : file[i] = "blank"
    BY <1>2, <2>1, BeginProperties DEF EndOfFile
  <2>3. Heard => Heard'
    BY <1>2, <2>2, FileStays DEF EndOfFile, Heard, Lists
  <2> QED
    BY <1>2, <2>3, FileStays DEF EndOfFile, RecordsInv
<1> QED
  BY <1>1, <1>2, HeaderStep, RecordsStep DEF CsvNext

-----------------------------------------------------------------------------
(* The preview: what the card counts. *)

LEMMA ListsCounts ==
  ASSUME NEW s \in Seq(Nat), NEW S, Lists(s, S)
  PROVE  IsFiniteSet(S) /\ Cardinality(S) = Len(s)
<1> DEFINE n == Len(s)
<1>1. n \in Nat /\ DOMAIN s = 1..n /\ s \in [1..n -> Nat]
  OBVIOUS
<1>2. \A i \in 1..n : s[i] \in S
  BY <1>1 DEF Lists, Range
<1>3. \A x \in S : \E i \in 1..n : s[i] = x
  BY <1>1 DEF Lists, Range
<1>4. ASSUME NEW i \in 1..n, NEW j \in 1..n, s[i] = s[j] PROVE i = j
  <2>1. s[i] \in Nat /\ s[j] \in Nat /\ i \in Nat /\ j \in Nat
    BY <1>1
  <2>2. (i < j => s[i] < s[j]) /\ (j < i => s[j] < s[i])
    BY <1>1 DEF Lists
  <2> QED
    BY <1>4, <2>1, <2>2
<1>5. s \in Bijection(1..n, S)
  BY <1>1, <1>2, <1>3, <1>4 DEF Bijection, Injection, Surjection, IsInjective
<1>6. ExistsBijection(1..n, S)
  BY <1>5 DEF ExistsBijection
<1> QED
  BY <1>1, <1>6, FS_CountingElements, FS_Interval, FS_Bijection

-----------------------------------------------------------------------------
(* The end of the file *)

\* Without errors the whole file has been heard.
LEMMA HeardToTheEnd ==
  ASSUME ReadInv, Heard, phase = "done"
  PROVE  WellFormed /\ Lists(rows, Payments)
<1>1. file \in Seq(Kinds) /\ pos \in 0..Len(file) /\ Len(file) \in Nat
  BY DEF ReadInv, CsvTypeOK
<1>2. \A i \in pos + 1..Len(file) : file[i] = "blank"
  BY DEF Heard
<1>3. \E i \in DOMAIN file : HeaderLine(i)
  BY <1>1 DEF Heard
<1>4. ASSUME NEW i \in DOMAIN file PROVE InPlace(i)
  <2>1. CASE i <= pos
    BY <1>1, <2>1 DEF Heard
  <2>2. CASE i > pos
    <3>1. file[i] = "blank"
      BY <1>1, <1>2, <2>2
    <3> QED
      BY <3>1 DEF InPlace
  <2> QED
    BY <1>1, <2>1, <2>2
<1>5. Even(Len(file))
  <2>1. \A j \in pos + 1..Len(file) : file[j] \notin Quote
    BY <1>2 DEF Quote
  <2> QED
    BY <1>1, <2>1, EvenStays DEF Heard
<1>6. Quotes(Len(file)) = {i \in DOMAIN file : file[i] \in Quote}
  BY <1>1 DEF Quotes
<1>7. Payments = Payments \cap 1..pos
  <2> SUFFICES ASSUME NEW i \in Payments PROVE i \in 1..pos
    OBVIOUS
  <2>1. i \in 1..Len(file) /\ file[i] # "blank"
    BY <1>1 DEF Payments
  <2> QED
    BY <1>1, <1>2, <2>1
<1> QED
  BY <1>3, <1>4, <1>5, <1>6, <1>7 DEF WellFormed, Even, Heard

LEMMA AcceptedHolds == ReadInv /\ RecordsInv => AcceptedAsWritten
  BY HeardToTheEnd DEF AcceptedAsWritten, RecordsInv

Shown == {i \in DOMAIN file : file[i] \notin {"spaces", "blank"}}

LEMMA OneHeader ==
  ASSUME file \in Seq(Kinds), NEW h \in DOMAIN file, HeaderLine(h),
         NEW i \in DOMAIN file, HeaderLine(i)
  PROVE  i = h
<1>1. i \in Nat \ {0} /\ h \in Nat \ {0}
  OBVIOUS
<1>2. i < h => file[i] = "blank"
  BY <1>1 DEF HeaderLine
<1>3. h < i => file[h] = "blank"
  BY <1>1 DEF HeaderLine
<1> QED
  BY <1>1, <1>2, <1>3 DEF HeaderLine

\* The first quote of a well formed file opens a payment.
LEMMA QuotesBelongToPayments ==
  ASSUME file \in Seq(Kinds), WellFormed, NEW x \in DOMAIN file, ~Outside(x)
  PROVE  Payments # {}
<1>1. x \in 1..Len(file) /\ Len(file) \in Nat
  OBVIOUS
<1>2. Quotes(x - 1) # {}
  <2> SUFFICES ASSUME Quotes(x - 1) = {} PROVE FALSE
    OBVIOUS
  <2>1. Cardinality(Quotes(x - 1)) = 0
    BY FS_EmptySet
  <2>2. Even(x - 1)
    BY <2>1 DEF Even
  <2> QED
    BY <1>1, <2>2, OutsideIsEven
<1>3. Quotes(x - 1) \subseteq Nat
  BY DEF Quotes
<1>4. PICK q \in Quotes(x - 1) : \A j \in Quotes(x - 1) : q <= j
  BY <1>2, <1>3, Least
<1>5. q \in 1..x - 1 /\ file[q] \in Quote
  BY DEF Quotes
<1>6. q \in DOMAIN file
  BY <1>1, <1>5
<1>7. \A j \in 0 + 1..q - 1 : file[j] \notin Quote
  BY <1>1, <1>4, <1>5 DEF Quotes
<1>8. Outside(q)
  <2>1. Even(q - 1)
    BY <1>1, <1>5, <1>7, EvenStays, NothingIsEven
  <2> QED
    BY <1>5, <2>1, OutsideIsEven
<1>9. file[q] = "opens"
  BY <1>5, <1>6, <1>8 DEF WellFormed, InPlace, HeaderLine, Quote
<1> QED
  BY <1>6, <1>8, <1>9 DEF Payments

LEMMA CountedIsThere ==
  ASSUME NEW S, Cardinality(S) > 0
  PROVE  S # {}
<1>1. Cardinality({}) = 0 /\ ~(0 > 0)
  BY FS_EmptySet
<1> QED
  BY <1>1, Zenon

\* Of a well formed file the card counts the lines with text, but for the header.
LEMMA PreviewHolds == ReadInv /\ RecordsInv => PreviewIsKept
<1> SUFFICES ASSUME ReadInv, RecordsInv, phase = "done", errors = <<>>
             PROVE  /\ Len(rows) <= PreviewRows
                    /\ Range(file) \cap Quote = {} => Len(rows) = PreviewRows
                    /\ PreviewRows > 0 => rows # <<>>
  BY DEF PreviewIsKept
<1>1. /\ file \in Seq(Kinds) /\ pos \in 0..Len(file) /\ Len(file) \in Nat
      /\ rows \in Seq(DOMAIN file)
  BY DEF ReadInv, CsvTypeOK
<1>2. WellFormed /\ Lists(rows, Payments)
  BY HeardToTheEnd DEF RecordsInv
<1>3. PICK h \in DOMAIN file : HeaderLine(h)
  BY <1>2 DEF WellFormed
<1>4. rows \in Seq(Nat)
  BY <1>1
<1>5. Len(rows) = Cardinality(Payments)
  BY <1>2, <1>4, ListsCounts
<1>6. h \in Shown /\ h \notin Payments /\ Payments \subseteq Shown
  BY <1>3 DEF Shown, Payments, HeaderLine
<1>7. IsFiniteSet(Shown) /\ ShownLines = Cardinality(Shown)
  <2>1. IsFiniteSet(1..Len(file)) /\ Shown \subseteq 1..Len(file)
    <3>1. Shown \subseteq 1..Len(file)
      BY <1>1 DEF Shown
    <3> QED
      BY <1>1, <3>1, FS_Interval
  <2> QED
    BY <2>1, FS_Subset DEF ShownLines, Shown
<1> DEFINE Rest == Shown \ {h}
<1>8. IsFiniteSet(Rest) /\ Cardinality(Rest) = ShownLines - 1 /\ ShownLines \in Nat \ {0}
  <2>1. IsFiniteSet(Rest) /\ Cardinality(Rest) = Cardinality(Shown) - 1
    BY <1>6, <1>7, FS_RemoveElement
  <2>2. Cardinality(Rest) \in Nat /\ Cardinality(Shown) \in Nat
    BY <1>7, <2>1, FS_CardinalityType
  <2> QED
    BY <1>7, <2>1, <2>2
<1>9. PreviewRows = Cardinality(Rest)
  BY <1>8 DEF PreviewRows
<1>10. ASSUME NEW i \in Rest, Outside(i) PROVE i \in Payments
  <2>1. i \in DOMAIN file /\ i # h /\ file[i] # "blank"
    BY DEF Shown
  <2>2. ~HeaderLine(i)
    BY <1>1, <1>3, <2>1, OneHeader
  <2>3. file[i] \in {"row", "opens"}
    BY <1>2, <1>10, <2>1, <2>2 DEF WellFormed, InPlace
  <2> QED
    BY <1>10, <2>1, <2>3 DEF Payments
<1>11. Cardinality(Payments) <= Cardinality(Rest)
  BY <1>6, <1>8, FS_Subset
<1>12. ASSUME Range(file) \cap Quote = {} PROVE Payments = Rest
  <2>1. ASSUME NEW i \in Rest PROVE Outside(i)
    <3>1. i \in 1..Len(file)
      BY <1>1 DEF Shown
    <3>2. \A j \in 0 + 1..i - 1 : file[j] \notin Quote
      BY <1>1, <1>12, <3>1 DEF Range
    <3>3. Even(i - 1)
      BY <3>1, <3>2, EvenStays, NothingIsEven
    <3> QED
      BY <3>1, <3>3, OutsideIsEven
  <2> QED
    BY <1>6, <1>10, <2>1
<1>13. ASSUME Cardinality(Rest) > 0 PROVE Len(rows) > 0
  <2>1. Rest # {}
    BY <1>13, CountedIsThere
  <2>2. PICK x \in Rest : TRUE
    BY <2>1
  <2>3. x \in DOMAIN file
    BY DEF Shown
  <2>4. Payments # {}
    BY <1>1, <1>2, <1>10, <2>2, <2>3, QuotesBelongToPayments
  <2>5. IsFiniteSet(Payments)
    BY <1>2, <1>4, ListsCounts
  <2>6. Cardinality(Payments) \in Nat /\ Cardinality(Payments) # 0
    BY <2>4, <2>5, FS_CardinalityType, FS_EmptySet
  <2> QED
    BY <1>5, <2>6
<1>14. PreviewRows > 0 => rows # <<>>
  BY <1>1, <1>9, <1>13
<1> QED
  BY <1>5, <1>9, <1>11, <1>12, <1>14

-----------------------------------------------------------------------------
\* Whatever the lines of a file: it is accepted if it is well formed and only then, with
\* all its payments in order; the card has announced no fewer; and the numbers in the errors,
\* which count records and need not be those of the lines, keep the records apart and in
\* order and never point below the one that is wrong.
THEOREM FilesAreParsedAsWritten == CsvSpec => []ParsedAsWritten
<1>1. CsvInit => ReadInv /\ ErrorsInv /\ RecordsInv
  BY InitRead, InitErrors, InitRecords
<1>2. ReadInv /\ ErrorsInv /\ RecordsInv /\ [CsvNext]_csvVars => (ReadInv /\ ErrorsInv /\ RecordsInv)'
  BY NextRead, NextErrors, NextRecords
<1>3. ReadInv /\ ErrorsInv /\ RecordsInv => ParsedAsWritten
  BY AcceptedHolds, PreviewHolds DEF ParsedAsWritten, ReadInv, ErrorsInv
<1> QED
  BY <1>1, <1>2, <1>3, PTL DEF CsvSpec

-----------------------------------------------------------------------------
(* The parts together: each of them sees its own steps and steps that leave it alone. *)

LEMMA ServicePartsStart ==
  ServiceInit => AccountsInit /\ ConnectionsInit /\ CsvInit /\ HarnessInit
BY DEF ServiceInit

LEMMA ServicePartsSee ==
  [ServiceNext]_allVars => /\ [AccountsNext]_accountsVars
                           /\ [ConnectionsNext]_connectionsVars
                           /\ [CsvNext]_csvVars
                           /\ [HarnessNext]_harnessVars
BY DEF ServiceNext, Account, Connections, Parser, Harness, allVars

\* A service is each of its parts: whatever a theorem says of a part, it says of the
\* service that the runs look at.
THEOREM ServiceIsItsParts ==
  ServiceSpec => AccountsSpec /\ ConnectionsSpec /\ CsvSpec /\ HarnessSpec
  BY ServicePartsStart, ServicePartsSee, PTL
     DEF ServiceSpec, AccountsSpec, ConnectionsSpec, CsvSpec, HarnessSpec

\* Everything that the runs check of the service at every moment: the accounts stay
\* consistent, what is held is in use and never by a circle of waiters, files are read as
\* they are written, and the harness reports what happened.
THEOREM ServiceIsSound ==
  ServiceSpec => [](/\ AccountsAreConsistent /\ AdministratorRemains /\ ConnectionsAreShared
                    /\ ParsedAsWritten /\ ReportIsTrue)
  BY ServiceIsItsParts, ConsistencyHolds, FirstAdministratorRemains,
     ConnectionsAreSharedAlways, FilesAreParsedAsWritten, HarnessReportsTruly, PTL

=============================================================================
