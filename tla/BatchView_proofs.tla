-------------------------- MODULE BatchView_proofs --------------------------
(***************************************************************************)
(* Proofs about the page of a batch, for any payments, any number of       *)
(* visits, faults and requests in any order: its types, that the database  *)
(* behind it is a ledger, that nothing the page shows is ahead of it, and  *)
(* that the snapshot asked for last shows how the batch has ended.         *)
(***************************************************************************)
EXTENDS BatchView, FiniteSetTheorems, TLAPS

LEMMA CountsAreNatural ==
  /\ Cardinality(Payments) \in Nat
  /\ StoredCount \in [Status -> Nat]
<1>1. ASSUME NEW s \in Status PROVE Cardinality({p \in Payments : stored[p] = s}) \in Nat
  <2>1. IsFiniteSet({p \in Payments : stored[p] = s})
    BY PaymentsAssumption, FS_Subset
  <2> QED
    BY <2>1, FS_CardinalityType
<1> QED
  BY <1>1, PaymentsAssumption, FS_CardinalityType DEF StoredCount

LEMMA StatusFacts ==
  /\ "pending" \in Status /\ "success" \in Status /\ "failed" \in Status
  /\ NoCounts \in [Status -> Nat] /\ AllPending \in [Payments -> Status]
BY DEF Status, Terminal, NoCounts, AllPending

LEMMA InitViewTypes == ViewInit => ViewTypeOK
<1> SUFFICES ASSUME ViewInit PROVE ViewTypeOK
  OBVIOUS
<1>1. denied \in BOOLEAN
  BY DenialsAssumption DEF ViewInit
<1>2. wire \in Seq(Event)
  BY DEF ViewInit
<1>3. mounts \in 0..MaxMounts /\ faults \in 0..MaxFaults
  BY MaxMountsAssumption, MaxFaultsAssumption DEF ViewInit
<1> QED
  BY <1>1, <1>2, <1>3, StatusFacts DEF ViewInit, ViewTypeOK

\* The slice has its types after each reducer.
SliceTypeOK ==
  /\ loaded \in BOOLEAN
  /\ shown \in [Payments -> Status]
  /\ count \in [Status -> Nat]
  /\ completed \in Nat
  /\ stream \in {"idle", "connecting", "connected", "reconnecting",
                 "disconnected", "completed", "error"}
  /\ applied \in Nat

LEMMA MoveType ==
  ASSUME count \in [Status -> Nat], NEW s \in Status, NEW t \in Status
  PROVE  Move(s, t) \in [Status -> Nat]
BY DEF Move

LEMMA PaymentEventType ==
  ASSUME SliceTypeOK, NEW e, e.payment \in Payments, e.status \in Status, PaymentEvent(e)
  PROVE  SliceTypeOK'
<1>1. CASE loaded
  <2>1. count' \in [Status -> Nat]
    BY <1>1, MoveType DEF SliceTypeOK, PaymentEvent
  <2> QED
    BY <1>1, <2>1, StatusFacts DEF SliceTypeOK, PaymentEvent
<1>2. CASE ~loaded
  BY <1>2 DEF SliceTypeOK, PaymentEvent
<1> QED
  BY <1>1, <1>2 DEF SliceTypeOK

LEMMA DoneEventType ==
  ASSUME SliceTypeOK, DoneEvent
  PROVE  SliceTypeOK'
BY CountsAreNatural DEF SliceTypeOK, DoneEvent

LEMMA HydrateType ==
  ASSUME SliceTypeOK, NEW r \in Request, Hydrate(r), UNCHANGED stream
  PROVE  SliceTypeOK'
BY StatusFacts DEF SliceTypeOK, Hydrate, Request

\* An event of the wire that is not batch_done is about a payment.
LEMMA EventIsUpdate ==
  ASSUME NEW e \in Event, e # BatchDone
  PROVE  e.payment \in Payments /\ e.status \in Status
BY DEF Event

LEMMA AskType ==
  ASSUME requests \in SUBSET Request, made \in Nat, Ask
  PROVE  requests' \in SUBSET Request /\ made' \in Nat
BY StatusFacts DEF Ask, Request

LEMMA EmitType ==
  ASSUME wire \in Seq(Event), NEW e \in Event, Emit(e)
  PROVE  wire' \in Seq(Event)
BY DEF Emit

LEMMA UpdateIsEvent ==
  ASSUME NEW p \in Payments, NEW s \in Status
  PROVE  Update(p, s) \in Event /\ BatchDone \in Event
BY DEF Update, Event

LEMMA FaultType ==
  ASSUME faults \in 0..MaxFaults, NEW f, MayFail(f)
  PROVE  faults' \in 0..MaxFaults
BY MaxFaultsAssumption DEF MayFail

LEMMA NextViewTypes == ViewTypeOK /\ [ViewNext]_viewVars => ViewTypeOK'
<1> SUFFICES ASSUME ViewTypeOK, [ViewNext]_viewVars PROVE ViewTypeOK'
  OBVIOUS
<1>0. SliceTypeOK
  BY DEF ViewTypeOK, SliceTypeOK
<1>1. CASE UNCHANGED viewVars
  BY <1>1 DEF ViewTypeOK, viewVars
<1>2. ASSUME NEW p \in Payments, Commit(p) PROVE ViewTypeOK'
  <2>1. \A s \in Successors(stored[p]) : s \in Status
    BY DEF Successors, Status, Terminal
  <2> QED
    BY <1>2, <2>1 DEF Commit, ViewTypeOK, loop, slice
<1>3. ASSUME NEW p \in Payments, Publish(p) PROVE ViewTypeOK'
  <2>1. wire' \in Seq(Event)
    BY <1>3, EmitType, UpdateIsEvent DEF Publish, ViewTypeOK
  <2> QED
    BY <1>3, <2>1 DEF Publish, ViewTypeOK, slice
<1>4. CASE PublishDone
  <2>1. wire' \in Seq(Event)
    <3>1. BatchDone \in Event
      BY DEF Event
    <3> QED
      BY <1>4, <3>1, EmitType DEF PublishDone, ViewTypeOK
  <2> QED
    BY <1>4, <2>1 DEF PublishDone, ViewTypeOK, slice
<1>5. CASE Accept
  <2>1. wire' \in Seq(Event)
    <3>1. BatchDone \in Event
      BY DEF Event
    <3>2. <<BatchDone>> \in Seq(Event) /\ << >> \in Seq(Event)
      BY <3>1
    <3> QED
      BY <1>5, <3>2 DEF Accept
  <2> QED
    BY <1>5, <2>1 DEF Accept, ViewTypeOK, slice, backend
<1>6. CASE Mount
  <2>1. requests' \in SUBSET Request /\ made' \in Nat
    BY <1>6, AskType DEF Mount, ViewTypeOK
  <2> QED
    BY <1>6, <2>1, MaxMountsAssumption DEF Mount, Stream, ViewTypeOK, backend
<1>7. CASE Unmount
  BY <1>7 DEF Unmount, Stream, ViewTypeOK, backend, slice
<1>8. CASE Connected
  <2>1. requests' \in SUBSET Request /\ made' \in Nat
    BY <1>8, AskType DEF Connected, ViewTypeOK
  <2> QED
    BY <1>8, <2>1 DEF Connected, Stream, ViewTypeOK, backend
<1>9. CASE ReadPaymentEvent
  <2>1. Head(wire) \in Event /\ wire' \in Seq(Event)
    BY <1>9 DEF ReadPaymentEvent, ViewTypeOK
  <2>2. SliceTypeOK'
    BY <1>0, <1>9, <2>1, PaymentEventType, EventIsUpdate DEF ReadPaymentEvent
  <2> QED
    BY <1>9, <2>1, <2>2 DEF ReadPaymentEvent, ViewTypeOK, SliceTypeOK, backend
<1>10. CASE ReadBatchDone
  <2>1. requests' \in SUBSET Request /\ made' \in Nat
    BY <1>10, AskType DEF ReadBatchDone, ViewTypeOK
  <2>2. SliceTypeOK'
    BY <1>0, <1>10, DoneEventType DEF ReadBatchDone
  <2> QED
    BY <1>10, <2>1, <2>2 DEF ReadBatchDone, ViewTypeOK, SliceTypeOK, backend
<1>11. CASE RefusalEnds
  BY <1>11 DEF RefusalEnds, Stream, ViewTypeOK, backend
<1>12. CASE Reconnect
  BY <1>12 DEF Reconnect, Stream, ViewTypeOK, backend
<1>13. CASE StreamBreaks
  <2>1. faults' \in 0..MaxFaults
    BY <1>13, FaultType DEF StreamBreaks, ViewTypeOK
  <2> QED
    BY <1>13, <2>1 DEF StreamBreaks, Stream, ViewTypeOK, backend
<1>14. CASE Refused
  <2>1. faults' \in 0..MaxFaults
    BY <1>14, FaultType DEF Refused, ViewTypeOK
  <2> QED
    BY <1>14, <2>1 DEF Refused, Stream, ViewTypeOK, backend
<1>15. ASSUME NEW r \in requests, CountByStatus(r) PROVE ViewTypeOK'
  <2>1. [r EXCEPT !.step = "counted", !.count = StoredCount] \in Request
    BY CountsAreNatural DEF ViewTypeOK, Request
  <2> QED
    BY <1>15, <2>1 DEF CountByStatus, ViewTypeOK, backend, loop, slice
<1>16. ASSUME NEW r \in requests, FindByBatchID(r) PROVE ViewTypeOK'
  <2>1. [r EXCEPT !.step = "answered", !.shown = stored] \in Request
    BY DEF ViewTypeOK, Request
  <2> QED
    BY <1>16, <2>1 DEF FindByBatchID, ViewTypeOK, backend, loop, slice
<1>17. ASSUME NEW r \in requests, Answer(r) PROVE ViewTypeOK'
  <2>1. SliceTypeOK'
    BY <1>0, <1>17, HydrateType DEF Answer, ViewTypeOK
  <2> QED
    BY <1>17, <2>1 DEF Answer, ViewTypeOK, SliceTypeOK, backend, loop
<1>18. ASSUME NEW r \in requests, RequestFails(r) PROVE ViewTypeOK'
  <2>1. faults' \in 0..MaxFaults
    BY <1>18, FaultType DEF RequestFails, ViewTypeOK
  <2> QED
    BY <1>18, <2>1 DEF RequestFails, ViewTypeOK, backend, loop, slice
<1> QED
  BY <1>1, <1>2, <1>3, <1>4, <1>5, <1>6, <1>7, <1>8, <1>9, <1>10, <1>11, <1>12, <1>13, <1>14,
     <1>15, <1>16, <1>17, <1>18 DEF ViewNext, Backend, Hook, Serve

\* The backend, the requests, the loop of the hook and the slice keep their types.
THEOREM ViewTypeCorrect == ViewSpec => []ViewTypeOK
  BY InitViewTypes, NextViewTypes, PTL DEF ViewSpec

-----------------------------------------------------------------------------
(* The backend that the page is checked against keeps the promise of the ledger. *)

\* A status that is derived as final leaves nothing open.
LEMMA DerivedStatus ==
  ASSUME NEW st \in [Payments -> Status]
  PROVE  /\ DeriveBatchStatus(st) \in Status
         /\ DeriveBatchStatus(st) \in Terminal => AllTerminal(st)
<1>1. DeriveBatchStatus(st) \in Status
  BY DEF DeriveBatchStatus, Status, Terminal
<1>2. ASSUME DeriveBatchStatus(st) \in Terminal PROVE AllTerminal(st)
  <2>1. ~Has(st, "processing") /\ ~Has(st, "pending")
    BY <1>2 DEF DeriveBatchStatus, Terminal
  <2> QED
    BY <2>1 DEF Has, AllTerminal, Status
<1> QED
  BY <1>1, <1>2

\* Only Commit changes what is stored.
LEMMA OnlyCommitStores ==
  ASSUME [ViewNext]_viewVars
  PROVE  UNCHANGED stored \/ \E p \in Payments : Commit(p)
BY DEF ViewNext, Backend, Hook, Serve, viewVars, Publish, PublishDone, Accept, Connected,
       ReadPaymentEvent, ReadBatchDone, RefusalEnds, Reconnect, CountByStatus, FindByBatchID, Answer, RequestFails,
       Mount, Unmount, StreamBreaks, Refused, backend

\* Every step of the backend is a step of the ledger: one payment moves, to a successor of
\* its status, and the batch status that follows is final only when all payments are.
THEOREM LedgerRefinement == ViewSpec => StoredIsALedger
<1>1. ViewInit => Ledger!Init
  <2> SUFFICES ASSUME ViewInit PROVE Ledger!Init
    OBVIOUS
  <2>1. stored = [p \in Payments |-> "pending"]
    BY DEF ViewInit, AllPending
  <2>2. DeriveBatchStatus(stored) = "pending"
    BY <2>1, PaymentsAssumption DEF DeriveBatchStatus, Has
  <2> QED
    BY <2>1, <2>2 DEF Ledger!Init
<1>2. ViewTypeOK /\ [ViewNext]_viewVars => [Ledger!Next]_(Ledger!ledger)
  <2> SUFFICES ASSUME ViewTypeOK, [ViewNext]_viewVars PROVE [Ledger!Next]_(Ledger!ledger)
    OBVIOUS
  <2>1. CASE UNCHANGED stored
    BY <2>1 DEF Ledger!ledger
  <2>2. ASSUME NEW p \in Payments, Commit(p) PROVE Ledger!Next
    <3>1. PICK s \in Successors(stored[p]) : stored' = [stored EXCEPT ![p] = s]
      BY <2>2 DEF Commit
    <3>2. s \in Status /\ s \in Ledger!Successors(stored[p])
      BY <3>1 DEF Successors, Ledger!Successors, Status, Terminal, Ledger!Terminal
    <3>3. stored' \in [Payments -> Status]
      BY <3>1, <3>2 DEF ViewTypeOK
    <3>4. DeriveBatchStatus(stored') = Ledger!DeriveBatchStatus(stored')
      BY DEF DeriveBatchStatus, Has, Ledger!DeriveBatchStatus, Ledger!Has
    <3>5. /\ DeriveBatchStatus(stored') \in Ledger!Status
          /\ DeriveBatchStatus(stored') \in Ledger!Terminal => Ledger!AllTerminal(stored')
      BY <3>3, DerivedStatus DEF Status, Terminal, AllTerminal,
                                 Ledger!Status, Ledger!Terminal, Ledger!AllTerminal
    <3>6. Ledger!Advance(p, s)
      BY <3>1, <3>2, <3>4, <3>5 DEF Ledger!Advance
    <3> QED
      BY <3>2, <3>6 DEF Ledger!Next, Status, Terminal, Ledger!Status, Ledger!Terminal
  <2> QED
    BY <2>1, <2>2, OnlyCommitStores
<1> QED
  BY <1>1, <1>2, ViewTypeCorrect, PTL DEF ViewSpec, StoredIsALedger, Ledger!Spec

-----------------------------------------------------------------------------
(* So does it keep the promise of the feed, which WorkerPool keeps until a call fails. *)

\* Where nothing but the backend moves, its three variables stay.
LEMMA OnlyBackendFeeds ==
  ASSUME [ViewNext]_viewVars, ~Backend
  PROVE  UNCHANGED <<stored, published, done>>
<1> USE DEF backend
<1>1. ASSUME NEW r \in requests, Serve(r) \/ RequestFails(r)
      PROVE  UNCHANGED <<stored, published, done>>
  BY <1>1 DEF Serve, CountByStatus, FindByBatchID, Answer, RequestFails
<1>2. CASE Hook
  BY <1>2 DEF Hook, Accept, Connected, ReadPaymentEvent, ReadBatchDone, RefusalEnds, Reconnect
<1>3. CASE Mount \/ Unmount \/ StreamBreaks \/ Refused
  BY <1>3 DEF Mount, Unmount, StreamBreaks, Refused
<1>4. CASE UNCHANGED viewVars
  BY <1>4 DEF viewVars
<1> QED
  BY <1>1, <1>2, <1>3, <1>4 DEF ViewNext

\* The backend of the page is the one that its readers are promised: it stores, publishes
\* and ends as BatchFeed says, and nothing the page does changes that.
THEOREM FeedRefinement == ViewSpec => BackendIsAFeed
<1>1. ViewInit => Feed!Init
  BY DEF ViewInit, AllPending, Feed!Init
<1>2. ViewTypeOK /\ [ViewNext]_viewVars => [Feed!Next]_(Feed!feed)
  <2> SUFFICES ASSUME ViewTypeOK, [ViewNext]_viewVars PROVE [Feed!Next]_(Feed!feed)
    OBVIOUS
  <2>1. ASSUME NEW p \in Payments, Commit(p) PROVE Feed!Next
    <3>1. PICK s \in Successors(stored[p]) : stored' = [stored EXCEPT ![p] = s]
      BY <2>1 DEF Commit
    <3>2. s \in Feed!Status /\ s \in Feed!Successors(stored[p])
      BY <3>1 DEF Successors, Feed!Successors, Status, Terminal, Feed!Status, Feed!Terminal
    <3>3. Feed!Commit(p, s)
      BY <2>1, <3>1, <3>2 DEF Commit, Feed!Commit
    <3> QED
      BY <3>2, <3>3 DEF Feed!Next
  <2>2. ASSUME NEW p \in Payments, Publish(p) PROVE Feed!Next
    BY <2>2 DEF Publish, Feed!Publish, Feed!Next
  <2>3. ASSUME PublishDone PROVE Feed!Next
    BY <2>3 DEF PublishDone, Feed!PublishDone, Feed!Next, AllTerminal, Terminal,
                Feed!AllTerminal, Feed!Terminal
  <2>4. CASE ~Backend
    BY <2>4, OnlyBackendFeeds DEF Feed!feed
  <2> QED
    BY <2>1, <2>2, <2>3, <2>4 DEF Backend
<1> QED
  BY <1>1, <1>2, ViewTypeCorrect, PTL DEF ViewSpec, BackendIsAFeed, Feed!Spec

-----------------------------------------------------------------------------
(* Nothing the page shows, or will show, is ahead of what is stored. *)

\* f is a reading of the payments at some moment before now.
IsOld(f) == \A p \in Payments : NotAfter(f[p], stored[p])

\* Whatever can still reach the page is old in this sense: the statuses that were
\* published, the events on the wire, and the payments of requests under way.
NothingIsAhead ==
  /\ IsOld(published)
  /\ \A i \in DOMAIN wire :
       wire[i] # BatchDone => NotAfter(wire[i].status, stored[wire[i].payment])
  /\ \A r \in requests : IsOld(r.shown)
  /\ ShownIsNotAhead

ViewInv == ViewTypeOK /\ NothingIsAhead

LEMMA InitView == ViewInit => ViewInv
<1> SUFFICES ASSUME ViewInit PROVE ViewInv
  OBVIOUS
<1>1. NothingIsAhead
  BY DEF ViewInit, NothingIsAhead, IsOld, ShownIsNotAhead, NotAfter, AllPending
<1> QED
  BY <1>1, InitViewTypes DEF ViewInv

\* What was old stays old when a payment moves on.
LEMMA CommitKeepsOld ==
  ASSUME ViewTypeOK, NEW p \in Payments, Commit(p)
  PROVE  \A q \in Payments, s \in Status : NotAfter(s, stored[q]) => NotAfter(s, stored'[q])
<1>1. PICK t \in Successors(stored[p]) : stored' = [stored EXCEPT ![p] = t]
  BY DEF Commit
<1>2. stored[p] \in Status
  BY DEF ViewTypeOK
<1>3. \/ stored[p] = "pending" /\ t = "processing"
      \/ stored[p] = "processing" /\ t \in Terminal
  BY <1>1, <1>2 DEF Successors, Status, Terminal
<1>4. \A s \in Status : NotAfter(s, stored[p]) => NotAfter(s, t)
  BY <1>3 DEF NotAfter, Terminal
<1> QED
  BY <1>1, <1>4 DEF ViewTypeOK

LEMMA NextView == ViewInv /\ [ViewNext]_viewVars => ViewInv'
<1> SUFFICES ASSUME ViewInv, [ViewNext]_viewVars PROVE NothingIsAhead'
  BY NextViewTypes DEF ViewInv
<1> USE DEF ViewInv
<1>0. ViewTypeOK'
  BY NextViewTypes
<1>1. CASE UNCHANGED <<stored, published, wire, requests, shown>>
  BY <1>1 DEF NothingIsAhead, IsOld, ShownIsNotAhead, NotAfter
<1>2. ASSUME NEW p \in Payments, Commit(p) PROVE NothingIsAhead'
  <2>1. \A q \in Payments, s \in Status : NotAfter(s, stored[q]) => NotAfter(s, stored'[q])
    BY <1>2, CommitKeepsOld
  <2>2. UNCHANGED <<published, wire, requests, shown>>
    BY <1>2 DEF Commit, loop, slice
  <2>3. IsOld(published)'
    BY <2>1, <2>2 DEF NothingIsAhead, IsOld, ViewTypeOK, NotAfter
  <2>4. ASSUME NEW i \in DOMAIN wire', wire'[i] # BatchDone
        PROVE  NotAfter(wire'[i].status, stored'[wire'[i].payment])
    <3>1. wire[i] \in Event
      BY <2>2 DEF ViewTypeOK
    <3> QED
      BY <2>1, <2>2, <2>4, <3>1, EventIsUpdate DEF NothingIsAhead
  <2>5. ASSUME NEW r \in requests' PROVE IsOld(r.shown)'
    <3>1. r.shown \in [Payments -> Status]
      BY <2>2 DEF ViewTypeOK, Request
    <3> QED
      BY <2>1, <2>2, <3>1 DEF NothingIsAhead, IsOld, NotAfter
  <2>6. ShownIsNotAhead'
    BY <2>1, <2>2 DEF NothingIsAhead, ShownIsNotAhead, ViewTypeOK, NotAfter
  <2> QED
    BY <2>3, <2>4, <2>5, <2>6 DEF NothingIsAhead
<1>3. ASSUME UNCHANGED <<stored, published, requests, shown>>,
             \A i \in DOMAIN wire' : wire'[i] # BatchDone =>
               NotAfter(wire'[i].status, stored[wire'[i].payment])
      PROVE  NothingIsAhead'
  BY <1>3 DEF NothingIsAhead, IsOld, ShownIsNotAhead, NotAfter
<1>4. ASSUME NEW p \in Payments, Publish(p) PROVE NothingIsAhead'
  <2>1. published' = [published EXCEPT ![p] = stored[p]]
        /\ UNCHANGED <<stored, requests, shown>>
    BY <1>4 DEF Publish, slice
  <2>2. IsOld(published)'
    BY <2>1 DEF NothingIsAhead, IsOld, ViewTypeOK, NotAfter
  <2>3. ASSUME NEW i \in DOMAIN wire', wire'[i] # BatchDone
        PROVE  NotAfter(wire'[i].status, stored[wire'[i].payment])
    <3>1. CASE wire' = Append(wire, Update(p, stored[p]))
      <4>1. wire \in Seq(Event)
        BY DEF ViewTypeOK
      <4>2. CASE i \in DOMAIN wire
        BY <2>3, <3>1, <4>1, <4>2 DEF NothingIsAhead
      <4>3. CASE i = Len(wire) + 1
        BY <3>1, <4>1, <4>3 DEF Update, NotAfter
      <4> QED
        BY <3>1, <4>1, <4>2, <4>3
    <3>2. CASE wire' = wire
      BY <2>3, <3>2 DEF NothingIsAhead
    <3> QED
      BY <1>4, <3>1, <3>2 DEF Publish, Emit
  <2> QED
    BY <2>1, <2>2, <2>3 DEF NothingIsAhead, IsOld, ShownIsNotAhead, NotAfter
<1>5. CASE PublishDone
  <2>1. wire \in Seq(Event)
    BY DEF ViewTypeOK
  <2>2. wire' = wire \/ wire' = Append(wire, BatchDone)
    BY <1>5 DEF PublishDone, Emit
  <2> QED
    BY <1>3, <1>5, <2>1, <2>2 DEF PublishDone, NothingIsAhead, slice
<1>6. CASE Accept
  BY <1>3, <1>6 DEF Accept, slice, backend
<1>7. ASSUME Ask, UNCHANGED <<stored, published, shown>>,
             UNCHANGED wire \/ wire' = << >>
      PROVE  NothingIsAhead'
  <2>1. \A r \in requests' : r \in requests \/ r.shown = AllPending
    BY <1>7 DEF Ask
  <2>2. IsOld(AllPending)
    BY DEF IsOld, AllPending, NotAfter
  <2>3. \A r \in requests' : IsOld(r.shown)
    BY <2>1, <2>2 DEF NothingIsAhead
  <2> QED
    BY <1>7, <2>3 DEF NothingIsAhead, IsOld, ShownIsNotAhead, NotAfter
<1>8. CASE Mount
  BY <1>1, <1>7, <1>8 DEF Mount, Stream, backend
<1>9. CASE Connected
  BY <1>7, <1>9 DEF Connected, Stream, backend
<1>10. CASE ReadBatchDone
  BY <1>7, <1>10 DEF ReadBatchDone, DoneEvent, backend
<1>11. CASE Unmount \/ StreamBreaks
  BY <1>3, <1>11 DEF Unmount, StreamBreaks, Stream, backend, slice
<1>12. CASE RefusalEnds \/ Reconnect \/ Refused
  BY <1>1, <1>12 DEF RefusalEnds, Reconnect, Refused, Stream, backend
<1>13. CASE ReadPaymentEvent
  <2>1. wire \in Seq(Event) /\ wire # << >> /\ wire' = Tail(wire) /\ Head(wire) # BatchDone
    BY <1>13 DEF ReadPaymentEvent, ViewTypeOK
  <2>2. Head(wire) \in Event /\ Head(wire) = wire[1] /\ 1 \in DOMAIN wire
    BY <2>1
  <2>3. \A i \in DOMAIN wire' : i + 1 \in DOMAIN wire /\ wire'[i] = wire[i + 1]
    BY <2>1
  <2>4. UNCHANGED <<stored, published, requests>>
    BY <1>13 DEF ReadPaymentEvent, backend
  <2>5. NotAfter(Head(wire).status, stored[Head(wire).payment])
    BY <2>1, <2>2 DEF NothingIsAhead
  <2>6. shown' = shown \/ shown' = [shown EXCEPT ![Head(wire).payment] = Head(wire).status]
    BY <1>13 DEF ReadPaymentEvent, PaymentEvent
  <2>7. ShownIsNotAhead'
    BY <2>2, <2>4, <2>5, <2>6 DEF NothingIsAhead, ShownIsNotAhead, ViewTypeOK, NotAfter
  <2>8. \A i \in DOMAIN wire' : wire'[i] # BatchDone =>
                                NotAfter(wire'[i].status, stored[wire'[i].payment])
    BY <2>3 DEF NothingIsAhead
  <2> QED
    BY <2>4, <2>7, <2>8 DEF NothingIsAhead, IsOld, NotAfter
<1>14. ASSUME NEW r \in requests, CountByStatus(r) PROVE NothingIsAhead'
  <2>1. UNCHANGED <<stored, published, wire, shown>>
    BY <1>14 DEF CountByStatus, backend, loop, slice
  <2>2. \A q \in requests' : q \in requests \/ q.shown = r.shown
    BY <1>14 DEF CountByStatus, ViewTypeOK, Request
  <2> QED
    BY <2>1, <2>2 DEF NothingIsAhead, IsOld, ShownIsNotAhead, NotAfter
<1>15. ASSUME NEW r \in requests, FindByBatchID(r) PROVE NothingIsAhead'
  <2>1. UNCHANGED <<stored, published, wire, shown>>
    BY <1>15 DEF FindByBatchID, backend, loop, slice
  <2>2. \A q \in requests' : q \in requests \/ q.shown = stored
    BY <1>15 DEF FindByBatchID, ViewTypeOK, Request
  <2>3. IsOld(stored)
    BY DEF IsOld, NotAfter
  <2> QED
    BY <2>1, <2>2, <2>3 DEF NothingIsAhead, IsOld, ShownIsNotAhead, NotAfter
<1>16. ASSUME NEW r \in requests, Answer(r) PROVE NothingIsAhead'
  <2>1. UNCHANGED <<stored, published, wire>> /\ shown' = r.shown /\ requests' \subseteq requests
    BY <1>16 DEF Answer, Hydrate, backend, loop
  <2> QED
    BY <2>1 DEF NothingIsAhead, IsOld, ShownIsNotAhead, NotAfter
<1>17. ASSUME NEW r \in requests, RequestFails(r) PROVE NothingIsAhead'
  <2>1. UNCHANGED <<stored, published, wire, shown>> /\ requests' \subseteq requests
    BY <1>17 DEF RequestFails, backend, loop, slice
  <2> QED
    BY <2>1 DEF NothingIsAhead, IsOld, ShownIsNotAhead, NotAfter
<1>18. CASE UNCHANGED viewVars
  BY <1>1, <1>18 DEF viewVars
<1> QED
  BY <1>2, <1>4, <1>5, <1>6, <1>8, <1>9, <1>10, <1>11, <1>12, <1>13, <1>14, <1>15, <1>16, <1>17,
     <1>18 DEF ViewNext, Backend, Hook, Serve

\* However snapshots are delayed and events repeated, the page never shows a status that
\* the payment has not reached, nor another result than the stored one.
THEOREM ViewIsNeverAhead == ViewSpec => []ShownIsNotAhead
<1>1. ViewInv => ShownIsNotAhead
  BY DEF ViewInv, NothingIsAhead
<1> QED
  BY <1>1, InitView, NextView, PTL DEF ViewSpec

-----------------------------------------------------------------------------
(* What the page counts is in its list, and final in the database. *)

Those(f, s)   == {p \in Payments : f[p] = s}
FinalPayments == {p \in Payments : stored[p] \in Terminal}

\* No result is counted more often than the payments f have it.
CountedIn(c, f) == \A s \in Terminal : c[s] <= Cardinality(Those(f, s))

\* The counts of a request that is not complete are of an earlier moment of what is
\* stored, those of a complete one are of a moment before its payments.
SnapshotsAgree ==
  \A r \in requests : CountedIn(r.count, IF r.step = "answered" THEN r.shown ELSE stored)

\* batch_done is on its way only when nothing is open.
DoneIsLate == \A i \in DOMAIN wire : wire[i] = BatchDone => AllTerminal(stored)

CountInv == SnapshotsAgree /\ DoneIsLate /\ CountersAreNotAhead

LEMMA ThoseAreFinite ==
  /\ IsFiniteSet(FinalPayments) /\ Cardinality(FinalPayments) \in Nat
  /\ \A f, s : IsFiniteSet(Those(f, s)) /\ Cardinality(Those(f, s)) \in Nat
<1>1. ASSUME NEW S, S \subseteq Payments PROVE IsFiniteSet(S) /\ Cardinality(S) \in Nat
  BY <1>1, PaymentsAssumption, FS_Subset, FS_CardinalityType
<1>2. FinalPayments \subseteq Payments /\ \A f, s : Those(f, s) \subseteq Payments
  BY DEF FinalPayments, Those
<1> QED
  BY <1>1, <1>2

LEMMA FewerCounted ==
  ASSUME NEW f, NEW g, NEW c \in [Status -> Nat], CountedIn(c, f),
         \A p \in Payments : f[p] \in Terminal => g[p] = f[p]
  PROVE  CountedIn(c, g)
<1> SUFFICES ASSUME NEW s \in Terminal PROVE c[s] <= Cardinality(Those(g, s))
  BY DEF CountedIn
<1>1. Those(f, s) \subseteq Those(g, s)
  BY DEF Those
<1>2. Cardinality(Those(f, s)) <= Cardinality(Those(g, s))
  BY <1>1, ThoseAreFinite, FS_Subset
<1>3. c[s] <= Cardinality(Those(f, s)) /\ c[s] \in Nat
  BY DEF CountedIn, Status
<1> QED
  BY <1>2, <1>3, ThoseAreFinite

\* A payment that is not after itself is final only with the stored result.
LEMMA OldAndFinal ==
  ASSUME NEW s, NEW t, NotAfter(s, t), s \in Terminal
  PROVE  s = t
BY DEF NotAfter, Terminal

\* The results counted in payments that are old do not exceed what is final.
LEMMA ResultsAreFinal ==
  ASSUME NEW f, NEW c \in [Status -> Nat], CountedIn(c, f), IsOld(f)
  PROVE  c["success"] + c["failed"] <= Cardinality(FinalPayments)
<1> DEFINE A == Those(f, "success")
           B == Those(f, "failed")
<1>1. A \cap B = {} /\ A \cup B \subseteq FinalPayments
  BY OldAndFinal DEF Those, FinalPayments, IsOld, Terminal
<1>2. IsFiniteSet(A) /\ IsFiniteSet(B) /\ Cardinality(A) \in Nat /\ Cardinality(B) \in Nat
  BY ThoseAreFinite
<1>3. c["success"] <= Cardinality(A) /\ c["failed"] <= Cardinality(B)
  BY DEF CountedIn, Terminal
<1>4. c["success"] \in Nat /\ c["failed"] \in Nat
  BY StatusFacts
<1> HIDE DEF A, B
<1>5. Cardinality(A \cup B) = Cardinality(A) + Cardinality(B)
  <2>1. Cardinality(A \cup B) = Cardinality(A) + Cardinality(B) - Cardinality(A \cap B)
    BY <1>2, FS_Union
  <2>2. Cardinality(A \cap B) = 0
    BY <1>1, FS_EmptySet
  <2> QED
    BY <1>2, <2>1, <2>2
<1>6. Cardinality(A \cup B) <= Cardinality(FinalPayments)
  BY <1>1, ThoseAreFinite, FS_Subset
<1> QED
  BY <1>2, <1>3, <1>4, <1>5, <1>6, ThoseAreFinite

\* An event moves one payment from one status to another, in the list and in the counts.
LEMMA MoveKeepsCounts ==
  ASSUME shown \in [Payments -> Status], count \in [Status -> Nat], CountedIn(count, shown),
         NEW p \in Payments, NEW t \in Status
  PROVE  CountedIn(Move(shown[p], t), [shown EXCEPT ![p] = t])
<1> DEFINE new == [shown EXCEPT ![p] = t]
           cnt == Move(shown[p], t)
<1>1. CASE shown[p] = t
  <2>1. cnt = count /\ new = shown
    BY <1>1 DEF Move
  <2> QED
    BY <2>1
<1>2. CASE shown[p] # t
  <2> SUFFICES ASSUME NEW s \in Terminal PROVE cnt[s] <= Cardinality(Those(new, s))
    BY DEF CountedIn
  <2>1. count[s] <= Cardinality(Those(shown, s)) /\ count[s] \in Nat
    BY DEF CountedIn, Status
  <2>2. CASE s = t
    <3>1. Those(new, s) = Those(shown, s) \cup {p} /\ p \notin Those(shown, s)
      BY <1>2, <2>2 DEF Those
    <3> DEFINE S == Those(shown, s)
    <3>2. IsFiniteSet(S) /\ Cardinality(S) \in Nat
      BY ThoseAreFinite
    <3>3. Cardinality(S \cup {p}) = Cardinality(S) + 1
      <4> HIDE DEF S
      <4>1. p \notin S
        BY <3>1 DEF S
      <4> QED
        BY <3>2, <4>1, FS_AddElement
    <3>4. cnt[s] = count[s] + 1
      BY <1>2, <2>2 DEF Move
    <3>5. Cardinality(Those(new, s)) = Cardinality(S) + 1
      BY <3>1, <3>3
    <3> HIDE DEF cnt, new
    <3> QED
      BY <2>1, <3>2, <3>4, <3>5
  <2>3. CASE s = shown[p]
    <3>1. Those(new, s) = Those(shown, s) \ {p} /\ p \in Those(shown, s)
      BY <1>2, <2>3 DEF Those
    <3> DEFINE S == Those(shown, s)
    <3>2. IsFiniteSet(S) /\ Cardinality(S) \in Nat /\ Cardinality(S \ {p}) \in Nat
      BY <3>1, ThoseAreFinite
    <3>3. Cardinality(S \ {p}) = Cardinality(S) - 1
      <4> HIDE DEF S
      <4>1. p \in S
        BY <3>1 DEF S
      <4> QED
        BY <3>2, <4>1, FS_RemoveElement
    <3>4. cnt[s] = IF count[s] > 0 THEN count[s] - 1 ELSE 0
      BY <1>2, <2>3 DEF Move
    <3>5. Cardinality(Those(new, s)) = Cardinality(S) - 1
      BY <3>1, <3>3
    <3> HIDE DEF cnt, new
    <3> QED
      BY <2>1, <3>2, <3>3, <3>4, <3>5
  <2>4. CASE s # t /\ s # shown[p]
    <3>1. Those(new, s) = Those(shown, s)
      BY <2>4 DEF Those
    <3>2. cnt[s] = count[s]
      BY <1>2, <2>4 DEF Move, Status
    <3> QED
      BY <2>1, <3>1, <3>2
  <2> QED
    BY <2>2, <2>3, <2>4
<1> QED
  BY <1>1, <1>2

\* CountersAreNotAhead in the words of this section.
LEMMA CountersMean ==
  CountersAreNotAhead <=> CountedIn(count, shown) /\ completed <= Cardinality(FinalPayments)
BY DEF CountersAreNotAhead, CountedIn, Those, FinalPayments

\* Nothing is counted: no more than anything.
LEMMA NothingCounted == \A f : CountedIn(NoCounts, f)
BY ThoseAreFinite DEF CountedIn, NoCounts, Status

LEMMA InitCounts == ViewInit => CountInv
<1> SUFFICES ASSUME ViewInit PROVE CountInv
  OBVIOUS
<1>1. CountersAreNotAhead
  BY CountersMean, NothingCounted, ThoseAreFinite DEF ViewInit
<1> QED
  BY <1>1 DEF ViewInit, CountInv, SnapshotsAgree, DoneIsLate

\* A step that commits nothing and leaves the page alone, and adds to the requests only
\* new ones and to the wire only what may be there.
LEMMA QuietStep ==
  ASSUME CountInv, UNCHANGED <<stored, shown, count, completed>>,
         \A r \in requests' : r \in requests \/ r.count = NoCounts,
         \A i \in DOMAIN wire' : wire'[i] = BatchDone => AllTerminal(stored)
  PROVE  CountInv'
<1>1. SnapshotsAgree'
  BY NothingCounted DEF CountInv, SnapshotsAgree, CountedIn, Those
<1>2. DoneIsLate'
  BY DEF DoneIsLate
<1>3. CountersAreNotAhead'
  BY DEF CountInv, CountersAreNotAhead
<1> QED
  BY <1>1, <1>2, <1>3 DEF CountInv

\* What a client of the stream is sent by Emit.
LEMMA EmitAdds ==
  ASSUME ViewTypeOK, DoneIsLate, NEW e \in Event, Emit(e), e = BatchDone => AllTerminal(stored)
  PROVE  \A i \in DOMAIN wire' : wire'[i] = BatchDone => AllTerminal(stored)
<1> SUFFICES ASSUME NEW i \in DOMAIN wire', wire'[i] = BatchDone PROVE AllTerminal(stored)
  OBVIOUS
<1>1. wire \in Seq(Event)
  BY DEF ViewTypeOK
<1>2. CASE wire' = wire
  BY <1>2 DEF DoneIsLate
<1>3. CASE wire' = Append(wire, e)
  <2>1. CASE i \in DOMAIN wire
    BY <1>1, <1>3, <2>1 DEF DoneIsLate
  <2>2. CASE i = Len(wire) + 1
    BY <1>1, <1>3, <2>2
  <2> QED
    BY <1>1, <1>3, <2>1, <2>2
<1> QED
  BY <1>2, <1>3 DEF Emit

\* A commit changes no result.
LEMMA CommitKeepsResults ==
  ASSUME ViewTypeOK, NEW p \in Payments, Commit(p)
  PROVE  \A q \in Payments : stored[q] \in Terminal => stored'[q] = stored[q]
<1>1. PICK t \in Successors(stored[p]) : stored' = [stored EXCEPT ![p] = t]
  BY DEF Commit
<1>2. stored[p] \notin Terminal
  BY <1>1 DEF Successors, Terminal
<1> QED
  BY <1>1, <1>2 DEF ViewTypeOK

LEMMA CommitCounts ==
  ASSUME ViewTypeOK, CountInv, NEW p \in Payments, Commit(p)
  PROVE  CountInv'
<1>1. UNCHANGED <<wire, requests, shown, count, completed>>
  BY DEF Commit, loop, slice
<1>2. \A q \in Payments : stored[q] \in Terminal => stored'[q] = stored[q]
  BY CommitKeepsResults
<1>3. SnapshotsAgree'
  <2> SUFFICES ASSUME NEW r \in requests
               PROVE  CountedIn(r.count, IF r.step = "answered" THEN r.shown ELSE stored')
    BY <1>1 DEF SnapshotsAgree, CountedIn, Those
  <2>1. CountedIn(r.count, IF r.step = "answered" THEN r.shown ELSE stored)
    BY DEF CountInv, SnapshotsAgree
  <2>2. r.count \in [Status -> Nat]
    BY DEF ViewTypeOK, Request
  <2> QED
    BY <1>2, <2>1, <2>2, FewerCounted
<1>4. DoneIsLate'
  BY <1>1, <1>2 DEF CountInv, DoneIsLate, AllTerminal, Commit, ViewTypeOK
<1>5. CountersAreNotAhead'
  <2>1. FinalPayments \subseteq FinalPayments' /\ FinalPayments' \subseteq Payments
    BY <1>2 DEF FinalPayments
  <2>2. IsFiniteSet(FinalPayments')
    BY <2>1, PaymentsAssumption, FS_Subset
  <2>3. Cardinality(FinalPayments') \in Nat
    BY <2>2, FS_CardinalityType
  <2>4. Cardinality(FinalPayments) <= Cardinality(FinalPayments')
    BY <2>1, <2>2, FS_Subset
  <2>5. CountedIn(count, shown) /\ completed <= Cardinality(FinalPayments)
    BY CountersMean DEF CountInv
  <2>6. completed' <= Cardinality(FinalPayments')
    BY <1>1, <2>3, <2>4, <2>5, ThoseAreFinite DEF ViewTypeOK
  <2>7. \A s \in Terminal : count'[s] <= Cardinality({q \in Payments : shown'[q] = s})
    BY <1>1, <2>5 DEF CountedIn, Those
  <2> QED
    BY <2>6, <2>7 DEF CountersAreNotAhead, FinalPayments
<1> QED
  BY <1>3, <1>4, <1>5 DEF CountInv

\* The list and the counters after a reducer: counted in the list, and final.
LEMMA SliceMoves ==
  ASSUME ViewTypeOK', ShownIsNotAhead', UNCHANGED stored, CountedIn(count', shown'),
         completed' = count'["success"] + count'["failed"]
  PROVE  CountersAreNotAhead'
<1>1. IsOld(shown')
  BY DEF ShownIsNotAhead, IsOld
<1>2. count'["success"] + count'["failed"] <= Cardinality(FinalPayments)
  BY <1>1, ResultsAreFinal DEF ViewTypeOK
<1> QED
  BY <1>2 DEF CountersAreNotAhead, CountedIn, Those, FinalPayments

LEMMA EventCounts ==
  ASSUME ViewInv, ViewInv', CountInv, ReadPaymentEvent
  PROVE  CountInv'
<1>1. wire \in Seq(Event) /\ wire # << >> /\ wire' = Tail(wire) /\ Head(wire) # BatchDone
  BY DEF ReadPaymentEvent, ViewInv, ViewTypeOK
<1>2. Head(wire).payment \in Payments /\ Head(wire).status \in Status
  <2>1. Head(wire) \in Event
    BY <1>1
  <2> QED
    BY <1>1, <2>1, EventIsUpdate
<1>3. \A i \in DOMAIN wire' : i + 1 \in DOMAIN wire /\ wire'[i] = wire[i + 1]
  BY <1>1
<1>4. UNCHANGED <<stored, requests>>
  BY DEF ReadPaymentEvent, backend
<1>5. DoneIsLate'
  BY <1>3, <1>4 DEF CountInv, DoneIsLate
<1>6. SnapshotsAgree'
  BY <1>4 DEF CountInv, SnapshotsAgree, CountedIn, Those
<1>7. CASE loaded
  <2>1. /\ shown' = [shown EXCEPT ![Head(wire).payment] = Head(wire).status]
        /\ count' = Move(shown[Head(wire).payment], Head(wire).status)
        /\ completed' = count'["success"] + count'["failed"]
    BY <1>7 DEF ReadPaymentEvent, PaymentEvent
  <2>2. CountedIn(count, shown)
    BY CountersMean DEF CountInv
  <2>3. CountedIn(count', shown')
    BY <1>2, <2>1, <2>2, MoveKeepsCounts DEF ViewInv, ViewTypeOK
  <2>4. CountersAreNotAhead'
    BY <1>4, <2>1, <2>3, SliceMoves DEF ViewInv, NothingIsAhead
  <2> QED
    BY <1>5, <1>6, <2>4 DEF CountInv
<1>8. CASE ~loaded
  <2>1. UNCHANGED <<shown, count, completed>>
    BY <1>8 DEF ReadPaymentEvent, PaymentEvent
  <2> QED
    BY <1>4, <1>5, <1>6, <2>1 DEF CountInv, CountersAreNotAhead
<1> QED
  BY <1>7, <1>8

LEMMA EndCounts ==
  ASSUME ViewInv, CountInv, ReadBatchDone
  PROVE  CountInv'
<1>1. wire \in Seq(Event) /\ wire # << >> /\ Head(wire) = BatchDone
  BY DEF ReadBatchDone, ViewInv, ViewTypeOK
<1>2. AllTerminal(stored)
  <2>1. 1 \in DOMAIN wire /\ wire[1] = BatchDone
    BY <1>1
  <2> QED
    BY <2>1 DEF CountInv, DoneIsLate
<1>3. FinalPayments = Payments
  BY <1>2 DEF FinalPayments, AllTerminal, ViewInv, ViewTypeOK
<1>4. UNCHANGED <<stored, shown>> /\ wire' = << >> /\ completed' = Cardinality(Payments)
  BY DEF ReadBatchDone, DoneEvent, backend
<1>5. \A s \in Terminal : count'[s] = count[s]
  BY DEF ReadBatchDone, DoneEvent, Status, Terminal, ViewInv, ViewTypeOK
<1>6. CountersAreNotAhead'
  <2>1. Cardinality(Payments) <= Cardinality(FinalPayments)
    BY <1>3, CountsAreNatural
  <2> QED
    BY <1>4, <1>5, <2>1 DEF CountInv, CountersAreNotAhead, FinalPayments
<1>7. \A r \in requests' : r \in requests \/ r.count = NoCounts
  BY DEF ReadBatchDone, Ask
<1>8. SnapshotsAgree'
  BY <1>4, <1>7, NothingCounted DEF CountInv, SnapshotsAgree, CountedIn, Those
<1>9. DoneIsLate'
  <2>1. DOMAIN wire' = {}
    BY <1>4
  <2> QED
    BY <2>1 DEF DoneIsLate
<1> QED
  BY <1>6, <1>8, <1>9 DEF CountInv

LEMMA ServeCounts ==
  ASSUME ViewInv, ViewInv', CountInv, NEW r \in requests, Serve(r)
  PROVE  CountInv'
<1>1. UNCHANGED <<stored, wire>>
  BY DEF Serve, CountByStatus, FindByBatchID, Answer, backend, loop
<1>2. DoneIsLate'
  BY <1>1 DEF CountInv, DoneIsLate
<1>3. r \in Request /\ CountedIn(r.count, IF r.step = "answered" THEN r.shown ELSE stored)
  BY DEF CountInv, SnapshotsAgree, ViewInv, ViewTypeOK
<1>4. ASSUME \A q \in requests' : \/ q \in requests
                                  \/ CountedIn(q.count, IF q.step = "answered" THEN q.shown ELSE stored)
      PROVE  SnapshotsAgree'
  BY <1>1, <1>4 DEF CountInv, SnapshotsAgree, CountedIn, Those
<1>5. CASE CountByStatus(r)
  <2>1. CountedIn(StoredCount, stored)
    BY ThoseAreFinite DEF CountedIn, StoredCount, Those, Status
  <2>2. \A q \in requests' : q \in requests \/ (q.step = "counted" /\ q.count = StoredCount)
    BY <1>3, <1>5 DEF CountByStatus, Request
  <2>3. UNCHANGED <<shown, count, completed>>
    BY <1>5 DEF CountByStatus, slice
  <2> QED
    BY <1>1, <1>2, <1>4, <2>1, <2>2, <2>3 DEF CountInv, CountersAreNotAhead
<1>6. CASE FindByBatchID(r)
  <2>1. CountedIn(r.count, stored)
    BY <1>3, <1>6 DEF FindByBatchID
  <2>2. \A q \in requests' :
          q \in requests \/ (q.step = "answered" /\ q.shown = stored /\ q.count = r.count)
    BY <1>3, <1>6 DEF FindByBatchID, Request
  <2>3. UNCHANGED <<shown, count, completed>>
    BY <1>6 DEF FindByBatchID, slice
  <2> QED
    BY <1>1, <1>2, <1>4, <2>1, <2>2, <2>3 DEF CountInv, CountersAreNotAhead
<1>7. CASE Answer(r)
  <2>1. requests' \subseteq requests /\ shown' = r.shown /\ count' = r.count
        /\ completed' = count'["success"] + count'["failed"]
    BY <1>7 DEF Answer, Hydrate
  <2>2. CountedIn(count', shown')
    BY <1>3, <1>7, <2>1 DEF Answer
  <2>3. CountersAreNotAhead'
    BY <1>1, <2>1, <2>2, SliceMoves DEF ViewInv, NothingIsAhead
  <2> QED
    BY <1>2, <1>4, <2>1, <2>3 DEF CountInv
<1> QED
  BY <1>5, <1>6, <1>7 DEF Serve

LEMMA NextCounts == ViewInv /\ ViewInv' /\ CountInv /\ [ViewNext]_viewVars => CountInv'
<1> SUFFICES ASSUME ViewInv, ViewInv', CountInv, [ViewNext]_viewVars PROVE CountInv'
  OBVIOUS
<1>0. DoneIsLate /\ ViewTypeOK
  BY DEF CountInv, ViewInv
<1>1. CASE UNCHANGED viewVars
  BY <1>0, <1>1, QuietStep DEF viewVars, DoneIsLate
<1>2. ASSUME NEW p \in Payments, Commit(p) PROVE CountInv'
  BY <1>0, <1>2, CommitCounts
<1>3. ASSUME NEW p \in Payments, Publish(p) PROVE CountInv'
  <2>1. Update(p, stored[p]) \in Event /\ Update(p, stored[p]) # BatchDone
    BY <1>0 DEF ViewTypeOK, Update, BatchDone, Event, Status, Terminal
  <2>2. \A i \in DOMAIN wire' : wire'[i] = BatchDone => AllTerminal(stored)
    BY <1>0, <1>3, <2>1, EmitAdds DEF Publish
  <2> QED
    BY <1>3, <2>2, QuietStep DEF Publish, slice
<1>4. CASE PublishDone
  <2>1. BatchDone \in Event
    BY DEF Event
  <2>2. \A i \in DOMAIN wire' : wire'[i] = BatchDone => AllTerminal(stored)
    BY <1>0, <1>4, <2>1, EmitAdds DEF PublishDone
  <2> QED
    BY <1>4, <2>2, QuietStep DEF PublishDone, slice
<1>5. CASE Accept
  <2>1. \A i \in DOMAIN wire' : wire'[i] = BatchDone => AllTerminal(stored)
    BY <1>5 DEF Accept
  <2> QED
    BY <1>5, <2>1, QuietStep DEF Accept, slice, backend
<1>6. CASE Mount \/ Connected
  <2>1. \A r \in requests' : r \in requests \/ r.count = NoCounts
    BY <1>6 DEF Mount, Connected, Ask
  <2> QED
    BY <1>0, <1>6, <2>1, QuietStep DEF Mount, Connected, Stream, backend, DoneIsLate
<1>7. CASE Unmount \/ StreamBreaks
  BY <1>7, QuietStep DEF Unmount, StreamBreaks, Stream, backend, slice
<1>8. CASE RefusalEnds \/ Reconnect \/ Refused
  BY <1>0, <1>8, QuietStep DEF RefusalEnds, Reconnect, Refused, Stream, backend, DoneIsLate
<1>9. CASE ReadPaymentEvent
  BY <1>9, EventCounts
<1>10. CASE ReadBatchDone
  BY <1>10, EndCounts
<1>11. ASSUME NEW r \in requests, Serve(r) PROVE CountInv'
  BY <1>11, ServeCounts
<1>12. ASSUME NEW r \in requests, RequestFails(r) PROVE CountInv'
  BY <1>0, <1>12, QuietStep DEF RequestFails, backend, loop, slice, DoneIsLate
<1> QED
  BY <1>1, <1>2, <1>3, <1>4, <1>5, <1>6, <1>7, <1>8, <1>9, <1>10, <1>11, <1>12
     DEF ViewNext, Backend, Hook

\* The counters of the page never exceed its list, and its progress never what is final in
\* the database, whatever snapshots and events it mixes.
THEOREM CountersAreTrue == ViewSpec => []CountersAreNotAhead
<1>1. CountInv => CountersAreNotAhead
  BY DEF CountInv
<1> QED
  BY <1>1, InitView, NextView, InitCounts, NextCounts, PTL DEF ViewSpec

\* What the page lists was true when it was stored, and what it counts was listed.
THEOREM PagesAreNotAhead == ViewSpec => []PageIsNotAhead
  BY ViewIsNeverAhead, CountersAreTrue, PTL DEF PageIsNotAhead

-----------------------------------------------------------------------------
(* The snapshot asked for last shows the batch as it is stored. *)

\* Requests are told apart by their numbers, and a refused page gets no events.
RequestsNumbered ==
  /\ applied <= made
  /\ \A r \in requests : r.id < made
  /\ \A r, q \in requests : r.id = q.id => r = q
  /\ denied => wire = <<>>

\* What the answer to r says is what is stored.
TrueAnswer(r) ==
  /\ r.step # "asked" => r.count = StoredCount
  /\ r.step = "answered" => r.shown = stored

\* After batch_done nothing moves any more, and the last request was made later.
LastIsTrue ==
  stream = "completed" =>
    /\ hook \in {"done", "off"}
    /\ AllTerminal(stored)
    /\ \A r \in requests : r.id + 1 = made => TrueAnswer(r)
    /\ applied = made => ViewIsStored

LEMMA AskNumbers ==
  ASSUME ViewTypeOK, RequestsNumbered, Ask
  PROVE  /\ made' \in Nat /\ made <= made' /\ (~denied => made' = made + 1)
         /\ \A r \in requests' : r.id < made' /\ r.id \in Nat
         /\ \A r, q \in requests' : r.id = q.id => r = q
         /\ \A r \in requests' : r \in requests \/ (r.id = made /\ r.step = "asked")
<1>1. CASE denied
  BY <1>1 DEF Ask, RequestsNumbered, ViewTypeOK, Request
<1>2. CASE ~denied
  <2> DEFINE new == [id |-> made, step |-> "asked", count |-> NoCounts, shown |-> AllPending]
  <2>1. requests' = requests \cup {new} /\ made' = made + 1 /\ made \in Nat
    BY <1>2 DEF Ask, ViewTypeOK
  <2>2. new.id = made /\ new.step = "asked"
    OBVIOUS
  <2>3. \A r \in requests : r.id < made /\ r.id \in Nat /\ r.id # made
    BY DEF RequestsNumbered, ViewTypeOK, Request
  <2> HIDE DEF new
  <2> QED
    BY <1>2, <2>1, <2>2, <2>3 DEF RequestsNumbered
<1> QED
  BY <1>1, <1>2

\* A request keeps its number while it is served.
LEMMA ServeNumbers ==
  ASSUME ViewTypeOK, RequestsNumbered, NEW r \in requests, NEW n \in Request, n.id = r.id,
         requests' = (requests \ {r}) \cup {n}, UNCHANGED <<made, applied, denied, wire>>
  PROVE  RequestsNumbered'
BY DEF RequestsNumbered, ViewTypeOK

LEMMA NextNumbered == ViewTypeOK /\ RequestsNumbered /\ [ViewNext]_viewVars => RequestsNumbered'
<1> SUFFICES ASSUME ViewTypeOK, RequestsNumbered, [ViewNext]_viewVars PROVE RequestsNumbered'
  OBVIOUS
<1>1. CASE UNCHANGED viewVars
  BY <1>1 DEF viewVars, RequestsNumbered
<1>2. ASSUME NEW p \in Payments, Commit(p) PROVE RequestsNumbered'
  BY <1>2 DEF Commit, RequestsNumbered, loop, slice
<1>3. ASSUME (\E p \in Payments : Publish(p)) \/ PublishDone PROVE RequestsNumbered'
  BY <1>3 DEF Publish, PublishDone, Emit, RequestsNumbered, slice
<1>4. CASE Accept
  BY <1>4 DEF Accept, RequestsNumbered, backend, slice
<1>5. CASE Mount \/ Connected
  <2>1. UNCHANGED <<applied, denied, wire>> /\ (Ask \/ UNCHANGED <<requests, made>>)
    BY <1>5 DEF Mount, Connected, Stream, backend
  <2>2. CASE Ask
    BY <2>1, <2>2, AskNumbers DEF RequestsNumbered, ViewTypeOK
  <2>3. CASE UNCHANGED <<requests, made>>
    BY <2>1, <2>3 DEF RequestsNumbered
  <2> QED
    BY <2>1, <2>2, <2>3
<1>6. CASE ReadBatchDone
  <2>1. UNCHANGED <<applied, denied>> /\ wire' = <<>> /\ Ask
    BY <1>6 DEF ReadBatchDone, DoneEvent, backend
  <2> QED
    BY <2>1, AskNumbers DEF RequestsNumbered, ViewTypeOK
<1>7. CASE Unmount \/ StreamBreaks
  BY <1>7 DEF Unmount, StreamBreaks, Stream, RequestsNumbered, backend, slice
<1>8. CASE RefusalEnds \/ Reconnect \/ Refused
  BY <1>8 DEF RefusalEnds, Reconnect, Refused, Stream, RequestsNumbered, backend
<1>9. CASE ReadPaymentEvent
  BY <1>9 DEF ReadPaymentEvent, PaymentEvent, RequestsNumbered, backend
<1>10. ASSUME NEW r \in requests, CountByStatus(r) PROVE RequestsNumbered'
  <2>1. [r EXCEPT !.step = "counted", !.count = StoredCount] \in Request
    BY CountsAreNatural DEF ViewTypeOK, Request
  <2>2. [r EXCEPT !.step = "counted", !.count = StoredCount].id = r.id
    BY DEF ViewTypeOK, Request
  <2> QED
    BY <1>10, <2>1, <2>2, ServeNumbers DEF CountByStatus, backend, loop, slice
<1>11. ASSUME NEW r \in requests, FindByBatchID(r) PROVE RequestsNumbered'
  <2>1. [r EXCEPT !.step = "answered", !.shown = stored] \in Request
    BY DEF ViewTypeOK, Request
  <2>2. [r EXCEPT !.step = "answered", !.shown = stored].id = r.id
    BY DEF ViewTypeOK, Request
  <2> QED
    BY <1>11, <2>1, <2>2, ServeNumbers DEF FindByBatchID, backend, loop, slice
<1>12. ASSUME NEW r \in requests, Answer(r) PROVE RequestsNumbered'
  <2>1. applied' = r.id + 1 /\ r.id < made /\ r.id \in Nat /\ made \in Nat
    BY <1>12 DEF Answer, Hydrate, RequestsNumbered, ViewTypeOK, Request
  <2>2. requests' \subseteq requests /\ UNCHANGED <<made, denied, wire>>
    BY <1>12 DEF Answer, backend, loop
  <2> QED
    BY <2>1, <2>2 DEF RequestsNumbered
<1>13. ASSUME NEW r \in requests, RequestFails(r) PROVE RequestsNumbered'
  BY <1>13 DEF RequestFails, RequestsNumbered, backend, loop, slice
<1> QED
  BY <1>1, <1>2, <1>3, <1>4, <1>5, <1>6, <1>7, <1>8, <1>9, <1>10, <1>11, <1>12, <1>13
     DEF ViewNext, Backend, Hook, Serve

\* In a batch that is finished every payment is counted as one or the other.
LEMMA FinishedAdds ==
  ViewTypeOK /\ AllTerminal(stored)
    => StoredCount["success"] + StoredCount["failed"] = Cardinality(Payments)
<1> SUFFICES ASSUME ViewTypeOK, AllTerminal(stored)
             PROVE  StoredCount["success"] + StoredCount["failed"] = Cardinality(Payments)
  OBVIOUS
<1> DEFINE A == Those(stored, "success")
           B == Those(stored, "failed")
<1>1. A \cup B = Payments /\ A \cap B = {}
  BY DEF AllTerminal, Terminal, Those, ViewTypeOK
<1>2. IsFiniteSet(A) /\ IsFiniteSet(B)
  BY ThoseAreFinite
<1>3. Cardinality(A) \in Nat /\ Cardinality(B) \in Nat
  BY ThoseAreFinite
<1>4. StoredCount["success"] = Cardinality(A) /\ StoredCount["failed"] = Cardinality(B)
  BY DEF StoredCount, Those, Status, Terminal
<1> HIDE DEF A, B
<1>5. Cardinality(A \cup B) = Cardinality(A) + Cardinality(B) - Cardinality(A \cap B)
  BY <1>2, FS_Union
<1>6. Cardinality(A \cap B) = 0
  BY <1>1, FS_EmptySet
<1>7. Cardinality(A \cup B) = Cardinality(Payments)
  BY <1>1
<1> QED
  BY <1>3, <1>4, <1>5, <1>6, <1>7

\* Nothing is committed when everything is final.
LEMMA FinishedRests ==
  ASSUME ViewTypeOK, AllTerminal(stored), NEW p \in Payments, Commit(p)
  PROVE  FALSE
BY DEF ViewTypeOK, AllTerminal, Commit, Successors, Terminal

\* A step that leaves alone what the page shows of a completed stream.
LEMMA CompletedStays ==
  ASSUME LastIsTrue, stream' = "completed" => stream = "completed" /\ hook' \in {"done", "off"},
         UNCHANGED <<stored, made, applied, loaded, shown, count, completed>>,
         stream = "completed" => requests' \subseteq requests
  PROVE  LastIsTrue'
BY DEF LastIsTrue, TrueAnswer, ViewIsStored, StoredCount, AllTerminal

LEMMA NextLast ==
  ViewTypeOK /\ CountInv /\ RequestsNumbered /\ LastIsTrue /\ [ViewNext]_viewVars => LastIsTrue'
<1> SUFFICES ASSUME ViewTypeOK, CountInv, RequestsNumbered, LastIsTrue, [ViewNext]_viewVars
             PROVE  LastIsTrue'
  OBVIOUS
<1>1. CASE UNCHANGED viewVars
  BY <1>1, CompletedStays DEF viewVars, LastIsTrue
<1>2. ASSUME NEW p \in Payments, Commit(p) PROVE LastIsTrue'
  BY <1>2, FinishedRests DEF Commit, LastIsTrue, slice
<1>3. ASSUME (\E p \in Payments : Publish(p)) \/ PublishDone PROVE LastIsTrue'
  <2>1. UNCHANGED <<stored, made, requests, hook, slice>>
    BY <1>3 DEF Publish, PublishDone
  <2> QED
    BY <2>1, CompletedStays DEF slice, LastIsTrue
<1>4. CASE Accept
  BY <1>4, CompletedStays DEF Accept, backend, slice, LastIsTrue
<1>5. CASE Mount \/ Connected
  BY <1>5 DEF Mount, Connected, Stream, LastIsTrue
<1>6. CASE ReadBatchDone
  <2>1. AllTerminal(stored) /\ ~denied
    <3>1. wire # <<>> /\ wire[1] = BatchDone /\ 1 \in DOMAIN wire
      BY <1>6 DEF ReadBatchDone, ViewTypeOK
    <3> QED
      BY <3>1 DEF CountInv, DoneIsLate, RequestsNumbered
  <2>2. Ask /\ hook' = "done" /\ stored' = stored /\ applied' = applied
    BY <1>6 DEF ReadBatchDone, DoneEvent, backend
  <2>3. made \in Nat /\ applied \in Nat /\ made' = made + 1 /\ applied <= made
    BY <2>1, <2>2, AskNumbers DEF RequestsNumbered, ViewTypeOK
  <2>4. \A r \in requests' : r.id + 1 = made' => r.step = "asked"
    <3>1. \A r \in requests : r.id < made /\ r.id \in Nat
      BY DEF RequestsNumbered, ViewTypeOK, Request
    <3> QED
      BY <2>2, <2>3, <3>1, AskNumbers
  <2>5. applied' # made'
    BY <2>2, <2>3
  <2>6. AllTerminal(stored)'
    BY <2>1, <2>2 DEF AllTerminal
  <2> QED
    BY <2>2, <2>4, <2>5, <2>6 DEF LastIsTrue, TrueAnswer
<1>7. CASE Unmount
  BY <1>7, CompletedStays DEF Unmount, Stream, backend, slice, LastIsTrue
<1>8. CASE StreamBreaks \/ RefusalEnds \/ Reconnect \/ Refused
  BY <1>8 DEF StreamBreaks, RefusalEnds, Reconnect, Refused, Stream, LastIsTrue
<1>9. CASE ReadPaymentEvent
  BY <1>9 DEF ReadPaymentEvent, PaymentEvent, LastIsTrue
<1>10. ASSUME NEW r \in requests, CountByStatus(r) \/ FindByBatchID(r) PROVE LastIsTrue'
  <2>1. PICK n : /\ n.id = r.id
                 /\ TrueAnswer(r) => TrueAnswer(n)
                 /\ requests' = (requests \ {r}) \cup {n}
    <3>1. CASE CountByStatus(r)
      <4> DEFINE n == [r EXCEPT !.step = "counted", !.count = StoredCount]
      <4>1. n.id = r.id /\ n.step = "counted" /\ n.count = StoredCount
        BY DEF ViewTypeOK, Request
      <4>2. requests' = (requests \ {r}) \cup {n}
        BY <3>1 DEF CountByStatus
      <4> HIDE DEF n
      <4> QED
        BY <4>1, <4>2 DEF TrueAnswer
    <3>2. CASE FindByBatchID(r)
      <4> DEFINE n == [r EXCEPT !.step = "answered", !.shown = stored]
      <4>1. n.id = r.id /\ n.step = "answered" /\ n.count = r.count /\ n.shown = stored
        BY DEF ViewTypeOK, Request
      <4>2. requests' = (requests \ {r}) \cup {n} /\ r.step = "counted"
        BY <3>2 DEF FindByBatchID
      <4> HIDE DEF n
      <4> QED
        BY <4>1, <4>2 DEF TrueAnswer
    <3> QED
      BY <1>10, <3>1, <3>2
  <2>2. UNCHANGED <<stored, made, hook, stream, applied, loaded, shown, count, completed>>
    BY <1>10 DEF CountByStatus, FindByBatchID, backend, loop, slice
  <2>3. stream = "completed" => \A q \in requests' : q.id + 1 = made => TrueAnswer(q)
    BY <2>1 DEF LastIsTrue
  <2> QED
    BY <2>2, <2>3 DEF LastIsTrue, TrueAnswer, ViewIsStored, StoredCount, AllTerminal
<1>11. ASSUME NEW r \in requests, Answer(r) PROVE LastIsTrue'
  <2>1. /\ UNCHANGED <<stored, made, hook, stream>> /\ requests' \subseteq requests
        /\ loaded' = TRUE /\ shown' = r.shown /\ count' = r.count /\ applied' = r.id + 1
        /\ completed' = r.count["success"] + r.count["failed"] /\ r.step = "answered"
    BY <1>11 DEF Answer, Hydrate, backend, loop
  <2>2. ASSUME stream = "completed", r.id + 1 = made PROVE ViewIsStored'
    <3>1. TrueAnswer(r) /\ AllTerminal(stored)
      BY <2>2 DEF LastIsTrue
    <3>2. r.count = StoredCount /\ r.shown = stored
      BY <2>1, <3>1 DEF TrueAnswer
    <3>3. completed' = Cardinality(Payments)
      BY <2>1, <3>1, <3>2, FinishedAdds
    <3>4. StoredCount' = StoredCount
      BY <2>1 DEF StoredCount
    <3> QED
      BY <2>1, <3>2, <3>3, <3>4 DEF ViewIsStored
  <2>3. stream = "completed" => \A q \in requests' : q.id + 1 = made => TrueAnswer(q)'
    BY <2>1 DEF LastIsTrue, TrueAnswer, StoredCount
  <2> QED
    BY <2>1, <2>2, <2>3 DEF LastIsTrue, AllTerminal
<1>12. ASSUME NEW r \in requests, RequestFails(r) PROVE LastIsTrue'
  BY <1>12, CompletedStays DEF RequestFails, backend, loop, slice, LastIsTrue
<1> QED
  BY <1>1, <1>2, <1>3, <1>4, <1>5, <1>6, <1>7, <1>8, <1>9, <1>10, <1>11, <1>12
     DEF ViewNext, Backend, Hook, Serve

\* For any payments, and whatever fails: a page that has read batch_done and has taken over
\* the answer to its last detail request after all others shows the batch as it is stored.
THEOREM LastSnapshotHolds == ViewSpec => []LastSnapshotIsTrue
<1>1. ViewInit => RequestsNumbered /\ LastIsTrue
  BY DEF ViewInit, RequestsNumbered, LastIsTrue
<1>2. LastIsTrue => LastSnapshotIsTrue
  BY DEF LastIsTrue, LastSnapshotIsTrue
<1>3. ViewInv => ViewTypeOK
  BY DEF ViewInv
<1> QED
  BY <1>1, <1>2, <1>3, InitView, NextView, InitCounts, NextCounts, NextNumbered, NextLast, PTL
     DEF ViewSpec

=============================================================================
