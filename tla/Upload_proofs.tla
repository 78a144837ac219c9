--------------------------- MODULE Upload_proofs ---------------------------
(***************************************************************************)
(* Proofs about the way of an upload, for any files, uploads, visits and   *)
(* faults.  A request knows how far its batch has come, and no step takes  *)
(* anything back from a batch: that is the whole argument.                 *)
(***************************************************************************)
EXTENDS Upload, FiniteSetTheorems, SequenceTheorems, TLAPS

\* The types the argument needs, without the bounds of the model.
Upload_ == [id : Nat, visit : Nat, file : GoodFiles \cup BadRows,
            step : {"sent", "created", "stored", "accepted", "refused"}, batch : Nat]

UploadTypes ==
  /\ batches \in Seq(Batch)
  /\ posts \subseteq Upload_
  /\ uploads \in Nat /\ cardVisit \in Nat
  /\ reading \subseteq [no : Nat, file : Files \ NotCsv]
  /\ choices \in Nat
  /\ file \in GoodFiles \cup BadRows \cup {NoFile}

\* The steps of a request and the state of its batch.
Progress(r) ==
  /\ r.step \in {"created", "stored", "accepted"} => r.batch \in DOMAIN batches
  /\ r.step \in {"stored", "accepted"} => batches[r.batch].stored
  /\ r.step = "accepted" => batches[r.batch].dispatched

UploadInv ==
  /\ UploadTypes
  /\ \A r \in posts : Progress(r)
  /\ DispatchedIsStored
  /\ RefusedLeavesNothing
  /\ opened \subseteq DOMAIN batches
  /\ OpenedIsDispatched

LEMMA InitUpload == UploadInit => UploadInv
<1> SUFFICES ASSUME UploadInit PROVE UploadInv
  OBVIOUS
<1>1. UploadTypes
  BY DEF UploadInit, UploadTypes
<1> QED
  BY <1>1 DEF UploadInit, UploadInv, DispatchedIsStored, RefusedLeavesNothing, OpenedIsDispatched

\* No batch has disappeared, changed its file, or lost its payments or its processing.
Kept ==
  /\ DOMAIN batches \subseteq DOMAIN batches'
  /\ \A b \in DOMAIN batches : /\ batches[b].stored => batches'[b].stored
                               /\ batches[b].dispatched => batches'[b].dispatched

LEMMA KeptProgress ==
  ASSUME Kept, NEW r, Progress(r)
  PROVE  Progress(r)'
BY DEF Kept, Progress

LEMMA KeptOpened ==
  ASSUME Kept, opened \subseteq DOMAIN batches, OpenedIsDispatched, opened' = opened
  PROVE  opened' \subseteq DOMAIN batches' /\ OpenedIsDispatched'
BY DEF Kept, OpenedIsDispatched

\* A step that changes neither the batches nor what has been opened.
LEMMA ClientStep ==
  ASSUME UploadInv, UploadTypes', UNCHANGED <<batches, opened>>, \A r \in posts' : Progress(r)
  PROVE  UploadInv'
BY DEF UploadInv, Progress, DispatchedIsStored, RefusedLeavesNothing, OpenedIsDispatched

\* A step of the server that takes one request on.
LEMMA ServerStep ==
  ASSUME UploadInv, UploadTypes', Kept, opened' = opened, NEW r \in posts, NEW q,
         posts' = (posts \ {r}) \cup {q},
         Progress(q)', DispatchedIsStored', RefusedLeavesNothing'
  PROVE  UploadInv'
<1>1. \A s \in posts' : Progress(s)'
  BY KeptProgress DEF UploadInv
<1>2. opened' \subseteq DOMAIN batches' /\ OpenedIsDispatched'
  BY KeptOpened DEF UploadInv
<1> QED
  BY <1>1, <1>2 DEF UploadInv

\* A new row, without payments.
LEMMA AppendStep ==
  ASSUME UploadInv, NEW f \in GoodFiles,
         batches' = Append(batches, [file |-> f, stored |-> FALSE, dispatched |-> FALSE])
  PROVE  /\ Kept /\ batches' \in Seq(Batch)
         /\ Len(batches') \in Nat /\ Len(batches') \in DOMAIN batches'
         /\ DispatchedIsStored' /\ RefusedLeavesNothing'
<1>1. batches \in Seq(Batch) /\ [file |-> f, stored |-> FALSE, dispatched |-> FALSE] \in Batch
  BY DEF UploadInv, UploadTypes, Batch, Files
<1>2. /\ batches' \in Seq(Batch) /\ Len(batches') = Len(batches) + 1
      /\ \A b \in DOMAIN batches : batches'[b] = batches[b]
      /\ batches'[Len(batches')] = [file |-> f, stored |-> FALSE, dispatched |-> FALSE]
      /\ DOMAIN batches' = DOMAIN batches \cup {Len(batches')}
  BY <1>1
<1>3. Len(batches') \in Nat /\ Len(batches') \in DOMAIN batches'
  BY <1>2
<1>4. Kept
  BY <1>2 DEF Kept
<1>5. DispatchedIsStored'
  BY <1>2 DEF UploadInv, DispatchedIsStored
<1>6. RefusedLeavesNothing'
  BY <1>2 DEF UploadInv, RefusedLeavesNothing
<1> QED
  BY <1>2, <1>3, <1>4, <1>5, <1>6

\* A row is rewritten.
LEMMA RowStep ==
  ASSUME NEW rows \in Seq(Batch), NEW b \in DOMAIN rows, NEW row \in Batch
  PROVE  LET new == [rows EXCEPT ![b] = row]
         IN /\ new \in Seq(Batch) /\ DOMAIN new = DOMAIN rows
            /\ \A c \in DOMAIN rows \ {b} : new[c] = rows[c]
            /\ new[b] = row
<1>1. b \in 1..Len(rows) /\ DOMAIN rows = 1..Len(rows)
  OBVIOUS
<1>2. [rows EXCEPT ![b] = row] \in Seq(Batch)
  BY <1>1, ExceptSeq
<1> QED
  BY <1>1, <1>2

\* The payments of a batch are stored.
LEMMA StoreStep ==
  ASSUME UploadInv, NEW b \in DOMAIN batches, batches' = [batches EXCEPT ![b].stored = TRUE]
  PROVE  /\ Kept /\ batches' \in Seq(Batch) /\ b \in DOMAIN batches' /\ batches'[b].stored
         /\ DispatchedIsStored' /\ RefusedLeavesNothing'
<1>1. batches \in Seq(Batch) /\ batches[b] \in Batch
  BY DEF UploadInv, UploadTypes
<1>2. /\ batches' \in Seq(Batch) /\ DOMAIN batches' = DOMAIN batches
      /\ \A c \in DOMAIN batches \ {b} : batches'[c] = batches[c]
      /\ batches'[b] = [batches[b] EXCEPT !.stored = TRUE]
  <2>1. [batches[b] EXCEPT !.stored = TRUE] \in Batch
    BY <1>1 DEF Batch
  <2>2. batches' = [batches EXCEPT ![b] = [batches[b] EXCEPT !.stored = TRUE]]
    OBVIOUS
  <2> QED
    BY <1>1, <2>1, <2>2, RowStep
<1>3. batches'[b].stored /\ batches'[b].dispatched = batches[b].dispatched
                         /\ batches'[b].file = batches[b].file
  BY <1>1, <1>2 DEF Batch
<1> QED
  BY <1>2, <1>3 DEF UploadInv, Kept, DispatchedIsStored, RefusedLeavesNothing

LEMMA DispatchStep ==
  ASSUME UploadInv, NEW b \in DOMAIN batches, batches[b].stored,
         batches' = [batches EXCEPT ![b].dispatched = TRUE]
  PROVE  /\ Kept /\ batches' \in Seq(Batch) /\ b \in DOMAIN batches'
         /\ batches'[b].stored /\ batches'[b].dispatched
         /\ DispatchedIsStored' /\ RefusedLeavesNothing'
<1>1. batches \in Seq(Batch) /\ batches[b] \in Batch
  BY DEF UploadInv, UploadTypes
<1>2. /\ batches' \in Seq(Batch) /\ DOMAIN batches' = DOMAIN batches
      /\ \A c \in DOMAIN batches \ {b} : batches'[c] = batches[c]
      /\ batches'[b] = [batches[b] EXCEPT !.dispatched = TRUE]
  <2>1. [batches[b] EXCEPT !.dispatched = TRUE] \in Batch
    BY <1>1 DEF Batch
  <2>2. batches' = [batches EXCEPT ![b] = [batches[b] EXCEPT !.dispatched = TRUE]]
    OBVIOUS
  <2> QED
    BY <1>1, <2>1, <2>2, RowStep
<1>3. batches'[b].dispatched /\ batches'[b].stored = batches[b].stored
                             /\ batches'[b].file = batches[b].file
  BY <1>1, <1>2 DEF Batch
<1> QED
  BY <1>2, <1>3 DEF UploadInv, Kept, DispatchedIsStored, RefusedLeavesNothing

-----------------------------------------------------------------------------
\* A request that is taken on keeps its type.
LEMMA AtUploadTypes ==
  ASSUME UploadTypes, NEW r \in posts,
         NEW t \in {"sent", "created", "stored", "accepted", "refused"}
  PROVE  /\ [r EXCEPT !.step = t] \in Upload_
         /\ [r EXCEPT !.step = t].step = t /\ [r EXCEPT !.step = t].batch = r.batch
BY DEF UploadTypes, Upload_

\* The same for one request, whatever the set of requests.
LEMMA TakenRequest ==
  ASSUME NEW r \in Upload_, NEW t \in {"sent", "created", "stored", "accepted", "refused"},
         NEW q, q = [r EXCEPT !.step = t]
  PROVE  q \in Upload_ /\ q.step = t /\ q.batch = r.batch
BY DEF Upload_

\* A step of the server keeps the types of the client.
LEMMA ServerTypes ==
  ASSUME UploadTypes, NEW r \in posts, NEW q \in Upload_,
         posts' = (posts \ {r}) \cup {q}, batches' \in Seq(Batch), UNCHANGED client
  PROVE  UploadTypes'
BY DEF UploadTypes, client

\* A request is given up, with what is stored so far.
LEMMA RefusedStep ==
  ASSUME UploadInv, NEW r \in posts, At(r, "refused"), UNCHANGED <<batches, client>>
  PROVE  UploadInv'
<1> DEFINE q == [r EXCEPT !.step = "refused"]
<1>1. q \in Upload_ /\ q.step = "refused"
  BY AtUploadTypes DEF UploadInv
<1>2. UploadTypes'
  BY <1>1, ServerTypes DEF UploadInv, At, UploadTypes
<1>3. \A s \in posts' : Progress(s)
  BY <1>1 DEF UploadInv, At, Progress
<1> QED
  BY <1>2, <1>3, ClientStep DEF client

LEMMA CreateInv ==
  ASSUME UploadInv, NEW r \in posts, CreateBatch(r)
  PROVE  UploadInv'
<1>1. /\ r.file \in GoodFiles /\ UNCHANGED client
      /\ batches' = Append(batches, [file |-> r.file, stored |-> FALSE, dispatched |-> FALSE])
      /\ posts' = (posts \ {r}) \cup {[r EXCEPT !.step = "created", !.batch = Len(batches')]}
  BY DEF CreateBatch, UploadInv, UploadTypes, Upload_
<1>2. /\ Kept /\ batches' \in Seq(Batch)
      /\ Len(batches') \in Nat /\ Len(batches') \in DOMAIN batches'
      /\ DispatchedIsStored' /\ RefusedLeavesNothing'
  BY <1>1, AppendStep
<1>3. PICK q : q = [r EXCEPT !.step = "created", !.batch = Len(batches')]
  OBVIOUS
<1>4. q \in Upload_ /\ q.step = "created" /\ q.batch = Len(batches')
  <2>1. r \in Upload_
    BY DEF UploadInv, UploadTypes
  <2> QED
    BY <1>2, <1>3, <2>1 DEF Upload_
<1>5. UploadTypes'
  BY <1>1, <1>2, <1>3, <1>4, ServerTypes DEF UploadInv
<1>6. Progress(q)'
  BY <1>2, <1>4 DEF Progress
<1> QED
  BY <1>1, <1>2, <1>3, <1>5, <1>6, ServerStep DEF client

\* The payments of a batch are stored, and its request is told or not.
LEMMA StoreInv ==
  ASSUME UploadInv, NEW r \in posts, r.step = "created", UNCHANGED client,
         batches' = [batches EXCEPT ![r.batch].stored = TRUE],
         NEW t \in {"stored", "refused"}, At(r, t)
  PROVE  UploadInv'
<1>1. r.batch \in DOMAIN batches
  BY DEF UploadInv, Progress
<1>2. /\ Kept /\ batches' \in Seq(Batch) /\ r.batch \in DOMAIN batches'
      /\ batches'[r.batch].stored
      /\ DispatchedIsStored' /\ RefusedLeavesNothing'
  BY <1>1, StoreStep
<1>3. PICK q : q = [r EXCEPT !.step = t]
  OBVIOUS
<1>4. q \in Upload_ /\ q.step = t /\ q.batch = r.batch
  <2>1. r \in Upload_
    BY DEF UploadInv, UploadTypes
  <2> QED
    BY <1>3, <2>1, TakenRequest
<1>5. UploadTypes'
  BY <1>2, <1>3, <1>4, ServerTypes DEF UploadInv, At
<1>6. Progress(q)'
  BY <1>2, <1>4 DEF Progress
<1> QED
  BY <1>2, <1>3, <1>5, <1>6, ServerStep DEF At, client

LEMMA DispatchInv ==
  ASSUME UploadInv, NEW r \in posts, Dispatch(r)
  PROVE  UploadInv'
<1>1. r.step = "stored" /\ At(r, "accepted") /\ UNCHANGED client
      /\ batches' = [batches EXCEPT ![r.batch].dispatched = TRUE]
  BY DEF Dispatch
<1>2. r.batch \in DOMAIN batches /\ batches[r.batch].stored
  BY <1>1 DEF UploadInv, Progress
<1>3. /\ Kept /\ batches' \in Seq(Batch) /\ r.batch \in DOMAIN batches'
      /\ batches'[r.batch].stored /\ batches'[r.batch].dispatched
      /\ DispatchedIsStored' /\ RefusedLeavesNothing'
  BY <1>1, <1>2, DispatchStep
<1>4. PICK q : q = [r EXCEPT !.step = "accepted"]
  OBVIOUS
<1>5. q \in Upload_ /\ q.step = "accepted" /\ q.batch = r.batch
  BY <1>4, AtUploadTypes DEF UploadInv
<1>6. UploadTypes'
  BY <1>1, <1>3, <1>4, <1>5, ServerTypes DEF UploadInv, At
<1>7. Progress(q)'
  BY <1>3, <1>5 DEF Progress
<1> QED
  BY <1>1, <1>3, <1>4, <1>6, <1>7, ServerStep DEF At, client

LEMMA NextUpload == UploadInv /\ [UploadNext]_uploadVars => UploadInv'
<1> SUFFICES ASSUME UploadInv, [UploadNext]_uploadVars PROVE UploadInv'
  OBVIOUS
<1>1. CASE UNCHANGED uploadVars
  BY <1>1, ClientStep DEF UploadInv, UploadTypes, uploadVars
<1>2. ASSUME UNCHANGED <<batches, posts, opened>>, UploadTypes' PROVE UploadInv'
  BY <1>2, ClientStep DEF UploadInv
<1>3. ASSUME NEW f \in Files, Choose(f) PROVE UploadInv'
  <2>1. UploadTypes'
    BY <1>3 DEF Choose, Refuse, UploadInv, UploadTypes, uploadServer
  <2> QED
    BY <1>2, <1>3, <2>1 DEF Choose, uploadServer
<1>4. ASSUME NEW r \in reading, Read(r) PROVE UploadInv'
  <2>1. r.file \notin NoRows => r.file \in GoodFiles \cup BadRows
    BY DEF UploadInv, UploadTypes, Files
  <2>2. UploadTypes'
    BY <1>4, <2>1 DEF Read, Refuse, UploadInv, UploadTypes, uploadServer
  <2> QED
    BY <1>2, <1>4, <2>2 DEF Read, uploadServer
<1>5. ASSUME NEW r \in reading, ReadFails(r) PROVE UploadInv'
  <2>1. UploadTypes'
    BY <1>5 DEF ReadFails, UploadInv, UploadTypes, uploadServer
  <2> QED
    BY <1>2, <1>5, <2>1 DEF ReadFails, uploadServer
<1>6. CASE SubmitFile
  <2>1. PICK q : q = [id |-> uploads', visit |-> cardVisit, file |-> file, step |-> "sent", batch |-> 0]
    OBVIOUS
  <2>2. q \in Upload_ /\ q.step = "sent"
    BY <1>6, <2>1 DEF SubmitFile, UploadInv, UploadTypes, Upload_
  <2>3. posts' = posts \cup {q} /\ UNCHANGED <<batches, opened, cardVisit, reading, choices, file>>
    BY <1>6, <2>1 DEF SubmitFile, uploadServer, card
  <2>4. uploads' \in Nat
    BY <1>6 DEF SubmitFile, UploadInv, UploadTypes
  <2>5. UploadTypes'
    BY <2>2, <2>3, <2>4 DEF UploadInv, UploadTypes
  <2>6. \A s \in posts' : Progress(s)
    BY <2>2, <2>3 DEF UploadInv, Progress
  <2> QED
    BY <2>3, <2>5, <2>6, ClientStep
<1>7. CASE LeaveCard
  <2>1. UploadTypes'
    BY <1>7 DEF LeaveCard, Reset, UploadInv, UploadTypes, uploadServer
  <2> QED
    BY <1>2, <1>7, <2>1 DEF LeaveCard, uploadServer
<1>8. CASE Return
  <2>1. UploadTypes'
    BY <1>8 DEF Return, UploadInv, UploadTypes, uploadServer, card
  <2> QED
    BY <1>2, <1>8, <2>1 DEF Return, uploadServer
<1>9. CASE Crash
  <2>1. posts' = {[r EXCEPT !.step = IF @ = "accepted" THEN @ ELSE "refused"] : r \in posts}
        /\ UNCHANGED <<batches, client>>
    BY <1>9 DEF Crash
  <2>2. \A q \in posts' : q \in Upload_ /\ Progress(q)
    <3>1. SUFFICES ASSUME NEW r \in posts,
                          NEW q, q = [r EXCEPT !.step = IF @ = "accepted" THEN @ ELSE "refused"]
                   PROVE  q \in Upload_ /\ Progress(q)
      BY <2>1
    <3>2. CASE r.step = "accepted"
      <4>1. q = r
        BY <3>1, <3>2 DEF UploadInv, UploadTypes, Upload_
      <4> QED
        BY <4>1 DEF UploadInv, UploadTypes
    <3>3. CASE r.step # "accepted"
      <4>1. q = [r EXCEPT !.step = "refused"]
        BY <3>1, <3>3 DEF UploadInv, UploadTypes, Upload_
      <4>2. q \in Upload_ /\ q.step = "refused"
        BY <4>1, AtUploadTypes DEF UploadInv
      <4> QED
        BY <4>2 DEF Progress
    <3> QED
      BY <3>2, <3>3
  <2>3. UploadTypes'
    BY <2>1, <2>2 DEF UploadInv, UploadTypes, client
  <2> QED
    BY <2>1, <2>2, <2>3, ClientStep DEF client
<1>10. ASSUME NEW r \in posts, Reject(r) PROVE UploadInv'
  BY <1>10, RefusedStep DEF Reject, client
<1>11. ASSUME NEW r \in posts, CreatePayments(r) PROVE UploadInv'
  BY <1>11, StoreInv DEF CreatePayments
<1>12. ASSUME NEW r \in posts, StatementFails(r) PROVE UploadInv'
  <2>1. CASE UNCHANGED batches
    BY <1>12, <2>1, RefusedStep DEF StatementFails
  <2>2. CASE r.step = "created" /\ batches' = [batches EXCEPT ![r.batch].stored = TRUE]
    BY <1>12, <2>2, StoreInv DEF StatementFails
  <2>3. CASE /\ r.file \notin BadRows
             /\ batches' = Append(batches, [file |-> r.file, stored |-> FALSE, dispatched |-> FALSE])
    <3>1. r.file \in GoodFiles /\ At(r, "refused") /\ UNCHANGED client
      BY <1>12, <2>3 DEF StatementFails, UploadInv, UploadTypes, Upload_
    <3>2. Kept /\ batches' \in Seq(Batch) /\ DispatchedIsStored' /\ RefusedLeavesNothing'
      BY <2>3, <3>1, AppendStep
    <3>3. PICK q : q = [r EXCEPT !.step = "refused"]
      OBVIOUS
    <3>4. q \in Upload_ /\ q.step = "refused"
      BY <3>3, AtUploadTypes DEF UploadInv
    <3>5. UploadTypes'
      BY <3>1, <3>2, <3>3, <3>4, ServerTypes DEF UploadInv, At
    <3>6. Progress(q)'
      BY <3>4 DEF Progress
    <3> QED
      BY <3>1, <3>2, <3>3, <3>5, <3>6, ServerStep DEF At, client
  <2> QED
    BY <1>12, <2>1, <2>2, <2>3 DEF StatementFails
<1>13. ASSUME NEW r \in posts, AnswerLost(r) PROVE UploadInv'
  BY <1>13, RefusedStep DEF AnswerLost
<1>14. ASSUME NEW r \in posts, Accepted(r) PROVE UploadInv'
  <2>1. /\ posts' = posts \ {r} /\ opened' = opened \cup {r.batch}
        /\ UNCHANGED <<batches, uploads, cardVisit, choices>> /\ reading' = {} /\ file' = NoFile
    BY <1>14 DEF Accepted, Reset, uploadServer
  <2>2. r.batch \in DOMAIN batches /\ batches[r.batch].dispatched /\ batches[r.batch].stored
    BY <1>14 DEF Accepted, UploadInv, Progress
  <2>3. UploadTypes'
    BY <2>1 DEF UploadInv, UploadTypes
  <2>4. \A s \in posts' : Progress(s)'
    BY <2>1 DEF UploadInv, Progress
  <2>5. DispatchedIsStored' /\ RefusedLeavesNothing'
    BY <2>1 DEF UploadInv, DispatchedIsStored, RefusedLeavesNothing
  <2>6. opened' \subseteq DOMAIN batches' /\ OpenedIsDispatched'
    BY <2>1, <2>2 DEF UploadInv, OpenedIsDispatched
  <2> QED
    BY <2>3, <2>4, <2>5, <2>6 DEF UploadInv
<1>15. ASSUME NEW r \in posts, Failed(r) PROVE UploadInv'
  <2>1. posts' = posts \ {r}
        /\ UNCHANGED <<batches, opened, uploads, cardVisit, reading, choices, file>>
    BY <1>15 DEF Failed, uploadServer, card
  <2>2. UploadTypes'
    BY <2>1 DEF UploadInv, UploadTypes
  <2> QED
    BY <2>1, <2>2, ClientStep DEF UploadInv
<1> QED
  BY <1>1, <1>3, <1>4, <1>5, <1>6, <1>7, <1>8, <1>9, <1>10, CreateInv, <1>11, <1>12, <1>13,
     DispatchInv, <1>14, <1>15 DEF UploadNext, ServeUpload, ReceiveUpload

THEOREM UploadInvCorrect == UploadSpec => []UploadInv
  BY InitUpload, NextUpload, PTL DEF UploadSpec

\* Where an upload has led there is a batch, stored and under way.
THEOREM OpenedBatchesRun == UploadSpec => []OpenedIsDispatched
  BY UploadInvCorrect, PTL DEF UploadInv

\* Whatever fails between the two transactions, only stored payments are processed.
THEOREM DispatchedBatchesAreStored == UploadSpec => []DispatchedIsStored
  BY UploadInvCorrect, PTL DEF UploadInv

\* A file with errors never makes a batch.
THEOREM RefusedFilesLeaveNothing == UploadSpec => []RefusedLeavesNothing
  BY UploadInvCorrect, PTL DEF UploadInv

\* An upload is taken as a whole or not at all.
THEOREM UploadsAreWhole == UploadSpec => []UploadIsWhole
  BY UploadInvCorrect, PTL DEF UploadInv, UploadIsWhole

-----------------------------------------------------------------------------
(* The types, with the bounds of the model *)

\* Uploads that have not made a batch yet: every upload makes at most one.
Unborn == {r \in posts : r.step = "sent"}

Bounds ==
  /\ uploads \in 0..MaxUploads /\ choices \in 0..MaxChoices
  /\ cardVisit \in 1..MaxCardVisits
  /\ cardOpen \in BOOLEAN /\ invalid \in BOOLEAN
  /\ mutation \in {"idle", "pending", "failed"}
  /\ uploadFaults \in 0..MaxUploadFaults
  /\ \A c \in reading : c.no \in 1..MaxChoices
  /\ \A r \in posts : r.id \in 1..MaxUploads /\ r.visit \in 1..MaxCardVisits
  /\ \A r \in posts : r.batch \in 0..Len(batches)
  /\ IsFiniteSet(Unborn)
  /\ Len(batches) + Cardinality(Unborn) <= uploads

\* A request has all its fields, and the same ones after a step of the server.
LEMMA RequestTaken ==
  ASSUME UploadInv, Bounds, NEW r \in posts, NEW t \in {"created", "stored", "accepted", "refused"},
         NEW q, q = [r EXCEPT !.step = t]
  PROVE  /\ q.id \in 1..MaxUploads /\ q.visit \in 1..MaxCardVisits
         /\ q.batch = r.batch /\ q.step # "sent"
BY DEF UploadInv, UploadTypes, Upload_, Bounds

\* The uploads without a batch become fewer, or stay as they are.
LEMMA FewerUnborn ==
  ASSUME Bounds, NEW S, S \subseteq Unborn
  PROVE  /\ IsFiniteSet(S) /\ Cardinality(S) \in Nat /\ Cardinality(Unborn) \in Nat
         /\ Cardinality(S) <= Cardinality(Unborn)
         /\ S # Unborn => Cardinality(S) < Cardinality(Unborn)
BY FS_Subset, FS_CardinalityType DEF Bounds

\* A step of the server on one request that makes no batch.
LEMMA ServedBounds ==
  ASSUME UploadInv, Bounds, NEW r \in posts, NEW t \in {"created", "stored", "accepted", "refused"},
         At(r, t), UNCHANGED client, batches' \in Seq(Batch), Len(batches') = Len(batches),
         uploadFaults' \in 0..MaxUploadFaults
  PROVE  Bounds'
<1>1. PICK q : q = [r EXCEPT !.step = t]
  OBVIOUS
<1>2. posts' = (posts \ {r}) \cup {q}
  BY <1>1 DEF At
<1>3. /\ q.id \in 1..MaxUploads /\ q.visit \in 1..MaxCardVisits
      /\ q.batch = r.batch /\ q.step # "sent"
  BY <1>1, RequestTaken
<1>4. Unborn' \subseteq Unborn
  BY <1>2, <1>3 DEF Unborn
<1>5. IsFiniteSet(Unborn') /\ Len(batches') + Cardinality(Unborn') <= uploads'
  <2>1. /\ Len(batches) \in Nat /\ uploads \in Nat /\ uploads' = uploads
        /\ Len(batches) + Cardinality(Unborn) <= uploads
    BY DEF UploadInv, UploadTypes, Bounds, client
  <2>2. /\ IsFiniteSet(Unborn') /\ Cardinality(Unborn') \in Nat /\ Cardinality(Unborn) \in Nat
        /\ Cardinality(Unborn') <= Cardinality(Unborn)
    BY <1>4, FewerUnborn
  <2> QED
    BY <2>1, <2>2
<1>6. \A s \in posts' : /\ s.id \in 1..MaxUploads /\ s.visit \in 1..MaxCardVisits
                        /\ s.batch \in 0..Len(batches)
  BY <1>2, <1>3 DEF Bounds
<1> QED
  BY <1>5, <1>6 DEF Bounds, client

\* A step that makes the batch of one request.
LEMMA BornBounds ==
  ASSUME UploadInv, Bounds, NEW r \in posts, r.step = "sent", NEW q,
         posts' = (posts \ {r}) \cup {q}, UNCHANGED client,
         Len(batches') = Len(batches) + 1, uploadFaults' \in 0..MaxUploadFaults,
         q.id \in 1..MaxUploads, q.visit \in 1..MaxCardVisits, q.batch \in 0..Len(batches'),
         q.step # "sent"
  PROVE  Bounds'
<1>1. Unborn' \subseteq Unborn /\ r \in Unborn /\ r \notin Unborn'
  BY DEF Unborn
<1>2. Len(batches) \in Nat
  BY DEF UploadInv, UploadTypes
<1>3. IsFiniteSet(Unborn') /\ Len(batches') + Cardinality(Unborn') <= uploads'
  <2>1. /\ uploads' = uploads /\ uploads \in Nat
        /\ Len(batches) + Cardinality(Unborn) <= uploads
    BY DEF Bounds, client
  <2>2. /\ IsFiniteSet(Unborn') /\ Cardinality(Unborn') \in Nat /\ Cardinality(Unborn) \in Nat
        /\ Cardinality(Unborn') < Cardinality(Unborn)
    BY <1>1, FewerUnborn
  <2> QED
    BY <1>2, <2>1, <2>2
<1>4. \A s \in posts' : /\ s.id \in 1..MaxUploads /\ s.visit \in 1..MaxCardVisits
                        /\ s.batch \in 0..Len(batches')
  BY <1>2 DEF Bounds
<1> QED
  BY <1>3, <1>4 DEF Bounds, client

\* A step of the client that sends nothing.
LEMMA QuietBounds ==
  ASSUME UploadInv, Bounds, posts' \subseteq posts, UNCHANGED <<batches, uploads>>,
         choices' \in 0..MaxChoices, cardVisit' \in 1..MaxCardVisits,
         cardOpen' \in BOOLEAN, invalid' \in BOOLEAN,
         mutation' \in {"idle", "pending", "failed"}, uploadFaults' \in 0..MaxUploadFaults,
         \A c \in reading' : c.no \in 1..MaxChoices
  PROVE  Bounds'
<1>1. Unborn' \subseteq Unborn
  BY DEF Unborn
<1>2. Len(batches) \in Nat /\ uploads \in Nat
      /\ Len(batches) + Cardinality(Unborn) <= uploads
  BY DEF UploadInv, UploadTypes, Bounds
<1>3. /\ IsFiniteSet(Unborn') /\ Cardinality(Unborn') \in Nat /\ Cardinality(Unborn) \in Nat
      /\ Cardinality(Unborn') <= Cardinality(Unborn)
  BY <1>1, FewerUnborn
<1>4. Len(batches') + Cardinality(Unborn') <= uploads'
  BY <1>2, <1>3
<1> QED
  BY <1>3, <1>4 DEF Bounds

\* Rewriting a row neither adds nor removes one.
LEMMA RowsStay ==
  ASSUME UploadInv, NEW b \in DOMAIN batches,
         \/ batches' = [batches EXCEPT ![b].stored = TRUE]
         \/ batches' = [batches EXCEPT ![b].dispatched = TRUE]
  PROVE  batches' \in Seq(Batch) /\ Len(batches') = Len(batches)
<1>1. batches \in Seq(Batch) /\ batches[b] \in Batch
  BY DEF UploadInv, UploadTypes
<1>2. PICK row \in Batch : batches' = [batches EXCEPT ![b] = row]
  <2>1. /\ [batches[b] EXCEPT !.stored = TRUE] \in Batch
        /\ [batches[b] EXCEPT !.dispatched = TRUE] \in Batch
    BY <1>1 DEF Batch
  <2> QED
    BY <2>1
<1> QED
  BY <1>1, <1>2, RowStep

LEMMA InitBounds == UploadInit => Bounds
<1> SUFFICES ASSUME UploadInit PROVE Bounds
  OBVIOUS
<1>1. Unborn = {} /\ Len(batches) = 0
  BY DEF UploadInit, Unborn
<1>2. IsFiniteSet(Unborn) /\ Cardinality(Unborn) = 0
  BY <1>1, FS_EmptySet
<1>3. /\ uploads \in 0..MaxUploads /\ choices \in 0..MaxChoices
      /\ cardVisit \in 1..MaxCardVisits /\ uploadFaults \in 0..MaxUploadFaults
  BY UploadBounds DEF UploadInit
<1>4. /\ cardOpen \in BOOLEAN /\ invalid \in BOOLEAN /\ mutation \in {"idle", "pending", "failed"}
      /\ \A c \in reading : c.no \in 1..MaxChoices
      /\ \A r \in posts : r.id \in 1..MaxUploads /\ r.visit \in 1..MaxCardVisits
      /\ \A r \in posts : r.batch \in 0..Len(batches)
  BY DEF UploadInit
<1>5. Len(batches) + Cardinality(Unborn) <= uploads
  BY <1>1, <1>2 DEF UploadInit
<1> QED
  BY <1>2, <1>3, <1>4, <1>5 DEF Bounds

LEMMA NextBounds == UploadInv /\ Bounds /\ [UploadNext]_uploadVars => Bounds'
<1> SUFFICES ASSUME UploadInv, Bounds, [UploadNext]_uploadVars PROVE Bounds'
  OBVIOUS
<1>0. Fault => uploadFaults' \in 0..MaxUploadFaults
  BY UploadBounds DEF Fault, Bounds
<1>1. CASE UNCHANGED uploadVars
  BY <1>1, QuietBounds DEF uploadVars, Bounds
<1>2. ASSUME NEW f \in Files, Choose(f) PROVE Bounds'
  <2>1. choices' \in 0..MaxChoices /\ choices' \in 1..MaxChoices
    BY <1>2, UploadBounds DEF Choose, Bounds
  <2>2. \A c \in reading' : c.no \in 1..MaxChoices
    BY <1>2, <2>1 DEF Choose, Bounds
  <2>3. invalid' \in BOOLEAN
    BY <1>2 DEF Choose, Refuse, Bounds
  <2> QED
    BY <1>2, <2>1, <2>2, <2>3, QuietBounds DEF Choose, Bounds, uploadServer
<1>3. ASSUME NEW c \in reading, Read(c) PROVE Bounds'
  <2>1. invalid' \in BOOLEAN
    BY <1>3 DEF Read, Refuse
  <2> QED
    BY <1>3, <2>1, QuietBounds DEF Read, Bounds, uploadServer
<1>4. ASSUME NEW c \in reading, ReadFails(c) PROVE Bounds'
  BY <1>0, <1>4, QuietBounds DEF ReadFails, Bounds, uploadServer
<1>5. CASE SubmitFile
  <2>1. PICK q : q = [id |-> uploads', visit |-> cardVisit, file |-> file, step |-> "sent", batch |-> 0]
    OBVIOUS
  <2>2. /\ posts' = posts \cup {q} /\ uploads' = uploads + 1 /\ uploads < MaxUploads
        /\ UNCHANGED <<batches, cardVisit, cardOpen, reading, choices, invalid, uploadFaults>>
        /\ mutation' = "pending"
    BY <1>5, <2>1 DEF SubmitFile, uploadServer, card
  <2>3. uploads' \in 1..MaxUploads /\ uploads \in Nat /\ Len(batches) \in Nat
    BY <2>2, UploadBounds DEF Bounds, UploadInv, UploadTypes
  <2>4. \A s \in posts' : /\ s.id \in 1..MaxUploads /\ s.visit \in 1..MaxCardVisits
                          /\ s.batch \in 0..Len(batches)
    BY <2>1, <2>2, <2>3 DEF Bounds
  <2>5. Unborn' = Unborn \cup {q}
    BY <2>1, <2>2 DEF Unborn
  <2>6. /\ IsFiniteSet(Unborn') /\ Cardinality(Unborn') \in Nat /\ Cardinality(Unborn) \in Nat
        /\ Cardinality(Unborn') <= Cardinality(Unborn) + 1
    <3>1. IsFiniteSet(Unborn)
      BY DEF Bounds
    <3>2. /\ IsFiniteSet(Unborn \cup {q})
          /\ Cardinality(Unborn \cup {q}) \in {Cardinality(Unborn), Cardinality(Unborn) + 1}
      BY <3>1, FS_AddElement
    <3>3. Cardinality(Unborn) \in Nat
      BY <3>1, FS_CardinalityType
    <3> QED
      BY <2>5, <3>2, <3>3
  <2>7. Len(batches') + Cardinality(Unborn') <= uploads'
    BY <2>2, <2>3, <2>6 DEF Bounds
  <2> QED
    BY <2>2, <2>3, <2>4, <2>6, <2>7 DEF Bounds
<1>6. CASE LeaveCard
  BY <1>6, QuietBounds DEF LeaveCard, Reset, Bounds, uploadServer
<1>7. CASE Return
  <2>1. cardVisit' \in 1..MaxCardVisits
    BY <1>7, UploadBounds DEF Return, Bounds
  <2> QED
    BY <1>7, <2>1, QuietBounds DEF Return, Bounds, uploadServer, card
<1>8. CASE Crash
  <2>1. posts' = {[r EXCEPT !.step = IF @ = "accepted" THEN @ ELSE "refused"] : r \in posts}
        /\ UNCHANGED <<batches, client>>
    BY <1>8 DEF Crash
  <2>2. \A s \in posts' : /\ s.id \in 1..MaxUploads /\ s.visit \in 1..MaxCardVisits
                          /\ s.batch \in 0..Len(batches) /\ s.step # "sent"
    <3>1. SUFFICES ASSUME NEW r \in posts,
                          NEW s, s = [r EXCEPT !.step = IF @ = "accepted" THEN @ ELSE "refused"]
                   PROVE  /\ s.id \in 1..MaxUploads /\ s.visit \in 1..MaxCardVisits
                          /\ s.batch \in 0..Len(batches) /\ s.step # "sent"
      BY <2>1
    <3>2. /\ s.id = r.id /\ s.visit = r.visit /\ s.batch = r.batch
          /\ s.step = IF r.step = "accepted" THEN r.step ELSE "refused"
      BY <3>1 DEF UploadInv, UploadTypes, Upload_
    <3> QED
      BY <3>2 DEF Bounds
  <2>3. Unborn' = {}
    BY <2>2 DEF Unborn
  <2>4. IsFiniteSet(Unborn') /\ Cardinality(Unborn') = 0
    BY <2>3, FS_EmptySet
  <2>5. /\ Len(batches) \in Nat /\ Cardinality(Unborn) \in Nat
        /\ Len(batches) + Cardinality(Unborn) <= uploads /\ uploads \in Nat
        /\ batches' = batches /\ uploads' = uploads
    BY <2>1, FewerUnborn DEF Bounds, UploadInv, UploadTypes, client
  <2>6. Len(batches') + Cardinality(Unborn') <= uploads'
    BY <2>4, <2>5
  <2> QED
    BY <1>0, <1>8, <2>1, <2>2, <2>4, <2>6 DEF Bounds, client, Crash
<1>9. ASSUME NEW r \in posts, Reject(r) PROVE Bounds'
  BY <1>9, ServedBounds DEF Reject, Bounds, UploadInv, UploadTypes
<1>10. ASSUME NEW r \in posts, CreateBatch(r) PROVE Bounds'
  <2>1. PICK q : q = [r EXCEPT !.step = "created", !.batch = Len(batches')]
    OBVIOUS
  <2>2. r \in Upload_ /\ r.step = "sent" /\ r.file \in GoodFiles
    BY <1>10 DEF CreateBatch, UploadInv, UploadTypes, Upload_
  <2>3. q.id = r.id /\ q.visit = r.visit /\ q.step = "created" /\ q.batch = Len(batches')
    BY <2>1, <2>2 DEF Upload_
  <2>4. Len(batches') = Len(batches) + 1 /\ Len(batches) \in Nat
    BY <1>10 DEF CreateBatch, UploadInv, UploadTypes
  <2>5. /\ posts' = (posts \ {r}) \cup {q} /\ UNCHANGED <<client, uploadFaults>>
    BY <1>10, <2>1 DEF CreateBatch
  <2>6. /\ q.id \in 1..MaxUploads /\ q.visit \in 1..MaxCardVisits
        /\ uploadFaults' \in 0..MaxUploadFaults
    BY <2>3, <2>5 DEF Bounds
  <2>7. q.batch \in 0..Len(batches')
    BY <2>3, <2>4
  <2>8. q.step # "sent"
    BY <2>3
  <2> QED
    BY <2>2, <2>4, <2>5, <2>6, <2>7, <2>8, BornBounds
<1>11. ASSUME NEW r \in posts, CreatePayments(r) PROVE Bounds'
  <2>1. r.batch \in DOMAIN batches
    BY <1>11 DEF CreatePayments, UploadInv, Progress
  <2>2. batches' \in Seq(Batch) /\ Len(batches') = Len(batches)
    <3>1. batches' = [batches EXCEPT ![r.batch].stored = TRUE]
      BY <1>11 DEF CreatePayments
    <3> QED
      BY <2>1, <3>1, RowsStay
  <2> QED
    BY <1>11, <2>2, ServedBounds DEF CreatePayments, Bounds
<1>12. ASSUME NEW r \in posts, StatementFails(r) PROVE Bounds'
  <2>0. uploadFaults' \in 0..MaxUploadFaults /\ At(r, "refused") /\ UNCHANGED client
    BY <1>0, <1>12 DEF StatementFails
  <2>1. CASE UNCHANGED batches
    BY <2>0, <2>1, ServedBounds DEF UploadInv, UploadTypes
  <2>2. CASE r.step = "created" /\ batches' = [batches EXCEPT ![r.batch].stored = TRUE]
    <3>1. r.batch \in DOMAIN batches
      BY <2>2 DEF UploadInv, Progress
    <3>2. batches' \in Seq(Batch) /\ Len(batches') = Len(batches)
      BY <2>2, <3>1, RowsStay
    <3> QED
      BY <2>0, <3>2, ServedBounds
  <2>3. CASE /\ r.step = "sent"
             /\ batches' = Append(batches, [file |-> r.file, stored |-> FALSE, dispatched |-> FALSE])
    <3>1. PICK q : q = [r EXCEPT !.step = "refused"]
      OBVIOUS
    <3>2. /\ q.id \in 1..MaxUploads /\ q.visit \in 1..MaxCardVisits
          /\ q.batch = r.batch /\ q.step # "sent"
      BY <3>1, RequestTaken
    <3>3. Len(batches') = Len(batches) + 1 /\ Len(batches) \in Nat
      BY <2>3 DEF UploadInv, UploadTypes
    <3>4. posts' = (posts \ {r}) \cup {q} /\ q.batch \in 0..Len(batches')
      BY <2>0, <3>1, <3>2, <3>3 DEF At, Bounds
    <3> QED
      BY <2>0, <2>3, <3>2, <3>3, <3>4, BornBounds
  <2> QED
    BY <1>12, <2>1, <2>2, <2>3 DEF StatementFails
<1>13. ASSUME NEW r \in posts, Dispatch(r) PROVE Bounds'
  <2>1. r.batch \in DOMAIN batches
    BY <1>13 DEF Dispatch, UploadInv, Progress
  <2>2. batches' \in Seq(Batch) /\ Len(batches') = Len(batches)
    <3>1. batches' = [batches EXCEPT ![r.batch].dispatched = TRUE]
      BY <1>13 DEF Dispatch
    <3> QED
      BY <2>1, <3>1, RowsStay
  <2> QED
    BY <1>13, <2>2, ServedBounds DEF Dispatch, Bounds
<1>14. ASSUME NEW r \in posts, AnswerLost(r) PROVE Bounds'
  BY <1>0, <1>14, ServedBounds DEF AnswerLost, UploadInv, UploadTypes
<1>15. ASSUME NEW r \in posts, Accepted(r) PROVE Bounds'
  BY <1>15, QuietBounds DEF Accepted, Reset, Bounds, uploadServer
<1>16. ASSUME NEW r \in posts, Failed(r) PROVE Bounds'
  BY <1>16, QuietBounds DEF Failed, Bounds, uploadServer, card
<1> QED
  BY <1>1, <1>2, <1>3, <1>4, <1>5, <1>6, <1>7, <1>8, <1>9, <1>10, <1>11, <1>12, <1>13, <1>14,
     <1>15, <1>16 DEF UploadNext, ServeUpload, ReceiveUpload

\* No upload makes two batches, whatever fails and is tried again, so that there are never
\* more batches than uploads; and everything else is what it is declared to be.
THEOREM UploadTypeCorrect == UploadSpec => []UploadTypeOK
<1>1. UploadInv /\ Bounds => UploadTypeOK
  <2> SUFFICES ASSUME UploadInv, Bounds PROVE UploadTypeOK
    OBVIOUS
  <2>1. Len(batches) \in Nat /\ Cardinality(Unborn) \in Nat /\ Len(batches) <= MaxUploads
    BY FewerUnborn, UploadBounds DEF Bounds, UploadInv, UploadTypes
  <2>2. posts \subseteq UploadRequest
    <3>1. SUFFICES ASSUME NEW r \in posts PROVE r \in UploadRequest
      OBVIOUS
    <3>2. r \in Upload_ /\ r.id \in 1..MaxUploads /\ r.visit \in 1..MaxCardVisits
          /\ r.batch \in 0..MaxUploads
      BY <2>1, UploadBounds DEF UploadInv, UploadTypes, Bounds
    <3> QED
      BY <3>2 DEF Upload_, UploadRequest, Files
  <2>3. reading \subseteq [no : 1..MaxChoices, file : Files \ NotCsv]
    BY DEF UploadInv, UploadTypes, Bounds
  <2> QED
    BY <2>1, <2>2, <2>3 DEF UploadInv, UploadTypes, Bounds, UploadTypeOK
<1> QED
  BY <1>1, InitBounds, NextBounds, InitUpload, NextUpload, PTL DEF UploadSpec

-----------------------------------------------------------------------------
(* What the card waits for *)

\* Uploads of the visit that is under way.
UnderWay == {q \in posts : q.visit = cardVisit}

\* The invariant, with what makes it inductive: nobody has uploaded in a visit to come.
CardInv ==
  /\ CardWaitsForUpload
  /\ \A q \in posts : q.visit <= cardVisit

\* The requests change and stay as many, each of them an upload of the same visit.
LEMMA ServedWaits ==
  ASSUME CardInv, NEW f, posts' = {f[r] : r \in posts}, \A r \in posts : f[r].visit = r.visit,
         UNCHANGED <<cardVisit, cardOpen, mutation>>
  PROVE  CardInv'
<1>1. UnderWay' = {f[r] : r \in UnderWay}
  BY DEF UnderWay
<1>2. \A q \in posts' : q.visit <= cardVisit
  BY DEF CardInv
<1>3. CASE mutation = "pending"
  <2>1. PICK r \in posts : UnderWay = {r}
    BY <1>3 DEF CardInv, CardWaitsForUpload, UnderWay
  <2>2. UnderWay' = {f[r]} /\ f[r] \in posts'
    BY <1>1, <2>1
  <2> QED
    BY <1>2, <1>3, <2>2 DEF CardInv, CardWaitsForUpload, UnderWay
<1>4. CASE mutation # "pending"
  BY <1>2, <1>4 DEF CardInv, CardWaitsForUpload
<1> QED
  BY <1>3, <1>4

\* A step of the server on one request.
LEMMA TakenWaits ==
  ASSUME CardInv, NEW r \in posts, NEW q, posts' = (posts \ {r}) \cup {q}, q.visit = r.visit,
         UNCHANGED <<cardVisit, cardOpen, mutation>>
  PROVE  CardInv'
<1> DEFINE f == [s \in posts |-> IF s = r THEN q ELSE s]
<1>1. posts' = {f[s] : s \in posts} /\ \A s \in posts : f[s].visit = s.visit
  OBVIOUS
<1> HIDE DEF f
<1> QED
  BY <1>1, ServedWaits

\* A step of the card that neither sends nor answers anything.
LEMMA QuietWaits ==
  ASSUME CardInv, UNCHANGED <<posts, cardVisit, cardOpen>>,
         mutation' = mutation \/ (mutation # "pending" /\ mutation' # "pending")
  PROVE  CardInv'
<1>1. CASE mutation = "pending"
  BY <1>1 DEF CardInv, CardWaitsForUpload
<1>2. CASE mutation # "pending"
  BY <1>2 DEF CardInv, CardWaitsForUpload
<1> QED
  BY <1>1, <1>2

\* The card is left, with what it was waiting for.
LEMMA LeftWaits ==
  ASSUME CardInv, posts' \subseteq posts, cardVisit' = cardVisit, cardOpen' = FALSE,
         mutation' = "idle"
  PROVE  CardInv'
BY DEF CardInv, CardWaitsForUpload

LEMMA NextCard == UploadInv /\ CardInv /\ [UploadNext]_uploadVars => CardInv'
<1> SUFFICES ASSUME UploadInv, CardInv, [UploadNext]_uploadVars PROVE CardInv'
  OBVIOUS
<1>t. cardVisit \in Nat /\ posts \subseteq Upload_
  BY DEF UploadInv, UploadTypes
<1>1. CASE UNCHANGED uploadVars
  BY <1>1, QuietWaits DEF uploadVars
<1>2. ASSUME NEW f \in Files, Choose(f) PROVE CardInv'
  BY <1>2, QuietWaits DEF Choose
<1>3. ASSUME NEW r \in reading, Read(r) \/ ReadFails(r) PROVE CardInv'
  BY <1>3, QuietWaits DEF Read, ReadFails
<1>4. CASE SubmitFile
  <2>1. PICK q : q = [id |-> uploads', visit |-> cardVisit, file |-> file, step |-> "sent", batch |-> 0]
    OBVIOUS
  <2>2. /\ posts' = posts \cup {q} /\ q.visit = cardVisit
        /\ mutation' = "pending" /\ UNCHANGED <<cardVisit, cardOpen>>
    BY <1>4, <2>1 DEF SubmitFile
  <2>3. cardOpen /\ mutation # "pending"
    BY <1>4 DEF SubmitFile
  <2>4. \A s \in posts : s.visit # cardVisit
    BY <2>3 DEF CardInv, CardWaitsForUpload
  <2>5. {s \in posts' : s.visit = cardVisit'} = {q} /\ q \in posts'
    BY <2>2, <2>4
  <2>6. \A s \in posts' : s.visit <= cardVisit'
    BY <1>t, <2>2 DEF CardInv
  <2> QED
    BY <2>2, <2>3, <2>5, <2>6 DEF CardInv, CardWaitsForUpload
<1>5. CASE LeaveCard
  BY <1>5, LeftWaits DEF LeaveCard, Reset
<1>6. CASE Return
  <2>1. /\ cardVisit' = cardVisit + 1 /\ UNCHANGED <<posts, mutation>> /\ ~cardOpen
    BY <1>6 DEF Return
  <2>2. \A q \in posts : q.visit \in Nat /\ q.visit <= cardVisit
    BY <1>t DEF CardInv, Upload_
  <2>3. \A q \in posts' : q.visit # cardVisit' /\ q.visit <= cardVisit'
    BY <1>t, <2>1, <2>2
  <2>4. mutation' # "pending"
    BY <2>1 DEF CardInv, CardWaitsForUpload
  <2> QED
    BY <2>3, <2>4 DEF CardInv, CardWaitsForUpload
<1>7. CASE Crash
  <2> DEFINE f == [r \in posts |-> [r EXCEPT !.step = IF @ = "accepted" THEN @ ELSE "refused"]]
  <2>1. posts' = {f[r] : r \in posts}
    BY <1>7 DEF Crash
  <2>2. \A r \in posts : f[r].visit = r.visit
    BY <1>t DEF Upload_
  <2>3. UNCHANGED <<cardVisit, cardOpen, mutation>>
    BY <1>7 DEF Crash, client
  <2> HIDE DEF f
  <2> QED
    BY <2>1, <2>2, <2>3, ServedWaits
<1>8. ASSUME NEW r \in posts, NEW s, At(r, s), UNCHANGED client PROVE CardInv'
  <2>1. PICK q : q = [r EXCEPT !.step = s]
    OBVIOUS
  <2>2. q.visit = r.visit
    BY <1>t, <2>1 DEF Upload_
  <2> QED
    BY <1>8, <2>1, <2>2, TakenWaits DEF At, client
<1>9. ASSUME NEW r \in posts,
             Reject(r) \/ CreatePayments(r) \/ Dispatch(r) \/ StatementFails(r) \/ AnswerLost(r)
      PROVE  CardInv'
  BY <1>8, <1>9 DEF Reject, CreatePayments, Dispatch, StatementFails, AnswerLost
<1>10. ASSUME NEW r \in posts, CreateBatch(r) PROVE CardInv'
  <2>1. PICK q : q = [r EXCEPT !.step = "created", !.batch = Len(batches')]
    OBVIOUS
  <2>2. q.visit = r.visit
    BY <1>t, <2>1 DEF Upload_
  <2> QED
    BY <1>10, <2>1, <2>2, TakenWaits DEF CreateBatch, client
<1>11. ASSUME NEW r \in posts, Accepted(r) PROVE CardInv'
  BY <1>11, LeftWaits DEF Accepted, Reset
<1>12. ASSUME NEW r \in posts, Failed(r) PROVE CardInv'
  <2>1. /\ posts' = posts \ {r} /\ UNCHANGED <<cardVisit, cardOpen>>
        /\ mutation' = IF cardOpen /\ r.visit = cardVisit THEN "failed" ELSE mutation
    BY <1>12 DEF Failed
  <2>2. \A q \in posts' : q.visit <= cardVisit'
    BY <2>1 DEF CardInv
  <2>3. CASE mutation = "pending"
    <3>1. PICK s \in posts : UnderWay = {s} /\ cardOpen
      BY <2>3 DEF CardInv, CardWaitsForUpload, UnderWay
    <3>2. CASE r.visit = cardVisit
      <4>1. r = s /\ mutation' = "failed"
        BY <2>1, <3>1, <3>2 DEF UnderWay
      <4>2. \A q \in posts' : q.visit # cardVisit'
        BY <2>1, <3>1, <4>1 DEF UnderWay
      <4> QED
        BY <2>2, <4>1, <4>2 DEF CardInv, CardWaitsForUpload
    <3>3. CASE r.visit # cardVisit
      <4>1. mutation' = "pending" /\ cardOpen'
        BY <2>1, <2>3, <3>1, <3>3
      <4>2. {q \in posts' : q.visit = cardVisit'} = {s} /\ s \in posts'
        BY <2>1, <3>1, <3>3 DEF UnderWay
      <4> QED
        BY <2>2, <4>1, <4>2 DEF CardInv, CardWaitsForUpload
    <3> QED
      BY <3>2, <3>3
  <2>4. CASE mutation # "pending"
    <3>1. mutation' # "pending"
      BY <2>1, <2>4
    <3> QED
      BY <2>1, <2>2, <2>4, <3>1 DEF CardInv, CardWaitsForUpload
  <2> QED
    BY <2>3, <2>4
<1> QED
  BY <1>1, <1>2, <1>3, <1>4, <1>5, <1>6, <1>7, <1>9, <1>10, <1>11, <1>12
     DEF UploadNext, ServeUpload, ReceiveUpload

\* The card never sends an upload while one of the same visit is under way, and never waits
\* for one that has been answered, however often the dashboard is left and opened again and
\* whatever fails.
THEOREM CardsWaitForUploads == UploadSpec => []CardWaitsForUpload
<1>1. UploadInit => CardInv
  BY DEF UploadInit, CardInv, CardWaitsForUpload
<1>2. CardInv => CardWaitsForUpload
  BY DEF CardInv
<1> QED
  BY <1>1, <1>2, InitUpload, NextUpload, NextCard, PTL DEF UploadSpec

=============================================================================
