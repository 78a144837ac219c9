------------------------------- MODULE Upload -------------------------------
(***************************************************************************)
(* From the choice of a file to a batch under way: the upload card of the  *)
(* dashboard, which reads a chosen file before it shows it, the request,   *)
(* and ProcessUpload, which writes the batch and its payments in two       *)
(* transactions and then starts the processing.                            *)
(*                                                                         *)
(* A file is known by what is made of it: its extension is refused, it has *)
(* no row, the server finds errors in it, or it is good.                   *)
(***************************************************************************)
EXTENDS Naturals, Sequences, Functions

CONSTANTS
  GoodFiles, BadRows, NoRows, NotCsv, \* the four kinds of files
  NoFile,
  MaxChoices,     \* bound on the files that are chosen
  MaxUploads,     \* bound on the uploads
  MaxCardVisits,  \* bound on how often the dashboard is opened
  MaxUploadFaults \* bound on failing reads and statements, lost answers and crashes

Files == GoodFiles \cup BadRows \cup NoRows \cup NotCsv

ASSUME FilesAssumption == NoFile \notin Files
ASSUME UploadBounds    == /\ {MaxChoices, MaxUploads, MaxUploadFaults} \subseteq Nat
                          /\ MaxCardVisits \in Nat \ {0}

VARIABLES
  batches,   \* rows of batches: their file, whether their payments are stored, whether
             \* Dispatch has been started
  posts,     \* uploads the browser has no answer to
  uploads,   \* number of uploads so far
  cardVisit, \* number of the visit to the dashboard
  cardOpen,  \* the dashboard is open
  reading,   \* files that have been chosen and not been read yet
  choices,   \* number of choices so far
  file,      \* selectedFile, with its preview
  invalid,   \* validationError is set
  mutation,  \* state of the upload mutation
  opened,    \* batches whose page an upload has opened
  uploadFaults

uploadServer == <<batches>>
card         == <<reading, choices, file, invalid>>
uploadVars   == <<batches, posts, uploads, cardVisit, cardOpen, reading, choices, file,
            invalid, mutation, opened, uploadFaults>>

Batch == [file : Files, stored : BOOLEAN, dispatched : BOOLEAN]

UploadRequest == [id : 1..MaxUploads, visit : 1..MaxCardVisits, file : Files,
            step : {"sent", "created", "stored", "accepted", "refused"}, batch : 0..MaxUploads]

UploadTypeOK ==
  /\ batches \in Seq(Batch) /\ Len(batches) <= MaxUploads
  /\ posts \subseteq UploadRequest
  /\ uploads \in 0..MaxUploads /\ choices \in 0..MaxChoices
  /\ cardVisit \in 1..MaxCardVisits
  /\ cardOpen \in BOOLEAN
  /\ reading \subseteq [no : 1..MaxChoices, file : Files \ NotCsv]
  /\ file \in GoodFiles \cup BadRows \cup {NoFile}
  /\ invalid \in BOOLEAN
  /\ mutation \in {"idle", "pending", "failed"}
  /\ opened \subseteq DOMAIN batches
  /\ uploadFaults \in 0..MaxUploadFaults

UploadInit ==
  /\ batches = <<>>
  /\ posts = {}
  /\ uploads = 0
  /\ cardVisit = 1
  /\ cardOpen = TRUE
  /\ reading = {}
  /\ choices = 0
  /\ file = NoFile
  /\ invalid = FALSE
  /\ mutation = "idle"
  /\ opened = {}
  /\ uploadFaults = 0

Fault == uploadFaults < MaxUploadFaults /\ uploadFaults' = uploadFaults + 1

-----------------------------------------------------------------------------
(* The card *)

Refuse == file' = NoFile /\ invalid' = TRUE

\* handleFile, up to the read; the input and the drop zone are closed during an upload.
Choose(f) ==
  /\ cardOpen /\ mutation # "pending"
  /\ choices < MaxChoices
  /\ choices' = choices + 1
  /\ mutation' = "idle"
  /\ IF f \in NotCsv THEN Refuse /\ UNCHANGED reading
     ELSE /\ reading' = reading \cup {[no |-> choices', file |-> f]}
          /\ UNCHANGED <<file, invalid>>
  /\ UNCHANGED <<uploadServer, posts, uploads, cardVisit, cardOpen, opened, uploadFaults>>

\* handleFile, after the read.  Nothing tells whether another file has been chosen.
Read(r) ==
  /\ reading' = reading \ {r}
  /\ IF r.file \in NoRows THEN Refuse ELSE file' = r.file /\ invalid' = FALSE
  /\ UNCHANGED <<uploadServer, posts, uploads, cardVisit, cardOpen, choices, mutation,
                 opened, uploadFaults>>

\* The promise of handleFile is rejected and nobody looks at it.
ReadFails(r) ==
  /\ Fault
  /\ reading' = reading \ {r}
  /\ UNCHANGED <<uploadServer, posts, uploads, cardVisit, cardOpen, choices, file, invalid,
                 mutation, opened>>

\* handleSubmit
SubmitFile ==
  /\ cardOpen
  /\ file # NoFile /\ mutation # "pending"
  /\ uploads < MaxUploads
  /\ uploads' = uploads + 1
  /\ mutation' = "pending"
  /\ posts' = posts \cup
       {[id |-> uploads', visit |-> cardVisit, file |-> file, step |-> "sent", batch |-> 0]}
  /\ UNCHANGED <<uploadServer, cardVisit, cardOpen, card, opened, uploadFaults>>

Reset ==
  /\ reading' = {}
  /\ file' = NoFile
  /\ invalid' = FALSE
  /\ mutation' = "idle"
  /\ UNCHANGED choices

LeaveCard ==
  /\ cardOpen
  /\ cardOpen' = FALSE
  /\ Reset
  /\ UNCHANGED <<uploadServer, posts, uploads, cardVisit, opened, uploadFaults>>

Return ==
  /\ ~cardOpen
  /\ cardVisit < MaxCardVisits
  /\ cardVisit' = cardVisit + 1
  /\ cardOpen' = TRUE
  /\ UNCHANGED <<uploadServer, posts, uploads, card, mutation, opened, uploadFaults>>

\* navigate(): the page of the batch, wherever the user is by now.
Accepted(r) ==
  /\ r.step = "accepted"
  /\ posts' = posts \ {r}
  /\ opened' = opened \cup {r.batch}
  /\ cardOpen' = FALSE
  /\ Reset
  /\ UNCHANGED <<uploadServer, uploads, cardVisit, uploadFaults>>

\* Mutation: the mutation is never told.
FailedSilently(r) ==
  /\ r.step = "refused"
  /\ posts' = posts \ {r}
  /\ UNCHANGED <<uploadServer, uploads, cardVisit, cardOpen, card, mutation, opened, uploadFaults>>

\* An error is kept for the card that sent the request.
Failed(r) ==
  /\ r.step = "refused"
  /\ posts' = posts \ {r}
  /\ mutation' = IF cardOpen /\ r.visit = cardVisit THEN "failed" ELSE mutation
  /\ UNCHANGED <<uploadServer, uploads, cardVisit, cardOpen, card, opened, uploadFaults>>

-----------------------------------------------------------------------------
(* ProcessUpload *)

At(r, s) == posts' = (posts \ {r}) \cup {[r EXCEPT !.step = s]}

client == <<uploads, cardVisit, cardOpen, reading, choices, file, invalid, mutation, opened>>

\* ParseCSV finds errors, in one row or in all of them.
Reject(r) ==
  /\ r.step = "sent"
  /\ r.file \in BadRows
  /\ At(r, "refused")
  /\ UNCHANGED <<batches, client, uploadFaults>>

\* The first transaction.
CreateBatch(r) ==
  /\ r.step = "sent"
  /\ r.file \notin BadRows
  /\ batches' = Append(batches, [file |-> r.file, stored |-> FALSE, dispatched |-> FALSE])
  /\ posts' = (posts \ {r}) \cup {[r EXCEPT !.step = "created", !.batch = Len(batches')]}
  /\ UNCHANGED <<client, uploadFaults>>

\* The second one: all payments, or none.
CreatePayments(r) ==
  /\ r.step = "created"
  /\ batches' = [batches EXCEPT ![r.batch].stored = TRUE]
  /\ At(r, "stored")
  /\ UNCHANGED <<client, uploadFaults>>

\* Mutation: an error of CreatePayments is not returned.
StatementFailsUnnoticed(r) ==
  /\ r.step \in {"sent", "created"}
  /\ Fault
  /\ At(r, IF r.step = "created" THEN "stored" ELSE "refused")
  /\ UNCHANGED <<batches, client>>

\* A transaction fails, or its commit does not come back: ProcessUpload gives up, and
\* what is committed stays.
StatementFails(r) ==
  /\ r.step \in {"sent", "created"}
  /\ Fault
  /\ At(r, "refused")
  /\ CASE r.step = "created" -> \/ UNCHANGED batches
                                \/ batches' = [batches EXCEPT ![r.batch].stored = TRUE]
       [] OTHER -> \/ UNCHANGED batches
                   \/ /\ r.file \notin BadRows
                      /\ batches' = Append(batches, [file |-> r.file, stored |-> FALSE,
                                                     dispatched |-> FALSE])
  /\ UNCHANGED client

\* go Dispatch, and the answer.
Dispatch(r) ==
  /\ r.step = "stored"
  /\ batches' = [batches EXCEPT ![r.batch].dispatched = TRUE]
  /\ At(r, "accepted")
  /\ UNCHANGED <<client, uploadFaults>>

\* The answer, or the connection, is lost.
AnswerLost(r) ==
  /\ r.step = "accepted"
  /\ Fault
  /\ At(r, "refused")
  /\ UNCHANGED <<batches, client>>

\* The server dies with every request it handles.
Crash ==
  /\ Fault
  /\ posts' = {[r EXCEPT !.step = IF @ = "accepted" THEN @ ELSE "refused"] : r \in posts}
  /\ UNCHANGED <<batches, client>>

-----------------------------------------------------------------------------
ServeUpload(r) == Reject(r) \/ CreateBatch(r) \/ CreatePayments(r) \/ Dispatch(r)

ReceiveUpload(r) == Accepted(r) \/ Failed(r)

UploadNext ==
  \/ \E f \in Files : Choose(f)
  \/ \E r \in reading : Read(r) \/ ReadFails(r)
  \/ SubmitFile \/ LeaveCard \/ Return \/ Crash
  \/ \E r \in posts : ServeUpload(r) \/ ReceiveUpload(r) \/ StatementFails(r) \/ AnswerLost(r)

UploadSpec == UploadInit /\ [][UploadNext]_uploadVars

\* Requests are handled and answered.
UploadFairness == WF_uploadVars(\E r \in posts : ServeUpload(r) \/ ReceiveUpload(r))

UploadFairSpec == UploadSpec /\ UploadFairness

-----------------------------------------------------------------------------
(* Properties *)

\* Where an upload has led, there is a batch with its payments, and its processing has
\* been started.
OpenedIsDispatched == \A b \in opened : batches[b].dispatched /\ batches[b].stored

\* The processing is started for stored payments only, whatever failed before: a batch
\* that lost its payments, or whose commit was not confirmed, is left alone.
DispatchedIsStored == \A b \in DOMAIN batches : batches[b].dispatched => batches[b].stored

\* A file with errors leaves nothing behind.
RefusedLeavesNothing == \A b \in DOMAIN batches : batches[b].file \in GoodFiles

\* An upload is taken as a whole or not at all, although it is two transactions and a
\* goroutine: what is shown as accepted is stored and under way, what is under way is
\* stored, and what is refused for its rows has left no trace.
UploadIsWhole == OpenedIsDispatched /\ DispatchedIsStored /\ RefusedLeavesNothing

\* A card that waits has one upload under way, and one that does not wait has none: the
\* same visit never uploads twice at a time, and never waits for what has been answered.
CardWaitsForUpload ==
  IF mutation = "pending"
  THEN cardOpen /\ \E r \in posts : {q \in posts : q.visit = cardVisit} = {r}
  ELSE cardOpen => \A q \in posts : q.visit # cardVisit

\* A card that waits for its upload comes to an end, with a page or with an error.
UploadEnds == mutation = "pending" ~> mutation # "pending"

=============================================================================
