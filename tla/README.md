# Flash Pay: formal model

TLA+ specifications of the Flash Pay backend (and of the parts of its frontend
that keep state), with the TLC configurations that check them on small
instances and the TLAPS proofs of what matters most. Paths are relative to
`src/`; `backend/` stands for `apps/backend/internal/`.

## 1. The system

An operator uploads a CSV of payments. The backend stores a *batch* row and its
*payment* rows, answers at once, and processes the payments in a pool of
goroutines that call a (simulated) gateway. Browsers follow a batch over
Server-Sent Events and fall back on snapshots of the batch detail.

| Component | State it keeps | Operations | Talks to |
|---|---|---|---|
| Worker pool, `backend/worker/pool.go` | the job channel of each `Dispatch`, its goroutines | `Dispatch`, `process` | payment repository, gateway, stream broker |
| Payment repository, `backend/payment/repository.go` | `payments`, and the status column of `batches` | `UpdateStatus` (one transaction, two statements), `SetProcessedAt`, `CreatePayments`, `CountByStatus`, `FindByBatchID` | PostgreSQL at READ COMMITTED through a pgx pool |
| Gateway, `backend/gateway/gateway.go` | random source | `ProcessPayment` | - |
| Stream broker, `backend/batch/stream.go` | map of subscriptions per batch, one buffered channel each | `Subscribe`, `publish`, `removeSubscriber`, `closeBatch` | workers publish, handlers read |
| Stream endpoint, `backend/batch/service.go` `Stream`, `backend/batch/handler.go` `Stream` | one subscription per request | subscribe, count, forward, keep-alive, close | broker, payment repository |
| Batch upload and queries, `backend/batch/{service,repository,handler}.go` | `batches` | `ProcessUpload`, `GetByID`, `List`, `ListAll` | parser, both repositories, worker pool |
| CSV parser, `backend/payment/parser.go` | - | `ParseCSV` | - |
| Authentication and users, `backend/auth`, `backend/user`, `apps/backend/pkg/middleware` | `users`; a role inside each token | register, login, role change, deletion, token and role checks | PostgreSQL |
| Server process, `apps/backend/cmd/server/main.go` | everything in memory | start, death, restart by docker-compose (`restart: on-failure`) | all of the above |
| Batch view, `apps/frontend/src/features/batches` `hooks/useBatchStream.ts`, `store/batchDetailsSlice.ts`, `components/BatchProgressCard.tsx` | the runtime of each watched batch in a Redux slice; filter and export of the card | SSE hook with reconnects, snapshot requests, reducers, parsing of the stream | stream and detail endpoints |
| Upload card, `components/BatchUploadCard.tsx` | the chosen file, its preview, the request under way | choose, read, submit | upload endpoint |
| Batch history, `components/BatchHistoryCard.tsx` | a cached, polled list of batches | poll, count, label | list endpoint |
| Registration form, `features/auth`, `pages/RegisterPage.tsx` | field values and messages | edit, validate, submit | register endpoint |
| Session, `features/auth`, `app`, `routes` | the auth slice of every tab; one `localStorage` for all | login, logout, 401, guards and redirects, reload | REST endpoints, other tabs through the storage |
| Administration pages, `pages/AdminUsersPage.tsx`, `pages/AdminBatchesPage.tsx` | optimistic roles, dialog, filters, page number, query cache | role change, deletion, filtering, paging | REST endpoints |
| Load harness, `scripts/load/run.mjs` | one scenario per batch, a summary, the exit code | register, upload, stream, poll, assert | REST and SSE |
| Observability; the stub `cmd/api`; vendored code | counters, logs | - | written by all, read by nothing |

What is hard about it:

* **Concurrency in the database.** Every status change of a payment also
  rewrites the status of its batch, from counts taken in a statement snapshot;
  the workers of a batch do this at the same time.
* **Concurrency in memory.** Publishers send to channels after releasing the
  lock under which the channels are closed.
* **Ordering.** A stream subscribes, counts, and reads while the batch finishes;
  the frontend asks for snapshots without ordering the answers.
* **Failure.** Any database call may fail, or take effect with its answer lost;
  the process may die with all queued work; an upload consists of two
  independent transactions.
* **Bounds.** Channels of 32 events; a connection pool smaller than the workers,
  whose number grows with the batches under way.
* **Text cut anywhere.** Chunks of a stream end within frames; the browser counts
  UTF-16 units where the server counts bytes; records of a CSV span lines.
* **Copies.** Tokens carry a frozen role; the query cache, optimistic roles, the
  preview of a file and `localStorage` are copies that go stale.

What makes each component correct:

* *pool and repository*: a payment is charged at most once; its stored result is
  the gateway's answer; a final batch status is true and stays; without errors
  nothing is left behind; Dispatch ends.
* *broker*: no channel is closed twice or sent to after its close; a stream has
  no holes; every stream of a batch ends with it.
* *stream endpoint*: no client misses the end of a batch or is told too early.
* *upload and queries*: a batch has all its payments or is not reported as
  accepted; answers are consistent with some moment of the tables.
* *accounts*: one account per address, roles that take effect, at least the
  actor's own role protected.
* *batch view, history and administration pages*: what is shown was once stored,
  and what is stored comes to be shown; no control stays disabled.
* *session*: user and token belong together; the storage is a copy of a tab; no
  redirect loop; an expired session ends.
* *parser, preview and form*: the two ends of a contract do not contradict each
  other where it matters.
* *harness*: it ends, and it does not report a success that is none.

## 2. Modules

| Module | Models |
|---|---|
| `PaymentStatus` | the status enumeration and the `CASE` that derives a batch status |
| `BatchLedger` | abstract: what readers of the two tables may rely on |
| `BatchFeed` | abstract: what a follower of tables and stream sees of a batch until a call fails |
| `WorkerPool` | `Dispatch`, `process` and the repository calls of one batch |
| `WorkerPoolInv` | the inductive invariant of `WorkerPool` |
| `StreamBroker` | the broker and the goroutines that use it, for one batch |
| `BatchStream` | the stream endpoint and reconnecting clients, on top of `StreamBroker` |
| `ConnectionPool` | several batches and requests on one pool of connections |
| `Accounts` | registration, login, roles, deletion, tokens |
| `CsvParser` | `ParseCSV`, and the preview of the same file in the browser |
| `Upload` | the upload card, the request, `ProcessUpload` |
| `BatchView` | the detail page: hook, slice, snapshots and stream |
| `BatchTools` | filter and export of the detail page, on top of `BatchView` |
| `SseFraming` | the bytes of a stream: `writeSSEEvent` and its reader |
| `BatchHistory` | the polled list of the dashboard |
| `RegisterForm` | the registration form and both validations |
| `Session` | tabs, storage, guards, expiry |
| `AdminUsers`, `AdminBatches` | the two pages of the administrators |
| `LoadHarness` | the load script |
| `MCWorkerPool`, `MCStreamBroker`, `MCBatchStream` | instances for TLC |
| `MCFrontend`, `MCService` | several parts side by side, for TLC |
| `Accounts_proofs`, `BatchStream_proofs`, `BatchView_proofs`, `Frontend_proofs`, `Service_proofs`, `StreamBroker_proofs`, `Upload_proofs`, `WorkerPool_proofs` | theorems |

How they fit together:

* `BatchLedger` is what joins backend and frontend. `WorkerPool` implements it
  (`status` and `batchStatus` are the committed columns), and what `BatchView`
  takes for the backend implements it too (`StoredIsALedger`, with the batch
  status derived from `stored`). The page is therefore checked against a
  backend that keeps the promises the pool has been shown to keep.
* `BatchFeed` adds the stream: each status is stored, then published, then the next
  one stored, and `batch_done` comes last. `WorkerPool` keeps to it until a database
  call fails (`FeedUntilError`), and the backend inside `BatchView` implements it
  (`FeedRefinement`). The page is checked with failures of its stream and its
  requests, but not with payments the pool has lost: those are the business of
  `BatchStream` and finding 4.
* `BatchStream` is built from the actions of `StreamBroker` and implements it
  (`StreamRefinement`), so the theorems of the broker hold of the streams clients
  get.
* `BatchTools` extends `BatchView`: every step of the page is a step of
  `BatchView` under the tools.
* `MCFrontend` and `MCService` put parts that share no variable next to each
  other. A behaviour moves one part and leaves the others in one initial state.
  A property that speaks of one part sees all behaviours of that part, so TLC
  explores the sum of the state spaces instead of their product and nothing is
  lost.

Operators introduced by "Mutation:" are faulty variants of the definition that
follows them. No specification uses them. Put in the place of that definition
each of them makes one property fail, which shows that the property depends on
the code it is about; `PROJECT.json` pairs them.

### WorkerPool

A worker's `pc` names the call it is about to make:

| `pc` | code |
|---|---|
| `receive` | `for paymentID := range jobs` (`pool.go:80`) |
| `begin`, `payment`, `count`, `lock`, `commit` | `UpdateStatus`: `BeginTx`, first statement, snapshot and counts of the second statement, its wait for the batch row and the write, `Commit` |
| `announce` | `publishPaymentStatus` |
| `gateway` | `gateway.ProcessPayment` |
| `stamp` | `SetProcessedAt` |
| `exited` | the goroutine has returned |

`status` and `batchStatus` are the committed columns. What an open transaction
has written is not a variable: it is `target[w]` for `job[w]`, and `Snapshot(w)`
is the payments table as the transaction sees it. At READ COMMITTED an `UPDATE`
that has to wait for a row re-reads that row only and keeps the rest of its
input, so the status computed from the `counts` subquery (`counted[w]`) survives
the wait: `CountPayments` and `UpdateBatch` are two steps. `batchLock` is the row
lock of the batch, held from the write to the end of the transaction.

The channel is FIFO and as large as the batch, so it is two cursors. Failures:
any call of `UpdateStatus` may fail and roll back (`UpdateStatusFails`), a commit
may succeed with its answer lost (`CommitLost`), `SetProcessedAt` may fail with or
without effect, and the process may die at any point (`Crash`); `main` does not
look for unfinished batches, so nothing follows a crash. `calls`, `outcome` and
`announced` record what the gateway and the subscribers have seen.

`calls` counts `ProcessPayment` calls whatever they answer. The gateway always
answers: its context is `context.Background()`.

### StreamBroker

One batch, whose subscriptions `Subs` each belong to one stream request. A
publisher copies `registered` (`BeginPublish`, under the read lock), sends to the
copied subscribers one at a time and in any order (`SendOne`; Go's map order is
random), and removes those it found full (`Evict`). `CloseAll` is the critical
section in which subscriptions leave the map and their channels are closed. A
send on a closed channel and a second close set `panicked`; nothing moves after
that, since the panic is in a goroutine without `recover` and ends the process.
Events are numbered per publisher, which is all the properties tell apart.

### BatchStream

Extends `StreamBroker`: its actions are conjunctions of a broker action and what
the step means to the endpoint. Workers are reduced to what a stream can
observe: a status is committed, then announced; `final` is what
`CountByStatus` would answer as success plus failed. A client opens its next
request when the last one has ended and it has not seen `batch_done`, which is
the loop of `useBatchStream`.

### ConnectionPool

Every `Dispatch` starts its own `numWorkers` goroutines (`pool.go:75`), and all of
them share one pgx pool with the requests. A client of the pool goes `ready` ->
`waiting` (in `queue`, first come first served, no time limit) -> `holding`, a
worker further to `locked` when it has the row of its batch, then back. A worker
makes three calls per payment (`call`): `UpdateStatus`, the gateway,
`UpdateStatus`, `SetProcessedAt`; a failing call rolls back and gives the
connection up. A cancelled request leaves the queue. Statements inside a call are
those of `WorkerPool` and are not repeated here.

### Accounts

One operation per client, one action per statement: the look-up and the insert of
a registration are two steps, since `bcrypt` runs between them; the unique index
decides the race. Tokens are records of an id and the role at login; nothing
takes one back. `UpdateRole`, `DeleteUser` and uploads check the token's role
and only then the tables, whose foreign keys are part of the guard of
`DeleteUser`. The seed administrator `First` is the one made by hand.

### Upload

`batches` are rows with their file, whether their payments are stored, whether
`Dispatch` has started. A request goes through `sent`, `created` (first
transaction), `stored` (second), `accepted` or `refused`; statements may fail
with or without effect (`StatementFails`, lost answers), and the server may die between any two of
them. The card chooses (`choices`), reads asynchronously (`reading`, a set: a
later file may be read earlier), sends, and leaves or comes back (`cardVisit`);
an accepted upload opens
the page of its batch even if its card has gone meanwhile.

### BatchView and BatchTools

`stored`, `published`, `done` are the backend seen from outside. A detail request
runs its two queries separately (`asked`, `counted`, `answered`) and may be
overtaken by others. `hook` is the place in the loop of `useBatchStream`; `wire`
the open stream. `Move` is the reducer's decrement and increment with its clamp
at zero. `denied` is a batch the user may not see. The reducers that run with a
received event or answer are part of the action that receives it.
`BatchTools` adds the filter's checkbox and the export, which read what the page
shows at the moment.

### SseFraming

The text of a stream as pieces (field name, value, line feed): a chunk may end
between any two. `ReadChunk` is one round of the reader's loop: append, cut at
blank lines, parse every full frame, keep the `Rest`. The connection may be lost
with what was on its way.

### BatchHistory

A batch of `Total` payments passes through the tables as its user polls. The list
answers with two queries (rows, then counts); `CountSummaries` is the sum per
status in `service.List`, and the label and the percentage are computed from the row.

### RegisterForm

A text is how many of its characters take one, two, three and four bytes; its
length in JavaScript and in Go follow. Browser and backend validate in turn; the
answer to a request may find fields edited since.

### Session

A token is the number of the sign-in that issued it. `storage` is shared by the
tabs, `session[t]` is the slice of a tab and is read from `storage` when the tab
loads. A reducer runs to its end before its tab does anything else, but nothing
keeps other tabs from `localStorage` between two of its calls, so each call is a
step: `midway[t]` says what tab `t` has left to do before it goes on.

| Code (`authSlice.ts`) | Steps |
|---|---|
| `setCredentials`, lines 103, 104 | `SetCredentials` (slice and token), `WriteUser` |
| `logout`, lines 106-111 and 68, 69 | `Logout` (slice, token removed), `WriteUser` (user removed) |
| `hydrateAuthState`, lines 73, 74 | `Load` (token read), `ReadUser`; what is not complete and valid goes through `ClearToken` and `WriteUser` |

A tab is not closed or killed between two of its calls. `crossed` is a history
variable: some tab has signed in while another was in the middle of signing in or
of being loaded, or was loaded while another was in the middle of signing in. It
is the exact condition of `CredentialsMatch`: without any of its three parts TLC
finds a tab with a token and somebody else's name. An example: one tab
signs in as the second account and has written the token but not yet the user, another
is loaded and reads the new token with the first account's name; its requests are
those of the second account, and its page greets the first. Signing out needs no such
condition, because the user it leaves for a moment has no token beside it.

`Destination` combines the routes of `App.tsx` with the guards of
`ProtectedRoute.tsx`; a redirect is a step of its own, so a loop would be seen. Tokens expire
at any moment; a 401 clears the session of the tab that gets it.

### AdminUsers and AdminBatches

`AdminUsers`: the table (`roles`, `owners`), what other people do to it, requests
the server has not handled, the cached list with its refetch (`fetch`,
`snapshot`), and the page's `override`, `pending`, `candidate`. `AdminBatches`:
filter and page, the query cache with entries older than 30 seconds, the answer
the hook shows while it waits for the current one, and the two effects, which run
in the action that changes what they depend on.

### CsvParser

A line is one of nine kinds. `BeginParse` and `EndParse` are the record reader of
`encoding/csv` (blank lines skipped, quotes swallow line feeds); `ReadHeader` and
`ReadRecord` are `ParseCSV`. The preview of the upload card reads the same lines.

### LoadHarness

`main` with its registration, `Promise.all` and exit code; each scenario with its
upload, stream or polling, and time-outs in ticks; the backend as batches whose
payments finish, get lost, and are announced.

## 3. Runs

| Run | Instance | Shows |
|---|---|---|
| `pool` | 3 workers, 3 payments, 2 connections, 1 failure, crash | a payment is charged once; what is announced is committed; a final batch status is true; without errors nothing is left behind; Dispatch waits only for workers that go on, and ends unless the process is killed: no deadlock between connections and row lock; the pool implements `BatchLedger`, and `BatchFeed` until a call fails |
| `pool_stale_batch` | 2 workers, 2 payments, no failure | *violated*: the batch row can stay at `processing` (finding 1) |
| `pool_done_count` | 1 worker, 2 payments, 1 failure | *violated*: `batch_done` counts payments that are not final (finding 2) |
| `broker_panic` | 2 workers, 1 event each, 1 subscription | *violated*: send on a closed channel (finding 3) |
| `stream_safety` | 2 workers, 2 payments, 2 clients with 1 request each, buffer of 1, 1 failure | channels are closed once, streams have no holes, who is registered misses nothing, `batch_done` is last and is not early; unless the database call has failed no stream waits for a `batch_done` that is already published |
| `stream_liveness` | 2 workers, 2 payments, 1 client with 3 requests | clients that are cut off and connect again learn that the batch is done |
| `stream_lost_payment` | 1 worker, 1 payment, 1 failure | *violated*: a late client waits forever (finding 4) |
| `frontend_safety` | eight parts, table below | what is shown, sent, exported or stored is true; name and token belong together unless two tabs have crossed; whoever waits has an answer coming; one redirect is enough |
| `frontend_liveness` | eight parts, table below | an open page comes to know the end of its batch, and the answer to its last request shows the batch as stored, until an older answer replaces it; lists catch up, nothing stays busy, nothing chases its own tail |
| `view_stale_snapshot` | 1 payment, 1 visit, no failure, no query of the page beside the hook's | *violated*: the page of a finished batch can go back to an old snapshot and stay there (finding 5) |
| `service_safety` | four parts, table below | accounts, connections without a circle of waiters, parser, harness |
| `service_liveness` | two parts, table below | dispatches, requests and load runs end |

Several properties are conjunctions of named parts that belong together
(`UploadIsWhole`, `KeepsItsPromises`, `ConnectionsAreShared`, `WatchingSucceeds` and others): the modules
state each part with its own comment.

Deadlock is checked in the runs of pool and streams; `Finished`, `Stopped` and
`Quiet` are the states in which those systems have nothing left to do. (In `pool` a
crash always remains possible: `WaitingIsForWorkers` and `DispatchCompletes` say
there that nobody is stuck.) In the
runs of frontend and service it is not: a user may stop clicking, and the
bounds on visits and choices run out. That nobody is stuck is there the
business of `SomebodyGoesOn` (in `ConnectionsAreShared`) and `WaitsAreForAnswers`, which say of every state who
can still end a wait, and of the liveness properties.

Four liveness properties have such a safety property beside them, which no
fairness is needed for and which is proved for all values of the constants:
`WaitingIsForWorkers` (beside `DispatchCompletes`), `SomebodyGoesOn`
(`EverybodyIsServed`), `WaitsAreForAnswers` (`NothingStaysBusy`) and
`RedirectsAreFew` (`NavigationSettles`).

**Bounds of pool and streams.** Two workers are enough for every race of the
pool, since a race is between one transaction that has counted and one that
commits; the third one of `pool` waits for a connection while two transactions are
open, one of which may wait for the batch row of the other; three payments let a
worker take a further job while another is inside a transaction, and give the derived status a mix of all four values. One failure
per run separates its effect from others; the theorems lift the bound. A buffer
of 1 makes evictions as likely as deliveries and behaves as one of 32 does: the
code only distinguishes full from not full. `Events` bounds what a worker
publishes, `Attempts` how often a client connects; the last attempt of a client
is not cut off, and the liveness property excuses a client whose attempts are
used up. Reconnects are the business of `stream_liveness`; `stream_safety` has one
request per client and two clients instead, and the theorems hold for any number
of requests.

**Bounds of frontend and service.**

| Part | Safety | Liveness | Why enough |
|---|---|---|---|
| page of a batch | 2 payments, 1 visit, 1 failure of stream, snapshot or access | 1 payment, 1 visit, 1 query of the cache, 1 stream failure | two payments make counters that cancel out visible; every race is between one snapshot and one event |
| its tools | 2 payments, no failure | 1 payment | an old snapshot suffices to empty the filtered list |
| stream text | - | 3 events, 1 comment | a chunk holds part of one frame, a full one and part of the next |
| upload card | 3 choices of 4 kinds of file, 2 uploads, 2 visits, 2 failures | 2 choices, 1 failure | a reading, an upload and an answer of an earlier visit can cross |
| history | 4 payments, 2 visits, 1 failing poll | 2 payments | four payments give every mix of the four statuses; that 100% leaves at most one payment in two hundred open says nothing at so small a size and is proved for every size (`HistoryTellsTheTruth`) |
| form | names and passwords on both sides of every limit, with characters of one to four bytes; 2 requests | - | the limits are compared, not computed with |
| users page | own account and one other, 2 visits, 1 operation of others, 1 lost answer | 1 visit | one optimistic role at a time: the controls are disabled meanwhile |
| batch list | 2 filters, 3 batches, pages of 2, 1 change, 1 lost page | 2 batches, pages of 1, no lost page | first and last page, and a page that has disappeared |
| session | 2 tabs, 2 accounts, 2 sign-ins, nothing left by an earlier visit | 1 tab, 2 calls, 1 lost, the administrator or nobody remembered from an earlier visit (`Remembered`) | tabs meet only in the storage; two calls can be answered in any order; what an earlier visit leaves two tabs can also leave themselves |
| accounts | 2 clients, 3 accounts, 2 addresses | - | a race is between two operations; the third account is the seed |
| connections | 2 batches, 2 workers each, 2 payments, 2 requests on 2 connections, 1 failure | 1 payment, 1 request, **1** connection | every connection can be held by a worker that waits for a row |
| parser | every file of up to five lines of nine kinds | - | header, a record over three lines, and a row behind it |
| harness | 3 batches of 2 payments (one invalid), streams, 1 lost payment each | 2 batches, polling, time-out 2 | a stream time-out followed by a polling time-out |

Symmetry is used in the two safety runs only, over payments and tabs, and over
clients, accounts (but the seed), batches and requests, which nothing tells apart.

**Fairness.** Only steps of programs, never of people, failures or expiry.

* `WorkerPool`, `BatchStream`: weak fairness of each worker, of Dispatch and of
  each handler: Go schedules runnable goroutines, the gateway's timer fires,
  PostgreSQL answers and grants a free row lock, and a connected client reads. Weak
  fairness of a worker's steps as a whole is enough, for the jobs are finite and
  a waiting worker is enabled for good once the others have finished.
* `ConnectionPool`: weak fairness of the pool's grants, of each worker and of
  answers; strong fairness of the row lock, because PostgreSQL queues waiters while
  the model has them compete.
* `BatchView`, `BatchTools`: weak fairness of the backend, the hook and the
  answering of requests. `SseFraming`: of the writing handler, the reader, the end of
  a lost stream. `Upload`: of requests and answers. `BatchHistory`: of the workers,
  the poll timer and answers. `AdminUsers`: of the page's own steps (refetch, answers)
  and the server. `AdminBatches`: of each query's answer.
  `Session`: per tab, of its calls of `localStorage`, of redirects, of the polling of the
  dashboard, of answers.
* `LoadHarness`: of `main` and of every scenario, whose time-outs are timers.

No run assumes an order in which requests are answered: the answers to detail
requests overtake each other in `frontend_liveness` too. `WatchingSucceeds` therefore
speaks of the answer asked for last (`LastSnapshotComes`) and of pages on which no
older one has come after it (`LastSnapshotIsTrue`, with `applied`, the number of the
answer taken over, and `made`, the number of requests); what happens otherwise is
finding 5.

## 4. Findings

1. *A finished batch may read `processing` forever.* Two workers commit their
   last payments together; each has counted the other's as processing; the
   second to get the row lock writes `processing` over `processing`, and no later
   transaction corrects it. `README.md:90`,
   `backend/batch/handler_integration_test.go:310`. `OneWorkerDerives` shows that
   the race of two workers is the only cause.
2. *`batch_done` reports payments as completed that are not.*
   `scripts/load/README.md:73`, `scripts/load/run.mjs:404`.
3. *A client that leaves can kill the server.* Send on a closed channel in a
   worker. `scripts/load/RESULTS.md:235`.
4. *After a lost payment late clients wait forever.* The service and the pool
   disagree on when a batch is done. `scripts/load/README.md:70`. This is why
   `NoOrphanedStream` is about runs in which no database call has failed.
5. *The page of a finished batch may show an old snapshot for good.*
   `useBatchStream.ts:229` does not wait for the snapshot it asks for and orders no
   answers. If the one asked for on connect is answered last, after the one asked
   for on `batch_done`, list, counters and progress go back to an unfinished batch,
   and nothing corrects them while the page is open. `README.md:96`,
   `useBatchStream.test.tsx:110`.

Noted while modelling, and kept out of what the properties claim:

* The checkbox of `BatchProgressCard.tsx:196` is disabled while no failed payment is
  shown: if the snapshot of finding 5 comes last while the filter is on, the list stays
  empty and the filter cannot be switched off. `FilterCanBeLeft` says that the page whose last
  answer was taken over does not stay like that.
* Two tabs can mix up their credentials in `localStorage`, as section 2 describes; no
  document says that they do not.
* `backend/batch/handler.go:128` flushes the header with status 200 before the
  service refuses access, so the branch of `useBatchStream.ts:200-206` for refused
  streams is not reached by it.
* `run.mjs:479` gives the polling a time-out of its own behind that of the
  stream: a batch may take twice what `scripts/load/README.md:32` says.
* `BatchUploadCard.tsx:74`: of two chosen files the one read last is selected, not
  the one chosen last; its test at line 83 shows one file only.
* `backend/auth/service.go:135` counts the bytes of a name where the message at
  line 136 and `forms.test.ts:76` speak of characters: sixty accented letters are accepted by
  the page and refused by the server.
* `backend/payment/parser.go:84` numbers records, not lines: with blank lines or
  quoted line feeds the number is not the one `BatchUploadCard.tsx:57` shows.

Consequences that surprise but contradict nothing: a dashboard opened within 30
seconds after an upload shows the cached list until the next poll; 100% is
rounded and can be shown from 200 payments on with one open; two administrators
can take each other's role; the answer of an old token's request ends a session
that has been renewed meanwhile; a change by a second administrator between a
confirmation and its refetch is hidden by the confirmed role, and a refetch may join an
older query when the page is opened again; a lost answer of a role change that took
effect leaves the list old; a CSV with a byte order mark is refused; the message
that an address is taken (`RegisterPage.tsx:55`) may be shown at an address edited
meanwhile.

## 5. Proofs

Every theorem holds for all values of the constants, from the named assumptions
of the modules alone: any number of payments, workers, connections, publishers,
subscriptions, files, texts, accounts, and any bound on failures.

**WorkerPool.** `TypeCorrect`; `InvCorrect`: the invariant `IInv`. The argument for
the batch status: a payment with an open transaction is not final in any other
snapshot (`ProgressMatchesLabel`, `JobsAreDistinct`), so a worker that has counted
only final payments is alone with an open transaction, what it counted is what
its commit leaves in the table (`CountedFinalIsRight`), and nobody commits after
it. `FinalBatchStatusIsTruthful` is not inductive by itself, because the status is
written from a value computed several steps earlier; likewise
`GatewayCalledAtMostOnce` needs to know that no two workers hold one job and that
a payment in the channel is untouched. `AtMostOneGatewayCall`,
`StoredResultIsTheAnswer`, `PublishedIsCommitted`, `FinalBatchStatusTruthful` are
conjuncts. `Refinement`: the two commits are the steps of `BatchLedger`, everything
else stutters. `OneWorkerDerives`: with one worker the row is derived after every
commit. `DoneIsAccountedFor`: a payment is lost when it was taken from the channel,
is in nobody's hands and is not settled; each failed database call loses at most
one, the dispatch ends after its workers and they after the channel is drained, so
at the end what is not settled is lost. `WaitIsForSomebody`: a worker inside a
transaction goes on, or the one that has locked the batch row does, which is about to
commit; a worker that waits for a connection does so while somebody is inside a
transaction. `PoolFeedsReaders`: without failures a worker commits a status only when the one before
has been announced (`ProgressMatchesLabel`), and when Dispatch ends nothing is
unsettled (`DoneIsAccountedFor` with no errors), so `batch_done` comes last. `PromisesAreKept`
puts the two refinements together.

**ConnectionPool** (`Service_proofs`). `ConnectionsInvCorrect`: a client that waits is queued,
once, and at a step that needs a connection; a client that holds one is at work; a goroutine that was
not dispatched is neither. `WhatIsHeldIsUsed` is a conjunct of it. `ConnectionsTypeCorrect`
adds that no more than `MaxConns` are held, which is about the cardinality of the
set of holders. The module assumes that goroutines and requests are distinct.
`NobodyWaitsForever`: the head of the queue is granted a connection, or all connections are held;
who holds one goes on, or waits for a row whose worker holds one too and goes on. So the
waiting has no circle, for any number of batches, workers, requests and at least one connection;
it needs `WaitersQueue`, that every waiting client is in the queue. `ConnectionsAreSharedAlways` is both.

**CsvParser** (`Service_proofs`). `FilesAreParsedAsWritten`, for files of any length, in three
invariants: `ReadInv` (types and the position), `ErrorsInv` (errors are numbered by records, and
records follow the lines), and `RecordsInv`: as long as no error was found, the rows are exactly the
payments up to the position, in order (`Heard`); from the first error on the file is not well formed.
Where a record begins and ends is defined by the least line with a property, so the induction over a
text is the choice of a least element (`Least`, from `WFMin` of `WellFoundedInduction`). A line lies
outside the quotes if an even number of them comes before it (`OutsideIsEven`), which ties the records of the
server to the well-formedness of a file and to the lines the preview counts.

**StreamBroker.** `TypeCorrect`, and `ChannelsAreClosedOnce`,
`MapHoldsOpenChannels` from `BrokerInv`: a channel is closed only in the critical
section that takes it out of the map. `StreamsHaveNoGaps`,
`SubscribersMissNothing`, `DoneEndsTheStream` from `StreamInv`, which says more than
they do about a publish under way: who is still to be sent to (`Copied`), that
nothing sent exceeds what was published (`Bounded`), that a registered stream that
nobody is sending to is up to date (`UpToDate`) and one whose send is outstanding lacks exactly
that event (`Gapless`), and that the end is published after everything (`Ended`).

**BatchStream.** `StreamRefinement`: every step is one of `StreamBroker` or leaves its
variables alone; `ServedStreamsAreWhole` carries the broker's theorems over.
`StreamTypeCorrect`. `NoStreamIsOrphaned` and `DoneIsTold`: what is left in the channel, what
is final and what busy workers hold add up to between `Total` minus the failures
and `Total` (`Accounted`), which is an argument about cardinalities; the done
event is published when nothing is left and nobody busy. So without a failure the count that a
stream takes after it has registered finds the batch finished if `batch_done` is already
published; after a failure it need not, which is finding 4.

**BatchView.** `ViewTypeCorrect`; `LedgerRefinement`, `FeedRefinement`: the backend the page is
checked against implements `BatchLedger` and `BatchFeed`; `ViewIsNeverAhead`: every snapshot, every event
on the wire and every request is old or present, never ahead of the tables, so
neither is the page, in whatever order they arrive. `CountersAreTrue`: the counts of a
snapshot are never ahead of its payments (`SnapshotsAgree`), an event moves one payment in
list and counts alike, and `batch_done` is on the wire only when nothing is open
(`DoneIsLate`), which is why setting `completed` to the total is right. `PagesAreNotAhead` is both. `LastSnapshotHolds`: requests are
told apart by their numbers, `batch_done` is read when nothing moves any more, and the request made
then is the last one, so both of its queries are answered with what stays stored.

**Upload.** `UploadInvCorrect`: every request knows how far its batch is.
`UploadsAreWhole`: opened implies dispatched, dispatched implies stored, refused
leaves nothing. `UploadTypeCorrect`: batches and uploads without one (`Unborn`) are together no more
than uploads. `CardsWaitForUploads`: in `CardInv`, no request is of a visit to come, and a step of the
server maps the one request of the visit to one of the same visit.

**BatchTools.** `ToolsRunOnThePage`: a step of the page with its tools is a step of the page.
`ExportsAreTrue`: what the page shows as failed is failed (`ViewIsNeverAhead`), and a stored failure stays.

**Accounts.** `AccountsTypeCorrect`, `AccountsInvCorrect`: types, `TokensAreKnown` (the token of the first
administrator is among those handed out, and whoever changes or deletes an
account holds the token of an administrator), and the three properties, which are
`EmailsAreUnique` and `OwnersRemain` (together `ConsistencyHolds`) and `FirstAdministratorRemains`. The last one
needs the tokens: an operation that is under way was let in by a token, and a
token may say more than the table.

**RegisterForm** (`Frontend_proofs`, like the next four). `PasswordContractHolds`:
arithmetic of units and bytes: a password the page lets pass is not refused by the backend. `ErrorsAreCurrentHolds`: an error
at a field is about what the field holds now. `FormsAreHonest` is both.

**Session.** `CredentialsBelongTogether`: as long as no two tabs have crossed, whoever is writing a
name is alone with it (`WriterIsAlone`), whoever has read a token finds the name of its owner or none
(`ReaderFindsOwner`), the storage is truthful whenever nobody is writing a name, and an answer names the
account its token was issued to. `StorageIsCopied`: a tab is never closed by a step, and only open tabs
wait for answers or are in the middle of their calls, so the tab that is alone wrote the storage last, or
is reading what nobody else changes (`Copied`). `SessionTypeCorrect`: tokens and sign-ins without an
answer (`SignInsUnderWay`) are together no more than the forms submitted. `FormsAreAnswered`:
a form forgets its request when it is unmounted, and an answer frees the form it belongs to only.
`RedirectsDoNotChain`: where a guard redirects to, signed in or not, no guard redirects from.

**BatchHistory.** `HistoryTellsTheTruth`: the counts in any answer are none or add up to `Total`, and are
earlier than those of the table, so a final label speaks of payments that are final;
the rounding of the percentage is arithmetic. `HistoryTypeCorrect`. `ProgressGrows`: queries are asked
one at a time, so the answers are in the order of the table's counts (`PollInv`), which only grow; the
safety half of `HistoryCatchesUp`.

**AdminBatches.** `ListMatchesControls`: every answer in the cache is one the server could
give, and the page shown exists as far as the answer shown tells, because the clamp runs in the
step that shows it. Assumes that there may be a batch (`MaxTotal` at least 1). `BatchesTypeCorrect`.

**AdminUsers.** `RolesAreTrue`: at most one operation of the page is under way (`FlightInv`), an
optimistic role belongs to it or is confirmed (`OverrideInv`), and while nobody else
acts and nothing is lost the list or the refetch under way is current (`CalmInv`). `UsersTypeCorrect`.
`ChangesAreAwaited`: controls are disabled only while the change that disabled them is under way.

**LoadHarness** (`Service_proofs`). `HarnessReportsTruly`: an invariant for each scenario
(what it has seen implies what has happened) and one for `main` (what it has collected
is what its scenarios answered).

**The whole frontend and the whole service.** `FrontendIsItsParts` and `ServiceIsItsParts`: the
composed specifications that the runs check imply the specification of each part, because parts share
no variable and a step of one leaves the others alone. What is proved of a part is therefore proved
of what is run: `FrontendTypeCorrect`, `FrontendIsTrue`, `FrontendNeverStalls` and `ServiceIsSound` state it
for every invariant of the two safety runs.

Only model-checked: liveness and what is about `ENABLED`, which are out of the prover's
reach; and `DeliveredAsWritten` of `SseFraming`, which compares a reader with the whole text it
has read so far, flattened.

## 6. Not modelled, and the plan

Left out for good: wording and layout of pages, metrics and logs, migrations and
the wait for the database at the start, the delays and the configuration of the
gateway (they only choose which answer comes when), the unused `cmd/api`, and
vendored code: nothing the program decides depends on them. A 404 of a batch is
treated as the 403 it is handled like. Durations and percentiles of the load
harness decide nothing.

Left to do:

1. A session and a detail page in one instance: a 401 in the middle of a stream.
2. Two batches on one detail page route, for the cleanup of the hook between
   them.
3. A proof of `DeliveredAsWritten`: a chunk ends in one frame, and the frames before it do
   not change, so that the induction of `CsvParser` should carry over.
