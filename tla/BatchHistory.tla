---------------------------- MODULE BatchHistory ----------------------------
(***************************************************************************)
(* The list of recent batches on the dashboard, seen at the batch its user *)
(* has just sent: the two transactions that store it, the workers that     *)
(* move its payments, the answers of GET /batches, which takes the rows    *)
(* and then the counts, and the card, which is brought up to date by       *)
(* polling and by nothing else.                                            *)
(***************************************************************************)
EXTENDS Integers

CONSTANTS
  Total,              \* total_payments
  MaxDashboardVisits, \* bound on how often the dashboard is opened
  MaxPollFaults       \* bound on requests that fail

ASSUME TotalAssumption == Total \in Nat \ {0}
ASSUME HistoryBounds   == {MaxDashboardVisits, MaxPollFaults} \subseteq Nat

None == [known |-> FALSE, pending |-> 0, processing |-> 0, success |-> 0, failed |-> 0]

VARIABLES
  batch,         \* "none", "created" without payments, "stored"
  counts,        \* the payments of the batch, by status
  dashboardOpen, \* the dashboard is open
  visits,        \* how often it has been opened
  polls,         \* queries without an answer: at most one
  row,           \* the batch in the list, or None
  listLoaded,    \* the list has been received once
  error,         \* batchesError
  pollFaults

historyVars == <<batch, counts, dashboardOpen, visits, polls, row, listLoaded, error, pollFaults>>

Counts == [known : BOOLEAN, pending : 0..Total, processing : 0..Total,
           success : 0..Total, failed : 0..Total]

Completed(c) == c.success + c.failed

HistoryTypeOK ==
  /\ batch \in {"none", "created", "stored"}
  /\ counts \in Counts
  /\ dashboardOpen \in BOOLEAN
  /\ visits \in 0..MaxDashboardVisits
  /\ polls \subseteq [step : {"asked", "listed", "answered"}, row : Counts]
  /\ row \in Counts
  /\ Completed(row) + row.pending + row.processing \in {0, Total}
  /\ listLoaded \in BOOLEAN /\ error \in BOOLEAN
  /\ pollFaults \in 0..MaxPollFaults

HistoryInit ==
  /\ batch = "none"
  /\ counts = None
  /\ dashboardOpen = FALSE
  /\ visits = 0
  /\ polls = {}
  /\ row = None
  /\ listLoaded = FALSE
  /\ error = FALSE
  /\ pollFaults = 0

-----------------------------------------------------------------------------
(* The database *)

historyCard == <<dashboardOpen, visits, polls, row, listLoaded, error, pollFaults>>

BatchAppears ==
  /\ batch = "none"
  /\ batch' = "created"
  /\ UNCHANGED <<counts, historyCard>>

PaymentsAppear ==
  /\ batch = "created"
  /\ batch' = "stored"
  /\ counts' = [None EXCEPT !.known = TRUE, !.pending = Total]
  /\ UNCHANGED historyCard

\* A worker takes a payment, or finishes one.
Work ==
  /\ \/ /\ counts.pending > 0
        /\ counts' = [counts EXCEPT !.pending = @ - 1, !.processing = @ + 1]
     \/ /\ counts.processing > 0
        /\ \/ counts' = [counts EXCEPT !.processing = @ - 1, !.success = @ + 1]
           \/ counts' = [counts EXCEPT !.processing = @ - 1, !.failed = @ + 1]
  /\ UNCHANGED <<batch, historyCard>>

-----------------------------------------------------------------------------
(* GET /batches *)

MovePoll(r, s) == polls' = (polls \ {r}) \cup {s}

\* FindByUserID
FindByUserID(r) ==
  /\ r.step = "asked"
  /\ MovePoll(r, [step |-> "listed", row |-> [None EXCEPT !.known = batch # "none"]])
  /\ UNCHANGED <<batch, counts, dashboardOpen, visits, row, listLoaded, error, pollFaults>>

\* Mutation: the payments in processing are taken for successful.
CountByStatusLumped(r) ==
  /\ r.step = "listed"
  /\ MovePoll(r, [step |-> "answered",
              row |-> IF r.row.known
                      THEN [counts EXCEPT !.known = TRUE, !.processing = 0,
                                          !.success = @ + counts.processing]
                      ELSE None])
  /\ UNCHANGED <<batch, counts, dashboardOpen, visits, row, listLoaded, error, pollFaults>>

\* buildBatchSummaries: the counts of the rows that were found.
CountSummaries(r) ==
  /\ r.step = "listed"
  /\ MovePoll(r, [step |-> "answered",
              row |-> IF r.row.known THEN [counts EXCEPT !.known = TRUE] ELSE None])
  /\ UNCHANGED <<batch, counts, dashboardOpen, visits, row, listLoaded, error, pollFaults>>

-----------------------------------------------------------------------------
(* The dashboard *)

AskList == polls' = polls \cup {[step |-> "asked", row |-> None]}

\* The dashboard opens.  A list fetched less than thirty seconds ago is shown as it is;
\* one that is not used for a minute has been dropped.
OpenDashboard ==
  /\ ~dashboardOpen
  /\ visits < MaxDashboardVisits
  /\ dashboardOpen' = TRUE
  /\ visits' = visits + 1
  /\ \/ listLoaded /\ UNCHANGED <<polls, row, listLoaded, error>>
     \/ IF polls = {} THEN AskList /\ UNCHANGED <<row, listLoaded, error>>
                         ELSE UNCHANGED <<polls, row, listLoaded, error>>
     \/ /\ polls = {} /\ AskList
        /\ row' = None /\ listLoaded' = FALSE /\ error' = FALSE
  /\ UNCHANGED <<batch, counts, pollFaults>>

LeaveDashboard ==
  /\ dashboardOpen
  /\ dashboardOpen' = FALSE
  /\ UNCHANGED <<batch, counts, visits, polls, row, listLoaded, error, pollFaults>>

\* Mutation: there is no polling.
PollNever ==
  /\ dashboardOpen /\ polls = {}
  /\ error
  /\ AskList
  /\ UNCHANGED <<batch, counts, dashboardOpen, visits, row, listLoaded, error, pollFaults>>

\* The polling interval is over; a query in flight is not repeated.
Poll ==
  /\ dashboardOpen
  /\ polls = {}
  /\ AskList
  /\ UNCHANGED <<batch, counts, dashboardOpen, visits, row, listLoaded, error, pollFaults>>

ReceiveList(r) ==
  /\ r.step = "answered"
  /\ polls' = polls \ {r}
  /\ row' = r.row
  /\ listLoaded' = TRUE
  /\ error' = FALSE
  /\ UNCHANGED <<batch, counts, dashboardOpen, visits, pollFaults>>

\* The list that was there stays, under a message.
PollFails(r) ==
  /\ pollFaults < MaxPollFaults
  /\ pollFaults' = pollFaults + 1
  /\ polls' = polls \ {r}
  /\ error' = TRUE
  /\ UNCHANGED <<batch, counts, dashboardOpen, visits, row, listLoaded>>

-----------------------------------------------------------------------------
(* What the card shows *)

Round(n, d) == (2 * n + d) \div (2 * d)

\* getProgressPercent
ProgressPercent(c) ==
  LET p == Round(100 * Completed(c), Total) IN IF p > 100 THEN 100 ELSE p

\* getBatchStatusLabel: the first of the conditions that holds.
StatusLabel(c) ==
  IF c.processing > 0 THEN "Em processamento"
  ELSE IF c.pending > 0 /\ c.success = 0 /\ c.failed = 0 THEN "Aguardando processamento"
  ELSE IF c.failed > 0 /\ c.pending = 0 THEN "Concluido com falhas"
  ELSE IF c.success = Total THEN "Concluido"
  ELSE "Atualizado"

-----------------------------------------------------------------------------
ServeList(r) == FindByUserID(r) \/ CountSummaries(r) \/ ReceiveList(r)

HistoryNext ==
  \/ BatchAppears \/ PaymentsAppear \/ Work
  \/ OpenDashboard \/ LeaveDashboard \/ Poll
  \/ \E r \in polls : ServeList(r) \/ PollFails(r)

HistorySpec == HistoryInit /\ [][HistoryNext]_historyVars

\* Stored payments are processed (WorkerPool), requests are answered, the timer of the
\* polling fires.  Nothing has to be uploaded, opened, left, or to fail.
HistoryFairness ==
  /\ WF_historyVars(Work)
  /\ WF_historyVars(Poll)
  /\ WF_historyVars(\E r \in polls : ServeList(r))

HistoryFairSpec == HistorySpec /\ HistoryFairness

-----------------------------------------------------------------------------
(* Properties *)

\* A label that says the batch is over is true for good: the payments it was made from
\* are final, all of them, with or without failures.
FinalLabelIsTrue ==
  row.known =>
    /\ StatusLabel(row) = "Concluido" => counts.success = Total
    /\ StatusLabel(row) = "Concluido com falhas" =>
         counts.failed > 0 /\ Completed(counts) = Total

\* The percentage is rounded and may read 100 before the end, but then at most one
\* payment in two hundred is missing.
HundredLeavesLittle ==
  row.known /\ ProgressPercent(row) = 100 => 200 * (Total - Completed(counts)) <= Total

\* Neither the label nor the percentage of a batch promises more than is stored.
HistoryIsTrue == FinalLabelIsTrue /\ HundredLeavesLittle

\* From one answer to the next the batch does not lose progress.
ProgressNeverShrinks ==
  [][row.known /\ row'.known => ProgressPercent(row') >= ProgressPercent(row)]_historyVars

\* A dashboard that stays open comes to say how a stored batch ended, whatever requests
\* have failed meanwhile, and does not go back on the way.
HistoryCatchesUp ==
  /\ ProgressNeverShrinks
  /\ batch = "stored" /\ dashboardOpen ~>
       \/ ~dashboardOpen
       \/ row.known /\ StatusLabel(row) \in {"Concluido", "Concluido com falhas"}

=============================================================================
