---------------------------- MODULE LoadHarness ----------------------------
(***************************************************************************)
(* The load harness scripts/load/run.mjs against a backend that may refuse *)
(* a request, drop a connection or lose a payment.                         *)
(*                                                                         *)
(* main registers the users, starts one scenario per batch and waits for   *)
(* all of them with Promise.all.  A scenario uploads a CSV; if it is valid *)
(* and accepted it waits for batch_done on one stream, and then polls the  *)
(* detail until no payment is pending or processing.  A throw is caught    *)
(* around the two waits only: one in the upload rejects Promise.all and    *)
(* main ends without a summary, while the other scenarios run on.          *)
(*                                                                         *)
(* Time is counted in ticks, for each scenario by itself.                  *)
(***************************************************************************)
EXTENDS Naturals

CONSTANTS
  Users, BatchesPerUser, Rows, Timeout, InvalidEvery, OpenStream, \* the options
  MaxLost  \* bound on the payments the backend loses of one batch

ASSUME OptionsAssumption ==
  /\ {Users, BatchesPerUser, Rows, Timeout} \subseteq Nat \ {0}
  /\ InvalidEvery \in Nat
  /\ OpenStream \in BOOLEAN
ASSUME MaxLostAssumption == MaxLost \in Nat

Scenarios  == 1 .. Users * BatchesPerUser
Invalid(o) == InvalidEvery > 0 /\ o % InvalidEvery = 0

VARIABLES
  main,     \* where main is
  exitCode, \* process.exitCode
  step,     \* where each scenario is
  result,   \* what each scenario has returned, or that it has thrown
  waited,   \* ticks since the wait it is in began
  open,     \* backend: payments of the batch that are not final
  lost,     \* backend: those of them that never will be
  announced \* backend: batch_done has been published

process     == <<main, exitCode>>
batch       == <<open, lost, announced>>
harnessVars == <<main, exitCode, step, result, waited, open, lost, announced>>

HarnessTypeOK ==
  /\ main \in {"registering", "unregistered", "running", "summarized", "rejected"}
  /\ exitCode \in {0, 1}
  /\ step \in [Scenarios -> {"sleeping", "uploading", "connecting", "listening",
                             "unheard", "polling", "ended"}]
  /\ result \in [Scenarios -> {"none", "ok", "failed", "thrown"}]
  /\ waited \in [Scenarios -> 0..Timeout]
  /\ open \in [Scenarios -> 0..Rows]
  /\ lost \in [Scenarios -> 0..MaxLost]
  /\ announced \in [Scenarios -> BOOLEAN]

HarnessInit ==
  /\ main = "registering"
  /\ exitCode = 0
  /\ step = [o \in Scenarios |-> "sleeping"]
  /\ result = [o \in Scenarios |-> "none"]
  /\ waited = [o \in Scenarios |-> 0]
  /\ open = [o \in Scenarios |-> 0]
  /\ lost = [o \in Scenarios |-> 0]
  /\ announced = [o \in Scenarios |-> FALSE]

-----------------------------------------------------------------------------
(* main *)

Register ==
  /\ main = "registering"
  /\ main' = "running"
  /\ UNCHANGED <<exitCode, step, result, waited, batch>>

RegistrationFails ==
  /\ main = "registering"
  /\ main' = "unregistered"
  /\ exitCode' = 1
  /\ UNCHANGED <<step, result, waited, batch>>

Failures == {o \in Scenarios : result[o] = "failed"}

\* All scenarios have returned: print the summary, set the exit code.
Summarize ==
  /\ main = "running"
  /\ \A o \in Scenarios : result[o] \in {"ok", "failed"}
  /\ main' = "summarized"
  /\ exitCode' = IF Failures # {} THEN 1 ELSE exitCode
  /\ UNCHANGED <<step, result, waited, batch>>

\* One scenario has thrown: Promise.all rejects without waiting for the others.
Reject ==
  /\ main = "running"
  /\ \E o \in Scenarios : result[o] = "thrown"
  /\ main' = "rejected"
  /\ exitCode' = 1
  /\ UNCHANGED <<step, result, waited, batch>>

-----------------------------------------------------------------------------
(* A scenario: runBatchScenario and the two waits *)

GoTo(o, s) == step' = [step EXCEPT ![o] = s]

End(o, r) == /\ GoTo(o, "ended")
             /\ result' = [result EXCEPT ![o] = r]

\* A wait begins with a timeout of its own.
Wait(o, s) == /\ GoTo(o, s)
              /\ waited' = [waited EXCEPT ![o] = 0]
              /\ UNCHANGED result

\* The launch delay is over.  The scenarios have been started once the users are
\* registered, and go on if main has been rejected since.
Launch(o) ==
  /\ step[o] = "sleeping"
  /\ main \in {"running", "rejected"}
  /\ GoTo(o, "uploading")
  /\ UNCHANGED <<process, result, waited, batch>>

\* The CSV is accepted: the batch has been stored and is being processed.
UploadAccepted(o) ==
  /\ step[o] = "uploading"
  /\ ~Invalid(o)
  /\ open' = [open EXCEPT ![o] = Rows]
  /\ Wait(o, IF OpenStream THEN "connecting" ELSE "polling")
  /\ UNCHANGED <<process, lost, announced>>

\* The parser refuses an invalid CSV, and 422 is what an invalid scenario expects.
UploadRefused(o) ==
  /\ step[o] = "uploading"
  /\ Invalid(o)
  /\ End(o, "ok")
  /\ UNCHANGED <<process, waited, batch>>

\* Another status, or an answer without a batch_id; or there is no answer.
UploadFails(o) ==
  /\ step[o] = "uploading"
  /\ \E r \in {"failed", "thrown"} : End(o, r)
  /\ UNCHANGED <<process, waited, batch>>

\* The stream is open.  It will carry batch_done unless that has been published
\* before and a lost payment keeps the server from taking the batch for complete.
StreamOpens(o) ==
  /\ step[o] = "connecting"
  /\ GoTo(o, IF announced[o] /\ open[o] > 0 THEN "unheard" ELSE "listening")
  /\ UNCHANGED <<process, result, waited, batch>>

StreamDone(o) ==
  /\ step[o] = "listening"
  /\ announced[o]
  /\ Wait(o, "polling")
  /\ UNCHANGED <<process, batch>>

InStream(o) == step[o] \in {"connecting", "listening", "unheard"}

\* Refused, or closed before batch_done: there is no second attempt.
StreamFails(o) ==
  /\ InStream(o)
  /\ End(o, "failed")
  /\ UNCHANGED <<process, waited, batch>>

StreamTimesOut(o) ==
  /\ InStream(o) /\ waited[o] = Timeout
  /\ End(o, "failed")
  /\ UNCHANGED <<process, waited, batch>>

\* Mutation: it is enough that few payments are pending or processing.
SeenFinalTooEarly(o) == open[o] <= 1

\* pending === 0 && processing === 0
SeenFinal(o) == open[o] = 0

\* One round of the polling loop that finds the batch final.  The counts add up to
\* total_payments since the payments were stored together.
PollFinal(o) ==
  /\ step[o] = "polling" /\ waited[o] < Timeout
  /\ SeenFinal(o)
  /\ End(o, "ok")
  /\ UNCHANGED <<process, waited, batch>>

PollFails(o) ==
  /\ step[o] = "polling"
  /\ End(o, "failed")
  /\ UNCHANGED <<process, waited, batch>>

\* Mutation: the clock is looked at only while the backend gets on.
PollTimesOutMoving(o) ==
  /\ step[o] = "polling" /\ waited[o] = Timeout /\ open[o] > lost[o]
  /\ End(o, "failed")
  /\ UNCHANGED <<process, waited, batch>>

PollTimesOut(o) ==
  /\ step[o] = "polling" /\ waited[o] = Timeout
  /\ End(o, "failed")
  /\ UNCHANGED <<process, waited, batch>>

Tick(o) ==
  /\ InStream(o) \/ step[o] = "polling"
  /\ waited[o] < Timeout
  /\ waited' = [waited EXCEPT ![o] = @ + 1]
  /\ UNCHANGED <<process, step, result, batch>>

-----------------------------------------------------------------------------
(* The backend *)

FinishPayment(o) ==
  /\ open[o] > lost[o]
  /\ open' = [open EXCEPT ![o] = @ - 1]
  /\ UNCHANGED <<process, step, result, waited, lost, announced>>

LosePayment(o) ==
  /\ open[o] > lost[o] /\ lost[o] < MaxLost
  /\ lost' = [lost EXCEPT ![o] = @ + 1]
  /\ UNCHANGED <<process, step, result, waited, open, announced>>

Accepted(o) == step[o] \in {"connecting", "listening", "unheard", "polling"}

AnnounceDone(o) ==
  /\ Accepted(o) /\ ~announced[o] /\ open[o] = lost[o]
  /\ announced' = [announced EXCEPT ![o] = TRUE]
  /\ UNCHANGED <<process, step, result, waited, open, lost>>

-----------------------------------------------------------------------------
Main == Register \/ Summarize \/ Reject

Scenario(o) ==
  \/ Launch(o) \/ UploadAccepted(o) \/ UploadRefused(o)
  \/ StreamOpens(o) \/ StreamDone(o) \/ StreamTimesOut(o)
  \/ PollFinal(o) \/ PollTimesOut(o) \/ Tick(o)

Failure(o) == UploadFails(o) \/ StreamFails(o) \/ PollFails(o)

Backend(o) == FinishPayment(o) \/ AnnounceDone(o)

\* The event loop is empty: the process exits.
Exited ==
  \/ main = "unregistered"
  \/ main \in {"summarized", "rejected"} /\ \A o \in Scenarios : step[o] = "ended"

HarnessNext ==
  \/ Main \/ RegistrationFails
  \/ \E o \in Scenarios : Scenario(o) \/ Failure(o) \/ Backend(o) \/ LosePayment(o)
  \/ Exited /\ UNCHANGED harnessVars

HarnessSpec == HarnessInit /\ [][HarnessNext]_harnessVars

\* Timers fire, and requests without a timer of their own are answered.
HarnessFairness ==
  /\ WF_harnessVars(Main)
  /\ \A o \in Scenarios : WF_harnessVars(Scenario(o))

HarnessFairSpec == HarnessSpec /\ HarnessFairness

-----------------------------------------------------------------------------
(* Properties *)

\* A valid scenario that reports success has waited for the end: no payment of its
\* batch is open or lost, and with streaming batch_done has been published.
SuccessIsFinal ==
  \A o \in Scenarios :
    result[o] = "ok" /\ ~Invalid(o) =>
      /\ open[o] = 0 /\ lost[o] = 0
      /\ OpenStream => announced[o]

\* The process exits with code 1 if any scenario fails, has thrown or could not be
\* started, and only then.
ExitCodeTellsFailure ==
  Exited =>
    (exitCode = 1 <=> \E o \in Scenarios : result[o] # "ok")

\* What the run reports of its scenarios is true, to its reader and to its caller.
ReportIsTrue == HarnessTypeOK /\ SuccessIsFinal /\ ExitCodeTellsFailure

\* Once the scenarios have been started the process ends, whatever the backend loses, drops
\* or refuses.
HarnessEnds == main = "running" ~> Exited

=============================================================================
