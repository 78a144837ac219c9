----------------------------- MODULE BatchTools -----------------------------
(***************************************************************************)
(* The tools of the administrator on the page of a batch: the filter that  *)
(* leaves only the failed payments in the list, and the export of the      *)
(* failed payments to a CSV file.  Both work on the payments the page      *)
(* shows at the moment, which BatchView moves under them.                  *)
(***************************************************************************)
EXTENDS BatchView

VARIABLES
  failedOnly, \* showOnlyFailedPayments
  exported    \* payments that have been written to a file as failed

toolVars == <<viewVars, failedOnly, exported>>

failedPayments == IF loaded THEN {p \in Payments : shown[p] = "failed"} ELSE {}

ToolsInit == ViewInit /\ failedOnly = FALSE /\ exported = {}

\* The checkbox, which is disabled while no failed payment is shown.
ToggleFilter ==
  /\ hook # "off"
  /\ failedPayments # {}
  /\ failedOnly' = ~failedOnly
  /\ UNCHANGED <<viewVars, exported>>

\* handleExportFailedPayments
Export ==
  /\ hook # "off"
  /\ failedPayments # {}
  /\ exported' = exported \cup failedPayments
  /\ UNCHANGED <<viewVars, failedOnly>>

\* The page goes on; the state of its card goes with it.
PageStep ==
  /\ ViewNext
  /\ failedOnly' = (failedOnly /\ hook' # "off")
  /\ UNCHANGED exported

ToolsNext == PageStep \/ ToggleFilter \/ Export

ToolsSpec == ToolsInit /\ [][ToolsNext]_toolVars

ToolsFairness ==
  /\ WF_toolVars(Backend /\ PageStep)
  /\ WF_toolVars(Hook /\ PageStep)
  /\ WF_toolVars((\E r \in requests : Serve(r)) /\ PageStep)

ToolsFairSpec == ToolsSpec /\ ToolsFairness

-----------------------------------------------------------------------------
(* Properties *)

\* A payment that has been exported as failed has failed, however old the page was.
ExportIsTrue == \A p \in exported : stored[p] = "failed"

\* A snapshot that is older than the list may take the failed payments out of it, and
\* with them the means to leave the filter.  It does not stay like that as long as the
\* answer to the detail request made last is also the one taken over last; if an older one
\* comes after it, the checkbox may stay disabled with the filter on.
FilterCanBeLeft == []<>(failedOnly /\ applied = made => failedPayments # {})

\* The two tools can be trusted while the page changes under them: what is exported as
\* failed has failed, and the filter can be left unless an older answer has come last.
ToolsAreReliable == []ExportIsTrue /\ FilterCanBeLeft

=============================================================================
