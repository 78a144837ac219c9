----------------------------- MODULE MCFrontend -----------------------------
(***************************************************************************)
(* The parts of the frontend for TLC: the page of a batch, the tools of    *)
(* its card, the parser of its stream, the two cards of the dashboard, the *)
(* registration form, the two pages of the administrators, and the session. *)
(*                                                                         *)
(* They share no variable, so that a behaviour of all of them is one of    *)
(* each, and nothing is lost if a behaviour moves a single part: the rest  *)
(* stays in one of its initial states.                                     *)
(***************************************************************************)
EXTENDS BatchTools, SseFraming, Upload, BatchHistory, RegisterForm, AdminUsers, AdminBatches,
        Session, TLC

CONSTANT Parts  \* the parts a run looks at

VARIABLE part  \* the part that moves

restOfPage ==
  <<framingVars, uploadVars, historyVars, formVars, usersVars, batchesVars, sessionVars>>

allVars == <<part, toolVars, restOfPage>>

\* Parts that do not move are in the least of their initial states.
FrontendInit ==
  /\ part \in Parts
  /\ ToolsInit   /\ (part \notin {"view", "tools"} => ~denied)
  /\ FramingInit
  /\ UploadInit
  /\ HistoryInit
  /\ FormInit
  /\ UsersInit   /\ (part # "users" => owners = {} /\ Range(roles) = {"admin"})
  /\ BatchesInit /\ (part # "list" => Range(total) = {0})
  /\ SessionInit /\ (part # "session" => issued = <<>> /\ storage = SignedOut)

View ==
  /\ part = "view" /\ ViewNext
  /\ UNCHANGED <<part, failedOnly, exported, restOfPage>>

\* The tools are looked at on a network that does not fail.
Tools ==
  /\ part = "tools" /\ ToolsNext /\ faults' = 0
  /\ UNCHANGED <<part, restOfPage>>

Framing ==
  /\ part = "framing" /\ FramingNext
  /\ UNCHANGED <<part, toolVars, uploadVars, historyVars, formVars, usersVars, batchesVars,
                 sessionVars>>

UploadCard ==
  /\ part = "upload" /\ UploadNext
  /\ UNCHANGED <<part, toolVars, framingVars, historyVars, formVars, usersVars, batchesVars,
                 sessionVars>>

History ==
  /\ part = "history" /\ HistoryNext
  /\ UNCHANGED <<part, toolVars, framingVars, uploadVars, formVars, usersVars, batchesVars,
                 sessionVars>>

Form ==
  /\ part = "form" /\ FormNext
  /\ UNCHANGED <<part, toolVars, framingVars, uploadVars, historyVars, usersVars, batchesVars,
                 sessionVars>>

UsersPage ==
  /\ part = "users" /\ UsersNext
  /\ UNCHANGED <<part, toolVars, framingVars, uploadVars, historyVars, formVars, batchesVars,
                 sessionVars>>

List ==
  /\ part = "list" /\ BatchesNext
  /\ UNCHANGED <<part, toolVars, framingVars, uploadVars, historyVars, formVars, usersVars,
                 sessionVars>>

Sessions ==
  /\ part = "session" /\ SessionNext
  /\ UNCHANGED <<part, toolVars, framingVars, uploadVars, historyVars, formVars, usersVars,
                 batchesVars>>

FrontendNext ==
  View \/ Tools \/ Framing \/ UploadCard \/ History \/ Form \/ UsersPage \/ List \/ Sessions

FrontendSpec == FrontendInit /\ [][FrontendNext]_allVars

\* The fairness of every part, for behaviours in which it moves.
FrontendFairSpec ==
  /\ FrontendSpec
  /\ WF_viewVars(part = "view" /\ Backend)
  /\ WF_viewVars(part = "view" /\ Hook)
  /\ WF_viewVars(part = "view" /\ \E r \in requests : Serve(r))
  /\ WF_toolVars(part = "tools" /\ Backend /\ PageStep)
  /\ WF_toolVars(part = "tools" /\ Hook /\ PageStep)
  /\ WF_toolVars(part = "tools" /\ (\E r \in requests : Serve(r)) /\ PageStep)
  /\ WF_framingVars(part = "framing" /\ WriteEvent)
  /\ WF_framingVars(part = "framing" /\ \E n \in 1..Len(Sent) : ReadChunk(n))
  /\ WF_framingVars(part = "framing" /\ End)
  /\ WF_uploadVars(part = "upload" /\ \E r \in posts : ServeUpload(r) \/ ReceiveUpload(r))
  /\ WF_historyVars(part = "history" /\ Work)
  /\ WF_historyVars(part = "history" /\ Poll)
  /\ WF_historyVars(part = "history" /\ \E r \in polls : ServeList(r))
  /\ WF_usersVars(part = "users" /\ Page)
  /\ WF_usersVars(part = "users" /\ \E r \in mutations : Handle(r))
  /\ \A a \in Args : WF_batchesVars(part = "list" /\ a \in asked /\ PageArrives(a))
  /\ \A t \in Tabs :
       /\ WF_sessionVars(part = "session" /\ UseStorage(t))
       /\ WF_sessionVars(part = "session" /\ Redirect(t))
       /\ WF_sessionVars(part = "session" /\ place[t] = "dashboard" /\ Query(t))
       /\ WF_sessionVars(part = "session" /\ \E c \in calls : c.tab = t /\ Arrive(c))

-----------------------------------------------------------------------------
(* Values of the constants *)

T(a, b, c, d) == [one |-> a, two |-> b, three |-> c, four |-> d]

\* Names of two characters, of too many, and of sixty accented letters.
SomeNames == {T(2, 0, 0, 0), T(101, 0, 0, 0), T(0, 60, 0, 0)}

\* Passwords around eight units and seventy-two bytes, with accents and emoji.
SomePasswords == {T(7, 0, 0, 0), T(8, 0, 0, 0), T(72, 0, 0, 0), T(73, 0, 0, 0), T(6, 2, 0, 0),
                  T(0, 36, 0, 0), T(1, 36, 0, 0), T(0, 0, 24, 0), T(0, 0, 25, 0),
                  T(0, 0, 0, 4), T(1, 0, 0, 3), T(0, 0, 0, 18), T(70, 0, 1, 0)}

\* Payments are alike, and so are tabs.
Alike == Permutations(Payments) \cup Permutations(Tabs)

\* The fairness of the list says nothing of behaviours in which other parts move.
ListRests == part = "list" => ListComesToRest

\* The types of all parts.
FrontendTypeOK ==
  /\ ViewTypeOK /\ UploadTypeOK /\ HistoryTypeOK /\ FormTypeOK
  /\ UsersTypeOK /\ BatchesTypeOK /\ SessionTypeOK

\* Whoever waits has been promised an answer that is still to come.
WaitsAreForAnswers == CardWaitsForUpload /\ PageWaitsForChange /\ FormWaitsForAnswer

\* A card that waits for its upload and a page that waits for a change come back to life.
NothingStaysBusy == UploadEnds /\ ControlsComeBack

=============================================================================
