----------------------------- MODULE AdminUsers -----------------------------
(***************************************************************************)
(* The user administration page with the users table behind it: inline     *)
(* role changes shown before they are confirmed (roleOverrides), deletion  *)
(* with a confirmation dialog, the cached list and its refetches, and what *)
(* the page does not control: another administrator, users who upload      *)
(* batches and can no longer be deleted, answers that get lost, and leaving *)
(* the page while a request is under way.                                  *)
(*                                                                         *)
(* "gone" is the role of a user who has no row; a deletion is a request    *)
(* for the role "gone".                                                    *)
(***************************************************************************)
EXTENDS Naturals

CONSTANTS
  Users,         \* the accounts there are at first
  Self,          \* the account of this page
  NoUser,
  MaxUserVisits, \* bound on how often the page is opened
  MaxOthers,     \* bound on the operations of other people
  MaxLosses      \* bound on the answers that are lost

ASSUME UsersAssumption == Self \in Users /\ NoUser \notin Users
ASSUME UsersBounds     == {MaxUserVisits, MaxOthers, MaxLosses} \subseteq Nat

Role == {"admin", "operator"}

VARIABLES
  roles,      \* users.role, or "gone"
  owners,     \* users with batches
  others,     \* operations of other people so far
  mutations,  \* PATCH and DELETE requests the server has not handled
  answer,     \* answer to the request of this visit
  losses,     \* answers lost so far
  usersVisit, \* number of the visit, 0 before the first
  usersOpen,
  userList,   \* the cached list of users, "gone" for those not in it
  fetch,      \* the query: idle, asked, read by the server
  snapshot,   \* what the server has read for it
  override,   \* roleOverrides
  pending,    \* pendingAction, with the role asked for
  candidate,  \* deleteCandidate
  feedback,
  confirmed   \* the last role change of this visit the server has confirmed

usersServer == <<roles, owners, others>>
network     == <<mutations, answer, losses>>
visiting    == <<usersVisit, usersOpen>>
query       == <<userList, fetch, snapshot>>
usersPage   == <<override, pending, candidate, feedback, confirmed>>
usersVars   == <<usersServer, network, visiting, query, usersPage>>

Idle == [step |-> "idle", user |-> NoUser, role |-> "none"]

Nothing == [u \in Users |-> "none"]

UsersTypeOK ==
  /\ roles \in [Users -> Role \cup {"gone"}]
  /\ owners \subseteq Users
  /\ others \in 0..MaxOthers /\ losses \in 0..MaxLosses
  /\ usersVisit \in 0..MaxUserVisits /\ usersOpen \in BOOLEAN
  /\ mutations \subseteq [visit : 1..MaxUserVisits, user : Users \ {Self},
                          role : Role \cup {"gone"}]
  /\ answer \in {"none", "ok", "error"}
  /\ userList \in [Users -> Role \cup {"gone"}] /\ snapshot \in [Users -> Role \cup {"gone"}]
  /\ fetch \in {"idle", "asked", "read"}
  /\ override \in [Users -> Role \cup {"none"}]
  /\ pending \in {Idle} \cup [step : {"waiting", "refetching"}, user : Users \ {Self},
                              role : Role \cup {"gone"}]
  /\ candidate \in (Users \ {Self}) \cup {NoUser}
  /\ feedback \in {"none", "success", "error"}

UsersInit ==
  /\ roles \in [Users -> Role]
  /\ roles[Self] = "admin"
  /\ owners \in SUBSET Users
  /\ others = 0
  /\ mutations = {}
  /\ answer = "none"
  /\ losses = 0
  /\ usersVisit = 0
  /\ usersOpen = FALSE
  /\ userList = [u \in Users |-> "gone"]
  /\ fetch = "idle"
  /\ snapshot = userList
  /\ override = Nothing
  /\ pending = Idle
  /\ candidate = NoUser
  /\ feedback = "none"
  /\ confirmed = Nothing

-----------------------------------------------------------------------------
(* The server *)

\* UpdateRole finds no row; DeleteUser neither, or the foreign key of a batch.
ChangeRefused(r) == roles[r.user] = "gone" \/ (r.role = "gone" /\ r.user \in owners)

Apply(r) == roles' = IF ChangeRefused(r) THEN roles ELSE [roles EXCEPT ![r.user] = r.role]

\* Only the page of the same visit waits for the answer.
Reply(r, a) ==
  IF usersOpen /\ r.visit = usersVisit
  THEN /\ answer' = a
       /\ confirmed' = IF a = "ok" THEN [confirmed EXCEPT ![r.user] = r.role] ELSE confirmed
  ELSE UNCHANGED <<answer, confirmed>>

Handle(r) ==
  /\ mutations' = mutations \ {r}
  /\ Apply(r)
  /\ Reply(r, IF ChangeRefused(r) THEN "error" ELSE "ok")
  /\ UNCHANGED <<owners, others, losses, visiting, query, override, pending,
                 candidate, feedback>>

\* The request, or only its answer, is lost.
Lose(r) ==
  /\ losses < MaxLosses
  /\ losses' = losses + 1
  /\ mutations' = mutations \ {r}
  /\ Apply(r) \/ UNCHANGED roles
  /\ Reply(r, "error")
  /\ UNCHANGED <<owners, others, visiting, query, override, pending, candidate, feedback>>

ReadUsers ==
  /\ fetch = "asked"
  /\ fetch' = "read"
  /\ snapshot' = roles
  /\ UNCHANGED <<usersServer, network, visiting, userList, usersPage>>

\* Another administrator, or a user who uploads a first batch.
SomeoneElse(u) ==
  /\ others < MaxOthers
  /\ others' = others + 1
  /\ roles[u] # "gone"
  /\ \/ owners' = owners \cup {u} /\ UNCHANGED roles
     \/ /\ \E r \in Role : roles' = [roles EXCEPT ![u] = r]
        /\ UNCHANGED owners
     \/ u \notin owners /\ roles' = [roles EXCEPT ![u] = "gone"] /\ UNCHANGED owners
  /\ UNCHANGED <<network, visiting, query, usersPage>>

-----------------------------------------------------------------------------
(* The page *)

\* The list is fetched unless the cached one is young enough; a query that is
\* under way is joined.
OpenUsers ==
  /\ ~usersOpen
  /\ usersVisit < MaxUserVisits
  /\ usersVisit' = usersVisit + 1
  /\ usersOpen' = TRUE
  /\ \/ fetch' = IF fetch = "idle" THEN "asked" ELSE fetch
     \/ usersVisit > 0 /\ UNCHANGED fetch
  /\ UNCHANGED <<usersServer, network, userList, snapshot, usersPage>>

\* The state of the component goes; a request that is under way does not.
LeaveUsers ==
  /\ usersOpen
  /\ usersOpen' = FALSE
  /\ override' = Nothing
  /\ pending' = Idle
  /\ candidate' = NoUser
  /\ feedback' = "none"
  /\ confirmed' = Nothing
  /\ answer' = "none"
  /\ UNCHANGED <<usersServer, mutations, losses, usersVisit, query>>

Displayed(u) == IF override[u] # "none" THEN override[u] ELSE userList[u]

\* A row whose controls are enabled.
Enabled(u) == usersOpen /\ pending = Idle /\ userList[u] # "gone" /\ u # Self

Send(u, r) ==
  /\ pending' = [step |-> "waiting", user |-> u, role |-> r]
  /\ mutations' = mutations \cup {[visit |-> usersVisit, user |-> u, role |-> r]}
  /\ feedback' = "none"

\* handleRoleChange, up to the PATCH.
ChangeRole(u, r) ==
  /\ Enabled(u)
  /\ r # Displayed(u)
  /\ override' = [override EXCEPT ![u] = r]
  /\ Send(u, r)
  /\ UNCHANGED <<usersServer, answer, losses, visiting, query, candidate, confirmed>>

OpenDeleteDialog(u) ==
  /\ Enabled(u)
  /\ candidate' = u
  /\ feedback' = "none"
  /\ UNCHANGED <<usersServer, network, visiting, query, override, pending, confirmed>>

CloseDeleteDialog ==
  /\ pending = Idle
  /\ candidate # NoUser
  /\ candidate' = NoUser
  /\ UNCHANGED <<usersServer, network, visiting, query, override, pending, feedback, confirmed>>

\* handleDeleteUser, up to the DELETE.
ConfirmDelete ==
  /\ candidate # NoUser
  /\ pending = Idle
  /\ Send(candidate, "gone")
  /\ UNCHANGED <<usersServer, answer, losses, visiting, query, override, candidate, confirmed>>

Refetch == fetch' = IF fetch = "idle" THEN "asked" ELSE fetch

\* The mutation has succeeded: refetch.  A refetch joins a query under way, even one
\* whose answer is older than the change.
Succeeds ==
  /\ answer = "ok"
  /\ answer' = "none"
  /\ pending' = [pending EXCEPT !.step = "refetching"]
  /\ Refetch
  /\ IF pending.role = "gone"
     THEN candidate' = NoUser /\ override' = [override EXCEPT ![pending.user] = "none"]
     ELSE UNCHANGED <<candidate, override>>
  /\ UNCHANGED <<usersServer, mutations, losses, visiting, userList, snapshot, feedback, confirmed>>

\* refetch resolves whether or not the query has succeeded.
Refetched ==
  /\ pending.step = "refetching"
  /\ fetch = "idle"
  /\ feedback' = "success"
  /\ pending' = Idle
  /\ UNCHANGED <<usersServer, network, visiting, query, override, candidate, confirmed>>

\* Mutations: the override outlives the error; the page stays busy.
FailsKeepingOverride ==
  /\ answer = "error"
  /\ answer' = "none"
  /\ feedback' = "error"
  /\ pending' = Idle
  /\ UNCHANGED <<usersServer, mutations, losses, visiting, query, override, candidate, confirmed>>

FailsBusy ==
  /\ answer = "error"
  /\ answer' = "none"
  /\ feedback' = "error"
  /\ override' = [override EXCEPT ![pending.user] = "none"]
  /\ UNCHANGED <<usersServer, mutations, losses, visiting, query, pending, candidate, confirmed>>

\* The mutation has failed: the dialog of a deletion stays open.
ChangeFails ==
  /\ answer = "error"
  /\ answer' = "none"
  /\ feedback' = "error"
  /\ pending' = Idle
  /\ override' = IF pending.role = "gone" THEN override
                 ELSE [override EXCEPT ![pending.user] = "none"]
  /\ UNCHANGED <<usersServer, mutations, losses, visiting, query, candidate, confirmed>>

\* The effect on users: drop overrides the list has caught up with, or lost.
CleanUp(l) == [u \in Users |-> IF l[u] \in {"gone", override[u]} THEN "none" ELSE override[u]]

\* The answer of the query.  An equal list is the same object, on which no effect runs.
ShowUsers ==
  /\ fetch = "read"
  /\ fetch' = "idle"
  /\ userList' = snapshot
  /\ override' = IF snapshot = userList THEN override ELSE CleanUp(snapshot)
  /\ UNCHANGED <<usersServer, network, visiting, snapshot, pending, candidate, feedback, confirmed>>

FetchFails ==
  /\ fetch # "idle"
  /\ losses < MaxLosses
  /\ losses' = losses + 1
  /\ fetch' = "idle"
  /\ UNCHANGED <<usersServer, mutations, answer, visiting, userList, snapshot, usersPage>>

-----------------------------------------------------------------------------
UserRow(u) == OpenDeleteDialog(u) \/ (\E r \in Role : ChangeRole(u, r)) \/ SomeoneElse(u)

Page == Succeeds \/ Refetched \/ ChangeFails \/ ReadUsers \/ ShowUsers

UsersNext ==
  \/ \E u \in Users : UserRow(u)
  \/ \E r \in mutations : Handle(r) \/ Lose(r)
  \/ OpenUsers \/ LeaveUsers \/ CloseDeleteDialog \/ ConfirmDelete \/ FetchFails
  \/ Page

UsersSpec == UsersInit /\ [][UsersNext]_usersVars

\* Requests are answered, and the page gets to run.
UsersFairness ==
  /\ WF_usersVars(Page)
  /\ WF_usersVars(\E r \in mutations : Handle(r))

UsersFairSpec == UsersSpec /\ UsersFairness

-----------------------------------------------------------------------------
(* Properties *)

\* A role that stands in for the one of the list is either being asked for, or was
\* confirmed by the server on this visit, and its user is in the list.
OverridesAreConfirmed ==
  \A u \in Users : override[u] # "none" =>
    /\ userList[u] # "gone"
    /\ pending.user = u \/ override[u] = confirmed[u]

\* Alone, on a first visit and with a network that has lost nothing, the administrator
\* sees the table as it is whenever the page is not busy.
PageIsCurrent ==
  usersOpen /\ usersVisit = 1 /\ others = 0 /\ losses = 0 /\ pending = Idle /\ fetch = "idle"
    => \A u \in Users : Displayed(u) = roles[u]

\* Whatever is refused or lost, the roles on the page are the stored ones or are told apart
\* from them.
RolesShownAreTrue == OverridesAreConfirmed /\ PageIsCurrent

\* A page that waits for a change is the one that has asked for it, and the change is on
\* its way or answered; an answer is never taken for that of another change.
PageWaitsForChange ==
  /\ pending.step = "waiting" =>
       \/ answer # "none"
       \/ [visit |-> usersVisit, user |-> pending.user, role |-> pending.role] \in mutations
  /\ answer # "none" =>
       /\ pending.step = "waiting"
       /\ answer = "ok" => confirmed[pending.user] = pending.role
       /\ \A r \in mutations : r.visit # usersVisit

\* The page does not stay busy, whatever is refused or lost.
ControlsComeBack == pending # Idle ~> pending = Idle

=============================================================================
