------------------------------ MODULE Session ------------------------------
(***************************************************************************)
(* The session of the frontend: the auth slice of every tab, the copy of   *)
(* it in localStorage that the tabs share, the routes and their guards,    *)
(* signing in, signing up and signing out, and the requests whose 401 ends *)
(* a session.                                                              *)
(*                                                                         *)
(* A token is the number of the sign-in that issued it; what the server    *)
(* has to say about a password is left open.  The exp claim is checked by  *)
(* the server on every request and by a tab when it is loaded.  The slice  *)
(* keeps isAuthenticated beside the token; they change together, and here  *)
(* they are one: token 0 is "not authenticated".                           *)
(*                                                                         *)
(* A reducer runs to its end before anything else happens in its tab, but  *)
(* nothing keeps another tab from localStorage between two of its calls:   *)
(* every read, write and removal of a key is a step of its own, and midway *)
(* says which of them a tab still has before it.                           *)
(***************************************************************************)
EXTENDS Naturals, Sequences, FiniteSets, Functions

CONSTANTS
  Tabs,
  Accounts,
  Admins,      \* accounts with role admin
  NoAccount,
  Remembered,  \* accounts an earlier visit may have left in localStorage
  MaxSignIns,  \* bound on the forms that are submitted
  MaxCalls,    \* bound on the requests under way at one time
  MaxCallsLost \* bound on the requests that fail otherwise than by a 401

ASSUME AccountsAssumption == Admins \cup Remembered \subseteq Accounts /\ NoAccount \notin Accounts
ASSUME SessionBounds      == {MaxSignIns, MaxCalls, MaxCallsLost} \subseteq Nat

Guest  == {"login", "register"}
Member == {"dashboard", "batch"}
Path   == Guest \cup Member \cup {"admin", "other"}

VARIABLES
  issued,   \* the account each token was issued to
  expired,  \* tokens that have expired
  storage,  \* localStorage: flashpay_token and flashpay_user
  session,  \* the auth slice of each tab
  place,    \* the path of each tab
  from,     \* location.state.from of each tab
  busy,     \* the submission the form of each tab waits for, 0 for none
  calls,    \* requests under way
  signIns,  \* forms submitted so far
  callsLost, \* requests that have failed otherwise than by a 401
  midway,   \* what each tab still has to do with localStorage before it goes on
  crossed   \* history: somebody signed in while another tab was reading or writing a sign-in

sessionVars == <<issued, expired, storage, session, place, from, busy, calls, signIns, callsLost,
                 midway, crossed>>

localStep == <<midway, crossed>>

Token == DOMAIN issued

Credentials == [token : {0} \cup Token, user : Accounts \cup {NoAccount}]

SignedOut == [token |-> 0, user |-> NoAccount]

Call == [kind : {"query", "login", "register"}, tab : Tabs, token : {0} \cup Token,
         account : Accounts \cup {NoAccount}, back : Path, id : 0..MaxSignIns]

SessionTypeOK ==
  /\ issued \in Seq(Accounts) /\ Len(issued) <= MaxSignIns + 1
  /\ expired \subseteq Token
  /\ storage \in Credentials
  /\ session \in [Tabs -> Credentials]
  /\ place \in [Tabs -> Path \cup {"closed"}]
  /\ from \in [Tabs -> Path \cup {"none"}]
  /\ busy \in [Tabs -> 0..MaxSignIns]
  /\ calls \subseteq Call
  /\ signIns \in 0..MaxSignIns
  /\ callsLost \in 0..MaxCallsLost
  /\ midway \in [Tabs -> {"no", "reading", "clearing", "writing"}]
  /\ crossed \in BOOLEAN

\* What an earlier visit has left in localStorage: a token or none, and its user or
\* nothing that passes for a user.
SessionInit ==
  /\ issued \in {<<>>} \cup {<<a>> : a \in Remembered}
  /\ expired \in SUBSET Token
  /\ storage \in [token : {0} \cup Token, user : {NoAccount} \cup Range(issued)]
  /\ session = [t \in Tabs |-> SignedOut]
  /\ place = [t \in Tabs |-> "closed"]
  /\ from = [t \in Tabs |-> "none"]
  /\ busy = [t \in Tabs |-> 0]
  /\ calls = {}
  /\ signIns = 0
  /\ callsLost = 0
  /\ midway = [t \in Tabs |-> "no"]
  /\ crossed = FALSE

-----------------------------------------------------------------------------
(* Routes *)

IsAuth(t) == session[t].token # 0

\* Mutation: the guard of the admin page sends everybody else to the login page, whose
\* guard sends whoever is signed in back to the admin page.
DestinationCircular(t) ==
  CASE place[t] \in Guest /\ IsAuth(t) -> IF from[t] # "none" THEN from[t] ELSE "dashboard"
    [] place[t] \in Member \cup {"admin"} /\ ~IsAuth(t) -> "login"
    [] place[t] = "admin" /\ session[t].user \notin Admins -> "login"
    [] place[t] = "other" -> "dashboard"
    [] OTHER -> place[t]

\* Where the routes and their guards send a tab.
Destination(t) ==
  CASE place[t] = "other"                               -> "dashboard"
    [] place[t] \in Guest /\ IsAuth(t)                  -> "dashboard"
    [] place[t] \in Member \cup {"admin"} /\ ~IsAuth(t) -> "login"
    [] place[t] = "admin" /\ IsAuth(t) /\ session[t].user \notin Admins -> "dashboard"
    [] OTHER                                            -> place[t]

Settled(t) == place[t] = "closed" \/ Destination(t) = place[t]

\* A tab that is through with localStorage.
Through(t) == midway[t] = "no"

\* Leaving a page unmounts its form.
Go(t, p, state) ==
  /\ place' = [place EXCEPT ![t] = p]
  /\ from' = [from EXCEPT ![t] = state]
  /\ busy' = [busy EXCEPT ![t] = 0]

\* Only the redirect to the login page says where it comes from.
Redirect(t) ==
  /\ Through(t) /\ ~Settled(t)
  /\ Go(t, Destination(t), IF Destination(t) = "login" THEN place[t] ELSE "none")
  /\ UNCHANGED <<issued, expired, storage, session, calls, signIns, callsLost, localStep>>

\* A link of the application.
Follow(t, p) ==
  /\ place[t] # "closed" /\ Settled(t) /\ Through(t)
  /\ p # place[t]
  /\ Go(t, p, "none")
  /\ UNCHANGED <<issued, expired, storage, session, calls, signIns, callsLost, localStep>>

-----------------------------------------------------------------------------
(* The auth slice *)

Step(t, next) == midway' = [midway EXCEPT ![t] = next]

SigningIn(t) == midway[t] = "writing" /\ session[t].token # 0

\* Mutation: the stored user is written only if there is none.
WriteUserOnce(t) ==
  /\ midway[t] = "writing"
  /\ storage' = [storage EXCEPT !.user =
                   IF session[t].user # NoAccount /\ @ # NoAccount THEN @ ELSE session[t].user]
  /\ Step(t, "no")
  /\ UNCHANGED <<issued, expired, session, place, from, busy, calls, signIns, callsLost, crossed>>

\* The second call of setCredentials, or of clearStoredCredentials: the user is written as
\* the slice has it, or removed.
WriteUser(t) ==
  /\ midway[t] = "writing"
  /\ storage' = [storage EXCEPT !.user = session[t].user]
  /\ Step(t, "no")
  /\ UNCHANGED <<issued, expired, session, place, from, busy, calls, signIns, callsLost, crossed>>

\* The token is written, and the user after it.
SetCredentials(t, c) ==
  /\ session' = [session EXCEPT ![t] = c]
  /\ storage' = [storage EXCEPT !.token = c.token]
  /\ Step(t, "writing")
  /\ crossed' = (crossed \/ \E s \in Tabs : SigningIn(s) \/ midway[s] = "reading")

\* Mutation: localStorage keeps the credentials.
LogoutKeepingStorage(t) ==
  /\ session' = [session EXCEPT ![t] = SignedOut]
  /\ UNCHANGED <<storage, midway, crossed>>

\* The token is removed, and the user after it.
Logout(t) ==
  /\ session' = [session EXCEPT ![t] = SignedOut]
  /\ storage' = [storage EXCEPT !.token = 0]
  /\ Step(t, "writing")
  /\ UNCHANGED crossed

\* A tab is opened or reloaded: nobody waits any more for what it has asked for.
\* (React has done with a redirect before the user gets to act.)  hydrateAuthState gets
\* the token; what it has got so far is kept where the slice is going to be.
Load(t, p) ==
  /\ Through(t) /\ Settled(t)
  /\ session' = [session EXCEPT ![t] = [token |-> storage.token, user |-> NoAccount]]
  /\ Step(t, "reading")
  /\ crossed' = (crossed \/ \E s \in Tabs : SigningIn(s))
  /\ Go(t, p, "none")
  /\ calls' = {c \in calls : c.tab # t}
  /\ UNCHANGED <<issued, expired, storage, signIns, callsLost>>

\* hydrateAuthState gets the user: what is complete and valid is the session.
ReadUser(t) ==
  /\ midway[t] = "reading"
  /\ IF session[t].token \in {0} \cup expired \/ storage.user = NoAccount
     THEN session' = [session EXCEPT ![t] = SignedOut] /\ Step(t, "clearing")
     ELSE session' = [session EXCEPT ![t].user = storage.user] /\ Step(t, "no")
  /\ UNCHANGED <<issued, expired, storage, place, from, busy, calls, signIns, callsLost, crossed>>

\* What is not complete and valid is removed.
ClearToken(t) ==
  /\ midway[t] = "clearing"
  /\ storage' = [storage EXCEPT !.token = 0]
  /\ Step(t, "writing")
  /\ UNCHANGED <<issued, expired, session, place, from, busy, calls, signIns, callsLost, crossed>>

UseStorage(t) == ReadUser(t) \/ ClearToken(t) \/ WriteUser(t)

\* The button "Sair" of the dashboard and of the admin page.
ClickLogout(t) ==
  /\ place[t] \in {"dashboard", "admin"} /\ Settled(t) /\ Through(t)
  /\ Logout(t)
  /\ UNCHANGED <<issued, expired, place, from, busy, calls, signIns, callsLost>>

-----------------------------------------------------------------------------
(* Forms and requests *)

\* resolvePostLoginRedirect; signing up leads to the dashboard.
Back(t, kind) == IF kind = "login" /\ from[t] # "none" THEN from[t] ELSE "dashboard"

Free == Cardinality(calls) < MaxCalls

\* A form that is not waiting for an answer is submitted with valid fields.
SignIn(t, kind, a) ==
  /\ place[t] = kind /\ Settled(t) /\ Through(t)
  /\ busy[t] = 0 /\ Free
  /\ signIns < MaxSignIns
  /\ signIns' = signIns + 1
  /\ busy' = [busy EXCEPT ![t] = signIns']
  /\ calls' = calls \cup
       {[kind |-> kind, tab |-> t, token |-> session[t].token, account |-> a,
         back |-> Back(t, kind), id |-> signIns']}
  /\ UNCHANGED <<issued, expired, storage, session, place, from, callsLost, localStep>>

\* Any request of a page; the token is read when it is sent.
Query(t) ==
  /\ place[t] \in Member \cup {"admin"} /\ Settled(t) /\ Through(t)
  /\ Free
  /\ calls' = calls \cup {[kind |-> "query", tab |-> t, token |-> session[t].token,
                           account |-> NoAccount, back |-> "dashboard", id |-> 0]}
  /\ UNCHANGED <<issued, expired, storage, session, place, from, busy, signIns, callsLost, localStep>>

Answered(c) ==
  /\ Through(c.tab)
  /\ calls' = calls \ {c}
  /\ busy' = [busy EXCEPT ![c.tab] = IF c.id # 0 /\ @ = c.id THEN 0 ELSE @]

\* The page of the form need not be there any more.  On a guest page the redirect of
\* its guard and navigate() compete, and React decides which of them is last.
SignedIn(c) ==
  /\ c.kind # "query" /\ Through(c.tab)
  /\ issued' = Append(issued, c.account)
  /\ SetCredentials(c.tab, [token |-> Len(issued'), user |-> c.account])
  /\ calls' = calls \ {c}
  /\ \E p \in {c.back} \cup (IF place[c.tab] \in Guest THEN {"dashboard"} ELSE {}) :
       Go(c.tab, p, "none")
  /\ UNCHANGED <<expired, signIns, callsLost>>

\* A 401: an expired token, or bad credentials.  Whatever request it answers, it ends
\* the session of the tab.
Unauthorized(c) ==
  /\ (c.kind = "query" /\ c.token \in {0} \cup expired) \/ c.kind = "login"
  /\ Logout(c.tab)
  /\ Answered(c)
  /\ UNCHANGED <<issued, expired, place, from, signIns, callsLost>>

\* The answer to a query, or an error other than 401: the session is left alone.
Authorized(c) ==
  /\ c.kind = "query" /\ c.token \notin {0} \cup expired
  /\ Answered(c)
  /\ UNCHANGED <<issued, expired, storage, session, place, from, signIns, callsLost, localStep>>

Fail(c) ==
  /\ callsLost < MaxCallsLost
  /\ callsLost' = callsLost + 1
  /\ Answered(c)
  /\ UNCHANGED <<issued, expired, storage, session, place, from, signIns, localStep>>

Expire(k) ==
  /\ expired' = expired \cup {k}
  /\ UNCHANGED <<issued, storage, session, place, from, busy, calls, signIns, callsLost, localStep>>

-----------------------------------------------------------------------------
Arrive(c) == SignedIn(c) \/ Unauthorized(c) \/ Authorized(c)

Visitor(t) ==
  \/ \E p \in Path : Load(t, p) \/ Follow(t, p)
  \/ ClickLogout(t)
  \/ Query(t)
  \/ \E kind \in Guest, a \in Accounts : SignIn(t, kind, a)

SessionNext ==
  \/ \E t \in Tabs : Visitor(t) \/ Redirect(t) \/ UseStorage(t)
  \/ \E c \in calls : Arrive(c) \/ Fail(c)
  \/ \E k \in Token : Expire(k)

SessionSpec == SessionInit /\ [][SessionNext]_sessionVars

\* Reducers and guards run, the dashboard polls, and requests are answered.
SessionFairness ==
  \A t \in Tabs :
    /\ WF_sessionVars(UseStorage(t))
    /\ WF_sessionVars(Redirect(t))
    /\ WF_sessionVars(place[t] = "dashboard" /\ Query(t))
    /\ WF_sessionVars(\E c \in calls : c.tab = t /\ Arrive(c))

SessionFairSpec == SessionSpec /\ SessionFairness

-----------------------------------------------------------------------------
(* Properties *)

Match(c) == (c.token = 0 /\ c.user = NoAccount) \/ (c.token # 0 /\ c.user = issued[c.token])

\* However tabs take turns to sign in, sign out and reload, and however their calls of
\* localStorage interleave when one of them signs out, nobody acts under a name with the
\* token of somebody else, unless two tabs have crossed: one was in the middle of signing
\* in, or of reading, when another signed in, or in the middle of signing in when another
\* read.  After that the token of one may well be stored, or read, with the name of the other.
CredentialsMatch == ~crossed => \A t \in Tabs : Through(t) => Match(session[t])

\* As long as there is a single tab, a reload changes nothing but an expired session:
\* localStorage is a copy of the slice, whatever ended or began the session.
StorageIsACopy ==
  \A t \in Tabs :
    place[t] # "closed" /\ Through(t) /\ (\A s \in Tabs \ {t} : place[s] = "closed")
      => storage = session[t]

\* A form that waits for an answer has a request under way that frees it.
FormWaitsForAnswer == \A t \in Tabs : busy[t] # 0 => \E c \in calls : c.tab = t /\ c.id = busy[t]

\* One redirect from a page of the application is enough, whatever has become of the
\* session by then: no guard sends a tab to where another guard sends it on.
RedirectsAreFew ==
  [][\A t \in Tabs : Redirect(t) /\ place[t] # "other" => Settled(t)']_sessionVars

\* The guards of a page never send a tab to each other for ever, whatever sessions end
\* or begin on the way and wherever a login has led back to.
NoRedirectLoop == \A t \in Tabs : []<>(Settled(t))

\* Somebody who just looks at the dashboard with an expired token is asked to sign in.
ExpiredSessionEnds ==
  \A t \in Tabs :
    place[t] = "dashboard" /\ session[t].token \in expired
      ~> place[t] # "dashboard" \/ session[t].token \notin expired

\* Nobody is sent round in circles or left on a page that has lost its session.
NavigationSettles == NoRedirectLoop /\ ExpiredSessionEnds

=============================================================================
