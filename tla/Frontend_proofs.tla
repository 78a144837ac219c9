--------------------------- MODULE Frontend_proofs ---------------------------
(***************************************************************************)
(* Proofs about the smaller parts of the frontend: the registration form,  *)
(* the session, the list of recent batches, the two pages of the           *)
(* administrators and the tools of a batch; what they hold, what they wait *)
(* for, and the frontend that is made of all of them.                      *)
(***************************************************************************)
EXTENDS MCFrontend, BatchView_proofs, Upload_proofs, TLAPS

-----------------------------------------------------------------------------
(* The registration form: what it lets through the backend accepts, for every text. *)

\* UTF-8 takes at least as many bytes as UTF-16 takes code units.
LEMMA UnitsAtMostBytes ==
  ASSUME NEW t \in Text
  PROVE  Units(t) \in Nat /\ Bytes(t) \in Nat /\ Units(t) <= Bytes(t)
BY DEF Text, Units, Bytes

\* A password without an error in the form has none in the backend.
LEMMA PasswordPasses ==
  ASSUME NEW r, r.password \in Text, ~PasswordError(r.password)
  PROVE  "password" \notin RequestErrors(r)
<1>1. /\ Units(r.password) \in Nat /\ Bytes(r.password) \in Nat
      /\ Units(r.password) <= Bytes(r.password)
  BY UnitsAtMostBytes
<1>2. ~(Bytes(r.password) < 8 \/ Bytes(r.password) > 72)
  BY <1>1 DEF PasswordError
<1> QED
  BY <1>2 DEF RequestErrors

\* What is on its way has passed the form, whatever has been typed since.
Contract ==
  /\ password \in Text
  /\ request # <<>> => request.password \in Text /\ ~PasswordError(request.password)
  /\ "password" \notin complaints

LEMMA ContractInit == FormInit => Contract
BY DEF FormInit, Contract, Empty, Text

LEMMA ContractNext == Contract /\ [FormNext]_formVars => Contract'
<1> SUFFICES ASSUME Contract, [FormNext]_formVars PROVE Contract'
  OBVIOUS
<1>1. CASE UNCHANGED formVars
  BY <1>1 DEF Contract, formVars
<1>2. ASSUME NEW t \in Names, ChangeName(t) PROVE Contract'
  BY <1>2 DEF Contract, ChangeName
<1>3. ASSUME NEW t \in Passwords, ChangePassword(t) PROVE Contract'
  BY <1>3, TextsAssumption DEF Contract, ChangePassword
<1>4. CASE ChangeEmail \/ ChangeConfirmation
  BY <1>4 DEF Contract, ChangeEmail, ChangeConfirmation
<1>5. CASE SubmitForm
  <2>1. CASE FormErrors = {}
    <3>1. ~PasswordError(password)
      BY <2>1 DEF FormErrors
    <3>2. request'.password = password
      BY <1>5, <2>1 DEF SubmitForm
    <3> QED
      BY <1>5, <3>1, <3>2 DEF Contract, SubmitForm
  <2>2. CASE FormErrors # {}
    BY <1>5, <2>2 DEF Contract, SubmitForm
  <2> QED
    BY <2>1, <2>2
<1>6. CASE Created
  BY <1>6 DEF Contract, Created, Empty, Text
<1>7. CASE Taken
  BY <1>7 DEF Contract, Taken
<1>8. CASE Invalid
  <2>1. "password" \notin RequestErrors(request)
    BY <1>8, PasswordPasses DEF Contract, Invalid
  <2> QED
    BY <1>8, <2>1 DEF Contract, Invalid
<1>9. CASE RequestBreaks
  BY <1>9 DEF Contract, RequestBreaks
<1> QED
  BY <1>1, <1>2, <1>3, <1>4, <1>5, <1>6, <1>7, <1>8, <1>9 DEF FormNext

\* The backend never refuses the password of a request the page has sent: the limits of
\* forms.ts imply those of auth/service.go, in code units and bytes, for every text.
THEOREM PasswordContractHolds == FormSpec => []PasswordContract
<1>1. FormInit => Contract
  BY ContractInit
<1>2. Contract /\ [FormNext]_formVars => Contract'
  BY ContractNext
<1>3. Contract => PasswordContract
  BY DEF Contract, PasswordContract
<1> QED
  BY <1>1, <1>2, <1>3, PTL DEF FormSpec

\* An error at name or password describes what the field holds: every edit removes it,
\* and no late answer brings it back.
THEOREM ErrorsAreCurrentHolds == FormSpec => []ErrorsAreCurrent
<1>1. FormInit => ErrorsAreCurrent
  BY DEF FormInit, ErrorsAreCurrent
<1>2. ErrorsAreCurrent /\ [FormNext]_formVars => ErrorsAreCurrent'
  <2> SUFFICES ASSUME ErrorsAreCurrent, [FormNext]_formVars PROVE ErrorsAreCurrent'
    OBVIOUS
  <2>1. CASE UNCHANGED formVars
    BY <2>1 DEF ErrorsAreCurrent, formVars
  <2>2. ASSUME NEW t \in Names, ChangeName(t) PROVE ErrorsAreCurrent'
    BY <2>2 DEF ErrorsAreCurrent, ChangeName, Edited
  <2>3. ASSUME NEW t \in Passwords, ChangePassword(t) PROVE ErrorsAreCurrent'
    BY <2>3 DEF ErrorsAreCurrent, ChangePassword, Edited
  <2>4. CASE ChangeEmail \/ ChangeConfirmation
    BY <2>4 DEF ErrorsAreCurrent, ChangeEmail, ChangeConfirmation, Edited
  <2>5. CASE SubmitForm
    <3>1. errors' = FormErrors /\ name' = name /\ password' = password
      BY <2>5 DEF SubmitForm
    <3>2. /\ "name" \in FormErrors => NameError(name)
          /\ "password" \in FormErrors => PasswordError(password)
      BY DEF FormErrors
    <3> QED
      BY <3>1, <3>2 DEF ErrorsAreCurrent
  <2>6. CASE Created
    BY <2>6 DEF ErrorsAreCurrent, Created
  <2>7. CASE Taken \/ Invalid \/ RequestBreaks
    BY <2>7 DEF ErrorsAreCurrent, Taken, Invalid, RequestBreaks
  <2> QED
    BY <2>1, <2>2, <2>3, <2>4, <2>5, <2>6, <2>7 DEF FormNext
<1> QED
  BY <1>1, <1>2, PTL DEF FormSpec

\* The form promises nothing that the backend refuses and complains of nothing that has
\* been corrected, for every name and password.
THEOREM FormsAreHonest == FormSpec => []FormIsHonest
  BY PasswordContractHolds, ErrorsAreCurrentHolds, PTL DEF FormIsHonest

-----------------------------------------------------------------------------
(* The session: names and tokens belong together, in any number of tabs. *)

\* A slice is complete once its tab has read the user, and then it matches.
SlicesMatch == \A t \in Tabs : midway[t] # "reading" => Match(session[t])

\* localStorage names the owner of the token it holds, if it names somebody, as long as
\* nobody is writing a name.
StorageIsTruthful ==
  (\A s \in Tabs : ~SigningIn(s)) /\ storage.token # 0 /\ storage.user # NoAccount
    => storage.user = issued[storage.token]

\* Whoever is writing a name is alone with it: the token there is the one written before
\* the name, or none, and nobody else writes or reads.
WriterIsAlone ==
  \A s \in Tabs : SigningIn(s) =>
    /\ storage.token \in {0, session[s].token}
    /\ \A u \in Tabs : midway[u] # "reading" /\ (SigningIn(u) => u = s)

\* Whoever has read a token finds the name of its owner, or none.
ReaderFindsOwner ==
  \A t \in Tabs : midway[t] = "reading" /\ session[t].token # 0 /\ storage.user # NoAccount
    => storage.user = issued[session[t].token]

\* An answer to a sign-in makes somebody the owner of a token.
SignInsNameAccounts ==
  \A c \in calls : c.tab \in Tabs /\ (c.kind # "query" => c.account \in Accounts)

\* The types of what the storage and the slices hold; what is to be removed is signed out.
SlicesInv ==
  /\ issued \in Seq(Accounts)
  /\ storage \in Credentials
  /\ session \in [Tabs -> Credentials]
  /\ midway \in [Tabs -> {"no", "reading", "clearing", "writing"}]
  /\ crossed \in BOOLEAN
  /\ SignInsNameAccounts
  /\ \A t \in Tabs : midway[t] = "clearing" => session[t] = SignedOut

OneAtATime == SlicesMatch /\ StorageIsTruthful /\ WriterIsAlone /\ ReaderFindsOwner

SessionInv == SlicesInv /\ (~crossed => OneAtATime)

LEMMA SignedOutMatches ==
  /\ SignedOut \in Credentials /\ Match(SignedOut)
  /\ SignedOut.token = 0 /\ SignedOut.user = NoAccount
BY DEF SignedOut, Credentials, Match

LEMMA InitSession == SessionInit => SessionInv
<1> SUFFICES ASSUME SessionInit PROVE SessionInv
  OBVIOUS
<1>1. /\ session \in [Tabs -> Credentials] /\ SlicesMatch /\ SignInsNameAccounts
      /\ midway = [t \in Tabs |-> "no"] /\ crossed = FALSE
  BY SignedOutMatches DEF SessionInit, SlicesMatch, SignInsNameAccounts
<1>2. WriterIsAlone /\ ReaderFindsOwner
  BY <1>1 DEF WriterIsAlone, ReaderFindsOwner, SigningIn
<1>3. storage \in [token : {0} \cup Token, user : {NoAccount} \cup Range(issued)]
  BY DEF SessionInit
<1>4. issued \in Seq(Accounts) /\ storage \in Credentials /\ StorageIsTruthful
  <2>1. CASE issued = << >>
    <3>1. Range(issued) = {} /\ Token = {}
      BY <2>1 DEF Range, Token
    <3> QED
      BY <1>3, <2>1, <3>1 DEF Credentials, StorageIsTruthful
  <2>2. ASSUME NEW a \in Accounts, issued = <<a>>
        PROVE  issued \in Seq(Accounts) /\ storage \in Credentials /\ StorageIsTruthful
    <3>1. Range(issued) = {a} /\ Token = {1} /\ issued[1] = a
      BY <2>2 DEF Range, Token
    <3>2. issued \in Seq(Accounts)
      BY <2>2
    <3> QED
      BY <1>3, <3>1, <3>2 DEF Credentials, StorageIsTruthful
  <2> QED
    BY <2>1, <2>2, AccountsAssumption DEF SessionInit
<1> QED
  BY <1>1, <1>2, <1>4 DEF SessionInv, SlicesInv, OneAtATime

\* A step that leaves the storage and the slices of all tabs alone.
LEMMA OtherStep ==
  ASSUME SessionInv, UNCHANGED <<issued, storage, session, midway, crossed>>, SignInsNameAccounts'
  PROVE  SessionInv'
BY DEF SessionInv, SlicesInv, OneAtATime, SlicesMatch, StorageIsTruthful, WriterIsAlone,
       ReaderFindsOwner, SigningIn, Credentials, Token, Match

\* The slice of one tab and the storage are replaced, and the tab goes on to its next call.
LEMMA SlicesStep ==
  ASSUME SlicesInv, UNCHANGED issued, NEW t \in Tabs, NEW c \in Credentials,
         NEW next \in {"no", "reading", "clearing", "writing"},
         session' = [session EXCEPT ![t] = c], Step(t, next), storage' \in Credentials,
         next = "clearing" => c = SignedOut,
         crossed' \in BOOLEAN, SignInsNameAccounts'
  PROVE  /\ SlicesInv'
         /\ session'[t] = c /\ midway'[t] = next
         /\ \A s \in Tabs \ {t} : session'[s] = session[s] /\ midway'[s] = midway[s]
BY DEF SlicesInv, Credentials, Token, Step, SignedOut

LEMMA LogoutKeepsNames ==
  ASSUME SessionInv, NEW t \in Tabs, Through(t), Logout(t), UNCHANGED issued,
         SignInsNameAccounts'
  PROVE  SessionInv'
<1>1. /\ session' = [session EXCEPT ![t] = SignedOut] /\ Step(t, "writing")
      /\ storage' = [storage EXCEPT !.token = 0] /\ crossed' = crossed
  BY DEF Logout
<1>2. /\ storage' \in Credentials /\ storage'.token = 0 /\ storage'.user = storage.user
      /\ crossed' \in BOOLEAN
  BY <1>1 DEF SessionInv, SlicesInv, Credentials
<1>3. /\ SlicesInv' /\ session'[t] = SignedOut /\ midway'[t] = "writing"
      /\ \A s \in Tabs \ {t} : session'[s] = session[s] /\ midway'[s] = midway[s]
  BY <1>1, <1>2, SignedOutMatches, SlicesStep DEF SessionInv
<1>4. ~SigningIn(t) /\ ~SigningIn(t)' /\ \A s \in Tabs \ {t} : SigningIn(s)' = SigningIn(s)
  BY <1>3, SignedOutMatches DEF SigningIn, Through
<1>5. ASSUME OneAtATime PROVE OneAtATime'
  <2>1. SlicesMatch'
    BY <1>3, <1>5, SignedOutMatches DEF OneAtATime, SlicesMatch, Match
  <2>2. StorageIsTruthful'
    BY <1>2 DEF StorageIsTruthful
  <2>3. WriterIsAlone'
    BY <1>2, <1>3, <1>4, <1>5 DEF OneAtATime, WriterIsAlone
  <2>4. ReaderFindsOwner'
    BY <1>2, <1>3, <1>5 DEF OneAtATime, ReaderFindsOwner
  <2> QED
    BY <2>1, <2>2, <2>3, <2>4 DEF OneAtATime
<1> QED
  BY <1>1, <1>3, <1>5 DEF SessionInv

\* A tab is given the token of the storage, and the name is going to be that of its owner.
LEMMA LoadKeepsNames ==
  ASSUME SessionInv, NEW t \in Tabs, NEW p, Load(t, p)
  PROVE  SessionInv'
<1> DEFINE c == [token |-> storage.token, user |-> NoAccount]
<1>1. /\ session' = [session EXCEPT ![t] = c] /\ Step(t, "reading")
      /\ UNCHANGED <<storage, issued>> /\ calls' \subseteq calls
      /\ crossed' = (crossed \/ \E s \in Tabs : SigningIn(s))
  BY DEF Load
<1>2. c \in Credentials /\ storage' \in Credentials /\ crossed' \in BOOLEAN
  BY <1>1 DEF SessionInv, SlicesInv, Credentials
<1>3. SignInsNameAccounts'
  BY <1>1 DEF SessionInv, SlicesInv, SignInsNameAccounts
<1>4. c.token = storage.token
  OBVIOUS
<1> HIDE DEF c
<1>5. /\ SlicesInv' /\ session'[t] = c /\ midway'[t] = "reading"
      /\ \A s \in Tabs \ {t} : session'[s] = session[s] /\ midway'[s] = midway[s]
  BY <1>1, <1>2, <1>3, SlicesStep DEF SessionInv
<1>6. ASSUME ~crossed' PROVE OneAtATime'
  <2>1. /\ OneAtATime /\ \A s \in Tabs : ~SigningIn(s)
    BY <1>1, <1>6 DEF SessionInv
  <2>2. \A s \in Tabs : ~SigningIn(s)'
    BY <1>5, <2>1 DEF SigningIn
  <2>3. SlicesMatch'
    BY <1>1, <1>5, <2>1 DEF OneAtATime, SlicesMatch, Match
  <2>4. StorageIsTruthful'
    BY <1>1, <2>1 DEF OneAtATime, StorageIsTruthful
  <2>5. WriterIsAlone'
    BY <2>2 DEF WriterIsAlone
  <2>6. ReaderFindsOwner'
    BY <1>1, <1>4, <1>5, <2>1 DEF OneAtATime, ReaderFindsOwner, StorageIsTruthful
  <2> QED
    BY <2>3, <2>4, <2>5, <2>6 DEF OneAtATime
<1> QED
  BY <1>5, <1>6 DEF SessionInv

\* What is read completes a slice that matches, or none.
LEMMA ReadUserKeepsNames ==
  ASSUME SessionInv, NEW t \in Tabs, ReadUser(t)
  PROVE  SessionInv'
<1>0. /\ midway[t] = "reading" /\ UNCHANGED <<issued, storage, calls, crossed>>
      /\ SlicesInv /\ storage \in Credentials /\ session[t] \in Credentials
      /\ crossed \in BOOLEAN
  BY DEF ReadUser, SessionInv, SlicesInv
<1>1. SignInsNameAccounts'
  BY <1>0 DEF SlicesInv, SignInsNameAccounts
<1>2. PICK c \in Credentials, next \in {"no", "clearing"} :
        /\ session' = [session EXCEPT ![t] = c] /\ Step(t, next)
        /\ next = "clearing" => c = SignedOut
        /\ OneAtATime => Match(c)
  <2>1. CASE session[t].token \in {0} \cup expired \/ storage.user = NoAccount
    BY <2>1, SignedOutMatches DEF ReadUser
  <2>2. CASE ~(session[t].token \in {0} \cup expired \/ storage.user = NoAccount)
    <3> DEFINE d == [session[t] EXCEPT !.user = storage.user]
    <3>1. /\ d \in Credentials /\ d.token = session[t].token /\ d.user = storage.user
      BY <1>0 DEF Credentials
    <3>2. session' = [session EXCEPT ![t] = d] /\ Step(t, "no")
      BY <2>2 DEF ReadUser
    <3>3. OneAtATime => Match(d)
      BY <1>0, <2>2, <3>1 DEF OneAtATime, ReaderFindsOwner, Match
    <3> HIDE DEF d
    <3> QED
      BY <3>1, <3>2, <3>3
  <2> QED
    BY <2>1, <2>2
<1>3. /\ SlicesInv' /\ session'[t] = c /\ midway'[t] = next
      /\ \A s \in Tabs \ {t} : session'[s] = session[s] /\ midway'[s] = midway[s]
  BY <1>0, <1>1, <1>2, SlicesStep
<1>4. ~SigningIn(t) /\ ~SigningIn(t)' /\ \A s \in Tabs \ {t} : SigningIn(s)' = SigningIn(s)
  BY <1>0, <1>2, <1>3 DEF SigningIn
<1>5. ASSUME OneAtATime PROVE OneAtATime'
  <2>1. SlicesMatch'
    BY <1>0, <1>2, <1>3, <1>5 DEF OneAtATime, SlicesMatch, Match
  <2>2. StorageIsTruthful'
    BY <1>0, <1>4, <1>5 DEF OneAtATime, StorageIsTruthful
  <2>3. WriterIsAlone'
    BY <1>0, <1>2, <1>3, <1>4, <1>5 DEF OneAtATime, WriterIsAlone
  <2>4. ReaderFindsOwner'
    BY <1>0, <1>2, <1>3, <1>5 DEF OneAtATime, ReaderFindsOwner
  <2> QED
    BY <2>1, <2>2, <2>3, <2>4 DEF OneAtATime
<1> QED
  BY <1>0, <1>3, <1>5 DEF SessionInv

LEMMA ClearTokenKeepsNames ==
  ASSUME SessionInv, NEW t \in Tabs, ClearToken(t)
  PROVE  SessionInv'
<1>1. /\ midway[t] = "clearing" /\ session[t] = SignedOut /\ session \in [Tabs -> Credentials]
      /\ session' = session /\ session' = [session EXCEPT ![t] = SignedOut]
      /\ Step(t, "writing") /\ storage' = [storage EXCEPT !.token = 0]
      /\ UNCHANGED <<issued, calls, crossed>>
  BY DEF ClearToken, SessionInv, SlicesInv
<1>2. /\ storage' \in Credentials /\ storage'.token = 0 /\ storage'.user = storage.user
      /\ crossed' \in BOOLEAN /\ SignInsNameAccounts'
  BY <1>1 DEF SessionInv, SlicesInv, Credentials, SignInsNameAccounts
<1>3. /\ SlicesInv' /\ session'[t] = SignedOut /\ midway'[t] = "writing"
      /\ \A s \in Tabs \ {t} : session'[s] = session[s] /\ midway'[s] = midway[s]
  BY <1>1, <1>2, SignedOutMatches, SlicesStep DEF SessionInv
<1>4. ~SigningIn(t) /\ ~SigningIn(t)' /\ \A s \in Tabs \ {t} : SigningIn(s)' = SigningIn(s)
  BY <1>1, <1>3, SignedOutMatches DEF SigningIn
<1>5. ASSUME OneAtATime PROVE OneAtATime'
  <2>1. SlicesMatch'
    BY <1>1, <1>3, <1>5, SignedOutMatches DEF OneAtATime, SlicesMatch, Match
  <2>2. StorageIsTruthful'
    BY <1>2 DEF StorageIsTruthful
  <2>3. WriterIsAlone'
    BY <1>2, <1>3, <1>4, <1>5 DEF OneAtATime, WriterIsAlone
  <2>4. ReaderFindsOwner'
    BY <1>1, <1>2, <1>3, <1>5 DEF OneAtATime, ReaderFindsOwner
  <2> QED
    BY <2>1, <2>2, <2>3, <2>4 DEF OneAtATime
<1> QED
  BY <1>1, <1>3, <1>5 DEF SessionInv

\* The name that is written is that of the owner of the token written before it, or none.
LEMMA WriteUserKeepsNames ==
  ASSUME SessionInv, NEW t \in Tabs, WriteUser(t)
  PROVE  SessionInv'
<1>1. /\ midway[t] = "writing" /\ session \in [Tabs -> Credentials] /\ session[t] \in Credentials
      /\ session' = session /\ session' = [session EXCEPT ![t] = session[t]]
      /\ Step(t, "no") /\ storage' = [storage EXCEPT !.user = session[t].user]
      /\ UNCHANGED <<issued, calls, crossed>>
  BY DEF WriteUser, SessionInv, SlicesInv
<1>2. /\ storage' \in Credentials /\ storage'.token = storage.token
      /\ storage'.user = session[t].user
      /\ crossed' \in BOOLEAN /\ SignInsNameAccounts'
  BY <1>1 DEF SessionInv, SlicesInv, Credentials, SignInsNameAccounts
<1>3. /\ SlicesInv' /\ session'[t] = session[t] /\ midway'[t] = "no"
      /\ \A s \in Tabs \ {t} : session'[s] = session[s] /\ midway'[s] = midway[s]
  BY <1>1, <1>2, SlicesStep DEF SessionInv
<1>4. ~SigningIn(t)' /\ \A s \in Tabs \ {t} : SigningIn(s)' = SigningIn(s)
  BY <1>3 DEF SigningIn
<1>5. ASSUME OneAtATime PROVE OneAtATime'
  <2>1. SlicesMatch' /\ Match(session[t])
    BY <1>1, <1>3, <1>5 DEF OneAtATime, SlicesMatch, Match
  <2>2. CASE SigningIn(t)
    <3>1. /\ storage.token \in {0, session[t].token}
          /\ \A u \in Tabs : midway[u] # "reading" /\ (SigningIn(u) => u = t)
      BY <1>5, <2>2 DEF OneAtATime, WriterIsAlone
    <3>2. \A u \in Tabs : ~SigningIn(u)' /\ midway'[u] # "reading"
      BY <1>3, <1>4, <3>1
    <3>3. StorageIsTruthful'
      BY <1>1, <1>2, <2>1, <3>1 DEF StorageIsTruthful, Match
    <3>4. WriterIsAlone' /\ ReaderFindsOwner'
      BY <3>2 DEF WriterIsAlone, ReaderFindsOwner
    <3> QED
      BY <2>1, <3>3, <3>4 DEF OneAtATime
  <2>3. CASE ~SigningIn(t)
    <3>1. storage'.user = NoAccount
      BY <1>1, <1>2, <2>1, <2>3 DEF SigningIn, Match
    <3>2. StorageIsTruthful' /\ ReaderFindsOwner'
      BY <3>1 DEF StorageIsTruthful, ReaderFindsOwner
    <3>3. WriterIsAlone'
      BY <1>1, <1>2, <1>3, <1>4, <1>5, <2>3 DEF OneAtATime, WriterIsAlone
    <3> QED
      BY <2>1, <3>2, <3>3 DEF OneAtATime
  <2> QED
    BY <2>2, <2>3
<1> QED
  BY <1>1, <1>3, <1>5 DEF SessionInv

\* A new token: it belongs to whoever has signed in, and the old ones to whom they did.
LEMMA SignedInKeepsNames ==
  ASSUME SessionInv, NEW c \in calls, SignedIn(c)
  PROVE  SessionInv'
<1> DEFINE new == [token |-> Len(issued'), user |-> c.account]
<1>1. c.account \in Accounts /\ c.tab \in Tabs /\ issued \in Seq(Accounts) /\ midway[c.tab] = "no"
  BY DEF SessionInv, SlicesInv, SignInsNameAccounts, SignedIn, Through
<1>2. /\ issued' \in Seq(Accounts) /\ Len(issued') = Len(issued) + 1
      /\ issued'[Len(issued')] = c.account
      /\ Len(issued) \in Nat
      /\ \A k \in Token : k \in Token' /\ issued'[k] = issued[k] /\ k # 0
  BY <1>1 DEF SignedIn, Token
<1>3. /\ storage' = [storage EXCEPT !.token = new.token]
      /\ session' = [session EXCEPT ![c.tab] = new]
      /\ midway' = [midway EXCEPT ![c.tab] = "writing"]
      /\ crossed' = (crossed \/ \E s \in Tabs : SigningIn(s) \/ midway[s] = "reading")
      /\ calls' \subseteq calls
  BY DEF SignedIn, SetCredentials, Step
<1>4. new \in Credentials'
  <2>1. Len(issued') \in Token'
    BY <1>1, <1>2 DEF Token
  <2> QED
    BY <1>1, <2>1 DEF Credentials
<1>5. new.token # 0 /\ new.user = issued'[new.token]
  BY <1>2
<1>6. \A d \in Credentials : d \in Credentials' /\ (Match(d) => Match(d)')
  BY <1>2 DEF Credentials, Match
<1> HIDE DEF new
<1>7. /\ session'[c.tab] = new /\ midway'[c.tab] = "writing"
      /\ \A s \in Tabs \ {c.tab} : session'[s] = session[s] /\ midway'[s] = midway[s]
  BY <1>1, <1>3 DEF SessionInv, SlicesInv
<1>8. SlicesInv'
  <2>1. storage \in Credentials' /\ new.token \in {0} \cup Token'
    BY <1>4, <1>6 DEF SessionInv, SlicesInv, Credentials
  <2>2. storage' \in Credentials'
    BY <1>3, <2>1 DEF Credentials
  <2>3. session' \in [Tabs -> Credentials']
    BY <1>1, <1>3, <1>4, <1>6 DEF SessionInv, SlicesInv
  <2>4. SignInsNameAccounts' /\ crossed' \in BOOLEAN
    BY <1>3 DEF SessionInv, SlicesInv, SignInsNameAccounts
  <2>5. /\ midway' \in [Tabs -> {"no", "reading", "clearing", "writing"}]
        /\ \A t \in Tabs : midway'[t] = "clearing" => session'[t] = SignedOut
    BY <1>1, <1>3, <1>7 DEF SessionInv, SlicesInv
  <2> QED
    BY <1>2, <2>2, <2>3, <2>4, <2>5 DEF SlicesInv, SignedOut
<1>9. ASSUME ~crossed' PROVE OneAtATime'
  <2>1. /\ OneAtATime
        /\ \A s \in Tabs : ~SigningIn(s) /\ midway[s] # "reading"
    BY <1>3, <1>9 DEF SessionInv
  <2>2. /\ SigningIn(c.tab)' /\ \A s \in Tabs \ {c.tab} : ~SigningIn(s)'
        /\ \A s \in Tabs : midway'[s] # "reading"
    BY <1>5, <1>7, <2>1 DEF SigningIn
  <2>3. SlicesMatch'
    <3> SUFFICES ASSUME NEW t \in Tabs PROVE Match(session[t])'
      BY DEF SlicesMatch
    <3>1. CASE t = c.tab
      BY <1>5, <1>7, <3>1 DEF Match
    <3>2. CASE t # c.tab
      <4>1. session'[t] = session[t] /\ session[t] \in Credentials /\ Match(session[t])
        BY <1>7, <2>1, <3>2 DEF SessionInv, SlicesInv, OneAtATime, SlicesMatch
      <4> QED
        BY <1>6, <4>1 DEF Match
    <3> QED
      BY <3>1, <3>2
  <2>4. storage'.token = session'[c.tab].token
    BY <1>3, <1>7 DEF SessionInv, SlicesInv, Credentials
  <2>5. StorageIsTruthful' /\ WriterIsAlone' /\ ReaderFindsOwner'
    BY <1>1, <2>2, <2>4 DEF StorageIsTruthful, WriterIsAlone, ReaderFindsOwner
  <2> QED
    BY <2>3, <2>5 DEF OneAtATime
<1> QED
  BY <1>8, <1>9 DEF SessionInv

LEMMA NextSession == SessionInv /\ [SessionNext]_sessionVars => SessionInv'
<1> SUFFICES ASSUME SessionInv, [SessionNext]_sessionVars PROVE SessionInv'
  OBVIOUS
<1>0. /\ SignInsNameAccounts
      /\ calls' \subseteq calls => SignInsNameAccounts'
  BY DEF SessionInv, SlicesInv, SignInsNameAccounts
<1>1. CASE UNCHANGED sessionVars
  BY <1>0, <1>1, OtherStep DEF sessionVars
<1>2. ASSUME NEW t \in Tabs, NEW p \in Path, Load(t, p) PROVE SessionInv'
  BY <1>2, LoadKeepsNames
<1>3. ASSUME NEW t \in Tabs, Redirect(t) \/ \E p \in Path : Follow(t, p) PROVE SessionInv'
  BY <1>0, <1>3, OtherStep DEF Redirect, Follow, localStep
<1>4. ASSUME NEW t \in Tabs, ClickLogout(t) PROVE SessionInv'
  BY <1>0, <1>4, LogoutKeepsNames DEF ClickLogout
<1>5. ASSUME NEW t \in Tabs, Query(t) PROVE SessionInv'
  <2>1. SignInsNameAccounts'
    BY <1>0, <1>5 DEF Query, SignInsNameAccounts
  <2> QED
    BY <1>5, <2>1, OtherStep DEF Query, localStep
<1>6. ASSUME NEW t \in Tabs, NEW kind \in Guest, NEW a \in Accounts, SignIn(t, kind, a)
      PROVE  SessionInv'
  <2>1. SignInsNameAccounts'
    BY <1>0, <1>6 DEF SignIn, SignInsNameAccounts
  <2> QED
    BY <1>6, <2>1, OtherStep DEF SignIn, localStep
<1>7. ASSUME NEW c \in calls, SignedIn(c) PROVE SessionInv'
  BY <1>7, SignedInKeepsNames
<1>8. ASSUME NEW c \in calls, Unauthorized(c) PROVE SessionInv'
  <2>1. c.tab \in Tabs /\ Through(c.tab) /\ SignInsNameAccounts'
    BY <1>0, <1>8 DEF Unauthorized, Answered, SignInsNameAccounts
  <2> QED
    BY <1>8, <2>1, LogoutKeepsNames DEF Unauthorized
<1>9. ASSUME NEW c \in calls, Authorized(c) \/ Fail(c) PROVE SessionInv'
  BY <1>0, <1>9, OtherStep DEF Authorized, Fail, Answered, localStep
<1>10. ASSUME NEW k \in Token, Expire(k) PROVE SessionInv'
  BY <1>0, <1>10, OtherStep DEF Expire, localStep
<1>11. ASSUME NEW t \in Tabs, UseStorage(t) PROVE SessionInv'
  BY <1>11, ReadUserKeepsNames, ClearTokenKeepsNames, WriteUserKeepsNames DEF UseStorage
<1> QED
  BY <1>1, <1>2, <1>3, <1>4, <1>5, <1>6, <1>7, <1>8, <1>9, <1>10, <1>11
     DEF SessionNext, Visitor, Arrive

\* However many tabs take turns to sign in, sign out and reload, however their calls of
\* localStorage interleave and whatever an earlier visit has left there, nobody acts under
\* a name with somebody else's token, as long as no two tabs have crossed: as long as
\* nobody has signed in while another tab was in the middle of signing in or of reading,
\* nor read while another was in the middle of signing in.
THEOREM CredentialsBelongTogether == SessionSpec => []CredentialsMatch
<1>1. SessionInv => CredentialsMatch
  BY DEF SessionInv, OneAtATime, SlicesMatch, CredentialsMatch, Through
<1> QED
  BY <1>1, InitSession, NextSession, PTL DEF SessionSpec

-----------------------------------------------------------------------------
(* The copy in localStorage: a single tab and its storage agree. *)

\* A tab that is open stays open, and whatever is waited for is waited for in an open tab.
TabsInv ==
  /\ place \in [Tabs -> Path \cup {"closed"}]
  /\ from \in [Tabs -> Path \cup {"none"}]
  /\ \A c \in calls : c.tab \in Tabs /\ place[c.tab] # "closed" /\ c.back \in Path
  /\ \A t \in Tabs : place[t] = "closed" => midway[t] = "no"

\* What a single tab and the storage have in common at each of its calls.
Copied(t) ==
  /\ midway[t] = "no" => storage = session[t]
  /\ midway[t] \in {"reading", "writing"} => storage.token = session[t].token

Alone(t) == place[t] # "closed" /\ \A s \in Tabs \ {t} : place[s] = "closed"

CopyInv == SessionInv /\ TabsInv /\ \A t \in Tabs : Alone(t) => Copied(t)

LEMMA PathsAreOpen ==
  /\ "closed" \notin Path /\ "none" \notin Path /\ "dashboard" \in Path /\ "login" \in Path
  /\ \A t \in Tabs : place[t] \in Path => Destination(t) \in Path
BY DEF Path, Guest, Member, Destination

\* A tab that goes to a page is open from then on, and the others are where they were.
LEMMA GoOpens ==
  ASSUME TabsInv, NEW t \in Tabs, NEW p \in Path, NEW state \in Path \cup {"none"},
         Go(t, p, state), calls' \subseteq calls,
         \A s \in Tabs \ {t} : midway'[s] = midway[s]
  PROVE  TabsInv' /\ place'[t] # "closed" /\ \A s \in Tabs \ {t} : place'[s] = place[s]
<1>1. /\ place' = [place EXCEPT ![t] = p] /\ from' = [from EXCEPT ![t] = state]
      /\ p # "closed"
  BY PathsAreOpen DEF Go
<1>2. \A c \in calls' : c.tab \in Tabs /\ place'[c.tab] # "closed" /\ c.back \in Path
  BY <1>1 DEF TabsInv
<1>3. place' \in [Tabs -> Path \cup {"closed"}] /\ from' \in [Tabs -> Path \cup {"none"}]
  BY <1>1 DEF TabsInv
<1>4. \A s \in Tabs : place'[s] = "closed" => midway'[s] = "no"
  BY <1>1 DEF TabsInv
<1> QED
  BY <1>1, <1>2, <1>3, <1>4 DEF TabsInv

\* An open tab moves: if it is alone, nothing else has to be looked at.
LEMMA OpenTabMoves ==
  ASSUME NEW t \in Tabs, place'[t] # "closed", Copied(t)'
  PROVE  \A u \in Tabs : Alone(u)' => Copied(u)'
BY DEF Alone

\* Neither the storage nor any session changes, and no tab is opened.
LEMMA NothingIsWritten ==
  ASSUME CopyInv, UNCHANGED <<storage, session, midway>>,
         \A s \in Tabs : place'[s] = "closed" <=> place[s] = "closed"
  PROVE  \A u \in Tabs : Alone(u)' => Copied(u)'
BY DEF CopyInv, Alone, Copied

\* A tab calls localStorage once and stays where it is.
LEMMA CallKeepsTabs ==
  ASSUME TabsInv, NEW t \in Tabs, NEW next, Step(t, next), place[t] # "closed",
         UNCHANGED <<place, from>>, calls' \subseteq calls
  PROVE  TabsInv' /\ place'[t] # "closed"
<1>1. \A s \in Tabs \ {t} : midway'[s] = midway[s]
  BY DEF Step
<1> QED
  BY <1>1 DEF TabsInv

LEMMA LogoutKeepsCopy ==
  ASSUME SessionInv, NEW t \in Tabs, Logout(t)
  PROVE  Copied(t)' /\ Step(t, "writing")
<1>1. /\ session'[t] = SignedOut /\ midway'[t] = "writing" /\ storage'.token = 0
      /\ Step(t, "writing")
  BY DEF Logout, Step, SessionInv, SlicesInv, Credentials
<1> QED
  BY <1>1, SignedOutMatches DEF Copied

\* The three calls that hydrateAuthState and the reducers have left.
LEMMA StorageKeepsCopy ==
  ASSUME CopyInv, NEW t \in Tabs, UseStorage(t)
  PROVE  TabsInv' /\ \A u \in Tabs : Alone(u)' => Copied(u)'
<1>0. /\ SessionInv /\ TabsInv /\ UNCHANGED <<place, from, calls>>
      /\ storage \in Credentials /\ session \in [Tabs -> Credentials]
      /\ session[t] \in Credentials
      /\ midway \in [Tabs -> {"no", "reading", "clearing", "writing"}]
      /\ midway[t] # "no"
  BY DEF CopyInv, SessionInv, SlicesInv, UseStorage, ReadUser, ClearToken, WriteUser
<1>1. place[t] # "closed"
  BY <1>0 DEF TabsInv
<1>2. PICK next : Step(t, next)
  BY DEF UseStorage, ReadUser, ClearToken, WriteUser
<1>3. TabsInv' /\ place'[t] # "closed" /\ Alone(t)' = Alone(t)
  BY <1>0, <1>1, <1>2, CallKeepsTabs DEF Alone
<1>4. ASSUME Alone(t), ReadUser(t) PROVE Copied(t)'
  <2>1. midway[t] = "reading" /\ storage.token = session[t].token /\ storage' = storage
    BY <1>4 DEF CopyInv, Copied, ReadUser
  <2>2. CASE session' = [session EXCEPT ![t] = SignedOut] /\ Step(t, "clearing")
    BY <1>0, <2>2 DEF Copied, Step
  <2>3. CASE session' = [session EXCEPT ![t].user = storage.user] /\ Step(t, "no")
    <3>1. session'[t] = [session[t] EXCEPT !.user = storage.user] /\ midway'[t] = "no"
      BY <1>0, <2>3 DEF Step
    <3>2. session'[t] = storage
      BY <1>0, <2>1, <3>1 DEF Credentials
    <3> QED
      BY <2>1, <3>1, <3>2 DEF Copied
  <2> QED
    BY <1>4, <2>2, <2>3 DEF ReadUser
<1>5. ASSUME ClearToken(t) PROVE Copied(t)'
  <2>1. session'[t] = SignedOut /\ midway'[t] = "writing" /\ storage'.token = 0
    BY <1>0, <1>5 DEF ClearToken, Step, SessionInv, SlicesInv, Credentials
  <2> QED
    BY <2>1, SignedOutMatches DEF Copied
<1>6. ASSUME Alone(t), WriteUser(t) PROVE Copied(t)'
  <2>1. /\ storage.token = session[t].token /\ session' = session
        /\ storage' = [storage EXCEPT !.user = session[t].user] /\ midway'[t] = "no"
    BY <1>0, <1>6 DEF CopyInv, Copied, WriteUser, Step
  <2>2. storage' = session'[t]
    BY <1>0, <2>1 DEF Credentials
  <2> QED
    BY <2>1, <2>2 DEF Copied
<1>7. Alone(t) => Copied(t)'
  BY <1>4, <1>5, <1>6 DEF UseStorage
<1>8. \A u \in Tabs \ {t} : ~Alone(u)'
  BY <1>3 DEF Alone
<1> QED
  BY <1>3, <1>7, <1>8

LEMMA InitCopy == SessionInit => CopyInv
<1> SUFFICES ASSUME SessionInit PROVE CopyInv
  OBVIOUS
<1>1. TabsInv
  BY DEF SessionInit, TabsInv
<1>2. \A t \in Tabs : ~Alone(t)
  BY DEF SessionInit, Alone
<1> QED
  BY <1>1, <1>2, InitSession DEF CopyInv

LEMMA NextCopy == CopyInv /\ [SessionNext]_sessionVars => CopyInv'
<1> DEFINE CopyKept == TabsInv' /\ \A u \in Tabs : Alone(u)' => Copied(u)'
<1> SUFFICES ASSUME CopyInv, [SessionNext]_sessionVars PROVE CopyKept
  BY NextSession DEF CopyInv
<1>0. TabsInv /\ SessionInv
  BY DEF CopyInv
<1>1. ASSUME UNCHANGED <<storage, session, place, from, midway>>,
             \A c \in calls' : c \in calls \/ (/\ c.tab \in Tabs /\ place[c.tab] # "closed"
                                               /\ c.back \in Path)
      PROVE  CopyKept
  BY <1>0, <1>1, NothingIsWritten DEF TabsInv
<1>2. CASE UNCHANGED sessionVars
  BY <1>1, <1>2 DEF sessionVars
<1>3. ASSUME NEW t \in Tabs, NEW p \in Path, Load(t, p) PROVE CopyKept
  <2>1. Step(t, "reading") /\ Go(t, p, "none") /\ calls' \subseteq calls
    BY <1>3 DEF Load
  <2>2. midway'[t] = "reading" /\ \A s \in Tabs \ {t} : midway'[s] = midway[s]
    BY <1>0, <2>1 DEF Step, SessionInv, SlicesInv
  <2>3. TabsInv' /\ place'[t] # "closed"
    BY <1>0, <2>1, <2>2, GoOpens
  <2>4. storage'.token = session'[t].token
    BY <1>0, <1>3 DEF Load, SessionInv, SlicesInv
  <2> QED
    BY <2>2, <2>3, <2>4, OpenTabMoves DEF Copied
<1>4. ASSUME NEW t \in Tabs, NEW p \in Path, Follow(t, p) PROVE CopyKept
  <2>1. /\ TabsInv' /\ place'[t] # "closed" /\ \A s \in Tabs \ {t} : place'[s] = place[s]
    BY <1>0, <1>4, GoOpens DEF Follow, localStep
  <2> QED
    BY <1>4, <2>1, NothingIsWritten DEF Follow, localStep
<1>5. ASSUME NEW t \in Tabs, Redirect(t) PROVE CopyKept
  <2>1. place[t] \in Path
    BY <1>0, <1>5 DEF Redirect, Settled, TabsInv
  <2>2. Destination(t) \in Path
    BY <2>1, PathsAreOpen
  <2>3. /\ TabsInv' /\ place'[t] # "closed" /\ \A s \in Tabs \ {t} : place'[s] = place[s]
    <3> DEFINE state == IF Destination(t) = "login" THEN place[t] ELSE "none"
    <3>1. Go(t, Destination(t), state) /\ calls' \subseteq calls /\ midway' = midway
      BY <1>5 DEF Redirect, localStep
    <3>2. state \in Path \cup {"none"}
      BY <2>1
    <3> HIDE DEF state
    <3> QED
      BY <1>0, <2>2, <3>1, <3>2, GoOpens
  <2>4. place[t] # "closed"
    BY <2>1, PathsAreOpen
  <2> QED
    BY <1>5, <2>3, <2>4, NothingIsWritten DEF Redirect, localStep
<1>6. ASSUME NEW t \in Tabs, ClickLogout(t) PROVE CopyKept
  <2>1. Copied(t)' /\ Step(t, "writing")
    BY <1>0, <1>6, LogoutKeepsCopy DEF ClickLogout
  <2>2. place'[t] # "closed" /\ TabsInv'
    BY <1>0, <1>6, <2>1, CallKeepsTabs DEF ClickLogout
  <2> QED
    BY <2>1, <2>2, OpenTabMoves
<1>7. ASSUME NEW t \in Tabs, Query(t) PROVE CopyKept
  <2>1. place[t] # "closed"
    BY <1>7 DEF Query, Member
  <2> QED
    BY <1>1, <1>7, <2>1, PathsAreOpen DEF Query, localStep
<1>8. ASSUME NEW t \in Tabs, NEW kind \in Guest, NEW a \in Accounts, SignIn(t, kind, a)
      PROVE  CopyKept
  <2>1. place[t] # "closed"
    BY <1>8 DEF SignIn, Guest
  <2>2. Back(t, kind) \in Path
    BY <1>0, PathsAreOpen DEF Back, TabsInv
  <2> QED
    BY <1>1, <1>8, <2>1, <2>2 DEF SignIn, localStep
<1>9. ASSUME NEW c \in calls, SignedIn(c) PROVE CopyKept
  <2>1. c.tab \in Tabs /\ c.back \in Path
    BY <1>0 DEF TabsInv
  <2>2. PICK p \in {c.back} \cup (IF place[c.tab] \in Guest THEN {"dashboard"} ELSE {}) :
          Go(c.tab, p, "none")
    BY <1>9 DEF SignedIn
  <2>3. /\ p \in Path /\ calls' \subseteq calls
        /\ \A s \in Tabs \ {c.tab} : midway'[s] = midway[s]
    BY <1>0, <1>9, <2>1, <2>2, PathsAreOpen
       DEF SignedIn, SetCredentials, Step, SessionInv, SlicesInv
  <2>4. TabsInv' /\ place'[c.tab] # "closed"
    BY <1>0, <2>1, <2>2, <2>3, GoOpens
  <2>5. midway'[c.tab] = "writing" /\ storage'.token = session'[c.tab].token
    BY <1>0, <1>9, <2>1 DEF SignedIn, SetCredentials, Step, SessionInv, SlicesInv, Credentials
  <2> QED
    BY <2>1, <2>4, <2>5, OpenTabMoves DEF Copied
<1>10. ASSUME NEW c \in calls, Unauthorized(c) PROVE CopyKept
  <2>1. /\ c.tab \in Tabs /\ place[c.tab] # "closed" /\ Logout(c.tab) /\ calls' \subseteq calls
        /\ UNCHANGED <<place, from>>
    BY <1>0, <1>10 DEF Unauthorized, Answered, TabsInv
  <2>2. Copied(c.tab)' /\ Step(c.tab, "writing")
    BY <1>0, <2>1, LogoutKeepsCopy
  <2>3. place'[c.tab] # "closed" /\ TabsInv'
    BY <1>0, <2>1, <2>2, CallKeepsTabs
  <2> QED
    BY <2>1, <2>2, <2>3, OpenTabMoves
<1>11. ASSUME NEW c \in calls, Authorized(c) \/ Fail(c) PROVE CopyKept
  BY <1>1, <1>11 DEF Authorized, Fail, Answered, localStep
<1>12. ASSUME NEW k \in Token, Expire(k) PROVE CopyKept
  BY <1>1, <1>12 DEF Expire, localStep
<1>13. ASSUME NEW t \in Tabs, UseStorage(t) PROVE CopyKept
  BY <1>13, StorageKeepsCopy
<1> HIDE DEF CopyKept
<1> QED
  BY <1>2, <1>3, <1>4, <1>5, <1>6, <1>7, <1>8, <1>9, <1>10, <1>11, <1>12, <1>13
     DEF SessionNext, Visitor, Arrive

\* As long as one tab is open its session is what localStorage holds: a reload neither
\* signs anybody in nor out, except for an expired token.
THEOREM StorageIsCopied == SessionSpec => []StorageIsACopy
<1>1. CopyInv => StorageIsACopy
  BY DEF CopyInv, Alone, Copied, Through, StorageIsACopy
<1> QED
  BY <1>1, InitCopy, NextCopy, PTL DEF SessionSpec

-----------------------------------------------------------------------------
(* The list of recent batches: what it calls finished is finished. *)

\* Counts of one batch: none, or those of all its payments.
Whole(c) == c \in Counts /\ c.pending + c.processing + c.success + c.failed \in {0, Total}

\* Counts of the batch taken at some moment before now: results only become more.
Earlier(c) == Whole(c) /\ c.success <= counts.success /\ c.failed <= counts.failed

HistoryInv ==
  /\ Whole(counts)
  /\ batch # "stored" => counts = None
  /\ \A r \in polls : Earlier(r.row)
  /\ Earlier(row)

LEMMA NoneIsWhole ==
  ASSUME NEW b \in BOOLEAN
  PROVE  /\ Whole(None)
         /\ Whole([None EXCEPT !.known = b, !.pending = Total])
<1>1. 0 \in 0..Total /\ Total \in 0..Total /\ Total \in Nat
  BY TotalAssumption
<1>2. Whole(None)
  BY <1>1 DEF Whole, None, Counts
<1> DEFINE c == [None EXCEPT !.known = b, !.pending = Total]
<1>3. c \in Counts
  BY <1>1 DEF None, Counts
<1>4. c.pending = Total /\ c.processing = 0 /\ c.success = 0 /\ c.failed = 0
  BY DEF None
<1> QED
  BY <1>1, <1>2, <1>3, <1>4 DEF Whole

\* Nothing counted is earlier than everything.
LEMMA NoneIsEarlier ==
  ASSUME Whole(counts), NEW b \in BOOLEAN
  PROVE  Earlier(None) /\ Earlier([None EXCEPT !.known = b])
BY TotalAssumption DEF Earlier, Whole, None, Counts

\* The database moves on: what was earlier stays earlier.
LEMMA DatabaseStep ==
  ASSUME HistoryInv, UNCHANGED historyCard, Whole(counts'), batch' # "stored" => counts' = None,
         counts.success <= counts'.success, counts.failed <= counts'.failed
  PROVE  HistoryInv'
<1>1. /\ counts.success \in Nat /\ counts.failed \in Nat
      /\ counts'.success \in Nat /\ counts'.failed \in Nat
  BY TotalAssumption DEF HistoryInv, Whole, Counts
<1>2. ASSUME NEW c, Earlier(c)
      PROVE  Whole(c) /\ c.success <= counts'.success /\ c.failed <= counts'.failed
  <2>1. c.success \in Nat /\ c.failed \in Nat
    BY <1>2, TotalAssumption DEF Earlier, Whole, Counts
  <2> QED
    BY <1>1, <1>2, <2>1 DEF Earlier
<1>3. UNCHANGED <<polls, row>>
  BY DEF historyCard
<1>4. \A r \in polls : Earlier(r.row)
  BY DEF HistoryInv
<1>5. Earlier(row)
  BY DEF HistoryInv
<1>6. Whole(row)' /\ row'.success <= counts'.success /\ row'.failed <= counts'.failed
  BY <1>2, <1>3, <1>5 DEF Whole
<1>7. \A r \in polls' : Whole(r.row) /\ r.row.success <= counts'.success
                                      /\ r.row.failed <= counts'.failed
  BY <1>2, <1>3, <1>4
<1> QED
  BY <1>6, <1>7 DEF HistoryInv, Earlier, Whole

\* A step of the card, or of a request: what is kept and what is new is earlier than now.
LEMMA CardStep ==
  ASSUME HistoryInv, UNCHANGED <<batch, counts>>, Earlier(row'),
         \A r \in polls' : Earlier(r.row)
  PROVE  HistoryInv'
BY DEF HistoryInv, Earlier, Whole

LEMMA WorkKeepsCounts ==
  ASSUME HistoryInv, Work
  PROVE  /\ Whole(counts') /\ counts # None
         /\ counts.success <= counts'.success /\ counts.failed <= counts'.failed
<1> DEFINE k == counts.known
           p == counts.pending
           q == counts.processing
           s == counts.success
           f == counts.failed
<1>1. /\ k \in BOOLEAN /\ p \in 0..Total /\ q \in 0..Total /\ s \in 0..Total /\ f \in 0..Total
      /\ counts = [known |-> k, pending |-> p, processing |-> q, success |-> s, failed |-> f]
      /\ p + q + s + f \in {0, Total}
  BY DEF HistoryInv, Whole, Counts
<1>2. \/ /\ p > 0
         /\ counts' = [known |-> k, pending |-> p - 1, processing |-> q + 1,
                       success |-> s, failed |-> f]
      \/ /\ q > 0
         /\ \/ counts' = [known |-> k, pending |-> p, processing |-> q - 1,
                          success |-> s + 1, failed |-> f]
            \/ counts' = [known |-> k, pending |-> p, processing |-> q - 1,
                          success |-> s, failed |-> f + 1]
  BY <1>1 DEF Work
<1>3. counts # None
  BY <1>1, <1>2 DEF None
<1> HIDE DEF k, p, q, s, f
<1>4. CASE /\ p > 0
           /\ counts' = [known |-> k, pending |-> p - 1, processing |-> q + 1,
                         success |-> s, failed |-> f]
  <2>1. p - 1 \in 0..Total /\ q + 1 \in 0..Total /\ (p - 1) + (q + 1) + s + f \in {0, Total}
    BY <1>1, <1>4, TotalAssumption
  <2> QED
    BY <1>1, <1>3, <1>4, <2>1 DEF Whole, Counts, s, f
<1>5. CASE /\ q > 0
           /\ counts' = [known |-> k, pending |-> p, processing |-> q - 1,
                         success |-> s + 1, failed |-> f]
  <2>1. q - 1 \in 0..Total /\ s + 1 \in 0..Total /\ p + (q - 1) + (s + 1) + f \in {0, Total}
    BY <1>1, <1>5, TotalAssumption
  <2> QED
    BY <1>1, <1>3, <1>5, <2>1 DEF Whole, Counts, s, f
<1>6. CASE /\ q > 0
           /\ counts' = [known |-> k, pending |-> p, processing |-> q - 1,
                         success |-> s, failed |-> f + 1]
  <2>1. q - 1 \in 0..Total /\ f + 1 \in 0..Total /\ p + (q - 1) + s + (f + 1) \in {0, Total}
    BY <1>1, <1>6, TotalAssumption
  <2> QED
    BY <1>1, <1>3, <1>6, <2>1 DEF Whole, Counts, s, f
<1> QED
  BY <1>2, <1>4, <1>5, <1>6

LEMMA InitHistory == HistoryInit => HistoryInv
<1> SUFFICES ASSUME HistoryInit PROVE HistoryInv
  OBVIOUS
<1>1. Whole(counts)
  BY NoneIsWhole DEF HistoryInit
<1> QED
  BY <1>1, NoneIsEarlier DEF HistoryInit, HistoryInv

LEMMA NextHistory == HistoryInv /\ [HistoryNext]_historyVars => HistoryInv'
<1> SUFFICES ASSUME HistoryInv, [HistoryNext]_historyVars PROVE HistoryInv'
  OBVIOUS
<1>0. /\ Whole(counts) /\ Earlier(row) /\ Earlier(None)
      /\ \A r \in polls : Earlier(r.row)
  BY NoneIsEarlier DEF HistoryInv
<1>1. CASE UNCHANGED historyVars
  BY <1>0, <1>1, CardStep DEF historyVars
<1>2. CASE BatchAppears
  <2>1. counts = None /\ counts' = None
    BY <1>2 DEF BatchAppears, HistoryInv
  <2>2. counts.success <= counts'.success /\ counts.failed <= counts'.failed
    BY <2>1 DEF None
  <2> QED
    BY <1>0, <1>2, <2>1, <2>2, DatabaseStep DEF BatchAppears
<1>3. CASE PaymentsAppear
  <2>1. counts = None /\ counts' = [None EXCEPT !.known = TRUE, !.pending = Total]
    BY <1>3 DEF PaymentsAppear, HistoryInv
  <2>2. counts.success <= counts'.success /\ counts.failed <= counts'.failed
    BY <2>1 DEF None
  <2> QED
    BY <1>3, <2>1, <2>2, NoneIsWhole, DatabaseStep DEF PaymentsAppear
<1>4. CASE Work
  <2>1. batch' = batch /\ UNCHANGED historyCard
    BY <1>4 DEF Work
  <2> QED
    BY <1>4, <2>1, WorkKeepsCounts, DatabaseStep DEF HistoryInv
<1>5. ASSUME UNCHANGED <<batch, counts>>, row' \in {row, None},
             polls' \subseteq polls \cup {[step |-> "asked", row |-> None]}
      PROVE  HistoryInv'
  BY <1>0, <1>5, CardStep
<1>6. CASE OpenDashboard
  BY <1>5, <1>6 DEF OpenDashboard, AskList
<1>7. CASE LeaveDashboard \/ Poll
  BY <1>5, <1>7 DEF LeaveDashboard, Poll, AskList
<1>8. ASSUME NEW r \in polls, FindByUserID(r) PROVE HistoryInv'
  <2>1. Earlier([None EXCEPT !.known = batch # "none"])
    BY <1>0, NoneIsEarlier
  <2> QED
    BY <1>0, <1>8, <2>1, CardStep DEF FindByUserID, MovePoll
<1>9. ASSUME NEW r \in polls, CountSummaries(r) PROVE HistoryInv'
  <2>1. \A b \in BOOLEAN : Earlier([counts EXCEPT !.known = b])
    BY <1>0, TotalAssumption DEF Earlier, Whole, Counts
  <2>2. Earlier([counts EXCEPT !.known = TRUE])
    BY <2>1
  <2>3. /\ UNCHANGED <<batch, counts, row>>
        /\ \A q \in polls' :
             q \in polls \/ q.row = None \/ q.row = [counts EXCEPT !.known = TRUE]
    <3> DEFINE c == IF r.row.known THEN [counts EXCEPT !.known = TRUE] ELSE None
    <3>1. polls' = (polls \ {r}) \cup {[step |-> "answered", row |-> c]}
          /\ UNCHANGED <<batch, counts, row>>
      BY <1>9 DEF CountSummaries, MovePoll
    <3>2. c = None \/ c = [counts EXCEPT !.known = TRUE]
      OBVIOUS
    <3> HIDE DEF c
    <3>3. \A q \in polls' : q \in polls \/ q.row = c
      BY <3>1
    <3> QED
      BY <3>1, <3>2, <3>3, Zenon
  <2> QED
    BY <1>0, <2>2, <2>3, CardStep
<1>10. ASSUME NEW r \in polls, ReceiveList(r) \/ PollFails(r) PROVE HistoryInv'
  BY <1>0, <1>10, CardStep DEF ReceiveList, PollFails
<1> QED
  BY <1>1, <1>2, <1>3, <1>4, <1>6, <1>7, <1>8, <1>9, <1>10 DEF HistoryNext, ServeList

\* Division by a positive number, rounded down.
LEMMA Division ==
  ASSUME NEW n \in Nat, NEW d \in Nat \ {0}
  PROVE  n \div d \in Nat /\ d * (n \div d) <= n /\ n < d * (n \div d) + d
OBVIOUS

\* The quotient is the largest of the numbers it could be.
LEMMA QuotientBound ==
  ASSUME NEW n \in Nat, NEW d \in Nat \ {0}, NEW p \in Nat, p * d <= n
  PROVE  p <= n \div d
<1> DEFINE q == n \div d
<1>1. q \in Nat /\ n < d * q + d
  BY Division
<1> HIDE DEF q
<1>2. SUFFICES ASSUME p > q PROVE FALSE
  BY <1>1 DEF q
<1>3. p * d >= (q + 1) * d
  BY <1>1, <1>2
<1>4. (q + 1) * d = d * q + d
  BY <1>1
<1>5. p * d \in Nat /\ d * q \in Nat
  BY <1>1
<1> QED
  BY <1>1, <1>3, <1>4, <1>5

\* A rounded percentage of a hundred leaves at most half a percent.
LEMMA RoundedHundred ==
  ASSUME NEW n \in Nat, NEW d \in Nat \ {0}, Round(100 * n, d) >= 100
  PROVE  200 * (d - n) <= d
<1> DEFINE q == (2 * (100 * n) + d) \div (2 * d)
<1>1. 2 * (100 * n) + d \in Nat /\ 2 * d \in Nat \ {0}
  OBVIOUS
<1>2. q \in Nat /\ (2 * d) * q <= 2 * (100 * n) + d
  BY <1>1, Division
<1>3. q >= 100
  BY DEF Round
<1> HIDE DEF q
<1>4. (2 * d) * 100 <= (2 * d) * q
  BY <1>2, <1>3
<1> QED
  BY <1>2, <1>4

\* A batch that the list calls finished is finished, with the result it names, and one at a
\* hundred percent lacks half a percent of its payments at most, however old the answer is.
THEOREM HistoryTellsTheTruth == HistorySpec => []HistoryIsTrue
<1>1. HistoryInv => HistoryIsTrue
  <2> SUFFICES ASSUME HistoryInv PROVE HistoryIsTrue
    OBVIOUS
  <2>1. Whole(counts) /\ Earlier(row)
    BY DEF HistoryInv
  <2>2. FinalLabelIsTrue
    BY <2>1, TotalAssumption DEF FinalLabelIsTrue, StatusLabel, Earlier, Whole, Counts, Completed
  <2>3. HundredLeavesLittle
    <3> SUFFICES ASSUME ProgressPercent(row) = 100
                 PROVE  200 * (Total - Completed(counts)) <= Total
      BY DEF HundredLeavesLittle
    <3>1. /\ Completed(row) \in Nat /\ Completed(counts) \in Nat
          /\ Completed(row) <= Completed(counts)
      BY <2>1, TotalAssumption DEF Earlier, Whole, Counts, Completed
    <3>2. Round(100 * Completed(row), Total) >= 100
      <4>1. 2 * (100 * Completed(row)) + Total \in Nat /\ 2 * Total \in Nat \ {0}
        BY <3>1, TotalAssumption
      <4>2. Round(100 * Completed(row), Total) \in Nat
        BY <4>1, Division DEF Round
      <4> QED
        BY <4>2 DEF ProgressPercent
    <3>3. 200 * (Total - Completed(row)) <= Total
      BY <3>1, <3>2, TotalAssumption, RoundedHundred
    <3> QED
      BY <3>1, <3>3, TotalAssumption
  <2> QED
    BY <2>2, <2>3 DEF HistoryIsTrue
<1> QED
  BY <1>1, InitHistory, NextHistory, PTL DEF HistorySpec

\* The fields of the card and of its query, and that there is one query at a time; its
\* answer is younger than the list it will replace.
PollInv ==
  /\ batch \in {"none", "created", "stored"}
  /\ dashboardOpen \in BOOLEAN /\ listLoaded \in BOOLEAN /\ error \in BOOLEAN
  /\ visits \in 0..MaxDashboardVisits /\ pollFaults \in 0..MaxPollFaults
  /\ polls \subseteq [step : {"asked", "listed", "answered"}, row : Counts]
  /\ \A r, q \in polls : r = q
  /\ \A r \in polls : r.step = "answered" /\ r.row.known /\ row.known =>
       row.success <= r.row.success /\ row.failed <= r.row.failed

LEMMA InitPoll == HistoryInit => PollInv
<1> SUFFICES ASSUME HistoryInit PROVE PollInv
  OBVIOUS
<1>1. visits \in 0..MaxDashboardVisits /\ pollFaults \in 0..MaxPollFaults
  BY HistoryBounds DEF HistoryInit
<1>2. polls = {}
  BY DEF HistoryInit
<1> QED
  BY <1>1, <1>2 DEF HistoryInit, PollInv

\* A query is asked where there is none.
LEMMA AskKeepsOrder ==
  ASSUME polls = {}, AskList
  PROVE  /\ polls' \subseteq [step : {"asked", "listed", "answered"}, row : Counts]
         /\ \A r, q \in polls' : r = q
         /\ \A r \in polls' : r.step = "asked"
<1>1. polls' = {[step |-> "asked", row |-> None]}
  BY DEF AskList
<1>2. None \in Counts
  BY TotalAssumption DEF None, Counts
<1> QED
  BY <1>1, <1>2

LEMMA NextPoll == HistoryInv /\ PollInv /\ [HistoryNext]_historyVars => PollInv'
<1> SUFFICES ASSUME HistoryInv, PollInv, [HistoryNext]_historyVars PROVE PollInv'
  OBVIOUS
<1>0. counts \in Counts /\ None \in Counts /\ None.known = FALSE
  BY NoneIsWhole DEF HistoryInv, Whole, None
<1>1. CASE UNCHANGED historyVars
  BY <1>1 DEF historyVars, PollInv
<1>2. CASE BatchAppears \/ PaymentsAppear \/ Work
  <2>1. UNCHANGED historyCard /\ batch' \in {"none", "created", "stored"}
    BY <1>2 DEF BatchAppears, PaymentsAppear, Work, PollInv
  <2> QED
    BY <2>1 DEF PollInv, historyCard
<1>3. CASE OpenDashboard
  <2>1. /\ dashboardOpen' = TRUE /\ visits' \in 0..MaxDashboardVisits
        /\ UNCHANGED <<batch, counts, pollFaults>>
    BY <1>3, HistoryBounds DEF OpenDashboard, PollInv
  <2>2. CASE UNCHANGED <<polls, row, listLoaded, error>>
    BY <2>1, <2>2 DEF PollInv
  <2>3. CASE polls = {} /\ AskList /\ UNCHANGED <<row, listLoaded, error>>
    BY <2>1, <2>3, AskKeepsOrder DEF PollInv
  <2>4. CASE polls = {} /\ AskList /\ row' = None /\ listLoaded' = FALSE /\ error' = FALSE
    BY <2>1, <2>4, AskKeepsOrder DEF PollInv
  <2> QED
    BY <1>3, <2>2, <2>3, <2>4 DEF OpenDashboard
<1>4. CASE LeaveDashboard
  BY <1>4 DEF LeaveDashboard, PollInv
<1>5. CASE Poll
  BY <1>5, AskKeepsOrder DEF Poll, PollInv
<1>6. ASSUME NEW r \in polls, NEW s \in {"listed", "answered"}, NEW c \in Counts,
             MovePoll(r, [step |-> s, row |-> c]),
             UNCHANGED <<batch, counts, dashboardOpen, visits, row, listLoaded, error, pollFaults>>,
             s = "answered" /\ c.known /\ row.known =>
               row.success <= c.success /\ row.failed <= c.failed
      PROVE  PollInv'
  <2>1. polls' = {[step |-> s, row |-> c]}
    BY <1>6 DEF MovePoll, PollInv
  <2> QED
    BY <1>6, <2>1 DEF PollInv
<1>7. ASSUME NEW r \in polls, FindByUserID(r) PROVE PollInv'
  <2>1. [None EXCEPT !.known = batch # "none"] \in Counts
    BY <1>0 DEF Counts
  <2> QED
    BY <1>6, <1>7, <2>1 DEF FindByUserID
<1>8. ASSUME NEW r \in polls, CountSummaries(r) PROVE PollInv'
  <2> DEFINE c == IF r.row.known THEN [counts EXCEPT !.known = TRUE] ELSE None
  <2>1. c \in Counts
    BY <1>0 DEF Counts
  <2>2. c.known => c.success = counts.success /\ c.failed = counts.failed
    BY <1>0 DEF Counts
  <2>3. row.success <= counts.success /\ row.failed <= counts.failed
    BY DEF HistoryInv, Earlier
  <2>4. MovePoll(r, [step |-> "answered", row |-> c])
    BY <1>8 DEF CountSummaries
  <2> HIDE DEF c
  <2> QED
    BY <1>6, <1>8, <2>1, <2>2, <2>3, <2>4 DEF CountSummaries
<1>9. ASSUME NEW r \in polls, ReceiveList(r) PROVE PollInv'
  <2>1. polls' = {}
    BY <1>9 DEF ReceiveList, PollInv
  <2> QED
    BY <1>9, <2>1 DEF ReceiveList, PollInv
<1>10. ASSUME NEW r \in polls, PollFails(r) PROVE PollInv'
  BY <1>10, HistoryBounds DEF PollFails, PollInv
<1> QED
  BY <1>1, <1>2, <1>3, <1>4, <1>5, <1>7, <1>8, <1>9, <1>10 DEF HistoryNext, ServeList

\* The counts of every answer add up to the batch, or the batch is not in it.
THEOREM HistoryTypeCorrect == HistorySpec => []HistoryTypeOK
<1>1. HistoryInv /\ PollInv => HistoryTypeOK
  <2> SUFFICES ASSUME HistoryInv, PollInv PROVE HistoryTypeOK
    OBVIOUS
  <2>1. Whole(counts) /\ Whole(row)
    BY DEF HistoryInv, Earlier
  <2>2. Completed(row) + row.pending + row.processing \in {0, Total}
    BY <2>1, TotalAssumption DEF Whole, Counts, Completed
  <2> QED
    BY <2>1, <2>2 DEF Whole, PollInv, HistoryTypeOK
<1> QED
  BY <1>1, InitHistory, InitPoll, NextHistory, NextPoll, PTL DEF HistorySpec

\* More results are no lower percentage.
LEMMA PercentGrows ==
  ASSUME NEW c, NEW d, Completed(c) \in Nat, Completed(d) \in Nat, Completed(c) <= Completed(d)
  PROVE  ProgressPercent(c) <= ProgressPercent(d)
<1> DEFINE a == 2 * (100 * Completed(c)) + Total
           b == 2 * (100 * Completed(d)) + Total
           n == 2 * Total
<1>1. a \in Nat /\ b \in Nat /\ a <= b /\ n \in Nat \ {0}
  BY TotalAssumption
<1>2. Round(100 * Completed(c), Total) = a \div n /\ Round(100 * Completed(d), Total) = b \div n
  BY DEF Round
<1> HIDE DEF a, b, n
<1>3. a \div n \in Nat /\ b \div n \in Nat /\ (a \div n) * n <= b
  <2>1. a \div n \in Nat /\ b \div n \in Nat /\ n * (a \div n) <= a
    BY <1>1, Division
  <2> DEFINE p == a \div n
  <2>2. p * n = n * p /\ n * p \in Nat
    BY <1>1, <2>1
  <2> QED
    BY <1>1, <2>1, <2>2
<1>4. a \div n <= b \div n
  BY <1>1, <1>3, QuotientBound
<1> QED
  BY <1>2, <1>3, <1>4 DEF ProgressPercent

\* The batch does not lose progress from one answer to the next: queries are asked one at a
\* time, so that no answer is older than the one before it, and results are final.
THEOREM ProgressGrows == HistorySpec => ProgressNeverShrinks
<1>1. ASSUME HistoryInv, PollInv, HistoryInv', [HistoryNext]_historyVars, row.known, row'.known
      PROVE  ProgressPercent(row') >= ProgressPercent(row)
  <2>0. Whole(row) /\ Whole(row')
    BY <1>1 DEF HistoryInv, Earlier, Whole
  <2>1. /\ Completed(row) \in Nat /\ Completed(row') \in Nat
        /\ row.success \in Nat /\ row.failed \in Nat /\ row'.success \in Nat /\ row'.failed \in Nat
    BY <2>0, TotalAssumption DEF Whole, Counts, Completed
  <2>2. CASE row' = row
    BY <2>1, <2>2, PercentGrows
  <2>3. CASE row' # row
    <3>1. PICK r \in polls : ReceiveList(r)
      <4>1. ~(UNCHANGED historyVars \/ BatchAppears \/ PaymentsAppear \/ Work)
        BY <2>3 DEF historyVars, BatchAppears, PaymentsAppear, Work, historyCard
      <4>2. ~(OpenDashboard \/ LeaveDashboard \/ Poll)
        <5>1. None.known = FALSE
          BY DEF None
        <5> QED
          BY <1>1, <2>3, <5>1 DEF OpenDashboard, LeaveDashboard, Poll
      <4>3. \A r \in polls : ~(FindByUserID(r) \/ CountSummaries(r) \/ PollFails(r))
        BY <2>3 DEF FindByUserID, CountSummaries, PollFails
      <4> QED
        BY <1>1, <4>1, <4>2, <4>3 DEF HistoryNext, ServeList
    <3>2. r.step = "answered" /\ row' = r.row
      BY <3>1 DEF ReceiveList
    <3>3. row.success <= row'.success /\ row.failed <= row'.failed
      BY <1>1, <3>2 DEF PollInv
    <3> QED
      BY <2>1, <3>3, PercentGrows DEF Completed
  <2> QED
    BY <2>2, <2>3
<1>2. HistoryInv /\ PollInv /\ HistoryInv' /\ [HistoryNext]_historyVars
        => [row.known /\ row'.known => ProgressPercent(row') >= ProgressPercent(row)]_historyVars
  BY <1>1
<1> QED
  BY <1>2, InitHistory, InitPoll, NextHistory, NextPoll, PTL DEF HistorySpec, ProgressNeverShrinks

-----------------------------------------------------------------------------
(* The list of the administrators: rows, page and filter at rest. *)

\* An answer is about a page that it says exists, or says that nothing is selected.
Sound(d) == d.total = 0 \/ (d.rows > 0 /\ d.of.page <= PageCount(d))

CacheInv ==
  /\ cache \in [Args -> PageAnswer]
  /\ \A a \in Args : Sound(cache[a]) /\ (cache[a] # NoAnswer => cache[a].of = a)

\* The page that is shown exists as far as the answer that is shown tells, and when
\* nothing is asked the answer is the one for the arguments.
BatchesInv ==
  /\ total \in [Filters -> 0..MaxTotal]
  /\ asked \subseteq Args /\ Current \in Args
  /\ CacheInv
  /\ data \in PageAnswer /\ Sound(data)
  /\ page <= PageCount(data)
  /\ AtRest => data = cache[Current] /\ data # NoAnswer

\* Pages: the n-th item is on a page that exists, and more items have no fewer pages.
LEMMA CeilBounds ==
  ASSUME NEW n \in Nat
  PROVE  /\ Ceil(n) \in Nat
         /\ \A p \in Nat \ {0} : n > (p - 1) * PageSize => p <= Ceil(n)
         /\ \A m \in Nat : m <= n => Ceil(m) <= Ceil(n)
<1>1. n + PageSize - 1 \in Nat /\ PageSize \in Nat \ {0}
  BY PageSizeAssumption
<1>2. Ceil(n) \in Nat
  BY <1>1, Division DEF Ceil
<1>3. ASSUME NEW p \in Nat \ {0}, n > (p - 1) * PageSize PROVE p <= Ceil(n)
  <2>1. (p - 1) * PageSize = p * PageSize - PageSize /\ p * PageSize \in Nat
    BY <1>1
  <2>2. p * PageSize <= n + PageSize - 1
    BY <1>1, <1>3, <2>1
  <2> QED
    BY <1>1, <2>2, QuotientBound DEF Ceil
<1>4. ASSUME NEW m \in Nat, m <= n PROVE Ceil(m) <= Ceil(n)
  <2>1. m + PageSize - 1 \in Nat /\ m + PageSize - 1 <= n + PageSize - 1
    BY <1>1, <1>4
  <2>2. Ceil(m) \in Nat /\ PageSize * Ceil(m) <= m + PageSize - 1
    BY <1>1, <2>1, Division DEF Ceil
  <2>3. Ceil(m) * PageSize <= n + PageSize - 1
    BY <1>1, <2>1, <2>2
  <2> QED
    BY <1>1, <2>2, <2>3, QuotientBound DEF Ceil
<1> QED
  BY <1>2, <1>3, <1>4

LEMMA PagesExist ==
  /\ MaxPage \in Nat \ {0}
  /\ \A d \in PageAnswer : PageCount(d) \in 1..MaxPage
<1>1. Ceil(MaxTotal) \in Nat /\ 1 <= Ceil(MaxTotal)
  <2>1. MaxTotal > (1 - 1) * PageSize
    BY PageSizeAssumption, MaxTotalAssumption
  <2> QED
    BY <2>1, CeilBounds, MaxTotalAssumption
<1>2. ASSUME NEW d \in PageAnswer PROVE PageCount(d) \in 1..Ceil(MaxTotal)
  <2>1. d.total \in 0..MaxTotal
    BY <1>2, MaxTotalAssumption DEF PageAnswer, NoAnswer
  <2>2. CASE d.total = 0
    BY <1>1, <2>2 DEF PageCount
  <2>3. CASE d.total # 0
    <3>1. d.total \in Nat /\ d.total > (1 - 1) * PageSize
      BY <2>1, <2>3, PageSizeAssumption, MaxTotalAssumption
    <3>2. Ceil(d.total) \in Nat /\ 1 <= Ceil(d.total)
      BY <3>1, CeilBounds
    <3>3. Ceil(d.total) <= Ceil(MaxTotal)
      BY <2>1, <3>1, CeilBounds, MaxTotalAssumption
    <3> QED
      BY <1>1, <2>3, <3>2, <3>3 DEF PageCount
  <2> QED
    BY <2>2, <2>3
<1> QED
  BY <1>1, <1>2 DEF MaxPage

\* What the server answers is sound, and never "no answer".
LEMMA ServerAnswers ==
  ASSUME total \in [Filters -> 0..MaxTotal], NEW a \in Args
  PROVE  /\ FindAll(a) \in PageAnswer /\ FindAll(a) # NoAnswer
         /\ FindAll(a).of = a /\ Sound(FindAll(a))
<1> DEFINE n == total[a.filter]
           before == (a.page - 1) * PageSize
           rows == CASE n <= before -> 0
                     [] n - before > PageSize -> PageSize
                     [] OTHER -> n - before
<1>1. /\ n \in Nat /\ n \in 0..MaxTotal /\ a.page \in Nat \ {0}
      /\ PageSize \in Nat \ {0}
  BY PagesExist, PageSizeAssumption, MaxTotalAssumption DEF Args
<1>2. before \in Nat
  BY <1>1
<1>3. FindAll(a) = [of |-> a, total |-> IF rows = 0 THEN 0 ELSE n, rows |-> rows]
  BY DEF FindAll
<1> HIDE DEF n, before
<1>4. rows \in 0..PageSize /\ (rows > 0 <=> n > before)
  BY <1>1, <1>2
<1> HIDE DEF rows
<1>5. FindAll(a) \in PageAnswer
  <2>1. (IF rows = 0 THEN 0 ELSE n) \in 0..MaxTotal
    BY <1>1, MaxTotalAssumption
  <2> QED
    BY <1>3, <1>4, <2>1 DEF PageAnswer
<1>6. FindAll(a) # NoAnswer /\ FindAll(a).of = a
  <2>1. FindAll(a).of.page # 0
    BY <1>1, <1>3
  <2> QED
    BY <1>3, <2>1 DEF NoAnswer
<1>7. ASSUME rows = 0 PROVE Sound(FindAll(a))
  <2>1. FindAll(a).total = 0
    BY <1>3, <1>7
  <2> QED
    BY <2>1 DEF Sound
<1>8. ASSUME rows > 0 PROVE Sound(FindAll(a))
  <2>1. n > (a.page - 1) * PageSize /\ n # 0
    BY <1>1, <1>2, <1>4, <1>8 DEF before
  <2>2. a.page <= Ceil(n)
    BY <1>1, <2>1, CeilBounds
  <2>3. FindAll(a).total = n /\ FindAll(a).rows > 0 /\ FindAll(a).of = a
    BY <1>3, <1>8
  <2> QED
    BY <2>1, <2>2, <2>3 DEF Sound, PageCount
<1> QED
  BY <1>4, <1>5, <1>6, <1>7, <1>8, PageSizeAssumption

\* The hook with its effects: whatever it comes to show, on a page that exists or on the
\* first one, it shows the cached answer or has asked for it.
LEMMA SelectShowsAnswer ==
  ASSUME CacheInv', total' \in [Filters -> 0..MaxTotal],
         NEW a \in Args, NEW d \in PageAnswer, Sound(d), NEW before, before \subseteq Args,
         Fresh(a) \/ a.page <= PageCount(d), Select(a, d, before)
  PROVE  BatchesInv'
<1> DEFINE s == Seen(a, d)
           b == Clamped(a, s)
<1>1. s \in PageAnswer /\ Sound(s) /\ (Fresh(a) => s = cache'[a]) /\ (~Fresh(a) => s = d)
  BY DEF Seen, CacheInv
<1>2. a.page \in Nat \ {0} /\ PageCount(s) \in 1..MaxPage /\ MaxPage \in Nat \ {0}
  BY <1>1, PagesExist DEF Args
<1>3. a.page > PageCount(s) => PageCount(s) = 1
  <2> SUFFICES ASSUME a.page > PageCount(s) PROVE PageCount(s) = 1
    OBVIOUS
  <2>1. Fresh(a)
    BY <1>1, <1>2
  <2>2. s.of = a
    BY <1>1, <2>1 DEF CacheInv, Fresh
  <2>3. ~(s.of.page <= PageCount(s))
    BY <1>2, <2>2
  <2>4. s.total = 0
    BY <1>1, <2>3 DEF Sound
  <2> QED
    BY <2>4 DEF PageCount
<1>4. b \in Args /\ ((b = a /\ a.page <= PageCount(s)) \/ b.page = 1)
  <2>1. CASE a.page > PageCount(s)
    <3>1. b = [a EXCEPT !.page = 1]
      BY <1>3, <2>1 DEF Clamped
    <3> QED
      BY <1>2, <3>1 DEF Args
  <2>2. CASE ~(a.page > PageCount(s))
    BY <1>2, <2>2 DEF Clamped
  <2> QED
    BY <2>1, <2>2
<1>5. /\ filter' = b.filter /\ page' = b.page /\ data' = Seen(b, s) /\ failed' = FALSE
      /\ asked' = before \cup {x \in {a, b} : ~Fresh(x)}
  BY DEF Select, Want
<1> HIDE DEF s, b
<1>6. Current' = b
  BY <1>4, <1>5 DEF Current, Args
<1>7. data' \in PageAnswer /\ Sound(data')
  BY <1>1, <1>4, <1>5 DEF Seen, CacheInv
<1>8. page' <= PageCount(data')
  <2>1. PageCount(data') \in 1..MaxPage
    BY <1>7, PagesExist
  <2>2. CASE b = a /\ a.page <= PageCount(s)
    <3>1. data' = s
      BY <1>1, <1>5, <2>2 DEF Seen
    <3> QED
      BY <1>5, <2>2, <3>1
  <2>3. CASE b.page = 1
    BY <1>2, <1>5, <2>1, <2>3
  <2> QED
    BY <1>4, <2>2, <2>3
<1>9. b \notin asked' => data' = cache'[b] /\ data' # NoAnswer
  BY <1>5 DEF Seen, Fresh
<1>10. asked' \subseteq Args
  BY <1>4, <1>5
<1>11. Sound(data)' /\ (page <= PageCount(data))'
  BY <1>7, <1>8 DEF Sound, PageCount
<1> QED
  BY <1>4, <1>6, <1>7, <1>9, <1>10, <1>11 DEF BatchesInv, AtRest

LEMMA InitBatches == BatchesInit => BatchesInv
<1> SUFFICES ASSUME BatchesInit PROVE BatchesInv
  OBVIOUS
<1>1. NoAnswer \in PageAnswer /\ Sound(NoAnswer)
  BY DEF PageAnswer, NoAnswer, Sound
<1>2. Current \in Args
  BY PagesExist, FiltersAssumption DEF BatchesInit, Current, Args
<1>3. CacheInv
  BY <1>1 DEF BatchesInit, CacheInv
<1>4. page <= PageCount(data)
  BY DEF BatchesInit, PageCount, NoAnswer
<1>5. ~AtRest
  BY DEF BatchesInit, AtRest
<1> QED
  BY <1>1, <1>2, <1>3, <1>4, <1>5 DEF BatchesInit, BatchesInv

LEMMA NextBatches == BatchesInv /\ [BatchesNext]_batchesVars => BatchesInv'
<1> SUFFICES ASSUME BatchesInv, [BatchesNext]_batchesVars PROVE BatchesInv'
  OBVIOUS
<1>0. /\ filter \in Filters /\ page \in 1..MaxPage /\ MaxPage \in Nat \ {0}
      /\ CacheInv /\ data \in PageAnswer /\ Sound(data) /\ page <= PageCount(data)
      /\ PageCount(data) \in 1..MaxPage
  BY PagesExist DEF BatchesInv, Current, Args
<1>1. cache' = cache => CacheInv'
  BY <1>0 DEF CacheInv, Sound, PageCount
<1>2. ASSUME UNCHANGED <<filter, page, data>>, total' \in [Filters -> 0..MaxTotal],
             asked' \subseteq Args, CacheInv',
             AtRest' => AtRest /\ cache'[Current] = cache[Current]
      PROVE  BatchesInv'
  BY <1>2 DEF BatchesInv, Current, Sound, PageCount
<1>3. CASE UNCHANGED batchesVars
  BY <1>1, <1>2, <1>3 DEF batchesVars, BatchesInv, AtRest, Current
<1>4. CASE Reopen
  <2>1. [filter |-> All, page |-> 1] \in Args
    BY <1>0, FiltersAssumption DEF Args
  <2>2. NoAnswer \in PageAnswer /\ Sound(NoAnswer) /\ 1 <= PageCount(NoAnswer)
    BY DEF PageAnswer, NoAnswer, Sound, PageCount
  <2> QED
    BY <1>1, <1>4, <2>1, <2>2, SelectShowsAnswer DEF Reopen, batchesServer, BatchesInv
<1>5. ASSUME NEW f \in Filters, ChangeFilter(f) PROVE BatchesInv'
  <2> DEFINE early == [filter |-> f, page |-> page]
             first == [filter |-> f, page |-> 1]
             d == Seen(early, data)
             before == asked \cup (IF Fresh(early) THEN {} ELSE {early})
  <2>1. early \in Args /\ first \in Args /\ first.page = 1
    BY <1>0 DEF Args
  <2>2. UNCHANGED <<total, cache>> /\ Select(first, d, before)
    BY <1>5 DEF ChangeFilter, batchesServer
  <2>3. d \in PageAnswer /\ Sound(d)
    BY <1>0, <2>1, <2>2 DEF Seen, CacheInv
  <2>4. before \subseteq Args
    BY <2>1 DEF BatchesInv
  <2> HIDE DEF d, before, first
  <2>5. first.page <= PageCount(d)
    BY <2>1, <2>3, PagesExist
  <2> QED
    BY <1>1, <2>1, <2>2, <2>3, <2>4, <2>5, SelectShowsAnswer DEF BatchesInv
<1>6. CASE PrevPage
  <2>1. /\ [filter |-> filter, page |-> page - 1] \in Args
        /\ page - 1 <= PageCount(data)
    BY <1>0, <1>6 DEF Args, PrevPage
  <2> QED
    BY <1>0, <1>1, <1>6, <2>1, SelectShowsAnswer DEF PrevPage, batchesServer, BatchesInv
<1>7. CASE NextPage
  <2>1. /\ [filter |-> filter, page |-> page + 1] \in Args
        /\ page + 1 <= PageCount(data)
    BY <1>0, <1>7 DEF Args, NextPage
  <2> QED
    BY <1>0, <1>1, <1>7, <2>1, SelectShowsAnswer DEF NextPage, batchesServer, BatchesInv
<1>8. ASSUME NEW a \in asked, PageArrives(a) PROVE BatchesInv'
  <2> DEFINE d == FindAll(a)
  <2>1. a \in Args /\ d \in PageAnswer /\ d # NoAnswer /\ d.of = a /\ Sound(d)
    BY <1>8, ServerAnswers DEF BatchesInv
  <2>2. /\ cache' = [cache EXCEPT ![a] = d] /\ a \notin old'
        /\ total' = total
    BY <1>8 DEF PageArrives, batchesServer
  <2>3. /\ a = Current => Select(a, d, asked \ {a})
        /\ a # Current => asked' = asked \ {a} /\ UNCHANGED <<filter, page, data, failed>>
    BY <1>8 DEF PageArrives
  <2> HIDE DEF d
  <2>4. CacheInv'
    <3>1. cache' \in [Args -> PageAnswer]
      BY <1>0, <2>1, <2>2 DEF CacheInv
    <3>2. \A x \in Args : Sound(cache'[x]) /\ (cache'[x] # NoAnswer => cache'[x].of = x)
      BY <1>0, <2>1, <2>2 DEF CacheInv
    <3> QED
      BY <3>1, <3>2 DEF CacheInv, Sound, PageCount
  <2>5. CASE a = Current
    <3>1. Fresh(a)
      BY <1>0, <2>1, <2>2 DEF Fresh, CacheInv
    <3>2. asked \ {a} \subseteq Args /\ total' \in [Filters -> 0..MaxTotal]
      BY <2>2 DEF BatchesInv
    <3> QED
      BY <2>1, <2>3, <2>4, <2>5, <3>1, <3>2, SelectShowsAnswer
  <2>6. CASE a # Current
    <3>1. AtRest' => AtRest /\ cache'[Current] = cache[Current]
      BY <1>0, <2>2, <2>3, <2>6 DEF AtRest, Current, CacheInv
    <3> QED
      BY <1>2, <2>2, <2>3, <2>4, <2>6, <3>1 DEF BatchesInv
  <2> QED
    BY <2>5, <2>6
<1>9. ASSUME NEW a \in asked, PageFails(a) PROVE BatchesInv'
  <2>1. AtRest' => AtRest
    BY <1>9 DEF PageFails, AtRest, Current
  <2> QED
    BY <1>1, <1>2, <1>9, <2>1 DEF PageFails, batchesServer, BatchesInv
<1>10. ASSUME NEW a \in Args, Age(a) PROVE BatchesInv'
  <2>1. AtRest' => AtRest
    BY <1>10 DEF Age, AtRest, Current
  <2> QED
    BY <1>1, <1>2, <1>10, <2>1 DEF Age, batchesServer, BatchesInv
<1>11. ASSUME NEW f \in Filters, Change(f) PROVE BatchesInv'
  <2>1. AtRest' => AtRest
    BY <1>11 DEF Change, AtRest, Current
  <2>2. total' \in [Filters -> 0..MaxTotal]
    BY <1>11 DEF Change, BatchesInv
  <2> QED
    BY <1>1, <1>2, <1>11, <2>1, <2>2 DEF Change, BatchesInv
<1> QED
  BY <1>3, <1>4, <1>5, <1>6, <1>7, <1>8, <1>9, <1>10, <1>11 DEF BatchesNext, Reader

\* Whatever the user selects and the server changes meanwhile: when nothing is asked any
\* more the rows belong to the controls above them, and only the first page is ever empty.
THEOREM ListMatchesControls == BatchesSpec => []RowsMatchControls
<1>1. BatchesInv => RowsMatchControls
  <2> SUFFICES ASSUME BatchesInv, AtRest
               PROVE  /\ data.of = Current
                      /\ page > 1 => data.rows > 0
                      /\ data.total = 0 => data.of.page = 1
    BY DEF RowsMatchControls
  <2>1. data.of = Current /\ page \in Nat \ {0} /\ Current.page = page
    BY PagesExist DEF BatchesInv, CacheInv, Current, Args
  <2>2. data.total = 0 => page = 1
    BY <2>1 DEF BatchesInv, PageCount
  <2>3. page > 1 => data.rows > 0
    BY <2>2 DEF BatchesInv, Sound
  <2> QED
    BY <2>1, <2>2, <2>3
<1> QED
  BY <1>1, InitBatches, NextBatches, PTL DEF BatchesSpec

-----------------------------------------------------------------------------
(* The accounts page of the administrators: the roles it shows. *)

AnyRole == Role \cup {"gone"}

UsersTypes ==
  /\ roles \in [Users -> AnyRole] /\ userList \in [Users -> AnyRole]
  /\ snapshot \in [Users -> AnyRole]
  /\ override \in [Users -> Role \cup {"none"}]
  /\ confirmed \in [Users -> AnyRole \cup {"none"}]
  /\ pending \in {Idle} \cup [step : {"waiting", "refetching"}, user : Users, role : AnyRole]
  /\ mutations \subseteq [visit : Nat \ {0}, user : Users, role : AnyRole]
  /\ answer \in {"none", "ok", "error"}
  /\ candidate \in Users \cup {NoUser}
  /\ usersVisit \in Nat /\ usersOpen \in BOOLEAN
  /\ others \in Nat /\ losses \in Nat
  /\ fetch \in {"idle", "asked", "read"}

Waiting(u, r) == [step |-> "waiting", user |-> u, role |-> r]

\* A request of this visit is the one the page waits for, and has not been answered; a
\* page that is closed waits for nothing, and before the first visit there is nothing.
FlightInv ==
  /\ \A m \in mutations :
       /\ m.visit <= usersVisit
       /\ usersOpen /\ m.visit = usersVisit
            => pending = Waiting(m.user, m.role) /\ answer = "none"
  /\ answer # "none" => pending.step = "waiting"
  /\ ~usersOpen => /\ pending = Idle /\ answer = "none"
                   /\ override = Nothing /\ candidate = NoUser
  /\ usersVisit = 0 => ~usersOpen /\ fetch = "idle" /\ userList = [u \in Users |-> "gone"]

\* What becomes of an override when its request ends.
OverrideInv ==
  /\ OverridesAreConfirmed
  /\ pending # Idle /\ pending.role # "gone" =>
       /\ override[pending.user] \in {"none", pending.role}
       /\ answer = "ok" \/ pending.step = "refetching" => confirmed[pending.user] = pending.role
  /\ pending # Idle /\ pending.role = "gone" =>
       /\ answer # "ok" => override[pending.user] \in {"none", confirmed[pending.user]}
       /\ pending.step = "refetching" => override[pending.user] = "none"

\* A first visit that nobody else and no failure disturbs.
Calm == usersOpen /\ usersVisit = 1 /\ others = 0 /\ losses = 0

\* The list as it will be after the request.
Target == [userList EXCEPT ![pending.user] = pending.role]

\* The override as it is during the request.
Meanwhile == IF pending.role = "gone" THEN Nothing
             ELSE [Nothing EXCEPT ![pending.user] = pending.role]

Changing == pending.role # "gone" => userList[pending.user] # pending.role

\* On a calm visit the list is the table, up to the change under way.
CalmInv ==
  Calm =>
    /\ pending = Idle =>
         /\ override = Nothing
         /\ IF fetch = "idle" THEN userList = roles
            ELSE userList = [u \in Users |-> "gone"] /\ candidate = NoUser
    /\ pending.step = "waiting" =>
         /\ fetch = "idle" /\ override = Meanwhile /\ Changing
         /\ roles = IF answer = "ok" THEN Target ELSE userList
    /\ pending.step = "refetching" =>
         IF fetch = "idle" THEN userList = roles /\ override = Nothing
         ELSE roles = Target /\ override = Meanwhile /\ Changing
    /\ fetch = "read" => snapshot = roles

UsersInv == UsersTypes /\ FlightInv /\ OverrideInv /\ CalmInv

LEMMA InitUsers == UsersInit => UsersInv
<1> SUFFICES ASSUME UsersInit PROVE UsersInv
  OBVIOUS
<1>1. UsersTypes
  BY DEF UsersInit, UsersTypes, AnyRole, Nothing
<1>2. FlightInv
  BY DEF UsersInit, FlightInv
<1>3. OverrideInv
  BY DEF UsersInit, OverrideInv, OverridesAreConfirmed, Nothing
<1>4. CalmInv
  BY DEF UsersInit, CalmInv, Calm
<1> QED
  BY <1>1, <1>2, <1>3, <1>4 DEF UsersInv

LEMMA NextUsersTypes == UsersInv /\ [UsersNext]_usersVars => UsersTypes'
<1> SUFFICES ASSUME UsersInv, [UsersNext]_usersVars PROVE UsersTypes'
  OBVIOUS
<1> USE DEF UsersInv, UsersTypes, AnyRole, Nothing, Idle, usersServer, network, visiting, query,
           usersPage
<1>0. CASE UNCHANGED usersVars
  BY <1>0 DEF usersVars
<1>1. ASSUME NEW r \in mutations, Handle(r) PROVE UsersTypes'
  BY <1>1 DEF Handle, Apply, Reply
<1>2. ASSUME NEW r \in mutations, Lose(r) PROVE UsersTypes'
  BY <1>2 DEF Lose, Apply, Reply
<1>3. CASE ReadUsers
  BY <1>3 DEF ReadUsers
<1>4. ASSUME NEW u \in Users, SomeoneElse(u) PROVE UsersTypes'
  BY <1>4 DEF SomeoneElse
<1>5. CASE OpenUsers
  BY <1>5 DEF OpenUsers
<1>6. CASE LeaveUsers
  BY <1>6 DEF LeaveUsers
<1>7. ASSUME NEW u \in Users, NEW r \in Role, ChangeRole(u, r) PROVE UsersTypes'
  BY <1>7 DEF ChangeRole, Enabled, Send, FlightInv
<1>8. ASSUME NEW u \in Users, OpenDeleteDialog(u) PROVE UsersTypes'
  BY <1>8 DEF OpenDeleteDialog, Enabled
<1>9. CASE CloseDeleteDialog
  BY <1>9 DEF CloseDeleteDialog
<1>10. CASE ConfirmDelete
  BY <1>10 DEF ConfirmDelete, Send, FlightInv
<1>11. CASE Succeeds
  BY <1>11 DEF Succeeds, Refetch, FlightInv
<1>12. CASE Refetched
  BY <1>12 DEF Refetched
<1>13. CASE ChangeFails
  BY <1>13 DEF ChangeFails
<1>14. CASE ShowUsers
  BY <1>14 DEF ShowUsers, CleanUp
<1>15. CASE FetchFails
  BY <1>15 DEF FetchFails
<1> QED
  BY <1>0, <1>1, <1>2, <1>3, <1>4, <1>5, <1>6, <1>7, <1>8, <1>9, <1>10, <1>11, <1>12, <1>13,
     <1>14, <1>15
     DEF UsersNext, UserRow, Page

\* Every request belongs to the visit that made it; leaving the page forgets the answer.
LEMMA NextFlight == UsersInv /\ [UsersNext]_usersVars => FlightInv'
<1> SUFFICES ASSUME UsersInv, [UsersNext]_usersVars PROVE FlightInv'
  OBVIOUS
<1> USE DEF UsersInv, FlightInv, UsersTypes, Waiting, Idle, Nothing, usersServer, network,
           visiting, query, usersPage
<1>0. CASE UNCHANGED usersVars
  BY <1>0 DEF usersVars
<1>1. ASSUME NEW r \in mutations, Handle(r) PROVE FlightInv'
  BY <1>1 DEF Handle, Apply, Reply
<1>2. ASSUME NEW r \in mutations, Lose(r) PROVE FlightInv'
  BY <1>2 DEF Lose, Apply, Reply
<1>3. CASE ReadUsers
  BY <1>3 DEF ReadUsers
<1>4. ASSUME NEW u \in Users, SomeoneElse(u) PROVE FlightInv'
  BY <1>4 DEF SomeoneElse
<1>5. CASE OpenUsers
  BY <1>5 DEF OpenUsers
<1>6. CASE LeaveUsers
  BY <1>6 DEF LeaveUsers
<1>7. ASSUME NEW u \in Users, NEW r \in Role, ChangeRole(u, r) PROVE FlightInv'
  BY <1>7 DEF ChangeRole, Enabled, Send
<1>8. ASSUME NEW u \in Users, OpenDeleteDialog(u) PROVE FlightInv'
  BY <1>8 DEF OpenDeleteDialog, Enabled
<1>9. CASE CloseDeleteDialog
  BY <1>9 DEF CloseDeleteDialog
<1>10. CASE ConfirmDelete
  BY <1>10 DEF ConfirmDelete, Send
<1>11. CASE Succeeds
  BY <1>11 DEF Succeeds, Refetch
<1>12. CASE Refetched
  BY <1>12 DEF Refetched
<1>13. CASE ChangeFails
  BY <1>13 DEF ChangeFails
<1>14. CASE ShowUsers
  BY <1>14 DEF ShowUsers, CleanUp
<1>15. CASE FetchFails
  BY <1>15 DEF FetchFails
<1> QED
  BY <1>0, <1>1, <1>2, <1>3, <1>4, <1>5, <1>6, <1>7, <1>8, <1>9, <1>10, <1>11, <1>12, <1>13,
     <1>14, <1>15
     DEF UsersNext, UserRow, Page

\* An override is put there by a request and outlives it only if the request succeeds.
LEMMA NextOverrides == UsersInv /\ [UsersNext]_usersVars => OverrideInv'
<1> SUFFICES ASSUME UsersInv, [UsersNext]_usersVars PROVE OverrideInv'
  OBVIOUS
<1> USE UsersAssumption DEF UsersInv, OverrideInv, OverridesAreConfirmed, FlightInv, UsersTypes,
           AnyRole, Role, Waiting, Idle, Nothing, usersServer, network, visiting, query,
           usersPage
<1>0. CASE UNCHANGED usersVars
  BY <1>0 DEF usersVars
<1>1. ASSUME NEW r \in mutations, Handle(r) PROVE OverrideInv'
  BY <1>1 DEF Handle, Apply, Reply
<1>2. ASSUME NEW r \in mutations, Lose(r) PROVE OverrideInv'
  BY <1>2 DEF Lose, Apply, Reply
<1>3. CASE ReadUsers
  BY <1>3 DEF ReadUsers
<1>4. ASSUME NEW u \in Users, SomeoneElse(u) PROVE OverrideInv'
  BY <1>4 DEF SomeoneElse
<1>5. CASE OpenUsers
  BY <1>5 DEF OpenUsers
<1>6. CASE LeaveUsers
  BY <1>6 DEF LeaveUsers
<1>7. ASSUME NEW u \in Users, NEW r \in Role, ChangeRole(u, r) PROVE OverrideInv'
  BY <1>7 DEF ChangeRole, Enabled, Send
<1>8. ASSUME NEW u \in Users, OpenDeleteDialog(u) PROVE OverrideInv'
  BY <1>8 DEF OpenDeleteDialog, Enabled
<1>9. CASE CloseDeleteDialog
  BY <1>9 DEF CloseDeleteDialog
<1>10. CASE ConfirmDelete
  BY <1>10 DEF ConfirmDelete, Send
<1>11. CASE Succeeds
  BY <1>11 DEF Succeeds, Refetch
<1>12. CASE Refetched
  BY <1>12 DEF Refetched
<1>13. CASE ChangeFails
  BY <1>13 DEF ChangeFails
<1>14. CASE ShowUsers
  BY <1>14 DEF ShowUsers, CleanUp
<1>15. CASE FetchFails
  BY <1>15 DEF FetchFails
<1> QED
  BY <1>0, <1>1, <1>2, <1>3, <1>4, <1>5, <1>6, <1>7, <1>8, <1>9, <1>10, <1>11, <1>12, <1>13,
     <1>14, <1>15
     DEF UsersNext, UserRow, Page

\* The request that is handled on a calm visit is the one the page waits for.
LEMMA HandleKeepsCalm ==
  ASSUME UsersInv, NEW r \in mutations, Handle(r)
  PROVE  CalmInv'
<1> USE DEF UsersInv
<1> SUFFICES ASSUME Calm PROVE CalmInv'
  BY DEF Handle, CalmInv, Calm, usersServer, visiting
<1>1. /\ r.visit = usersVisit /\ usersOpen
      /\ pending = Waiting(r.user, r.role) /\ answer = "none"
  BY DEF Calm, FlightInv, UsersTypes
<1>2. pending.step = "waiting" /\ pending.user = r.user /\ pending.role = r.role /\ pending # Idle
  BY <1>1 DEF Waiting, Idle
<1>3. roles = userList /\ fetch = "idle" /\ override = Meanwhile /\ Changing
  BY <1>1, <1>2 DEF CalmInv
<1>4. UNCHANGED <<others, losses, usersVisit, usersOpen, userList, fetch, snapshot,
                  override, pending>>
  BY DEF Handle, visiting, query
<1>5. roles' = IF answer' = "ok" THEN Target ELSE userList
  BY <1>1, <1>2, <1>3 DEF Handle, Apply, Reply, Target
<1> QED
  BY <1>2, <1>3, <1>4, <1>5 DEF CalmInv, Calm, Meanwhile, Changing, Target

\* A change that is asked for on a calm visit is one of the list as it is.
LEMMA ChangeKeepsCalm ==
  ASSUME UsersInv, NEW u \in Users, NEW r \in Role, ChangeRole(u, r)
  PROVE  CalmInv'
<1> USE DEF UsersInv
<1> SUFFICES ASSUME Calm PROVE CalmInv'
  BY DEF ChangeRole, CalmInv, Calm, usersServer, visiting
<1>1. /\ pending = Idle /\ userList[u] # "gone" /\ r # Displayed(u)
      /\ pending' = Waiting(u, r) /\ override' = [override EXCEPT ![u] = r]
      /\ UNCHANGED <<roles, others, losses, usersVisit, usersOpen, userList, fetch, snapshot,
                     answer>>
  BY DEF ChangeRole, Enabled, Send, Waiting, usersServer, visiting, query
<1>2. override = Nothing /\ fetch = "idle" /\ userList = roles
  BY <1>1 DEF Calm, CalmInv
<1>3. answer # "ok" /\ r # "gone" /\ userList[u] # r
  BY <1>1, <1>2 DEF FlightInv, Idle, Displayed, Nothing, Role
<1>4. pending'.step = "waiting" /\ pending'.user = u /\ pending'.role = r /\ pending' # Idle
  BY <1>1 DEF Waiting, Idle
<1> QED
  BY <1>1, <1>2, <1>3, <1>4 DEF CalmInv, Calm, Meanwhile, Changing, Target

\* On a calm visit every change of the table is one the page has asked for.
LEMMA NextCalm == UsersInv /\ [UsersNext]_usersVars => CalmInv'
<1> SUFFICES ASSUME UsersInv, [UsersNext]_usersVars PROVE CalmInv'
  OBVIOUS
<1> USE UsersAssumption DEF UsersInv, CalmInv, Calm, Target, Meanwhile, Changing, OverrideInv,
           FlightInv, UsersTypes, AnyRole, Role, Waiting, Idle, Nothing, usersServer, network,
           visiting, query, usersPage
<1>0. CASE UNCHANGED usersVars
  BY <1>0 DEF usersVars
<1>1. ASSUME NEW r \in mutations, Handle(r) PROVE CalmInv'
  BY <1>1, HandleKeepsCalm
<1>2. ASSUME NEW r \in mutations, Lose(r) PROVE CalmInv'
  BY <1>2 DEF Lose, Apply, Reply
<1>3. CASE ReadUsers
  BY <1>3 DEF ReadUsers
<1>4. ASSUME NEW u \in Users, SomeoneElse(u) PROVE CalmInv'
  BY <1>4 DEF SomeoneElse
<1>5. CASE OpenUsers
  BY <1>5 DEF OpenUsers
<1>6. CASE LeaveUsers
  BY <1>6 DEF LeaveUsers
<1>7. ASSUME NEW u \in Users, NEW r \in Role, ChangeRole(u, r) PROVE CalmInv'
  BY <1>7, ChangeKeepsCalm
<1>8. ASSUME NEW u \in Users, OpenDeleteDialog(u) PROVE CalmInv'
  BY <1>8 DEF OpenDeleteDialog, Enabled
<1>9. CASE CloseDeleteDialog
  BY <1>9 DEF CloseDeleteDialog
<1>10. CASE ConfirmDelete
  BY <1>10 DEF ConfirmDelete, Send
<1>11. CASE Succeeds
  BY <1>11 DEF Succeeds, Refetch
<1>12. CASE Refetched
  BY <1>12 DEF Refetched
<1>13. CASE ChangeFails
  BY <1>13 DEF ChangeFails
<1>14. CASE ShowUsers
  BY <1>14 DEF ShowUsers, CleanUp
<1>15. CASE FetchFails
  BY <1>15 DEF FetchFails
<1> QED
  BY <1>0, <1>1, <1>2, <1>3, <1>4, <1>5, <1>6, <1>7, <1>8, <1>9, <1>10, <1>11, <1>12, <1>13,
     <1>14, <1>15
     DEF UsersNext, UserRow, Page

LEMMA NextUsers == UsersInv /\ [UsersNext]_usersVars => UsersInv'
BY NextUsersTypes, NextFlight, NextOverrides, NextCalm DEF UsersInv

\* The page never makes up a role: what it shows beside the list has been confirmed, or is
\* being asked for; and on a visit that nobody disturbs it shows the table.
THEOREM RolesAreTrue == UsersSpec => []RolesShownAreTrue
<1>1. UsersInv => RolesShownAreTrue
  <2> SUFFICES ASSUME UsersInv PROVE RolesShownAreTrue
    OBVIOUS
  <2>1. OverridesAreConfirmed
    BY DEF UsersInv, OverrideInv
  <2>2. PageIsCurrent
    BY DEF UsersInv, CalmInv, Calm, PageIsCurrent, Displayed, Nothing
  <2> QED
    BY <2>1, <2>2 DEF RolesShownAreTrue
<1> QED
  BY <1>1, InitUsers, NextUsers, PTL DEF UsersSpec

-----------------------------------------------------------------------------
(* Types and bounds of the parts *)

\* What the form holds and has sent was typed by its user.
THEOREM FormTypeCorrect == FormSpec => []FormTypeOK
<1>1. FormInit => FormTypeOK
  <2> SUFFICES ASSUME FormInit PROVE FormTypeOK
    OBVIOUS
  <2>1. 0 \in 0..MaxFormSubmits /\ 0 \in 0..MaxFormFaults
    BY FormBounds
  <2> QED
    BY <2>1 DEF FormInit, FormTypeOK
<1>2. FormTypeOK /\ [FormNext]_formVars => FormTypeOK'
  <2> SUFFICES ASSUME FormTypeOK, [FormNext]_formVars PROVE FormTypeOK'
    OBVIOUS
  <2> USE FormBounds DEF FormTypeOK, Fields
  <2>0. FormErrors \subseteq Fields /\ RequestErrors(request) \subseteq Fields
    BY DEF FormErrors, RequestErrors
  <2>1. CASE UNCHANGED formVars
    BY <2>1 DEF formVars
  <2>2. ASSUME NEW t \in Names, ChangeName(t) PROVE FormTypeOK'
    BY <2>2 DEF ChangeName, Edited
  <2>3. ASSUME NEW t \in Passwords, ChangePassword(t) PROVE FormTypeOK'
    BY <2>3 DEF ChangePassword, Edited
  <2>4. CASE ChangeEmail \/ ChangeConfirmation
    BY <2>4 DEF ChangeEmail, ChangeConfirmation, Edited
  <2>5. CASE SubmitForm
    BY <2>0, <2>5 DEF SubmitForm
  <2>6. CASE Created
    BY <2>6 DEF Created
  <2>7. CASE Taken
    BY <2>7 DEF Taken
  <2>8. CASE Invalid
    BY <2>0, <2>8 DEF Invalid
  <2>9. CASE RequestBreaks
    BY <2>9 DEF RequestBreaks
  <2> QED
    BY <2>1, <2>2, <2>3, <2>4, <2>5, <2>6, <2>7, <2>8, <2>9 DEF FormNext
<1> QED
  BY <1>1, <1>2, PTL DEF FormSpec

\* Nothing is ever asked for the account of the page itself, and the bounds hold.
UsersBounded ==
  /\ owners \subseteq Users
  /\ others \in 0..MaxOthers /\ losses \in 0..MaxLosses /\ usersVisit \in 0..MaxUserVisits
  /\ \A m \in mutations : m.user # Self
  /\ pending # Idle => pending.user # Self
  /\ candidate # Self
  /\ feedback \in {"none", "success", "error"}

LEMMA InitUsersBounded == UsersInit => UsersBounded
BY UsersAssumption, UsersBounds DEF UsersInit, UsersBounded

LEMMA NextUsersBounded == UsersInv /\ UsersBounded /\ [UsersNext]_usersVars => UsersBounded'
<1> SUFFICES ASSUME UsersTypes, UsersBounded, [UsersNext]_usersVars PROVE UsersBounded'
  BY DEF UsersInv
<1> USE UsersAssumption, UsersBounds
    DEF UsersBounded, usersServer, network, visiting, query, usersPage
<1>1. CASE UNCHANGED usersVars
  BY <1>1 DEF usersVars
<1>2. ASSUME NEW u \in Users, OpenDeleteDialog(u) PROVE UsersBounded'
  BY <1>2 DEF OpenDeleteDialog, Enabled
<1>3. ASSUME NEW u \in Users, NEW r \in Role, ChangeRole(u, r) PROVE UsersBounded'
  <2>1. pending' = [step |-> "waiting", user |-> u, role |-> r] /\ u # Self
    BY <1>3 DEF ChangeRole, Enabled, Send
  <2> QED
    BY <1>3, <2>1 DEF ChangeRole, Enabled, Send
<1>4. ASSUME NEW u \in Users, SomeoneElse(u) PROVE UsersBounded'
  BY <1>4 DEF SomeoneElse
<1>5. ASSUME NEW m \in mutations, Handle(m) PROVE UsersBounded'
  BY <1>5 DEF Handle
<1>6. ASSUME NEW m \in mutations, Lose(m) PROVE UsersBounded'
  BY <1>6 DEF Lose
<1>7. CASE OpenUsers
  BY <1>7 DEF OpenUsers
<1>8. CASE LeaveUsers
  BY <1>8 DEF LeaveUsers
<1>9. CASE CloseDeleteDialog
  BY <1>9 DEF CloseDeleteDialog
<1>10. CASE ConfirmDelete
  <2>1. pending' = [step |-> "waiting", user |-> candidate, role |-> "gone"]
    BY <1>10 DEF ConfirmDelete, Send
  <2> QED
    BY <1>10, <2>1 DEF ConfirmDelete, Send
<1>11. CASE FetchFails
  BY <1>11 DEF FetchFails
<1>12. CASE Succeeds
  <2>1. /\ pending' = [pending EXCEPT !.step = "refetching"]
        /\ candidate' \in {NoUser, candidate}
        /\ UNCHANGED <<usersServer, mutations, losses, visiting, feedback>>
    BY <1>12 DEF Succeeds
  <2>2. pending.user # Self
    BY DEF Idle
  <2>3. pending'.user = pending.user
    BY <2>1 DEF UsersTypes, Idle
  <2> QED
    BY <2>1, <2>2, <2>3
<1>13. CASE Refetched
  BY <1>13 DEF Refetched
<1>14. CASE ChangeFails
  BY <1>14 DEF ChangeFails
<1>15. CASE ReadUsers \/ ShowUsers
  BY <1>15 DEF ReadUsers, ShowUsers
<1> QED
  BY <1>1, <1>2, <1>3, <1>4, <1>5, <1>6, <1>7, <1>8, <1>9, <1>10, <1>11, <1>12, <1>13, <1>14,
     <1>15 DEF UsersNext, UserRow, Page

\* The administrator never asks for a change of his own account, and every request knows
\* the visit it was sent on.
THEOREM UsersTypeCorrect == UsersSpec => []UsersTypeOK
<1>1. UsersInv /\ UsersBounded => UsersTypeOK
  <2> SUFFICES ASSUME UsersInv, UsersBounded PROVE UsersTypeOK
    OBVIOUS
  <2>1. UsersTypes /\ FlightInv
    BY DEF UsersInv
  <2>2. mutations \subseteq [visit : 1..MaxUserVisits, user : Users \ {Self}, role : AnyRole]
    <3>1. \A m \in mutations : m.visit \in 1..MaxUserVisits /\ m.user # Self
      BY <2>1, UsersBounds DEF UsersTypes, FlightInv, UsersBounded
    <3> QED
      BY <2>1, <3>1 DEF UsersTypes
  <2>3. pending \in {Idle} \cup [step : {"waiting", "refetching"}, user : Users \ {Self},
                                 role : AnyRole]
    BY <2>1 DEF UsersTypes, UsersBounded
  <2>4. candidate \in (Users \ {Self}) \cup {NoUser}
    BY <2>1 DEF UsersTypes, UsersBounded
  <2> QED
    BY <2>1, <2>2, <2>3, <2>4 DEF UsersTypes, UsersBounded, UsersTypeOK, AnyRole
<1> QED
  BY <1>1, InitUsers, NextUsers, InitUsersBounded, NextUsersBounded, PTL DEF UsersSpec

\* What the list is made of, besides what BatchesInv says of it.
ListTypes ==
  /\ changes \in 0..MaxChanges /\ pagesLost \in 0..MaxPagesLost
  /\ old \subseteq Args /\ failed \in BOOLEAN

LEMMA NextListTypes == BatchesInv /\ ListTypes /\ [BatchesNext]_batchesVars => ListTypes'
<1> SUFFICES ASSUME asked \subseteq Args, ListTypes, [BatchesNext]_batchesVars PROVE ListTypes'
  BY DEF BatchesInv
<1> USE BatchesBounds DEF ListTypes, batchesServer, Select
<1>1. CASE UNCHANGED batchesVars
  BY <1>1 DEF batchesVars
<1>2. CASE PrevPage \/ NextPage \/ Reopen
  BY <1>2 DEF PrevPage, NextPage, Reopen
<1>3. ASSUME NEW f \in Filters, ChangeFilter(f) PROVE ListTypes'
  BY <1>3 DEF ChangeFilter
<1>4. ASSUME NEW f \in Filters, Change(f) PROVE ListTypes'
  BY <1>4 DEF Change
<1>5. ASSUME NEW a \in asked, PageArrives(a) PROVE ListTypes'
  BY <1>5 DEF PageArrives
<1>6. ASSUME NEW a \in asked, PageFails(a) PROVE ListTypes'
  BY <1>6 DEF PageFails
<1>7. ASSUME NEW a \in Args, Age(a) PROVE ListTypes'
  BY <1>7 DEF Age
<1> QED
  BY <1>1, <1>2, <1>3, <1>4, <1>5, <1>6, <1>7 DEF BatchesNext, Reader

\* The two effects never lead to a page before the first or beyond the last there can be.
THEOREM BatchesTypeCorrect == BatchesSpec => []BatchesTypeOK
<1>1. BatchesInit => ListTypes
  <2> SUFFICES ASSUME BatchesInit PROVE ListTypes
    OBVIOUS
  <2>1. 0 \in 0..MaxChanges /\ 0 \in 0..MaxPagesLost
    BY BatchesBounds
  <2> QED
    BY <2>1 DEF BatchesInit, ListTypes
<1>2. BatchesInv /\ ListTypes => BatchesTypeOK
  BY DEF BatchesInv, ListTypes, BatchesTypeOK, CacheInv, Current, Args
<1> QED
  BY <1>1, <1>2, InitBatches, NextBatches, NextListTypes, PTL DEF BatchesSpec

\* Sign-ins whose answer is under way: each has its number, and brings one token.
SignInsUnderWay == {c \in calls : c.kind # "query"}

SessionBounded ==
  /\ expired \subseteq Token
  /\ busy \in [Tabs -> 0..MaxSignIns]
  /\ calls \subseteq Call
  /\ signIns \in 0..MaxSignIns /\ callsLost \in 0..MaxCallsLost
  /\ IsFiniteSet(SignInsUnderWay)
  /\ Len(issued) + Cardinality(SignInsUnderWay) <= signIns + 1

\* There are fewer answers to come, or as many.
LEMMA FewerSigningIn ==
  ASSUME SessionInv, SessionBounded, NEW S, S \subseteq SignInsUnderWay
  PROVE  /\ IsFiniteSet(S) /\ Cardinality(S) \in Nat /\ Cardinality(SignInsUnderWay) \in Nat
         /\ Cardinality(S) <= Cardinality(SignInsUnderWay)
         /\ S # SignInsUnderWay => Cardinality(S) < Cardinality(SignInsUnderWay)
         /\ Len(issued) \in Nat
BY FS_Subset, FS_CardinalityType DEF SessionBounded, SessionInv, SlicesInv

\* A step that sends nothing and issues nothing.
LEMMA NoSignIn ==
  ASSUME SessionInv, SessionBounded, UNCHANGED <<issued, signIns>>, calls' \subseteq calls,
         expired' \subseteq Token, busy' \in [Tabs -> 0..MaxSignIns],
         callsLost' \in 0..MaxCallsLost
  PROVE  SessionBounded'
<1>1. SignInsUnderWay' \subseteq SignInsUnderWay
  BY DEF SignInsUnderWay
<1>2. signIns \in Nat
  BY SessionBounds DEF SessionBounded
<1>3. IsFiniteSet(SignInsUnderWay') /\ Len(issued') + Cardinality(SignInsUnderWay') <= signIns' + 1
  BY <1>1, <1>2, FewerSigningIn DEF SessionBounded
<1> QED
  BY <1>3 DEF SessionBounded, Call, Token

LEMMA InitSessionBounded == SessionInit => SessionBounded
<1> SUFFICES ASSUME SessionInit PROVE SessionBounded
  OBVIOUS
<1>1. SignInsUnderWay = {} /\ calls = {}
  BY DEF SessionInit, SignInsUnderWay
<1>2. IsFiniteSet(SignInsUnderWay) /\ Cardinality(SignInsUnderWay) = 0
  BY <1>1, FS_EmptySet
<1>3. 0 \in 0..MaxSignIns /\ 0 \in 0..MaxCallsLost
  BY SessionBounds
<1>4. Len(issued) \in {0, 1} /\ signIns = 0
  BY DEF SessionInit
<1>5. Len(issued) + Cardinality(SignInsUnderWay) <= signIns + 1
  <2>1. ASSUME NEW n \in {0, 1}, NEW m, m = 0, NEW k, k = 0
        PROVE  n + m <= k + 1
    BY <2>1
  <2> QED
    BY <1>2, <1>4, <2>1
<1> QED
  BY <1>1, <1>2, <1>3, <1>5 DEF SessionInit, SessionBounded

\* An answer frees the form that waits for it.
LEMMA AnsweredTypes ==
  ASSUME SessionBounded, NEW c \in calls, Answered(c)
  PROVE  calls' \subseteq calls /\ busy' \in [Tabs -> 0..MaxSignIns]
<1>1. 0 \in 0..MaxSignIns
  BY SessionBounds
<1> QED
  BY <1>1 DEF Answered, SessionBounded

\* Going to a page frees its form.
LEMMA GoFrees ==
  ASSUME SessionBounded, NEW t, NEW p, NEW state, Go(t, p, state)
  PROVE  busy' \in [Tabs -> 0..MaxSignIns]
<1>1. 0 \in 0..MaxSignIns
  BY SessionBounds
<1> QED
  BY <1>1 DEF Go, SessionBounded

LEMMA NextSessionBounded == CopyInv /\ SessionBounded /\ [SessionNext]_sessionVars => SessionBounded'
<1> SUFFICES ASSUME CopyInv, SessionBounded, [SessionNext]_sessionVars PROVE SessionBounded'
  OBVIOUS
<1>0. SessionInv /\ TabsInv
  BY DEF CopyInv
<1>1. CASE UNCHANGED sessionVars
  BY <1>0, <1>1, NoSignIn DEF sessionVars, SessionBounded
<1>2. ASSUME NEW t \in Tabs, NEW p \in Path, Load(t, p) PROVE SessionBounded'
  <2>1. busy' \in [Tabs -> 0..MaxSignIns]
    BY <1>2, GoFrees DEF Load
  <2> QED
    BY <1>0, <1>2, <2>1, NoSignIn DEF Load, SessionBounded
<1>3. ASSUME NEW t \in Tabs, Redirect(t) \/ \E p \in Path : Follow(t, p) PROVE SessionBounded'
  <2>1. busy' \in [Tabs -> 0..MaxSignIns]
    BY <1>3, GoFrees DEF Redirect, Follow
  <2> QED
    BY <1>0, <1>3, <2>1, NoSignIn DEF Redirect, Follow, SessionBounded
<1>4. ASSUME NEW t \in Tabs, ClickLogout(t) PROVE SessionBounded'
  BY <1>0, <1>4, NoSignIn DEF ClickLogout, SessionBounded
<1>5. ASSUME NEW t \in Tabs, Query(t) PROVE SessionBounded'
  <2> DEFINE c == [kind |-> "query", tab |-> t, token |-> session[t].token,
                   account |-> NoAccount, back |-> "dashboard", id |-> 0]
  <2>1. calls' = calls \cup {c} /\ UNCHANGED <<issued, expired, busy, signIns, callsLost>>
    BY <1>5 DEF Query
  <2>2. session[t].token \in {0} \cup Token
    BY <1>0 DEF SessionInv, SlicesInv, Credentials
  <2>3. c \in Call
    BY <2>2, PathsAreOpen, SessionBounds DEF Call
  <2>4. c.kind = "query"
    OBVIOUS
  <2> HIDE DEF c
  <2>5. SignInsUnderWay' = SignInsUnderWay
    BY <2>1, <2>4 DEF SignInsUnderWay
  <2> QED
    BY <2>1, <2>3, <2>5 DEF SessionBounded, Call, Token
<1>6. ASSUME NEW t \in Tabs, NEW kind \in Guest, NEW a \in Accounts, SignIn(t, kind, a)
      PROVE  SessionBounded'
  <2> DEFINE c == [kind |-> kind, tab |-> t, token |-> session[t].token, account |-> a,
                   back |-> Back(t, kind), id |-> signIns']
  <2>1. /\ calls' = calls \cup {c} /\ signIns' = signIns + 1 /\ signIns < MaxSignIns
        /\ busy' = [busy EXCEPT ![t] = signIns'] /\ UNCHANGED <<issued, expired, callsLost>>
    BY <1>6 DEF SignIn
  <2>2. session[t].token \in {0} \cup Token
    BY <1>0 DEF SessionInv, SlicesInv, Credentials
  <2>3. signIns' \in 0..MaxSignIns /\ signIns \in Nat
    BY <2>1, SessionBounds DEF SessionBounded
  <2>4. Back(t, kind) \in Path
    BY <1>0, PathsAreOpen DEF Back, TabsInv
  <2>5. c \in Call
    BY <2>2, <2>3, <2>4 DEF Call, Guest
  <2> HIDE DEF c
  <2>6. SignInsUnderWay' \subseteq SignInsUnderWay \cup {c}
    BY <2>1 DEF SignInsUnderWay
  <2>7. /\ IsFiniteSet(SignInsUnderWay \cup {c}) /\ Cardinality(SignInsUnderWay) \in Nat
        /\ Cardinality(SignInsUnderWay \cup {c}) \in {Cardinality(SignInsUnderWay), Cardinality(SignInsUnderWay) + 1}
    BY FS_AddElement, FS_CardinalityType DEF SessionBounded
  <2>8. /\ IsFiniteSet(SignInsUnderWay') /\ Cardinality(SignInsUnderWay') \in Nat
        /\ Cardinality(SignInsUnderWay') <= Cardinality(SignInsUnderWay \cup {c})
    BY <2>6, <2>7, FS_Subset, FS_CardinalityType
  <2>9. Len(issued') + Cardinality(SignInsUnderWay') <= signIns' + 1
    <3>1. Len(issued) \in Nat /\ Len(issued) + Cardinality(SignInsUnderWay) <= signIns + 1
      BY <1>0 DEF SessionInv, SlicesInv, SessionBounded
    <3> QED
      BY <2>1, <2>3, <2>7, <2>8, <3>1
  <2> QED
    BY <2>1, <2>3, <2>5, <2>8, <2>9 DEF SessionBounded, Call, Token
<1>7. ASSUME NEW c \in calls, SignedIn(c) PROVE SessionBounded'
  <2>1. /\ issued' = Append(issued, c.account) /\ calls' = calls \ {c} /\ c.kind # "query"
        /\ UNCHANGED <<expired, signIns, callsLost>>
    BY <1>7 DEF SignedIn
  <2>2. c.account \in Accounts /\ issued \in Seq(Accounts) /\ Len(issued) \in Nat
    BY <1>0, <2>1 DEF SessionInv, SlicesInv, SignInsNameAccounts
  <2>3. Len(issued') = Len(issued) + 1 /\ Token \subseteq Token'
    BY <2>1, <2>2 DEF Token
  <2>4. busy' \in [Tabs -> 0..MaxSignIns]
    BY <1>7, GoFrees DEF SignedIn
  <2>5. SignInsUnderWay' \subseteq SignInsUnderWay /\ c \in SignInsUnderWay /\ c \notin SignInsUnderWay'
    BY <2>1 DEF SignInsUnderWay
  <2>6. signIns \in Nat
    BY SessionBounds DEF SessionBounded
  <2>7. IsFiniteSet(SignInsUnderWay') /\ Len(issued') + Cardinality(SignInsUnderWay') <= signIns' + 1
    BY <1>0, <2>1, <2>2, <2>3, <2>5, <2>6, FewerSigningIn DEF SessionBounded
  <2>8. calls' \subseteq Call'
    BY <2>1, <2>3 DEF SessionBounded, Call
  <2> QED
    BY <2>1, <2>3, <2>4, <2>7, <2>8 DEF SessionBounded
<1>8. ASSUME NEW c \in calls, Unauthorized(c) PROVE SessionBounded'
  <2>1. calls' \subseteq calls /\ busy' \in [Tabs -> 0..MaxSignIns]
    BY <1>8, AnsweredTypes DEF Unauthorized
  <2> QED
    BY <1>0, <1>8, <2>1, NoSignIn DEF Unauthorized, SessionBounded
<1>9. ASSUME NEW c \in calls, Authorized(c) \/ Fail(c) PROVE SessionBounded'
  <2>1. calls' \subseteq calls /\ busy' \in [Tabs -> 0..MaxSignIns]
    BY <1>9, AnsweredTypes DEF Authorized, Fail
  <2>2. callsLost' \in 0..MaxCallsLost
    BY <1>9, SessionBounds DEF Authorized, Fail, SessionBounded
  <2> QED
    BY <1>0, <1>9, <2>1, <2>2, NoSignIn DEF Authorized, Fail, SessionBounded
<1>10. ASSUME NEW k \in Token, Expire(k) PROVE SessionBounded'
  BY <1>0, <1>10, NoSignIn DEF Expire, SessionBounded
<1>11. ASSUME NEW t \in Tabs, UseStorage(t) PROVE SessionBounded'
  BY <1>0, <1>11, NoSignIn DEF UseStorage, ReadUser, ClearToken, WriteUser, SessionBounded
<1> QED
  BY <1>1, <1>2, <1>3, <1>4, <1>5, <1>6, <1>7, <1>8, <1>9, <1>10, <1>11
     DEF SessionNext, Visitor, Arrive

\* No sign-in brings two tokens, whatever tabs are left and reloaded while it is under way,
\* and no tab is led to a page that does not exist.
THEOREM SessionTypeCorrect == SessionSpec => []SessionTypeOK
<1>1. CopyInv /\ SessionBounded => SessionTypeOK
  <2> SUFFICES ASSUME CopyInv, SessionBounded PROVE SessionTypeOK
    OBVIOUS
  <2>1. SessionInv /\ TabsInv
    BY DEF CopyInv
  <2>2. signIns \in Nat /\ signIns <= MaxSignIns /\ MaxSignIns \in Nat
    BY SessionBounds DEF SessionBounded
  <2>3. Len(issued) <= MaxSignIns + 1
    BY <2>1, <2>2, FewerSigningIn DEF SessionBounded
  <2> QED
    BY <2>1, <2>3 DEF SessionInv, SlicesInv, TabsInv, SessionBounded, SessionTypeOK
<1> QED
  BY <1>1, InitCopy, InitSessionBounded, NextCopy, NextSessionBounded, PTL DEF SessionSpec

-----------------------------------------------------------------------------
(* What the pages wait for is still to come. *)

\* The change a page waits for is on its way until it is answered, and the answer is its.
LEMMA NextAsked == UsersInv /\ PageWaitsForChange /\ [UsersNext]_usersVars => PageWaitsForChange'
<1> SUFFICES ASSUME UsersInv, PageWaitsForChange, [UsersNext]_usersVars PROVE PageWaitsForChange'
  OBVIOUS
<1> USE DEF UsersInv, PageWaitsForChange, FlightInv, UsersTypes, Waiting, Idle, usersServer,
           network, visiting, query, usersPage
<1>0. CASE UNCHANGED usersVars
  BY <1>0 DEF usersVars
<1>1. ASSUME NEW r \in mutations, NEW a \in {"ok", "error"}, mutations' = mutations \ {r},
             Reply(r, a), UNCHANGED <<visiting, pending>>
      PROVE  PageWaitsForChange'
  <2>1. CASE usersOpen /\ r.visit = usersVisit
    <3>1. /\ pending = Waiting(r.user, r.role) /\ answer' = a
          /\ confirmed' = IF a = "ok" THEN [confirmed EXCEPT ![r.user] = r.role] ELSE confirmed
      BY <1>1, <2>1 DEF Reply
    <3>2. ASSUME NEW m \in mutations, m.visit = usersVisit PROVE m = r
      <4>1. pending = Waiting(m.user, m.role)
        BY <2>1, <3>2
      <4>2. m.user = r.user /\ m.role = r.role
        BY <3>1, <4>1
      <4> QED
        BY <2>1, <3>2, <4>2
    <3>3. a = "ok" => confirmed'[r.user] = r.role
      BY <3>1
    <3> QED
      BY <1>1, <3>1, <3>2, <3>3
  <2>2. CASE ~(usersOpen /\ r.visit = usersVisit)
    BY <1>1, <2>2 DEF Reply
  <2> QED
    BY <2>1, <2>2
<1>2. ASSUME NEW r \in mutations, Handle(r) \/ Lose(r) PROVE PageWaitsForChange'
  BY <1>1, <1>2 DEF Handle, Lose
<1>3. CASE ReadUsers
  BY <1>3 DEF ReadUsers
<1>4. ASSUME NEW u \in Users, SomeoneElse(u) PROVE PageWaitsForChange'
  BY <1>4 DEF SomeoneElse
<1>5. CASE OpenUsers
  BY <1>5 DEF OpenUsers
<1>6. CASE LeaveUsers
  BY <1>6 DEF LeaveUsers
<1>7. ASSUME NEW u \in Users, NEW r \in Role, ChangeRole(u, r) PROVE PageWaitsForChange'
  BY <1>7 DEF ChangeRole, Enabled, Send
<1>8. ASSUME NEW u \in Users, OpenDeleteDialog(u) PROVE PageWaitsForChange'
  BY <1>8 DEF OpenDeleteDialog, Enabled
<1>9. CASE CloseDeleteDialog
  BY <1>9 DEF CloseDeleteDialog
<1>10. CASE ConfirmDelete
  BY <1>10 DEF ConfirmDelete, Send
<1>11. CASE Succeeds
  BY <1>11 DEF Succeeds
<1>12. CASE Refetched
  BY <1>12 DEF Refetched
<1>13. CASE ChangeFails
  BY <1>13 DEF ChangeFails
<1>14. CASE ShowUsers \/ FetchFails
  BY <1>14 DEF ShowUsers, FetchFails
<1> QED
  BY <1>0, <1>2, <1>3, <1>4, <1>5, <1>6, <1>7, <1>8, <1>9, <1>10, <1>11, <1>12, <1>13, <1>14
     DEF UsersNext, UserRow, Page

\* The page of the users waits for a change that is under way or answered, and takes no
\* answer for that of another change: nothing that is lost or refused leaves it waiting.
THEOREM ChangesAreAwaited == UsersSpec => []PageWaitsForChange
<1>1. UsersInit => PageWaitsForChange
  BY DEF UsersInit, PageWaitsForChange, Idle
<1> QED
  BY <1>1, InitUsers, NextUsers, NextAsked, PTL DEF UsersSpec

\* A form waits for what it has sent itself; what ends the waiting of one form takes nothing
\* from another.
LEMMA NextForm ==
  SessionBounded /\ FormWaitsForAnswer /\ [SessionNext]_sessionVars => FormWaitsForAnswer'
<1> SUFFICES ASSUME SessionBounded, FormWaitsForAnswer, [SessionNext]_sessionVars
             PROVE  FormWaitsForAnswer'
  OBVIOUS
<1>t. busy \in [Tabs -> 0..MaxSignIns] /\ \A c \in calls : c.tab \in Tabs
  BY DEF SessionBounded, Call
<1>1. ASSUME NEW t \in Tabs, busy' = [busy EXCEPT ![t] = 0],
             \A c \in calls : c.tab # t => c \in calls'
      PROVE  FormWaitsForAnswer'
  BY <1>1, <1>t DEF FormWaitsForAnswer
<1>2. ASSUME busy' = busy, calls \subseteq calls'
      PROVE  FormWaitsForAnswer'
  BY <1>2 DEF FormWaitsForAnswer
<1>3. ASSUME NEW c \in calls, Answered(c)
      PROVE  FormWaitsForAnswer'
  <2>1. /\ calls' = calls \ {c}
        /\ busy' = [busy EXCEPT ![c.tab] = IF c.id # 0 /\ @ = c.id THEN 0 ELSE @]
    BY <1>3 DEF Answered
  <2>2. ASSUME NEW t \in Tabs, busy'[t] # 0
        PROVE  \E d \in calls' : d.tab = t /\ d.id = busy'[t]
    <3>1. busy'[t] = busy[t]
      BY <1>t, <2>1, <2>2
    <3>2. PICK d \in calls : d.tab = t /\ d.id = busy[t]
      BY <2>2, <3>1 DEF FormWaitsForAnswer
    <3>3. d # c
      BY <1>t, <2>1, <2>2, <3>1, <3>2
    <3> QED
      BY <2>1, <3>1, <3>2, <3>3
  <2> QED
    BY <2>2 DEF FormWaitsForAnswer
<1>4. ASSUME NEW t \in Tabs, NEW p \in Path, Load(t, p) PROVE FormWaitsForAnswer'
  BY <1>1, <1>4 DEF Load, Go
<1>5. ASSUME NEW t \in Tabs, Redirect(t) \/ \E p \in Path : Follow(t, p)
      PROVE  FormWaitsForAnswer'
  BY <1>1, <1>5 DEF Redirect, Follow, Go
<1>6. ASSUME NEW t \in Tabs, ClickLogout(t) \/ Query(t) PROVE FormWaitsForAnswer'
  BY <1>2, <1>6 DEF ClickLogout, Query
<1>7. ASSUME NEW t \in Tabs, NEW kind \in Guest, NEW a \in Accounts, SignIn(t, kind, a)
      PROVE  FormWaitsForAnswer'
  <2> DEFINE c == [kind |-> kind, tab |-> t, token |-> session[t].token, account |-> a,
                   back |-> Back(t, kind), id |-> signIns']
  <2>1. calls' = calls \cup {c} /\ busy' = [busy EXCEPT ![t] = signIns']
    BY <1>7 DEF SignIn
  <2>2. c.tab = t /\ c.id = signIns'
    OBVIOUS
  <2> HIDE DEF c
  <2> QED
    BY <1>t, <2>1, <2>2 DEF FormWaitsForAnswer
<1>8. ASSUME NEW c \in calls, SignedIn(c) PROVE FormWaitsForAnswer'
  <2>1. calls' = calls \ {c} /\ busy' = [busy EXCEPT ![c.tab] = 0]
    BY <1>8 DEF SignedIn, Go
  <2> QED
    BY <1>1, <1>t, <2>1
<1>9. ASSUME NEW c \in calls, Unauthorized(c) \/ Authorized(c) \/ Fail(c)
      PROVE  FormWaitsForAnswer'
  BY <1>3, <1>9 DEF Unauthorized, Authorized, Fail
<1>10. ASSUME NEW k \in Token, Expire(k) PROVE FormWaitsForAnswer'
  BY <1>2, <1>10 DEF Expire
<1>11. ASSUME NEW t \in Tabs, UseStorage(t) PROVE FormWaitsForAnswer'
  BY <1>2, <1>11 DEF UseStorage, ReadUser, ClearToken, WriteUser
<1>12. CASE UNCHANGED sessionVars
  BY <1>2, <1>12 DEF sessionVars
<1> QED
  BY <1>4, <1>5, <1>6, <1>7, <1>8, <1>9, <1>10, <1>11, <1>12 DEF SessionNext, Visitor, Arrive

\* No form of the session waits for an answer that is not under way, whatever tabs are left
\* and reloaded and whatever fails.
THEOREM FormsAreAnswered == SessionSpec => []FormWaitsForAnswer
<1>1. SessionInit => FormWaitsForAnswer
  BY DEF SessionInit, FormWaitsForAnswer
<1> QED
  BY <1>1, InitCopy, InitSessionBounded, NextCopy, NextSessionBounded, NextForm, PTL
     DEF SessionSpec

\* One redirect is enough: the guards agree on where they send a session, signed in or
\* not, of an administrator or not.
THEOREM RedirectsDoNotChain == SessionSpec => RedirectsAreFew
<1>1. ASSUME TabsInv, NEW t \in Tabs, Redirect(t), place[t] # "other"
      PROVE  Settled(t)'
  <2>1. place' = [place EXCEPT ![t] = Destination(t)] /\ UNCHANGED session
    BY <1>1 DEF Redirect, Go
  <2>2. place \in [Tabs -> Path \cup {"closed"}] /\ place[t] # "closed"
    BY <1>1 DEF TabsInv, Redirect, Settled
  <2>3. place'[t] = Destination(t)
    BY <2>1, <2>2
  <2>4. Destination(t) # place[t]
    BY <1>1 DEF Redirect, Settled
  <2>5. IsAuth(t)' = IsAuth(t)
    BY <2>1 DEF IsAuth
  <2>6. CASE IsAuth(t)
    <3>1. place'[t] = "dashboard"
      BY <1>1, <2>2, <2>3, <2>4, <2>6 DEF Destination, Path, Guest, Member
    <3> QED
      BY <2>5, <2>6, <3>1 DEF Settled, Destination, Guest, Member
  <2>7. CASE ~IsAuth(t)
    <3>1. place[t] \notin Guest
      BY <2>4, <2>7 DEF Destination, Guest, Member
    <3>2. place[t] \in Member \cup {"admin"}
      BY <1>1, <2>2, <3>1 DEF Path
    <3>3. Destination(t) = "login"
      BY <1>1, <2>7, <3>1, <3>2 DEF Destination
    <3> QED
      BY <2>3, <2>5, <2>7, <3>3 DEF Settled, Destination, Guest, Member
  <2> QED
    BY <2>6, <2>7
<1>2. CopyInv /\ [SessionNext]_sessionVars
        => [\A t \in Tabs : Redirect(t) /\ place[t] # "other" => Settled(t)']_sessionVars
  BY <1>1 DEF CopyInv
<1> QED
  BY <1>2, InitCopy, NextCopy, PTL DEF SessionSpec, RedirectsAreFew

-----------------------------------------------------------------------------
(* The tools of the card: the page goes on under them, so what holds of it holds of both. *)

LEMMA ToolsMoveThePage == [ToolsNext]_toolVars => [ViewNext]_viewVars
BY DEF ToolsNext, PageStep, ToggleFilter, Export, toolVars

\* The tools take nothing away from the page and add nothing to it: a page with its tools
\* is a page, and every theorem about pages holds of it.
THEOREM ToolsRunOnThePage == ToolsSpec => ViewSpec
<1>1. ToolsInit => ViewInit
  BY DEF ToolsInit
<1> QED
  BY <1>1, ToolsMoveThePage, PTL DEF ToolsSpec, ViewSpec

\* A stored failure stays: only a commit moves a status, and a failure has no next one.
LEMMA FailureStays ==
  ASSUME ViewTypeOK, [ViewNext]_viewVars, NEW p \in Payments, stored[p] = "failed"
  PROVE  stored'[p] = "failed"
<1>1. ASSUME NEW q \in Payments, Commit(q)
      PROVE  stored'[p] = "failed"
  BY <1>1 DEF Commit, Successors, Terminal, ViewTypeOK
<1> QED
  BY <1>1, OnlyCommitStores

\* What has been exported as failed has failed, however old the page was that exported it.
THEOREM ExportsAreTrue == ToolsSpec => []ExportIsTrue
<1> DEFINE ExportInv == exported \subseteq Payments /\ ExportIsTrue
<1>1. ToolsInit => ExportInv
  BY DEF ToolsInit, ExportIsTrue
<1>2. ViewTypeOK /\ ShownIsNotAhead /\ ExportInv /\ [ToolsNext]_toolVars => ExportInv'
  <2> SUFFICES ASSUME ViewTypeOK, ShownIsNotAhead, ExportInv, [ToolsNext]_toolVars
               PROVE  ExportInv'
    OBVIOUS
  <2>1. [ViewNext]_viewVars
    BY ToolsMoveThePage
  <2>2. \A p \in exported : stored'[p] = "failed"
    BY <2>1, FailureStays DEF ExportIsTrue
  <2>3. CASE exported' = exported
    BY <2>2, <2>3 DEF ExportIsTrue
  <2>4. CASE Export
    <3>1. failedPayments \subseteq Payments /\ \A p \in failedPayments : stored[p] = "failed"
      BY DEF failedPayments, ShownIsNotAhead, NotAfter, ViewTypeOK, Status, Terminal
    <3> QED
      BY <2>2, <2>4, <3>1 DEF Export, ExportIsTrue, viewVars
  <2> QED
    BY <2>3, <2>4 DEF ToolsNext, PageStep, ToggleFilter, toolVars
<1>3. ExportInv => ExportIsTrue
  OBVIOUS
<1> HIDE DEF ExportInv
<1> QED
  BY <1>1, <1>2, <1>3, ToolsRunOnThePage, ViewTypeCorrect, ViewIsNeverAhead, PTL DEF ToolsSpec

-----------------------------------------------------------------------------
(* The parts together: each of them sees its own steps and steps that leave it alone. *)

LEMMA PartsStart ==
  FrontendInit => /\ ToolsInit /\ FramingInit /\ UploadInit /\ HistoryInit
                  /\ FormInit /\ UsersInit /\ BatchesInit /\ SessionInit
BY DEF FrontendInit

\* The filter is used where its tools are looked at.
FilterRests == part # "tools" => failedOnly = FALSE

LEMMA FilterRestsNext == FilterRests /\ [FrontendNext]_allVars => FilterRests'
<1> SUFFICES ASSUME FilterRests, [FrontendNext]_allVars PROVE FilterRests'
  OBVIOUS
<1> QED
  BY DEF FilterRests, FrontendNext, View, Tools, Framing, UploadCard, History, Form, UsersPage,
         List, Sessions, allVars, toolVars

LEMMA ToolsSee == FilterRests /\ [FrontendNext]_allVars => [ToolsNext]_toolVars
<1> SUFFICES ASSUME FilterRests, [FrontendNext]_allVars PROVE [ToolsNext]_toolVars
  OBVIOUS
<1>1. CASE View
  <2>1. failedOnly = FALSE /\ failedOnly' = FALSE /\ ViewNext /\ exported' = exported
    BY <1>1 DEF View, FilterRests
  <2>2. failedOnly' = (failedOnly /\ hook' # "off")
    BY <2>1, Zenon
  <2> QED
    BY <2>1, <2>2 DEF ToolsNext, PageStep
<1>2. CASE Tools
  BY <1>2 DEF Tools
<1>3. CASE ~View /\ ~Tools
  BY <1>3 DEF FrontendNext, Framing, UploadCard, History, Form, UsersPage, List, Sessions,
              allVars
<1> QED
  BY <1>1, <1>2, <1>3

LEMMA CardsSee ==
  [FrontendNext]_allVars => /\ [UploadNext]_uploadVars
                            /\ [HistoryNext]_historyVars
                            /\ [FramingNext]_framingVars
<1> QED
  BY DEF FrontendNext, View, Tools, Framing, UploadCard, History, Form, UsersPage, List,
         Sessions, allVars, restOfPage

LEMMA PagesSee ==
  [FrontendNext]_allVars => /\ [FormNext]_formVars
                            /\ [UsersNext]_usersVars
                            /\ [BatchesNext]_batchesVars
                            /\ [SessionNext]_sessionVars
<1> QED
  BY DEF FrontendNext, View, Tools, Framing, UploadCard, History, Form, UsersPage, List,
         Sessions, allVars, restOfPage

\* A frontend is each of its parts: whatever a theorem says of a part, it says of the
\* frontend that the runs look at.
THEOREM FrontendIsItsParts ==
  FrontendSpec => /\ ToolsSpec /\ FramingSpec /\ UploadSpec /\ HistorySpec
                  /\ FormSpec /\ UsersSpec /\ BatchesSpec /\ SessionSpec
<1>1. FrontendInit => FilterRests
  BY DEF FrontendInit, ToolsInit, FilterRests
<1> QED
  BY <1>1, PartsStart, FilterRestsNext, ToolsSee, CardsSee, PagesSee, PTL
     DEF FrontendSpec, ToolsSpec, FramingSpec, UploadSpec, HistorySpec, FormSpec, UsersSpec,
         BatchesSpec, SessionSpec

\* The types of all parts, in the frontend that the runs look at.
THEOREM FrontendTypeCorrect == FrontendSpec => []FrontendTypeOK
  BY FrontendIsItsParts, ToolsRunOnThePage, ViewTypeCorrect, UploadTypeCorrect,
     HistoryTypeCorrect, FormTypeCorrect, UsersTypeCorrect, BatchesTypeCorrect,
     SessionTypeCorrect, PTL DEF FrontendTypeOK

\* Everything that the runs check of a page at every moment holds of the frontend: no page
\* shows what the database does not hold, whichever part of it moves, and no tab has the
\* token of one account with the name of another unless two tabs have crossed at signing in.
THEOREM FrontendIsTrue ==
  FrontendSpec => [](/\ PageIsNotAhead /\ ExportIsTrue
                     /\ UploadIsWhole /\ HistoryIsTrue
                     /\ FormIsHonest
                     /\ RolesShownAreTrue /\ RowsMatchControls /\ CredentialsMatch)
  BY FrontendIsItsParts, ToolsRunOnThePage, PagesAreNotAhead, ExportsAreTrue,
     UploadsAreWhole, HistoryTellsTheTruth, FormsAreHonest,
     RolesAreTrue, ListMatchesControls, CredentialsBelongTogether, PTL

\* In the whole frontend too, whoever waits has been promised an answer that is still to
\* come, and no guard redirects to where another one redirects from.
THEOREM FrontendNeverStalls == FrontendSpec => []WaitsAreForAnswers /\ RedirectsAreFew
  BY FrontendIsItsParts, CardsWaitForUploads, ChangesAreAwaited, FormsAreAnswered,
     RedirectsDoNotChain, PTL DEF WaitsAreForAnswers

=============================================================================
