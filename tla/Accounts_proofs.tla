-------------------------- MODULE Accounts_proofs --------------------------
(***************************************************************************)
(* The safety of the accounts, for any number of clients, accounts and     *)
(* addresses: proofs.  The tokens under which operations run have all been *)
(* handed out, and that is what the argument about administrators needs.   *)
(***************************************************************************)
EXTENDS Accounts, TLAPS

LEMMA InitTypeOK == AccountsInit => AccountsTypeOK
BY FirstAssumption DEF AccountsInit, AccountsTypeOK, User, Token, Role, Op, Idle

LEMMA AnswerTypeOK ==
  ASSUME AccountsTypeOK, NEW c \in Clients, Answer(c)
  PROVE  op' \in [Clients -> Op]
BY DEF AccountsTypeOK, Answer, Op

LEMMA BeginTypeOK ==
  ASSUME AccountsTypeOK, NEW c \in Clients, NEW o \in Op, Begin(c, o)
  PROVE  AccountsTypeOK'
BY DEF AccountsTypeOK, Begin

LEMMA SendTypeOK ==
  ASSUME AccountsTypeOK, NEW c \in Clients, Send(c)
  PROVE  AccountsTypeOK'
<1>1. ASSUME NEW e \in Emails, SendRegister(c, e) PROVE AccountsTypeOK'
  <2>1. [kind |-> "register", step |-> "sent", email |-> e] \in Op
    BY DEF Op
  <2> QED
    BY <1>1, <2>1, BeginTypeOK DEF SendRegister
<1>2. ASSUME NEW e \in Emails, SendLogin(c, e) PROVE AccountsTypeOK'
  <2>1. [kind |-> "login", email |-> e] \in Op
    BY DEF Op
  <2> QED
    BY <1>2, <2>1, BeginTypeOK DEF SendLogin
<1>3. ASSUME NEW t \in tokens, SendUpload(c, t) PROVE AccountsTypeOK'
  <2>1. [kind |-> "upload", by |-> t] \in Op
    BY DEF Op, AccountsTypeOK
  <2> QED
    BY <1>3, <2>1, BeginTypeOK DEF SendUpload
<1>4. ASSUME NEW t \in tokens, NEW a \in Accounts, SendDelete(c, t, a) PROVE AccountsTypeOK'
  <2>1. [kind |-> "delete", by |-> t, target |-> a] \in Op
    BY DEF Op, AccountsTypeOK
  <2> QED
    BY <1>4, <2>1, BeginTypeOK DEF SendDelete
<1>5. ASSUME NEW t \in tokens, NEW a \in Accounts, NEW r \in Role, SendRole(c, t, a, r)
      PROVE  AccountsTypeOK'
  <2>1. [kind |-> "role", by |-> t, target |-> a, role |-> r] \in Op
    BY DEF Op, AccountsTypeOK
  <2> QED
    BY <1>5, <2>1, BeginTypeOK DEF SendRole
<1> QED
  BY <1>1, <1>2, <1>3, <1>4, <1>5 DEF Send

LEMMA NextTypeOK == AccountsTypeOK /\ [AccountsNext]_accountsVars => AccountsTypeOK'
<1> SUFFICES ASSUME AccountsTypeOK, [AccountsNext]_accountsVars PROVE AccountsTypeOK'
  OBVIOUS
<1>1. CASE UNCHANGED accountsVars
  BY <1>1 DEF AccountsTypeOK, accountsVars
<1>2. ASSUME NEW c \in Clients, Send(c) PROVE AccountsTypeOK'
  BY <1>2, SendTypeOK
<1>3. ASSUME NEW c \in Clients, FindFree(c) PROVE AccountsTypeOK'
  <2>1. CASE Answer(c)
    BY <1>3, <2>1, AnswerTypeOK DEF FindFree, AccountsTypeOK
  <2>2. CASE op' = [op EXCEPT ![c].step = "free"]
    <3>1. op[c] \in [kind : {"register"}, step : {"sent", "free"}, email : Emails]
      BY <1>3 DEF FindFree, AccountsTypeOK, Op, Idle
    <3>2. [op[c] EXCEPT !.step = "free"] \in Op
      BY <3>1 DEF Op
    <3> QED
      BY <1>3, <2>2, <3>2 DEF FindFree, AccountsTypeOK
  <2> QED
    BY <1>3, <2>1, <2>2 DEF FindFree
<1>4. ASSUME NEW c \in Clients, Create(c) PROVE AccountsTypeOK'
  <2>1. op[c] \in [kind : {"register"}, step : {"sent", "free"}, email : Emails]
    BY <1>4 DEF Create, AccountsTypeOK, Op, Idle
  <2>2. op' \in [Clients -> Op] /\ owners' = owners
    BY <1>4, AnswerTypeOK DEF Create
  <2>3. CASE UNCHANGED <<users, tokens>>
    BY <2>2, <2>3 DEF AccountsTypeOK
  <2>4. ASSUME NEW a \in Accounts,
               users' = [users EXCEPT ![a] =
                           [state |-> "live", email |-> op[c].email, role |-> "operator"]],
               tokens' = tokens \cup {[id |-> a, role |-> "operator"]}
        PROVE  AccountsTypeOK'
    BY <2>1, <2>2, <2>4 DEF AccountsTypeOK, User, Token, Role
  <2> QED
    BY <1>4, <2>3, <2>4 DEF Create
<1>5. ASSUME NEW c \in Clients, FindAccount(c) PROVE AccountsTypeOK'
  <2>1. ASSUME NEW a \in Accounts,
               op' = [op EXCEPT ![c] = [kind |-> "found",
                                        token |-> [id |-> a, role |-> users[a].role]]]
        PROVE  AccountsTypeOK'
    <3>1. [kind |-> "found", token |-> [id |-> a, role |-> users[a].role]] \in Op
      BY DEF AccountsTypeOK, Op, Token, User
    <3> QED
      BY <1>5, <2>1, <3>1 DEF FindAccount, AccountsTypeOK
  <2>2. CASE Answer(c)
    BY <1>5, <2>2, AnswerTypeOK DEF FindAccount, AccountsTypeOK
  <2> QED
    BY <1>5, <2>1, <2>2 DEF FindAccount
<1>6. ASSUME NEW c \in Clients, Compare(c) PROVE AccountsTypeOK'
  <2>1. op[c].token \in Token
    BY <1>6 DEF Compare, AccountsTypeOK, Op, Idle
  <2> QED
    BY <1>6, <2>1, AnswerTypeOK DEF Compare, AccountsTypeOK
<1>7. ASSUME NEW c \in Clients, UpdateRole(c) PROVE AccountsTypeOK'
  <2>1. op[c].target \in Accounts /\ op[c].role \in Role
    BY <1>7 DEF UpdateRole, AccountsTypeOK, Op, Idle
  <2> QED
    BY <1>7, <2>1, AnswerTypeOK DEF UpdateRole, AccountsTypeOK, User
<1>8. ASSUME NEW c \in Clients, DeleteUser(c) PROVE AccountsTypeOK'
  <2>1. op[c].target \in Accounts
    BY <1>8 DEF DeleteUser, AccountsTypeOK, Op, Idle
  <2> QED
    BY <1>8, <2>1, AnswerTypeOK DEF DeleteUser, AccountsTypeOK, User
<1>9. ASSUME NEW c \in Clients, CreateBatch(c) PROVE AccountsTypeOK'
  <2>1. op[c].by.id \in Accounts
    BY <1>9 DEF CreateBatch, AccountsTypeOK, Op, Idle, Token
  <2> QED
    BY <1>9, <2>1, AnswerTypeOK DEF CreateBatch, AccountsTypeOK
<1>10. ASSUME NEW c \in Clients, Fail(c) PROVE AccountsTypeOK'
  BY <1>10, AnswerTypeOK DEF Fail, AccountsTypeOK
<1> QED
  BY <1>1, <1>2, <1>3, <1>4, <1>5, <1>6, <1>7, <1>8, <1>9, <1>10 DEF AccountsNext, Serve

\* The tables, the tokens and the operations under way keep their types.
THEOREM AccountsTypeCorrect == AccountsSpec => []AccountsTypeOK
  BY InitTypeOK, NextTypeOK, PTL DEF AccountsSpec

-----------------------------------------------------------------------------
\* The operations of administrators run under tokens that were handed out, and the first
\* of them is there from the start.
TokensAreKnown ==
  /\ [id |-> First, role |-> "admin"] \in tokens
  /\ \A c \in Clients : op[c].kind \in {"role", "delete"} =>
                         op[c].by \in tokens /\ op[c].by.role = "admin"

IInv == AccountsTypeOK /\ TokensAreKnown /\ OneAccountPerEmail /\ BatchesHaveOwners /\ AdministratorRemains

LEMMA InitInv == AccountsInit => IInv
<1> SUFFICES ASSUME AccountsInit PROVE IInv
  OBVIOUS
<1>1. AccountsTypeOK
  BY InitTypeOK
<1>2. \A a \in Accounts : Live(a) <=> a = First
  BY FirstAssumption DEF AccountsInit, Live
<1>3. TokensAreKnown
  BY DEF AccountsInit, TokensAreKnown, Idle
<1>4. OneAccountPerEmail
  BY <1>2 DEF OneAccountPerEmail
<1>5. BatchesHaveOwners
  BY DEF AccountsInit, BatchesHaveOwners
<1>6. AdministratorRemains
  BY FirstAssumption DEF AccountsInit, AdministratorRemains, Live
<1> QED
  BY <1>1, <1>3, <1>4, <1>5, <1>6 DEF IInv

\* While only the first administrator holds a token of one, no other operation than his
\* own may touch an account with the rights of a token.
LEMMA OnlyTheFirstActs ==
  ASSUME AccountsTypeOK, TokensAreKnown, Administrators = {First},
         NEW c \in Clients, op[c].kind \in {"role", "delete"}
  PROVE  op[c].by.id = First
BY DEF TokensAreKnown, Administrators

\* Tokens are never taken back.
LEMMA AdministratorsGrow ==
  ASSUME TokensAreKnown, tokens \subseteq tokens', Administrators' = {First}
  PROVE  Administrators = {First}
BY DEF TokensAreKnown, Administrators

LEMMA SendTokens ==
  ASSUME AccountsTypeOK, TokensAreKnown, NEW c \in Clients, Send(c)
  PROVE  TokensAreKnown' /\ UNCHANGED <<users, tokens, owners>>
<1>1. ASSUME NEW o \in Op, Begin(c, o),
             o.kind \in {"role", "delete"} => o.by \in tokens /\ o.by.role = "admin"
      PROVE  TokensAreKnown' /\ UNCHANGED <<users, tokens, owners>>
  BY <1>1 DEF Begin, TokensAreKnown, AccountsTypeOK
<1>2. ASSUME NEW e \in Emails, SendRegister(c, e) \/ SendLogin(c, e)
      PROVE  TokensAreKnown' /\ UNCHANGED <<users, tokens, owners>>
  <2>1. /\ [kind |-> "register", step |-> "sent", email |-> e] \in Op
        /\ [kind |-> "login", email |-> e] \in Op
    BY DEF Op
  <2> QED
    BY <1>1, <1>2, <2>1 DEF SendRegister, SendLogin
<1>3. ASSUME NEW t \in tokens, SendUpload(c, t)
      PROVE  TokensAreKnown' /\ UNCHANGED <<users, tokens, owners>>
  <2>1. [kind |-> "upload", by |-> t] \in Op
    BY DEF Op, AccountsTypeOK
  <2> QED
    BY <1>1, <1>3, <2>1 DEF SendUpload
<1>4. ASSUME NEW t \in tokens, NEW a \in Accounts, SendDelete(c, t, a)
      PROVE  TokensAreKnown' /\ UNCHANGED <<users, tokens, owners>>
  <2>1. [kind |-> "delete", by |-> t, target |-> a] \in Op
    BY DEF Op, AccountsTypeOK
  <2> QED
    BY <1>1, <1>4, <2>1 DEF SendDelete
<1>5. ASSUME NEW t \in tokens, NEW a \in Accounts, NEW r \in Role, SendRole(c, t, a, r)
      PROVE  TokensAreKnown' /\ UNCHANGED <<users, tokens, owners>>
  <2>1. [kind |-> "role", by |-> t, target |-> a, role |-> r] \in Op
    BY DEF Op, AccountsTypeOK
  <2> QED
    BY <1>1, <1>5, <2>1 DEF SendRole
<1> QED
  BY <1>2, <1>3, <1>4, <1>5 DEF Send

LEMMA ServeTokens ==
  ASSUME AccountsTypeOK, TokensAreKnown, NEW c \in Clients, Serve(c)
  PROVE  TokensAreKnown' /\ tokens \subseteq tokens'
<1>1. tokens \subseteq tokens'
  BY DEF Serve, FindFree, Create, FindAccount, Compare, UpdateRole, DeleteUser, CreateBatch, Fail
<1>2. op' \in [Clients -> Op] /\ \A d \in Clients \ {c} : op'[d] = op[d]
  <2>1. CASE Answer(c)
    BY <2>1, AnswerTypeOK DEF Answer, AccountsTypeOK
  <2>2. CASE op' = [op EXCEPT ![c].step = "free"] /\ FindFree(c)
    BY <2>2, NextTypeOK DEF AccountsTypeOK, AccountsNext, Serve
  <2>3. CASE FindAccount(c) /\ ~Answer(c)
    BY <2>3, NextTypeOK DEF FindAccount, AccountsTypeOK, AccountsNext, Serve
  <2> QED
    BY <2>1, <2>2, <2>3 DEF Serve, FindFree, Create, Compare, UpdateRole, DeleteUser, CreateBatch, Fail
<1>3. op'[c].kind \in {"idle", "register", "found"}
  <2>1. CASE Answer(c)
    BY <2>1 DEF Answer, AccountsTypeOK, Idle
  <2>2. CASE op' = [op EXCEPT ![c].step = "free"] /\ FindFree(c)
    BY <2>2 DEF FindFree, AccountsTypeOK
  <2>3. CASE FindAccount(c) /\ ~Answer(c)
    BY <2>3 DEF FindAccount, AccountsTypeOK
  <2> QED
    BY <2>1, <2>2, <2>3 DEF Serve, FindFree, Create, Compare, UpdateRole, DeleteUser, CreateBatch, Fail
<1> QED
  BY <1>1, <1>2, <1>3 DEF TokensAreKnown

LEMMA NextInv == IInv /\ [AccountsNext]_accountsVars => IInv'
<1> SUFFICES ASSUME IInv, [AccountsNext]_accountsVars PROVE IInv'
  OBVIOUS
<1> USE DEF IInv
<1>1. AccountsTypeOK'
  BY NextTypeOK
<1>2. CASE UNCHANGED <<users, tokens, owners>> /\ TokensAreKnown'
  BY <1>1, <1>2 DEF OneAccountPerEmail, BatchesHaveOwners, AdministratorRemains,
                    Administrators, Live
<1>3. CASE UNCHANGED accountsVars
  BY <1>2, <1>3 DEF accountsVars, TokensAreKnown
<1>4. ASSUME NEW c \in Clients, Send(c) PROVE IInv'
  BY <1>2, <1>4, SendTokens
<1>5. ASSUME NEW c \in Clients, Serve(c) PROVE IInv'
  <2>1. TokensAreKnown' /\ tokens \subseteq tokens'
    BY <1>5, ServeTokens
  <2>2. Administrators' = {First} => Live(First) /\ users[First].role = "admin"
    BY <2>1, AdministratorsGrow DEF AdministratorRemains
  <2>3. CASE FindFree(c) \/ FindAccount(c) \/ Fail(c)
    BY <1>2, <2>1, <2>3 DEF FindFree, FindAccount, Fail
  <2>4. CASE Compare(c)
    BY <1>1, <2>1, <2>2, <2>4 DEF Compare, OneAccountPerEmail, BatchesHaveOwners,
                                  AdministratorRemains, Live
  <2>5. CASE Create(c)
    <3>1. CASE UNCHANGED <<users, tokens>>
      BY <1>2, <2>1, <2>5, <3>1 DEF Create
    <3>2. ASSUME NEW a \in Accounts,
                 \A b \in Accounts : Live(b) => users[b].email # op[c].email,
                 users[a].state = "new",
                 users' = [users EXCEPT ![a] =
                             [state |-> "live", email |-> op[c].email, role |-> "operator"]]
          PROVE  IInv'
      <4>1. ~Live(a)
        BY <3>2 DEF Live
      <4>2. \A b \in Accounts \ {a} : users'[b] = users[b]
        BY <3>2 DEF AccountsTypeOK
      <4>3. users'[a] = [state |-> "live", email |-> op[c].email, role |-> "operator"]
        BY <3>2 DEF AccountsTypeOK
      <4>4. OneAccountPerEmail'
        BY <3>2, <4>2, <4>3 DEF OneAccountPerEmail, Live
      <4>5. BatchesHaveOwners'
        BY <2>5, <4>1, <4>2 DEF BatchesHaveOwners, Live, Create, AccountsTypeOK
      <4>6. AdministratorRemains'
        BY <2>2, <4>1, <4>2, FirstAssumption DEF AdministratorRemains, Live
      <4> QED
        BY <1>1, <2>1, <4>4, <4>5, <4>6
    <3> QED
      BY <2>5, <3>1, <3>2 DEF Create
  <2>6. CASE UpdateRole(c)
    <3>1. \A b \in Accounts : users'[b].state = users[b].state /\ users'[b].email = users[b].email
      BY <2>6 DEF UpdateRole, AccountsTypeOK, User
    <3>2. Administrators' = {First} => users'[First] = users[First]
      <4>1. ASSUME Administrators' = {First} PROVE op[c].by.id = First
        BY <2>1, <2>6, <4>1, AdministratorsGrow, OnlyTheFirstActs DEF UpdateRole
      <4> QED
        BY <2>6, <4>1 DEF UpdateRole, AccountsTypeOK
    <3>3. OneAccountPerEmail'
      BY <3>1 DEF OneAccountPerEmail, Live
    <3>4. BatchesHaveOwners'
      <4>1. owners' = owners /\ owners \subseteq Accounts
        BY <2>6 DEF UpdateRole, AccountsTypeOK
      <4> QED
        BY <3>1, <4>1 DEF BatchesHaveOwners, Live
    <3>5. AdministratorRemains'
      BY <2>2, <3>2 DEF AdministratorRemains, Live
    <3> QED
      BY <1>1, <2>1, <3>3, <3>4, <3>5
  <2>7. CASE DeleteUser(c)
    <3>1. \A b \in Accounts : /\ users'[b].email = users[b].email
                              /\ users'[b].role = users[b].role
                              /\ users'[b].state = "live" => users[b].state = "live"
                              /\ b \in owners => users'[b].state = users[b].state
      BY <2>7 DEF DeleteUser, AccountsTypeOK, User, Live
    <3>2. Administrators' = {First} => users'[First] = users[First]
      <4>1. ASSUME Administrators' = {First} PROVE op[c].by.id = First
        BY <2>1, <2>7, <4>1, AdministratorsGrow, OnlyTheFirstActs DEF DeleteUser
      <4> QED
        BY <2>7, <4>1 DEF DeleteUser, AccountsTypeOK
    <3>3. OneAccountPerEmail'
      BY <3>1 DEF OneAccountPerEmail, Live
    <3>4. BatchesHaveOwners'
      <4>1. owners' = owners /\ owners \subseteq Accounts
        BY <2>7 DEF DeleteUser, AccountsTypeOK
      <4> QED
        BY <3>1, <4>1 DEF BatchesHaveOwners, Live
    <3>5. AdministratorRemains'
      BY <2>2, <3>2 DEF AdministratorRemains, Live
    <3> QED
      BY <1>1, <2>1, <3>3, <3>4, <3>5
  <2>8. CASE CreateBatch(c)
    BY <1>1, <2>1, <2>2, <2>8 DEF CreateBatch, OneAccountPerEmail, BatchesHaveOwners,
                                  AdministratorRemains, Live
  <2> QED
    BY <1>5, <2>3, <2>4, <2>5, <2>6, <2>7, <2>8 DEF Serve
<1> QED
  BY <1>3, <1>4, <1>5 DEF AccountsNext

THEOREM AccountsInvCorrect == AccountsSpec => []IInv
  BY InitInv, NextInv, PTL DEF AccountsSpec

\* Of any number of overlapping registrations of an address, one makes an account.
THEOREM EmailsAreUnique == AccountsSpec => []OneAccountPerEmail
  BY AccountsInvCorrect, PTL DEF IInv

\* No deletion leaves a batch without its owner, whatever is uploaded meanwhile.
THEOREM OwnersRemain == AccountsSpec => []BatchesHaveOwners
  BY AccountsInvCorrect, PTL DEF IInv

\* The first administrator cannot lose the rights before another one has a token.
THEOREM FirstAdministratorRemains == AccountsSpec => []AdministratorRemains
  BY AccountsInvCorrect, PTL DEF IInv

\* However requests overlap, addresses stay unique and batches keep their owners: what one
\* statement has checked, the index and the foreign key check again.
THEOREM ConsistencyHolds == AccountsSpec => []AccountsAreConsistent
  BY EmailsAreUnique, OwnersRemain, PTL DEF AccountsAreConsistent

=============================================================================
