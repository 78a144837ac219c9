------------------------------ MODULE Accounts ------------------------------
(***************************************************************************)
(* The accounts of the backend: registration and login, the two operations *)
(* of the administrators on the accounts of others, and the tokens that    *)
(* tie them together.  A token carries the role its user had at login and  *)
(* is trusted until it expires; the tables are asked only by the           *)
(* operations that change them.                                            *)
(*                                                                         *)
(* Each client has one operation under way.  A statement is atomic, an     *)
(* operation is not: a registration looks for the address, hashes the      *)
(* password, which takes its time, and then inserts.                       *)
(***************************************************************************)
EXTENDS FiniteSets

CONSTANTS
  Clients,
  Accounts,  \* identifiers of accounts, used and to come
  Emails,
  First,     \* the account of the first administrator, made by hand
  FirstEmail \* and its address

ASSUME FirstAssumption == First \in Accounts /\ FirstEmail \in Emails

Role == {"admin", "operator"}

VARIABLES
  users,  \* the table: whether there is such an account, its address and role
  tokens, \* tokens that have been handed out
  owners, \* accounts that own batches
  op      \* the operation of each client

accountsVars == <<users, tokens, owners, op>>

User  == [state : {"new", "live", "gone"}, email : Emails, role : Role]
Token == [id : Accounts, role : Role]

Idle == [kind |-> "idle"]

Op == {Idle}
        \cup [kind : {"register"}, step : {"sent", "free"}, email : Emails]
        \cup [kind : {"login"}, email : Emails]
        \cup [kind : {"found"}, token : Token]
        \cup [kind : {"role"}, by : Token, target : Accounts, role : Role]
        \cup [kind : {"delete"}, by : Token, target : Accounts]
        \cup [kind : {"upload"}, by : Token]

AccountsTypeOK ==
  /\ users \in [Accounts -> User]
  /\ tokens \subseteq Token
  /\ owners \subseteq Accounts
  /\ op \in [Clients -> Op]

Live(a) == users[a].state = "live"

AccountsInit ==
  /\ users = [a \in Accounts |->
                IF a = First THEN [state |-> "live", email |-> FirstEmail, role |-> "admin"]
                             ELSE [state |-> "new", email |-> FirstEmail, role |-> "operator"]]
  /\ tokens = {[id |-> First, role |-> "admin"]}
  /\ owners = {}
  /\ op = [c \in Clients |-> Idle]

Begin(c, o) == op[c] = Idle /\ op' = [op EXCEPT ![c] = o] /\ UNCHANGED <<users, tokens, owners>>

Answer(c) == op' = [op EXCEPT ![c] = Idle]

-----------------------------------------------------------------------------
(* Registration and login *)

SendRegister(c, e) == Begin(c, [kind |-> "register", step |-> "sent", email |-> e])

\* FindByEmail: an address in use is a conflict.
FindFree(c) ==
  /\ op[c].kind = "register" /\ op[c].step = "sent"
  /\ IF \E a \in Accounts : Live(a) /\ users[a].email = op[c].email
     THEN Answer(c)
     ELSE op' = [op EXCEPT ![c].step = "free"]
  /\ UNCHANGED <<users, tokens, owners>>

\* Mutation: without the unique index.
CreateAnyhow(c) ==
  /\ op[c].kind = "register" /\ op[c].step = "free"
  /\ \E a \in Accounts :
       /\ users[a].state = "new"
       /\ users' = [users EXCEPT ![a] =
                      [state |-> "live", email |-> op[c].email, role |-> "operator"]]
       /\ tokens' = tokens \cup {[id |-> a, role |-> "operator"]}
  /\ Answer(c)
  /\ UNCHANGED owners

\* Create: the unique index refuses an address that has come into use.
Create(c) ==
  /\ op[c].kind = "register" /\ op[c].step = "free"
  /\ IF \E a \in Accounts : Live(a) /\ users[a].email = op[c].email
     THEN UNCHANGED <<users, tokens>>
     ELSE \E a \in Accounts :
            /\ users[a].state = "new"
            /\ users' = [users EXCEPT ![a] =
                           [state |-> "live", email |-> op[c].email, role |-> "operator"]]
            /\ tokens' = tokens \cup {[id |-> a, role |-> "operator"]}
  /\ Answer(c)
  /\ UNCHANGED owners

SendLogin(c, e) == Begin(c, [kind |-> "login", email |-> e])

\* FindByEmail, with the role the account has at this moment.
FindAccount(c) ==
  /\ op[c].kind = "login"
  /\ \/ \E a \in Accounts :
          /\ Live(a) /\ users[a].email = op[c].email
          /\ op' = [op EXCEPT ![c] =
                     [kind |-> "found", token |-> [id |-> a, role |-> users[a].role]]]
     \/ (\A a \in Accounts : Live(a) => users[a].email # op[c].email) /\ Answer(c)
  /\ UNCHANGED <<users, tokens, owners>>

\* The password is compared: a token, or nothing.
Compare(c) ==
  /\ op[c].kind = "found"
  /\ tokens' \in {tokens, tokens \cup {op[c].token}}
  /\ Answer(c)
  /\ UNCHANGED <<users, owners>>

-----------------------------------------------------------------------------
(* Operations under a token *)

\* RequireRole("admin") looks at the token.
SendRole(c, t, a, r) ==
  /\ t.role = "admin"
  /\ Begin(c, [kind |-> "role", by |-> t, target |-> a, role |-> r])

\* Mutation: without the guard of the service.
UpdateRoleOwn(c) ==
  /\ op[c].kind = "role"
  /\ users' = IF Live(op[c].target)
              THEN [users EXCEPT ![op[c].target].role = op[c].role] ELSE users
  /\ Answer(c)
  /\ UNCHANGED <<tokens, owners>>

UpdateRole(c) ==
  /\ op[c].kind = "role"
  /\ users' = IF op[c].by.id # op[c].target /\ Live(op[c].target)
              THEN [users EXCEPT ![op[c].target].role = op[c].role] ELSE users
  /\ Answer(c)
  /\ UNCHANGED <<tokens, owners>>

SendDelete(c, t, a) ==
  /\ t.role = "admin"
  /\ Begin(c, [kind |-> "delete", by |-> t, target |-> a])

\* Mutation: the batches of the account are not in the way.
DeleteUserAnyhow(c) ==
  /\ op[c].kind = "delete"
  /\ users' = IF op[c].by.id # op[c].target /\ Live(op[c].target)
              THEN [users EXCEPT ![op[c].target].state = "gone"] ELSE users
  /\ Answer(c)
  /\ UNCHANGED <<tokens, owners>>

\* The foreign key of batches restricts the deletion.
DeleteUser(c) ==
  /\ op[c].kind = "delete"
  /\ users' = IF /\ op[c].by.id # op[c].target /\ Live(op[c].target)
                 /\ op[c].target \notin owners
              THEN [users EXCEPT ![op[c].target].state = "gone"] ELSE users
  /\ Answer(c)
  /\ UNCHANGED <<tokens, owners>>

SendUpload(c, t) == Begin(c, [kind |-> "upload", by |-> t])

\* The batch is inserted if its owner still exists.
CreateBatch(c) ==
  /\ op[c].kind = "upload"
  /\ owners' = IF Live(op[c].by.id) THEN owners \cup {op[c].by.id} ELSE owners
  /\ Answer(c)
  /\ UNCHANGED <<users, tokens>>

\* A statement fails, or the request is abandoned before it.
Fail(c) ==
  /\ op[c] # Idle
  /\ Answer(c)
  /\ UNCHANGED <<users, tokens, owners>>

-----------------------------------------------------------------------------
Send(c) ==
  \/ \E e \in Emails : SendRegister(c, e) \/ SendLogin(c, e)
  \/ \E t \in tokens : \/ SendUpload(c, t)
                       \/ \E a \in Accounts : \/ SendDelete(c, t, a)
                                              \/ \E r \in Role : SendRole(c, t, a, r)

Serve(c) ==
  \/ FindFree(c) \/ Create(c) \/ FindAccount(c) \/ Compare(c)
  \/ UpdateRole(c) \/ DeleteUser(c) \/ CreateBatch(c) \/ Fail(c)

AccountsNext == \E c \in Clients : Send(c) \/ Serve(c)

AccountsSpec == AccountsInit /\ [][AccountsNext]_accountsVars

-----------------------------------------------------------------------------
(* Properties *)

\* However registrations of one address overlap, one of them makes the account.
OneAccountPerEmail ==
  \A a, b \in Accounts : Live(a) /\ Live(b) /\ users[a].email = users[b].email => a = b

\* An upload may race the deletion of its owner; no batch is left without one.
BatchesHaveOwners == \A a \in owners : Live(a)

\* What several statements of several requests have checked beforehand still holds when
\* they write: no address is registered twice, and no batch outlives its owner.
AccountsAreConsistent == OneAccountPerEmail /\ BatchesHaveOwners

Administrators == {t.id : t \in {u \in tokens : u.role = "admin"}}

\* Nobody takes his own rights: the first administrator stays one until somebody else has
\* been given a token with the rights to change that, stale as it may be.
AdministratorRemains ==
  Administrators = {First} => Live(First) /\ users[First].role = "admin"

=============================================================================
