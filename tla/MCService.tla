----------------------------- MODULE MCService -----------------------------
(***************************************************************************)
(* The parts of the service that are not about one batch, and the program  *)
(* that puts them under load, for TLC: accounts, the connections that      *)
(* batches and requests share, the CSV parser, and the load harness.       *)
(*                                                                         *)
(* They share no variable, so that a behaviour of all of them is one of    *)
(* each, and nothing is lost if a behaviour moves a single part: the rest  *)
(* stays in one of its initial states.                                     *)
(***************************************************************************)
EXTENDS Accounts, ConnectionPool, CsvParser, LoadHarness, TLC

CONSTANT Parts  \* the parts a run looks at

VARIABLE part  \* the part that moves

allVars == <<part, accountsVars, connectionsVars, csvVars, harnessVars>>

\* The parser does not move on an empty file.
ServiceInit ==
  /\ part \in Parts
  /\ AccountsInit
  /\ ConnectionsInit
  /\ CsvInit /\ (part # "csv" => file = <<>>)
  /\ HarnessInit

Account ==
  /\ part = "accounts" /\ AccountsNext
  /\ UNCHANGED <<part, connectionsVars, csvVars, harnessVars>>

Connections ==
  /\ part = "connections" /\ ConnectionsNext
  /\ UNCHANGED <<part, accountsVars, csvVars, harnessVars>>

Parser ==
  /\ part = "csv" /\ CsvNext
  /\ UNCHANGED <<part, accountsVars, connectionsVars, harnessVars>>

Harness ==
  /\ part = "harness" /\ HarnessNext
  /\ UNCHANGED <<part, accountsVars, connectionsVars, csvVars>>

ServiceNext == Account \/ Connections \/ Parser \/ Harness

ServiceSpec == ServiceInit /\ [][ServiceNext]_allVars

\* The fairness of every part, for behaviours in which it moves.
ServiceFairSpec ==
  /\ ServiceSpec
  /\ WF_connectionsVars(part = "connections" /\ Grant)
  /\ \A w \in Workers : /\ WF_connectionsVars(part = "connections" /\ Worker(w))
                        /\ SF_connectionsVars(part = "connections" /\ LockRow(w))
  /\ \A r \in Requests : WF_connectionsVars(part = "connections" /\ AnswerRequest(r))
  /\ WF_harnessVars(part = "harness" /\ Main)
  /\ \A o \in Scenarios : WF_harnessVars(part = "harness" /\ Scenario(o))

\* Clients are alike, and so are the accounts to come, batches and requests.
Alike == Permutations(Clients) \cup Permutations(Accounts \ {First})
           \cup Permutations(Batches) \cup Permutations(Requests)

=============================================================================
