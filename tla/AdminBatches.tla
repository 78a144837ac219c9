---------------------------- MODULE AdminBatches ----------------------------
(***************************************************************************)
(* The batch list of the administrators: filters and pages answered by the *)
(* server, the query cache between the page and the server, and the two    *)
(* effects of the page, which go back to the first page when a filter      *)
(* changes and to the last one when there are fewer pages than thought.    *)
(*                                                                         *)
(* The query hook shows the previous answer until the one for the current  *)
(* arguments is there, so page, filter and answer need not belong          *)
(* together; and the server, which counts with a window function, says     *)
(* "0 in all" of a page that lies beyond the end.                          *)
(***************************************************************************)
EXTENDS Naturals

CONSTANTS
  Filters,     \* the combinations of user and status
  All,         \* the one that selects everything
  PageSize,
  MaxTotal,    \* bound on the batches of a filter
  MaxChanges,  \* bound on the changes on the server
  MaxPagesLost \* bound on the queries that fail

ASSUME FiltersAssumption  == All \in Filters
ASSUME PageSizeAssumption == PageSize \in Nat \ {0}
ASSUME MaxTotalAssumption == MaxTotal \in Nat \ {0}
ASSUME BatchesBounds      == {MaxChanges, MaxPagesLost} \subseteq Nat

VARIABLES
  total,  \* how many batches each filter selects in the database
  changes,
  asked,  \* arguments of the queries under way
  cache,  \* the last answer for some arguments
  old,    \* arguments whose answer is older than 30 seconds
  pagesLost,
  filter, \* selectedUserId and selectedStatus
  page,
  data,   \* the answer the hook shows
  failed  \* the query for the current arguments has failed

batchesServer == <<total, changes>>
batchesVars   == <<total, changes, asked, cache, old, pagesLost, filter, page, data, failed>>

Ceil(n) == (n + PageSize - 1) \div PageSize

MaxPage == Ceil(MaxTotal)

Args == [filter : Filters, page : 1..MaxPage]

\* What is shown before there is any answer.
NoAnswer == [of |-> [filter |-> All, page |-> 0], total |-> 0, rows |-> 0]

PageAnswer == [of : Args, total : 0..MaxTotal, rows : 0..PageSize] \cup {NoAnswer}

PageCount(d) == IF d.total = 0 THEN 1 ELSE Ceil(d.total)

BatchesTypeOK ==
  /\ total \in [Filters -> 0..MaxTotal]
  /\ changes \in 0..MaxChanges
  /\ asked \subseteq Args
  /\ cache \in [Args -> PageAnswer]
  /\ old \subseteq Args
  /\ pagesLost \in 0..MaxPagesLost
  /\ filter \in Filters
  /\ page \in 1..MaxPage
  /\ data \in PageAnswer
  /\ failed \in BOOLEAN

Current == [filter |-> filter, page |-> page]

-----------------------------------------------------------------------------
(* The query hook and the effects of the page *)

Fresh(a) == cache'[a] # NoAnswer /\ a \notin old'

\* The answer shown for a, after d.
Seen(a, d) == IF Fresh(a) THEN cache'[a] ELSE d

\* The second effect: no page beyond the last one of the answer that is shown.
Clamped(a, d) == IF a.page > PageCount(d) THEN [a EXCEPT !.page = PageCount(d)] ELSE a

\* Ask for the arguments in as that the cache does not answer.
Want(as, before) == asked' = before \cup {a \in as : ~Fresh(a)}

\* Arguments a are selected while d is shown.  The effects have run when the user or
\* the network gets the next word.
Select(a, d, before) ==
  LET b == Clamped(a, Seen(a, d)) IN
  /\ filter' = b.filter
  /\ page' = b.page
  /\ data' = Seen(b, Seen(a, d))
  /\ failed' = FALSE
  /\ Want({a, b}, before)

BatchesInit ==
  /\ total \in [Filters -> 0..MaxTotal]
  /\ \A f \in Filters : total[f] <= total[All]
  /\ changes = 0
  /\ cache = [a \in Args |-> NoAnswer]
  /\ old = {}
  /\ pagesLost = 0
  /\ filter = All
  /\ page = 1
  /\ data = NoAnswer
  /\ failed = FALSE
  /\ asked = {Current}

\* The page is left and opened again: its state is new, the cache is not.
Reopen ==
  /\ UNCHANGED <<batchesServer, cache, old, pagesLost>>
  /\ Select([filter |-> All, page |-> 1], NoAnswer, asked)

\* The render before the first effect has asked for the old page of the new filter.
ChangeFilter(f) ==
  /\ f # filter
  /\ UNCHANGED <<batchesServer, cache, old, pagesLost>>
  /\ LET early == [filter |-> f, page |-> page] IN
     Select([filter |-> f, page |-> 1], Seen(early, data),
            asked \cup (IF Fresh(early) THEN {} ELSE {early}))

PrevPage ==
  /\ page > 1 /\ data.total > 0
  /\ UNCHANGED <<batchesServer, cache, old, pagesLost>>
  /\ Select([filter |-> filter, page |-> page - 1], data, asked)

NextPage ==
  /\ page < PageCount(data)
  /\ UNCHANGED <<batchesServer, cache, old, pagesLost>>
  /\ Select([filter |-> filter, page |-> page + 1], data, asked)

-----------------------------------------------------------------------------
(* The server and the network *)

\* FindAll: the rows of a page, and COUNT(*) OVER() as the last row tells it.
FindAll(a) ==
  LET before == (a.page - 1) * PageSize
      rows   == CASE total[a.filter] <= before -> 0
                  [] total[a.filter] - before > PageSize -> PageSize
                  [] OTHER -> total[a.filter] - before
  IN [of |-> a, total |-> IF rows = 0 THEN 0 ELSE total[a.filter], rows |-> rows]

\* Mutations: any answer is shown; the answer is shown and not kept.
ArriveAnyhow(a) ==
  /\ cache' = [cache EXCEPT ![a] = FindAll(a)]
  /\ old' = old \ {a}
  /\ asked' = asked \ {a}
  /\ data' = FindAll(a)
  /\ UNCHANGED <<batchesServer, pagesLost, filter, page, failed>>

ArriveUncached(a) ==
  /\ UNCHANGED <<batchesServer, cache, old, pagesLost>>
  /\ IF a = Current THEN Select(a, FindAll(a), asked \ {a})
     ELSE asked' = asked \ {a} /\ UNCHANGED <<filter, page, data, failed>>

\* Only the answer to the current arguments is shown.
PageArrives(a) ==
  /\ cache' = [cache EXCEPT ![a] = FindAll(a)]
  /\ old' = old \ {a}
  /\ UNCHANGED <<batchesServer, pagesLost>>
  /\ IF a = Current THEN Select(a, FindAll(a), asked \ {a})
     ELSE asked' = asked \ {a} /\ UNCHANGED <<filter, page, data, failed>>

\* What was shown stays, with an error.
PageFails(a) ==
  /\ pagesLost < MaxPagesLost
  /\ pagesLost' = pagesLost + 1
  /\ asked' = asked \ {a}
  /\ failed' = (failed \/ a = Current)
  /\ UNCHANGED <<batchesServer, cache, old, filter, page, data>>

Age(a) ==
  /\ cache[a] # NoAnswer
  /\ old' = old \cup {a}
  /\ UNCHANGED <<batchesServer, asked, cache, pagesLost, filter, page, data, failed>>

\* Batches are uploaded and change their status; none is ever deleted.
Change(f) ==
  /\ changes < MaxChanges
  /\ changes' = changes + 1
  /\ \E n \in 0..MaxTotal :
       /\ n # total[f]
       /\ IF f = All THEN n > total[All] ELSE n <= total[All]
       /\ total' = [total EXCEPT ![f] = n]
  /\ UNCHANGED <<asked, cache, old, pagesLost, filter, page, data, failed>>

-----------------------------------------------------------------------------
Reader == PrevPage \/ NextPage \/ Reopen \/ \E f \in Filters : ChangeFilter(f)

BatchesNext ==
  \/ Reader
  \/ \E f \in Filters : Change(f)
  \/ \E a \in asked : PageArrives(a) \/ PageFails(a)
  \/ \E a \in Args : Age(a)

BatchesSpec == BatchesInit /\ [][BatchesNext]_batchesVars

\* A query that is asked is answered.
BatchesFairness == \A a \in Args : WF_batchesVars(a \in asked /\ PageArrives(a))

BatchesFairSpec == BatchesSpec /\ BatchesFairness

-----------------------------------------------------------------------------
(* Properties *)

\* The page has what it asked for, and no error to show.
AtRest == Current \notin asked /\ ~failed

\* Whatever the user clicks while queries are under way, and however old the answer by
\* which he turns pages, in the end the rows are those of the filter and the page the
\* controls name, there is at least one unless it is the first page, and "no batch matches
\* the filters" is only left standing if the server has said so of the first page.
RowsMatchControls ==
  AtRest =>
    /\ data.of = Current
    /\ page > 1 => data.rows > 0
    /\ data.total = 0 => data.of.page = 1

\* Once the user stops, the list comes to rest: clamping and fetching do not chase
\* each other.
ListComesToRest == []<>(Current \notin asked) \/ []<><<Reader>>_batchesVars

=============================================================================
