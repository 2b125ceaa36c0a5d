------------------------------ MODULE LogPages ------------------------------
(***************************************************************************)
(* LogsPage over GET /logs: pages cut by offset, newest row first, out of  *)
(* a table that agents append to, one cached query for each device filter  *)
(* and page number.                                                        *)
(***************************************************************************)
EXTENDS Naturals, QueryCache

CONSTANTS
    Devices,
    PageSize,  \* page_size
    MaxRows,   \* bound: rows of the table
    MaxMoves   \* bound: changes of the filter or the page

All == "All devices"
Filters == Devices \cup {All}

VARIABLES
    count,  \* for each filter, how many committed rows it matches
    view,   \* the filter and the page number shown
    cached, \* for each query, how many rows its filter matched when it was read
    fetch,
    moves

vars == <<count, view, cached, fetch, moves>>

MaxPage == (MaxRows \div PageSize) + 1
Keys == [filter : Filters, page : 1..MaxPage]

Init ==
    /\ count = [f \in Filters |-> 0]
    /\ view = [filter |-> All, page |-> 1]
    /\ cached = [k \in Keys |-> None]
    /\ fetch = [k \in Keys |-> IF k = view THEN Asked ELSE NoFetch]
    /\ moves = 0

\* Rows on page p of n: offset and limit.
Cut(n, p) ==
    LET offset == (p - 1) * PageSize
    IN  IF n <= offset THEN 0 ELSE IF n - offset < PageSize THEN n - offset ELSE PageSize

Shown == IF cached[view] = None THEN 0 ELSE Cut(cached[view], view.page)

\* ingest_log; an unknown device gets its row with its first log.
Ingest(d) ==
    /\ count[All] < MaxRows
    /\ count' = [f \in Filters |-> IF f \in {d, All} THEN count[f] + 1 ELSE count[f]]
    /\ UNCHANGED <<view, cached, fetch, moves>>

\* The key of the query follows the view: it shows what is cached for it, and
\* fetches when that is nothing, or, staleTime of 30 s having passed, is stale.
Show(f, p) ==
    /\ moves < MaxMoves
    /\ moves' = moves + 1
    /\ view' = [filter |-> f, page |-> p]
    /\ \E stale \in BOOLEAN :
        fetch' = IF fetch[view'].phase = "idle" /\ (stale \/ cached[view'] = None)
                 THEN [fetch EXCEPT ![view'] = Asked] ELSE fetch
    /\ UNCHANGED <<count, cached>>

SelectDevice(f) == f # view.filter /\ Show(f, 1)

Previous == view.page > 1 /\ Show(view.filter, view.page - 1)

\* disabled={logs.length < 50}
NextPage == Shown >= PageSize /\ Show(view.filter, view.page + 1)

\* Mutant of Refetch: refetchInterval is missing.
RefetchNever(k) == FALSE /\ UNCHANGED vars

\* refetchInterval of the query that is shown.
Refetch(k) ==
    /\ k = view /\ fetch[k].phase = "idle"
    /\ fetch' = [fetch EXCEPT ![k] = Asked]
    /\ UNCHANGED <<count, view, cached, moves>>

Read(k) ==
    /\ fetch[k].phase = "asked"
    /\ fetch' = [fetch EXCEPT ![k] = ReadBy(@, count[k.filter])]
    /\ UNCHANGED <<count, view, cached, moves>>

\* The answer is cached, whatever is shown by then; or there is none, and what was
\* cached stays.
Answer(k) ==
    /\ fetch[k].phase = "read"
    /\ cached' = [cached EXCEPT ![k] = fetch[k].rows]
    /\ fetch' = [fetch EXCEPT ![k] = NoFetch]
    /\ UNCHANGED <<count, view, moves>>

Fails(k) ==
    /\ fetch[k].phase # "idle"
    /\ fetch' = [fetch EXCEPT ![k] = NoFetch]
    /\ UNCHANGED <<count, view, cached, moves>>

Next ==
    \/ \E d \in Devices : Ingest(d)
    \/ \E f \in Filters : SelectDevice(f)
    \/ Previous \/ NextPage
    \/ \E k \in Keys : Refetch(k) \/ Read(k) \/ Answer(k) \/ Fails(k)

\* The interval's timer runs, and not every request for the page shown fails.
Fairness ==
    WF_vars(Refetch(view)) /\ SF_vars(Read(view)) /\ SF_vars(Answer(view))

Spec == Init /\ [][Next]_vars
FairSpec == Spec /\ Fairness

----------------------------------------------------------------------------
(* Properties *)

\* The types of the variables.
TypeOK ==
    /\ count \in [Filters -> 0..MaxRows]
    /\ view \in Keys
    /\ cached \in [Keys -> 0..MaxRows \cup {None}]
    /\ fetch \in [Keys -> [phase : {"idle", "asked", "read"}, rows : 0..MaxRows \cup {None}]]
    /\ moves \in 0..MaxMoves

\* Whatever page the operator stays on, when the table rests it shows the rows that
\* belong there, although the table grew between the fetches of the pages.
PagesConverge ==
    <>[](cached[view] = count[view.filter])
=============================================================================
