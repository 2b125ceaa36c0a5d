----------------------------- MODULE QueryCache -----------------------------
(***************************************************************************)
(* One query of TanStack Query 5, as the dashboard's pages use it: data is *)
(* the last answer (None before the first), a fetch is asked, then read by *)
(* the server, then answered.  Invalidating a query cancels the fetch that *)
(* is under way and asks again; before the first answer it joins it.       *)
(***************************************************************************)
CONSTANT None

NoFetch == [phase |-> "idle", rows |-> None]

Asked == [phase |-> "asked", rows |-> None]

\* Mutant of Invalidated: a fetch under way is joined, never cancelled.
InvalidatedJoining(fetch, data) == IF fetch.phase = "idle" THEN Asked ELSE fetch

Invalidated(fetch, data) ==
    IF fetch.phase # "idle" /\ data = None THEN fetch ELSE Asked

\* The server's answer to a fetch, taken from the table as committed by then.
ReadBy(fetch, rows) == [phase |-> "read", rows |-> rows]
=============================================================================
