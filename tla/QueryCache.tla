----------------------------- MODULE QueryCache -----------------------------
(***************************************************************************)
(* An entry of the query cache of the web console and what happens to it.  *)
(* The cache is a library (TanStack Query); the console uses it without    *)
(* retries and without refetching on focus, with data that is stale at     *)
(* once.  The answer of a fetch is a snapshot of the server: it is taken   *)
(* when the server answers and reaches the page later.                     *)
(***************************************************************************)

CONSTANT NoData   \* the entry has never had an answer

Entry(D) == [data   : D \cup {NoData},
             failed : BOOLEAN,              \* the last fetch failed
             fetch  : {"idle", "sent", "answered", "refused"},
             answer : D \cup {NoData}]      \* the snapshot on its way

Absent == [data |-> NoData, failed |-> FALSE, fetch |-> "idle", answer |-> NoData]

-----------------------------------------------------------------------------
Sent(q) == [q EXCEPT !.fetch = "sent", !.answer = NoData,
                     !.failed = @ /\ q.data # NoData]

\* A component that uses the query appears, or the browser is online again: it
\* joins a fetch that is under way.
Mounted(q) == IF q.fetch = "idle" THEN Sent(q) ELSE q

\* invalidateQueries for an entry some component uses: a fetch under way is
\* dropped and repeated, unless it is the first one.
Invalidated(q) == IF q.fetch # "idle" /\ q.data = NoData THEN q ELSE Sent(q)

\* setQueryData leaves a fetch alone, and its answer will win.
WithData(q, d) == [q EXCEPT !.data = d, !.failed = FALSE]

\* The next values of an entry that is being fetched from a server that would
\* answer d now: the server answers or refuses, the answer reaches the cache.
Fetched(q, d) ==
    CASE q.fetch = "idle"     -> {}
      [] q.fetch = "sent"     -> {[q EXCEPT !.fetch = "answered", !.answer = d],
                                  [q EXCEPT !.fetch = "refused"]}
      [] q.fetch = "answered" -> {[Absent EXCEPT !.data = q.answer]}
      [] q.fetch = "refused"  -> {[q EXCEPT !.fetch = "idle", !.failed = TRUE]}

Loading(q) == q.fetch # "idle" /\ q.data = NoData

Known(q, none) == IF q.data = NoData THEN none ELSE q.data
=============================================================================
