-------------------------- MODULE AdminCredentials --------------------------
(***************************************************************************)
(* The administrators' table of all credentials.  Unlike the owner's list  *)
(* (OwnCredentials), every mutation fetches the table again and waits for  *)
(* it before its buttons are enabled.                                      *)
(***************************************************************************)
EXTENDS QueryCache, FiniteSetsExt, Naturals

CONSTANTS
    Ids,             \* credentials,
    OldIds,          \* those that exist at the start
    Limits,          \* values of max_concurrency, including 1
    MaxWrites,       \* bound: writes to the credentials
    MaxAdminFaults   \* bound: failures and reconnects

ASSUME AdminAssumption ==
    \A D \in SUBSET Ids :
        NoData \notin [D -> [there : BOOLEAN, pool : BOOLEAN,
                            max : Limits \cup {1}, version : Nat]]

VARIABLES
    creds,           \* stored: the rows
    table,           \* cache: ["admin", "credentials"]
    tableOpen,       \* the page is shown
    sent,            \* mutations under way
    waiting,         \* kinds of mutations that wait for the table
    adminFaults,
    acked            \* history: the last version of each row this page was told

adminVars == <<creds, table, tableOpen, sent, waiting, adminFaults, acked>>

-----------------------------------------------------------------------------
\* `version' counts the writes to a row: it is not in the code, and tells which
\* of two copies of a row is the newer one.
Stored == [there : BOOLEAN, pool : BOOLEAN, max : Limits, version : 0 .. MaxWrites]

NewRow == [there |-> TRUE, pool |-> FALSE, max |-> 1, version |-> 0]

AdminKinds == {"create", "refresh", "limit", "visibility", "delete"}

\* `want': the row with the column to write; once served, the row written.
Mutation == [kind : AdminKinds, id : Ids, want : Stored, done : BOOLEAN, here : BOOLEAN]

Writable == FoldSet(LAMBDA c, n : creds[c].version + n, 0, Ids) < MaxWrites

ServedTable == [c \in {d \in Ids : creds[d].there} |-> creds[c]]

Empty == [c \in {} |-> 0]

Shown == Known(table, Empty)

\* isPending: of a request under way or waiting for the table.
Pending(kind) == kind \in waiting \/ \E m \in sent : m.here /\ m.kind = kind

-----------------------------------------------------------------------------
AdminInit ==
    /\ creds = [c \in Ids |-> [NewRow EXCEPT !.there = c \in OldIds]]
    /\ table = Absent /\ tableOpen = FALSE
    /\ sent = {} /\ waiting = {} /\ adminFaults = 0
    /\ acked = [c \in Ids |-> 0]

OpenTable ==
    /\ ~tableOpen /\ tableOpen' = TRUE
    /\ table' = Mounted(table)
    /\ acked' = [c \in Ids |-> 0]
    /\ UNCHANGED <<creds, sent, waiting, adminFaults>>

LeaveTable ==
    /\ tableOpen /\ tableOpen' = FALSE
    /\ waiting' = {}
    /\ sent' = {[m EXCEPT !.here = FALSE] : m \in sent}
    /\ UNCHANGED <<creds, table, adminFaults, acked>>

SendMutation(kind, c, want) ==
    /\ tableOpen /\ ~Pending(kind) /\ Cardinality(sent) < 2
    /\ sent' = sent \cup {[kind |-> kind, id |-> c, want |-> want, done |-> FALSE,
                           here |-> TRUE]}
    /\ UNCHANGED <<creds, table, tableOpen, waiting, adminFaults, acked>>

\* The form is a dialog that the answer closes.
SubmitCredential(c) ==
    /\ ~creds[c].there /\ creds[c].version = 0
    /\ SendMutation("create", c, [NewRow EXCEPT !.pool = TRUE])

ClickRefreshToken(c) == c \in DOMAIN Shown /\ SendMutation("refresh", c, NewRow)

ClickDeleteRow(c) == c \in DOMAIN Shown /\ SendMutation("delete", c, NewRow)

\* The opposite of what the row shows.
ClickVisibility(c) ==
    /\ c \in DOMAIN Shown
    /\ SendMutation("visibility", c, [NewRow EXCEPT !.pool = ~Shown[c].pool])

\* What is typed into a cell is lost when the page renders, so nothing comes
\* between typing a limit and saving it.  The limit shown cannot be saved.
SaveLimit(c, n) ==
    /\ c \in DOMAIN Shown /\ n # Shown[c].max
    /\ SendMutation("limit", c, [NewRow EXCEPT !.max = n])

\* A request changes its own column of the row.
Written(m) ==
    [(CASE m.kind = "create"     -> m.want
        [] m.kind = "refresh"    -> creds[m.id]
        [] m.kind = "delete"     -> [creds[m.id] EXCEPT !.there = FALSE]
        [] m.kind = "limit"      -> [creds[m.id] EXCEPT !.max = m.want.max]
        [] m.kind = "visibility" -> [creds[m.id] EXCEPT !.pool = m.want.pool])
     EXCEPT !.version = creds[m.id].version + 1]

Serve(m) ==
    /\ ~m.done /\ Writable
    /\ (m.kind = "create") # creds[m.id].there
    /\ creds' = [creds EXCEPT ![m.id] = Written(m)]
    /\ sent' = (sent \ {m}) \cup {[m EXCEPT !.done = TRUE, !.want = Written(m)]}
    /\ UNCHANGED <<table, tableOpen, waiting, adminFaults, acked>>

\* The edit of the cache by the handler: the answer's row in its place, the
\* deleted row removed; an absent table stays absent.
EditedTable(m) ==
    CASE table.data = NoData \/ m.kind \in {"create", "refresh"} -> table
      [] table.data # NoData /\ m.kind = "delete" ->
            WithData(table, [c \in DOMAIN Shown \ {m.id} |-> Shown[c]])
      [] OTHER ->
            WithData(table, [c \in DOMAIN Shown |->
                                IF c = m.id THEN m.want ELSE Shown[c]])

\* Mutant: a fetch under way is joined instead of repeated.
RefetchedUnlessBusy(q) == IF tableOpen THEN Mounted(q) ELSE q

RefetchedTable(q) == IF tableOpen THEN Invalidated(q) ELSE q

\* A fetch that is dropped lets those go that waited for it.
StillWaiting(q) == IF table.fetch # "idle" /\ q.data = NoData THEN waiting ELSE {}

MutationAnswered(m) ==
    /\ m.done
    /\ sent' = sent \ {m}
    /\ table' = RefetchedTable(EditedTable(m))
    /\ waiting' = IF ~tableOpen THEN {}
                  ELSE StillWaiting(EditedTable(m)) \cup (IF m.here THEN {m.kind} ELSE {})
    /\ acked' = IF tableOpen THEN [acked EXCEPT ![m.id] =
                    IF m.want.version > @ /\ m.kind # "create"
                        THEN m.want.version ELSE @] ELSE acked
    /\ UNCHANGED <<creds, tableOpen, adminFaults>>

\* An error, with or without effect; of a request about a missing row always.
MutationRefused(m) ==
    /\ sent' = sent \ {m}
    /\ \/ adminFaults < MaxAdminFaults /\ adminFaults' = adminFaults + 1
       \/ /\ ~m.done /\ (m.kind = "create") = creds[m.id].there
          /\ UNCHANGED adminFaults
    /\ UNCHANGED <<creds, table, tableOpen, waiting, acked>>

FetchTable ==
    \E q \in Fetched(table, ServedTable) :
        /\ table' = q
        /\ q.fetch = "refused" => adminFaults < MaxAdminFaults
        /\ adminFaults' = IF q.fetch = "refused" THEN adminFaults + 1 ELSE adminFaults
        /\ waiting' = IF q.fetch = "idle" THEN {} ELSE waiting
        /\ UNCHANGED <<creds, tableOpen, sent, acked>>

TableReconnect ==
    /\ tableOpen /\ adminFaults < MaxAdminFaults /\ adminFaults' = adminFaults + 1
    /\ table' = Mounted(table)
    /\ UNCHANGED <<creds, tableOpen, sent, waiting, acked>>

\* Owners and other administrators.
OtherWriter ==
    /\ Writable
    /\ \E c \in {d \in Ids : creds[d].there} :
        creds' = [creds EXCEPT ![c].pool = ~@, ![c].version = @ + 1]
    /\ UNCHANGED <<table, tableOpen, sent, waiting, adminFaults, acked>>

AdminNext ==
    \/ OpenTable \/ LeaveTable
    \/ \E c \in Ids : \/ SubmitCredential(c) \/ ClickRefreshToken(c)
                      \/ ClickDeleteRow(c) \/ ClickVisibility(c)
                      \/ \E n \in Limits : SaveLimit(c, n)
    \/ \E m \in sent : Serve(m) \/ MutationAnswered(m) \/ MutationRefused(m)
    \/ FetchTable \/ TableReconnect \/ OtherWriter

AdminSpec == AdminInit /\ [][AdminNext]_adminVars

-----------------------------------------------------------------------------
\* Once the table is fetched it shows no row older than the page has been told
\* of, whatever the order of the answers and whoever else writes (lines 75-120:
\* every answer drops the fetch under way and asks again).
AdminReadsItsWrites ==
    tableOpen /\ table.fetch = "idle" /\ ~table.failed
        => \A c \in DOMAIN Shown : Shown[c].version >= acked[c]
=============================================================================
