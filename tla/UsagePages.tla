----------------------------- MODULE UsagePages -----------------------------
(***************************************************************************)
(* The pages that show the ledger of usage: the paged log, the activity of *)
(* a period with its breakdown by model, the administrators' audit and the *)
(* figures of the dashboard.  What a page shows is the answer cached under *)
(* the key of what is selected; answers for other keys may still arrive.   *)
(***************************************************************************)
EXTENDS QueryCache, Naturals

CONSTANTS
    PageSize,
    MaxEvents,     \* bound: recorded requests
    MaxSwitches,   \* bound: changes of what is shown
    MaxRefused     \* bound: failing fetches

ASSUME UsageAssumption == PageSize \in Nat \ {0} /\ MaxEvents \in Nat

VARIABLES
    view,          \* the page of the console
    viewOpen,
    selected,      \* page of the log; which period of the others
    usage,         \* cache: entries by key
    events,        \* stored: the number of recorded requests
    switches, refusals,
    read,          \* history: what the page of the log before this one had seen
    joined         \* history: this page joined a fetch that was under way

usageVars == <<view, viewOpen, selected, usage, events, switches, refusals,
               read, joined>>

-----------------------------------------------------------------------------
Views == {"logs", "activity", "audit", "dashboard"}

\* The pages of the log that can be reached, and the offered periods.
Selections(v) ==
    CASE v = "logs"      -> {p \in 1 .. (MaxEvents + 1) : (p - 1) * PageSize <= MaxEvents}
      [] v = "dashboard" -> {1}
      [] OTHER           -> {1, 2, 3}

\* 7d, 30d and 90d; the audit has "all" for the last.
PeriodDays(s) == CASE s = 1 -> 7 [] s = 2 -> 30 [] s = 3 -> 90

\* The breakdown by model asks for a number of days, not for a period.
ByModelDays(s) == IF s = 1 THEN 7 ELSE IF s = 2 THEN 30 ELSE 90

\* Mutant: the key does not name the page.
LogKeysAnyPage(s) == {<<"logs", 1>>}

LogKeys(s) == {<<"logs", s>>}
ActivityKeys(s) == {<<"activity", s>>, <<"by-model", s>>}
AuditKeys(s) == {<<"events", 1>>, <<"summary", s>>}
StatsKeys == {<<"stats", 1>>}

\* The keys the page uses when s is selected.
KeysOf(v, s) ==
    CASE v = "logs"      -> LogKeys(s)
      [] v = "activity"  -> ActivityKeys(s)
      [] v = "audit"     -> AuditKeys(s)
      [] v = "dashboard" -> StatsKeys

Least(m, n) == IF m < n THEN m ELSE n

\* LIMIT and OFFSET, the newest first: what is left after the pages before.
RowsOfPage(p, n) ==
    IF n > (p - 1) * PageSize THEN Least(n - (p - 1) * PageSize, PageSize) ELSE 0

\* An answer: the page or the days it is about, and the requests it knows of.
Answered(k) ==
    CASE k[1] = "logs"                    -> [about |-> k[2], upTo |-> events]
      [] k[1] = "by-model"                -> [about |-> ByModelDays(k[2]), upTo |-> 0]
      [] k[1] \in {"activity", "summary"} -> [about |-> PeriodDays(k[2]), upTo |-> 0]
      [] OTHER                            -> [about |-> 1, upTo |-> events]

AllKeys == UNION {KeysOf(view, s) : s \in Selections(view)}

LogEntry == usage[CHOOSE k \in LogKeys(selected) : TRUE]

\* An error takes the place of the log and of the breakdown; totals, the audit
\* and the dashboard keep what they had.
ShownAnswer(k) ==
    IF usage[k].failed /\ k[1] \in {"logs", "by-model"}
        THEN NoData ELSE usage[k].data

LogRows == IF LogEntry.data = NoData THEN 0 ELSE RowsOfPage(selected, LogEntry.data.upTo)

\* The buttons are part of the table, which an error or an empty page replaces.
PagerShown ==
    view = "logs" /\ viewOpen /\ ~Loading(LogEntry) /\ ~LogEntry.failed /\ LogRows > 0

\* Mutant: any page promises another one.
HasNextPageAlways == LogRows > 0

HasNextPage == LogRows = PageSize

-----------------------------------------------------------------------------
UsageInit ==
    /\ view \in Views
    /\ viewOpen = FALSE /\ selected = 1
    /\ usage = [k \in AllKeys |-> Absent]
    /\ events = 0 /\ switches = 0 /\ refusals = 0
    /\ read = 0 /\ joined = FALSE

\* Mutant: only the first page is fetched again.
UseFirstAgain(new, old) ==
    /\ switches < MaxSwitches /\ switches' = switches + 1
    /\ usage' = [k \in DOMAIN usage |->
                   IF k \in new \ old /\ (usage[k].data = NoData \/ k[2] = 1)
                     THEN Mounted(usage[k]) ELSE usage[k]]

\* Entries the page did not use before are fetched.
Use(new, old) ==
    /\ switches < MaxSwitches /\ switches' = switches + 1
    /\ usage' = [k \in DOMAIN usage |->
                   IF k \in new \ old THEN Mounted(usage[k]) ELSE usage[k]]

OpenView ==
    /\ ~viewOpen /\ viewOpen' = TRUE
    /\ selected' = IF view = "audit" THEN 2 ELSE 1
    /\ Use(KeysOf(view, selected'), {})
    /\ read' = 0 /\ joined' = FALSE
    /\ UNCHANGED <<view, events, refusals>>

LeaveView ==
    /\ viewOpen /\ viewOpen' = FALSE
    /\ UNCHANGED <<view, selected, usage, events, switches, refusals, read, joined>>

Show(s) ==
    /\ selected' = s
    /\ Use(KeysOf(view, s), KeysOf(view, selected))
    /\ UNCHANGED <<view, viewOpen, events, refusals>>

NextPage ==
    /\ PagerShown /\ HasNextPage
    /\ Show(selected + 1)
    /\ read' = LogEntry.data.upTo
    /\ joined' = \E k \in LogKeys(selected + 1) : usage[k].fetch # "idle"

PreviousPage ==
    /\ PagerShown /\ selected > 1
    /\ Show(selected - 1)
    /\ read' = 0 /\ joined' = FALSE

ChoosePeriod(s) ==
    /\ view \in {"activity", "audit"} /\ viewOpen /\ s # selected
    /\ Show(s)
    /\ UNCHANGED <<read, joined>>

FetchUsage ==
    \E k \in AllKeys : \E q \in Fetched(usage[k], Answered(k)) :
        /\ usage' = [usage EXCEPT ![k] = q]
        /\ q.fetch = "refused" => refusals < MaxRefused
        /\ refusals' = IF q.fetch = "refused" THEN refusals + 1 ELSE refusals
        /\ UNCHANGED <<view, viewOpen, selected, events, switches, read, joined>>

RecordUsage ==
    /\ view \in {"logs", "dashboard"}
    /\ events < MaxEvents /\ events' = events + 1
    /\ UNCHANGED <<view, viewOpen, selected, usage, switches, refusals, read, joined>>

UsageNext ==
    \/ OpenView \/ LeaveView \/ NextPage \/ PreviousPage
    \/ \E s \in Selections(view) : ChoosePeriod(s)
    \/ FetchUsage \/ RecordUsage

UsageSpec == UsageInit /\ [][UsageNext]_usageVars

-----------------------------------------------------------------------------
\* What a page shows is about what is selected, however fast the user changes
\* the selection and in whatever order the answers arrive (lines 53-56 of the
\* log, 21-29 of the activity, 22-25 of the audit: the selection is in the key).
ShownIsSelected ==
    viewOpen => \A k \in KeysOf(view, selected) :
        ShownAnswer(k) # NoData =>
            CASE k[1] = "logs" -> ShownAnswer(k).about = selected
              [] k[1] \in {"activity", "by-model", "summary"} ->
                    ShownAnswer(k).about = PeriodDays(selected)
              [] OTHER -> TRUE

\* The log is left on an empty page without buttons only when its last page is
\* full or the fetch failed (lines 58-60: a full page promises another one).
EmptyPageOnlyAfterFullOne ==
    selected > 1 /\ view = "logs" => events >= (selected - 1) * PageSize

\* Paging forward skips no request: once the next page is fetched it knows of
\* the requests the page before knew of, so that what moved off that page is
\* on it.  Not so when it joined a fetch from an earlier visit (lines 53-56: a
\* page that was seen before is fetched again when it is shown again).
NextPageSkipsNothing ==
    viewOpen /\ view = "logs" /\ ~joined
        /\ LogEntry.fetch = "idle" /\ ~LogEntry.failed
            => LogEntry.data.upTo >= read
=============================================================================
