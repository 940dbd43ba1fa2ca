-------------------------- MODULE UsagePagesProofs --------------------------
(***************************************************************************)
(* What the usage pages show is about what is selected, an empty page of   *)
(* the log comes after a full one only, and paging forward skips nothing.  *)
(***************************************************************************)
EXTENDS UsagePages, TLAPS

\* The page or the days the answers for a key are about.
About(k) ==
    CASE k[1] = "logs"                    -> k[2]
      [] k[1] = "by-model"                -> ByModelDays(k[2])
      [] k[1] \in {"activity", "summary"} -> PeriodDays(k[2])
      [] OTHER                            -> 1

\* An answer for a key names what it is about and no more than what is recorded.
Right(a, k, n) == a.about = About(k) /\ a.upTo \in Nat /\ a.upTo <= n

\* An entry is a record, and its fetch is in one of its stages.
Shaped(q) ==
    /\ q = [data |-> q.data, failed |-> q.failed, fetch |-> q.fetch, answer |-> q.answer]
    /\ q.fetch \in {"idle", "sent", "answered", "refused"}

\* Everything cached or on its way is right.
CacheOk(cache, n) ==
    \A key \in AllKeys :
        /\ cache[key].data # NoData => Right(cache[key].data, key, n)
        /\ cache[key].fetch = "answered" => Right(cache[key].answer, key, n)

\* On a page of the log that fetched for itself, what comes knows of the
\* requests the page before knew of.
CaughtUp ==
    view = "logs" /\ viewOpen /\ ~joined =>
        LET q == usage[<<"logs", selected>>]
        IN /\ q.fetch = "idle" /\ ~q.failed => q.data.upTo >= read
           /\ q.fetch = "answered" => q.answer.upTo >= read

\* Inductive: what is shown is what is cached, and a page is reached by full ones.
UsageInv ==
    /\ view \in Views /\ viewOpen \in BOOLEAN /\ joined \in BOOLEAN
    /\ selected \in Selections(view)
    /\ DOMAIN usage = AllKeys
    /\ \A k \in AllKeys : Shaped(usage[k])
    /\ events \in 0 .. MaxEvents /\ read \in 0 .. events
    /\ CacheOk(usage, events)
    /\ EmptyPageOnlyAfterFullOne
    /\ CaughtUp

-----------------------------------------------------------------------------
\* Selections are numbered from 1.
LEMMA SelectionsAreNat == \A s \in Selections(view) : s \in Nat \ {0}
BY UsageAssumption DEF Selections

\* The offset of the page after next.
LEMMA NextOffset == \A n, m \in Nat : (n + 1) * m = n * m + m
OBVIOUS

\* The entry of the page of the log that is shown.
LEMMA LogEntryIs == LogEntry = usage[<<"logs", selected>>]
BY DEF LogEntry, LogKeys

\* Whatever can be selected has its entries.
LEMMA KeyShape ==
    ASSUME view \in Views
    PROVE  \A s \in Selections(view) : KeysOf(view, s) \subseteq AllKeys
BY DEF AllKeys

\* So has every page of the log.
LEMMA LogKeyKnown ==
    ASSUME view = "logs"
    PROVE  \A s \in Selections(view) : <<"logs", s>> \in AllKeys
BY DEF AllKeys, KeysOf, LogKeys

\* The first selection of each page is offered.
LEMMA FirstSelection ==
    ASSUME view \in Views
    PROVE  1 \in Selections(view) /\ (view = "audit" => 2 \in Selections(view))
BY UsageAssumption DEF Selections, Views

\* Before a page is opened nothing is cached.
LEMMA UsageStart == UsageInit => UsageInv
<1> SUFFICES ASSUME UsageInit PROVE UsageInv
  OBVIOUS
<1>1. selected \in Selections(view)
  BY FirstSelection DEF UsageInit
<1>2. CacheOk(usage, events)
  BY DEF UsageInit, CacheOk, Absent
<1>3. EmptyPageOnlyAfterFullOne /\ CaughtUp
  BY DEF UsageInit, EmptyPageOnlyAfterFullOne, CaughtUp
<1>4. /\ DOMAIN usage = AllKeys
      /\ \A k \in AllKeys : Shaped(usage[k])
  BY DEF UsageInit, Absent, Shaped
<1>5. events \in 0 .. MaxEvents /\ read \in 0 .. events
  BY UsageAssumption DEF UsageInit
<1>6. view \in Views /\ viewOpen \in BOOLEAN /\ joined \in BOOLEAN
  BY DEF UsageInit
<1> QED
  BY <1>1, <1>2, <1>3, <1>4, <1>5, <1>6 DEF UsageInv

\* Using entries keeps what is cached right.
LEMMA UseKeeps ==
    ASSUME UsageInv, NEW new, NEW old, Use(new, old), UNCHANGED <<view, events>>
    PROVE  /\ AllKeys' = AllKeys
           /\ DOMAIN usage' = AllKeys
           /\ \A k \in AllKeys : usage'[k] = IF k \in new \ old THEN Mounted(usage[k]) ELSE usage[k]
           /\ \A k \in AllKeys : Shaped(usage'[k])
           /\ CacheOk(usage, events)'
<1>1. AllKeys' = AllKeys
  BY DEF AllKeys
<1>2. /\ DOMAIN usage' = AllKeys
      /\ \A k \in AllKeys : usage'[k] = IF k \in new \ old THEN Mounted(usage[k]) ELSE usage[k]
  BY DEF Use, UsageInv
<1>3. ASSUME NEW k \in AllKeys
      PROVE  /\ Shaped(usage'[k])
             /\ usage'[k].data = usage[k].data
             /\ usage'[k].fetch = "answered" =>
                    usage[k].fetch = "answered" /\ usage'[k].answer = usage[k].answer
  BY <1>2 DEF UsageInv, Mounted, Sent, Shaped
<1> QED
  BY <1>1, <1>2, <1>3 DEF UsageInv, CacheOk, Right

\* A page that is shown anew and does not join a fetch starts one.
LEMMA UseStarts ==
    ASSUME UsageInv, NEW new, NEW old, Use(new, old), UNCHANGED <<view, events>>,
           NEW k \in AllKeys, k \in new \ old
    PROVE  /\ usage'[k].fetch # "idle"
           /\ usage[k].fetch = "idle" => usage'[k].fetch = "sent"
<1>1. usage'[k] = Mounted(usage[k])
  BY UseKeeps
<1> QED
  BY <1>1 DEF UsageInv, Mounted, Sent, Shaped

\* Only the page of the log that is shown has to catch up.
LEMMA StaysCaughtUp ==
    ASSUME UsageInv,
           UNCHANGED <<view, selected, usage, read>>,
           (viewOpen' = viewOpen /\ joined' = joined) \/ ~viewOpen'
    PROVE  CaughtUp'
BY DEF UsageInv, CaughtUp

\* A page that opens fetches its entries or joins their fetches.
LEMMA OpenViewKeeps == UsageInv /\ OpenView => UsageInv'
<1> SUFFICES ASSUME UsageInv, OpenView PROVE UsageInv'
  OBVIOUS
<1>1. Use(KeysOf(view, selected'), {}) /\ UNCHANGED <<view, events>>
  BY DEF OpenView
<1>2. /\ AllKeys' = AllKeys
      /\ DOMAIN usage' = AllKeys
      /\ \A k \in AllKeys : Shaped(usage'[k])
      /\ CacheOk(usage, events)'
  BY <1>1, UseKeeps
<1>3. selected' \in Selections(view)'
  BY FirstSelection DEF OpenView, UsageInv, Selections
<1>4. EmptyPageOnlyAfterFullOne'
  BY DEF OpenView, EmptyPageOnlyAfterFullOne
<1>5. CaughtUp'
  <2> SUFFICES ASSUME view = "logs" PROVE CaughtUp'
    BY DEF OpenView, CaughtUp
  <2> DEFINE k == <<"logs", selected'>>
  <2>1. k \in AllKeys /\ k \in KeysOf(view, selected') \ {}
    BY <1>3, LogKeyKnown DEF OpenView, KeysOf, LogKeys, Selections
  <2>2. usage'[k].fetch # "idle"
    BY <1>1, <2>1, UseStarts
  <2>3. usage'[k].fetch = "answered" => usage'[k].answer.upTo >= 0
    BY <1>2, <2>1 DEF CacheOk, Right
  <2> QED
    BY <2>2, <2>3 DEF OpenView, CaughtUp
<1>6. view' \in Views /\ viewOpen' \in BOOLEAN /\ joined' \in BOOLEAN
  BY DEF OpenView, UsageInv
<1>7. events' \in 0 .. MaxEvents /\ read' \in 0 .. events'
  <2>1. events' = events /\ read' = 0 /\ events \in 0 .. MaxEvents
    BY DEF OpenView, UsageInv
  <2> QED
    BY <2>1, UsageAssumption
<1> QED
  BY <1>2, <1>3, <1>4, <1>5, <1>6, <1>7 DEF UsageInv

\* A full page of the log has rows recorded for all of the next one's offset.
LEMMA FullPage ==
    ASSUME UsageInv, view = "logs", PagerShown, HasNextPage
    PROVE  /\ LogEntry.data # NoData
           /\ LogEntry.data.upTo \in 0 .. events
           /\ events >= selected * PageSize
<1>1. <<"logs", selected>> \in AllKeys
  BY LogKeyKnown DEF UsageInv
<1>2. LogEntry.data # NoData
  BY DEF PagerShown, LogRows
<1>3. LogEntry.data.upTo \in 0 .. events
  BY <1>1, <1>2, LogEntryIs DEF UsageInv, CacheOk, Right
<1>4. RowsOfPage(selected, LogEntry.data.upTo) = PageSize
  BY <1>2 DEF HasNextPage, LogRows
<1>5. selected \in Nat \ {0} /\ events \in Nat /\ PageSize \in Nat \ {0}
  BY SelectionsAreNat, UsageAssumption DEF UsageInv
<1> DEFINE before == (selected - 1) * PageSize
<1>6. before \in Nat
  BY <1>5
<1>7. LogEntry.data.upTo - before >= PageSize
  <2> HIDE DEF before
  <2>1. /\ LogEntry.data.upTo > before
        /\ Least(LogEntry.data.upTo - before, PageSize) = PageSize
    BY <1>4, <1>5 DEF RowsOfPage, before
  <2> QED
    BY <2>1, <1>3, <1>5, <1>6 DEF Least
<1>8. before + PageSize = selected * PageSize
  BY <1>5
<1> QED
  <2> HIDE DEF before
  <2> QED
    BY <1>2, <1>3, <1>5, <1>6, <1>7, <1>8

\* The next page exists, and is fetched from now on.
LEMMA NextPageKeeps == UsageInv /\ NextPage => UsageInv'
<1> SUFFICES ASSUME UsageInv, NextPage PROVE UsageInv'
  OBVIOUS
<1>0. view = "logs" /\ viewOpen /\ view' = view /\ viewOpen' = viewOpen /\ events' = events
      /\ selected' = selected + 1
  BY DEF NextPage, PagerShown, Show
<1>1. Use(KeysOf(view, selected'), KeysOf(view, selected)) /\ UNCHANGED <<view, events>>
  BY DEF NextPage, Show
<1>2. /\ AllKeys' = AllKeys
      /\ DOMAIN usage' = AllKeys
      /\ \A k \in AllKeys : Shaped(usage'[k])
      /\ CacheOk(usage, events)'
  BY <1>1, UseKeeps
<1>3. LogEntry.data.upTo \in 0 .. events /\ events >= selected * PageSize
  BY <1>0, FullPage DEF NextPage
<1>4. selected \in Nat \ {0} /\ events \in 0 .. MaxEvents /\ PageSize \in Nat \ {0}
      /\ MaxEvents \in Nat
  BY SelectionsAreNat, UsageAssumption DEF UsageInv
<1>5. selected' \in Selections(view) /\ selected' \in Selections(view)'
  <2>1. selected <= selected * PageSize
    BY <1>4
  <2>2. (selected' - 1) * PageSize = selected * PageSize
    BY <1>0, <1>4
  <2>3. selected * PageSize \in Nat
    BY <1>4
  <2>4. selected' \in 1 .. (MaxEvents + 1) /\ (selected' - 1) * PageSize <= MaxEvents
    BY <1>0, <1>3, <1>4, <2>1, <2>2, <2>3
  <2> QED
    BY <1>0, <2>4 DEF Selections
<1>6. EmptyPageOnlyAfterFullOne'
  <2>1. (selected' - 1) * PageSize = selected * PageSize
    BY <1>0, <1>4
  <2> QED
    BY <1>0, <1>3, <2>1 DEF EmptyPageOnlyAfterFullOne
<1>7. CaughtUp'
  <2> DEFINE k == <<"logs", selected'>>
  <2> SUFFICES ASSUME ~joined'
               PROVE  usage'[k].fetch = "sent"
    BY DEF CaughtUp
  <2>1. k \in AllKeys
    BY <1>0, <1>5, LogKeyKnown
  <2>2. k \in KeysOf(view, selected') \ KeysOf(view, selected)
    BY <1>0, <1>4 DEF KeysOf, LogKeys
  <2>3. usage[k].fetch = "idle"
    BY <1>0 DEF NextPage, LogKeys
  <2> QED
    BY <1>1, <2>1, <2>2, <2>3, UseStarts
<1>8. /\ view' \in Views /\ viewOpen' \in BOOLEAN /\ joined' \in BOOLEAN
      /\ events' \in 0 .. MaxEvents /\ read' \in 0 .. events'
  BY <1>0, <1>3 DEF NextPage, UsageInv
<1> QED
  BY <1>2, <1>5, <1>6, <1>7, <1>8 DEF UsageInv

\* The page before has a smaller offset.
LEMMA PreviousPageKeeps == UsageInv /\ PreviousPage => UsageInv'
<1> SUFFICES ASSUME UsageInv, PreviousPage PROVE UsageInv'
  OBVIOUS
<1>0. view = "logs" /\ viewOpen /\ view' = view /\ viewOpen' = viewOpen /\ events' = events
      /\ selected > 1 /\ selected' = selected - 1 /\ read' = 0 /\ joined' = FALSE
  BY DEF PreviousPage, PagerShown, Show
<1>1. Use(KeysOf(view, selected'), KeysOf(view, selected)) /\ UNCHANGED <<view, events>>
  BY DEF PreviousPage, Show
<1>2. /\ AllKeys' = AllKeys
      /\ DOMAIN usage' = AllKeys
      /\ \A k \in AllKeys : Shaped(usage'[k])
      /\ CacheOk(usage, events)'
  BY <1>1, UseKeeps
<1>3. selected \in Nat \ {0} /\ events \in 0 .. MaxEvents /\ PageSize \in Nat \ {0}
      /\ MaxEvents \in Nat
  BY SelectionsAreNat, UsageAssumption DEF UsageInv
<1>4. selected \in 1 .. (MaxEvents + 1) /\ (selected - 1) * PageSize <= MaxEvents
      /\ events >= (selected - 1) * PageSize
  BY <1>0 DEF UsageInv, Selections, EmptyPageOnlyAfterFullOne
<1>5. (selected' - 1) * PageSize <= (selected - 1) * PageSize
      /\ (selected' - 1) * PageSize \in Nat /\ (selected - 1) * PageSize \in Nat
  <2>1. selected' - 1 \in Nat /\ selected - 1 = (selected' - 1) + 1
    BY <1>0, <1>3
  <2>2. (selected - 1) * PageSize = (selected' - 1) * PageSize + PageSize
    BY <2>1, <1>3, NextOffset
  <2>3. (selected' - 1) * PageSize \in Nat
    BY <2>1, <1>3
  <2> QED
    BY <2>2, <2>3, <1>3
<1>6. selected' \in Selections(view) /\ selected' \in Selections(view)'
  <2>1. selected' \in 1 .. (MaxEvents + 1) /\ (selected' - 1) * PageSize <= MaxEvents
    BY <1>0, <1>3, <1>4, <1>5
  <2> QED
    BY <1>0, <2>1 DEF Selections
<1>7. EmptyPageOnlyAfterFullOne'
  BY <1>0, <1>3, <1>4, <1>5 DEF EmptyPageOnlyAfterFullOne
<1>8. CaughtUp'
  <2> DEFINE k == <<"logs", selected'>>
  <2>1. k \in AllKeys
    BY <1>0, <1>6, LogKeyKnown
  <2>2. k \in KeysOf(view, selected') \ KeysOf(view, selected)
    BY <1>0, <1>3 DEF KeysOf, LogKeys
  <2>3. usage'[k].fetch # "idle"
    BY <1>1, <2>1, <2>2, UseStarts
  <2>4. usage'[k].fetch = "answered" => usage'[k].answer.upTo >= 0
    BY <1>2, <2>1 DEF CacheOk, Right
  <2> QED
    BY <1>0, <2>3, <2>4 DEF CaughtUp
<1>9. view' \in Views /\ viewOpen' \in BOOLEAN /\ joined' \in BOOLEAN
  BY <1>0 DEF UsageInv
<1>10. events' \in 0 .. MaxEvents /\ read' \in 0 .. events'
  BY <1>0, <1>3
<1> QED
  BY <1>2, <1>6, <1>7, <1>8, <1>9, <1>10 DEF UsageInv

\* Another period of the activity or of the audit.
LEMMA ChoosePeriodKeeps ==
    ASSUME UsageInv, NEW s \in Selections(view), ChoosePeriod(s)
    PROVE  UsageInv'
<1>0. view # "logs" /\ view' = view /\ viewOpen' = viewOpen /\ events' = events
      /\ selected' = s /\ read' = read /\ joined' = joined
  BY DEF ChoosePeriod, Show
<1>1. Use(KeysOf(view, s), KeysOf(view, selected)) /\ UNCHANGED <<view, events>>
  BY DEF ChoosePeriod, Show
<1>2. /\ AllKeys' = AllKeys
      /\ DOMAIN usage' = AllKeys
      /\ \A k \in AllKeys : Shaped(usage'[k])
      /\ CacheOk(usage, events)'
  BY <1>1, UseKeeps
<1>3. selected' \in Selections(view)'
  BY <1>0 DEF Selections
<1>4. EmptyPageOnlyAfterFullOne' /\ CaughtUp'
  BY <1>0 DEF EmptyPageOnlyAfterFullOne, CaughtUp
<1>5. view' \in Views /\ viewOpen' \in BOOLEAN /\ joined' \in BOOLEAN
  BY <1>0 DEF UsageInv
<1>6. events' \in 0 .. MaxEvents /\ read' \in 0 .. events'
  BY <1>0 DEF UsageInv
<1> QED
  BY <1>2, <1>3, <1>4, <1>5, <1>6 DEF UsageInv

\* An answer is about its key and knows of everything recorded when it is given.
LEMMA AnsweredRight ==
    ASSUME UsageInv, NEW k \in AllKeys
    PROVE  Right(Answered(k), k, events) /\ (k[1] = "logs" => Answered(k).upTo = events)
BY UsageAssumption DEF Right, Answered, About, UsageInv

\* What is right for the entries one by one is right for the cache.
LEMMA CacheStaysOk ==
    ASSUME UNCHANGED <<view, events>>,
           \A key \in AllKeys :
               /\ usage'[key].data # NoData => Right(usage'[key].data, key, events)
               /\ usage'[key].fetch = "answered" => Right(usage'[key].answer, key, events)
    PROVE  CacheOk(usage, events)'
<1>1. AllKeys' = AllKeys
  BY DEF AllKeys
<1> QED
  BY <1>1 DEF CacheOk, Right

\* What the server answers is right, and what arrives was answered.
LEMMA FetchUsageKeeps == UsageInv /\ FetchUsage => UsageInv'
<1> SUFFICES ASSUME UsageInv, FetchUsage PROVE UsageInv'
  OBVIOUS
<1>0. UNCHANGED <<view, viewOpen, selected, events, read, joined>>
  BY DEF FetchUsage
<1>a. PICK k \in AllKeys : \E q \in Fetched(usage[k], Answered(k)) :
          usage' = [usage EXCEPT ![k] = q]
  BY DEF FetchUsage
<1>1. PICK q \in Fetched(usage[k], Answered(k)) : usage' = [usage EXCEPT ![k] = q]
  BY <1>a
<1>2. AllKeys' = AllKeys
  BY <1>0 DEF AllKeys
<1>3. /\ DOMAIN usage' = AllKeys /\ usage'[k] = q
      /\ \A j \in AllKeys : j # k => usage'[j] = usage[j]
  BY <1>1 DEF UsageInv
<1> DEFINE e == usage[k]
<1>4. \/ e.fetch = "sent" /\ q.fetch = "answered" /\ q.data = e.data /\ q.answer = Answered(k)
      \/ q.fetch = "refused" /\ q.data = e.data
      \/ e.fetch = "answered" /\ q.fetch = "idle" /\ q.data = e.answer
      \/ q.fetch = "idle" /\ q.failed = TRUE /\ q.data = e.data
  <2>1. e = [data |-> e.data, failed |-> e.failed, fetch |-> e.fetch, answer |-> e.answer]
    BY DEF UsageInv, Shaped
  <2>2. e.fetch \in {"sent", "answered", "refused"}
    <3>1. e.fetch # "idle"
      BY <1>1 DEF Fetched
    <3> QED
      BY <3>1 DEF UsageInv, Shaped
  <2>3. CASE e.fetch = "sent"
    BY <1>1, <2>1, <2>3 DEF Fetched
  <2>4. CASE e.fetch = "answered"
    BY <1>1, <2>1, <2>4 DEF Fetched, Absent
  <2>5. CASE e.fetch = "refused"
    BY <1>1, <2>1, <2>5 DEF Fetched
  <2> QED
    BY <2>2, <2>3, <2>4, <2>5
<1>5. Shaped(q)
  <2>1. Shaped(e)
    BY DEF UsageInv
  <2>2. CASE e.fetch = "idle"
    BY <1>1, <2>2 DEF Fetched
  <2>3. CASE e.fetch = "sent"
    BY <1>1, <2>1, <2>3 DEF Fetched, Shaped
  <2>4. CASE e.fetch = "answered"
    BY <1>1, <2>1, <2>4 DEF Fetched, Shaped, Absent
  <2>5. CASE e.fetch = "refused"
    BY <1>1, <2>1, <2>5 DEF Fetched, Shaped
  <2> QED
    BY <2>1, <2>2, <2>3, <2>4, <2>5 DEF Shaped
<1>6. CacheOk(usage, events)'
  <2>1. /\ q.data # NoData => Right(q.data, k, events)
        /\ q.fetch = "answered" => Right(q.answer, k, events)
    BY <1>4, AnsweredRight DEF UsageInv, CacheOk
  <2>2. \A j \in AllKeys :
            /\ usage'[j].data # NoData => Right(usage'[j].data, j, events)
            /\ usage'[j].fetch = "answered" => Right(usage'[j].answer, j, events)
    BY <1>3, <2>1 DEF UsageInv, CacheOk
  <2> QED
    BY <1>0, <2>2, CacheStaysOk
<1>7. CaughtUp'
  <2> SUFFICES ASSUME view = "logs", viewOpen, ~joined PROVE CaughtUp'
    BY <1>0 DEF CaughtUp
  <2> DEFINE s == <<"logs", selected>>
  <2>1. s \in AllKeys /\ selected' = selected
    BY <1>0, LogKeyKnown DEF UsageInv
  <2>2. /\ usage[s].fetch = "idle" /\ ~usage[s].failed => usage[s].data.upTo >= read
        /\ usage[s].fetch = "answered" => usage[s].answer.upTo >= read
    BY DEF UsageInv, CaughtUp
  <2>3. CASE k # s
    BY <1>0, <1>3, <2>1, <2>2, <2>3 DEF CaughtUp
  <2>4. CASE k = s
    <3>1. Answered(k).upTo >= read
      BY <2>1, <2>4, AnsweredRight DEF UsageInv
    <3> QED
      BY <1>0, <1>3, <1>4, <2>1, <2>2, <2>4, <3>1 DEF CaughtUp
  <2> QED
    BY <2>3, <2>4
<1>8. \A j \in AllKeys : Shaped(usage'[j])
  BY <1>3, <1>5 DEF UsageInv
<1>9. selected' \in Selections(view)' /\ EmptyPageOnlyAfterFullOne'
  BY <1>0 DEF UsageInv, Selections, EmptyPageOnlyAfterFullOne
<1> QED
  BY <1>0, <1>2, <1>3, <1>6, <1>7, <1>8, <1>9 DEF UsageInv

\* Recording only makes old answers know less.
LEMMA RecordUsageKeeps == UsageInv /\ RecordUsage => UsageInv'
<1> SUFFICES ASSUME UsageInv, RecordUsage PROVE UsageInv'
  OBVIOUS
<1>0. UNCHANGED <<view, viewOpen, selected, usage, read, joined>> /\ events' = events + 1
      /\ events' \in 0 .. MaxEvents /\ events \in Nat
  BY UsageAssumption DEF RecordUsage, UsageInv
<1>1. AllKeys' = AllKeys
  BY <1>0 DEF AllKeys
<1>2. CacheOk(usage, events)'
  BY <1>0, <1>1 DEF UsageInv, CacheOk, Right
<1>3. selected' \in Selections(view)'
  BY <1>0 DEF UsageInv, Selections
<1>4. EmptyPageOnlyAfterFullOne'
  <2>1. selected > 1 /\ view = "logs" => (selected - 1) * PageSize \in Nat
    BY <1>0, UsageAssumption, SelectionsAreNat DEF UsageInv
  <2> QED
    BY <1>0, <2>1 DEF UsageInv, EmptyPageOnlyAfterFullOne
<1>5. CaughtUp'
  BY <1>0 DEF UsageInv, CaughtUp
<1>6. read' \in 0 .. events'
  BY <1>0 DEF UsageInv
<1> QED
  BY <1>0, <1>1, <1>2, <1>3, <1>4, <1>5, <1>6 DEF UsageInv

\* Leaving a page changes nothing but that it is not shown.
LEMMA StillKeeps ==
    ASSUME UsageInv, UNCHANGED <<view, selected, usage, events, read, joined>>,
           viewOpen' \in BOOLEAN, viewOpen' => viewOpen
    PROVE  UsageInv'
<1>1. AllKeys' = AllKeys /\ selected' \in Selections(view)'
  BY DEF AllKeys, UsageInv, Selections
<1>2. CacheOk(usage, events)'
  BY <1>1 DEF UsageInv, CacheOk, Right
<1>3. EmptyPageOnlyAfterFullOne' /\ CaughtUp'
  BY DEF UsageInv, EmptyPageOnlyAfterFullOne, CaughtUp
<1> QED
  BY <1>1, <1>2, <1>3 DEF UsageInv

\* Every action keeps the invariant.
LEMMA UsageStep == UsageInv /\ [UsageNext]_usageVars => UsageInv'
<1> SUFFICES ASSUME UsageInv, [UsageNext]_usageVars PROVE UsageInv'
  OBVIOUS
<1>1. CASE LeaveView
  BY <1>1, StillKeeps DEF LeaveView
<1>2. CASE UNCHANGED usageVars
  BY <1>2, StillKeeps DEF usageVars, UsageInv
<1> QED
  BY <1>1, <1>2, OpenViewKeeps, NextPageKeeps, PreviousPageKeeps, ChoosePeriodKeeps,
     FetchUsageKeeps, RecordUsageKeeps DEF UsageNext

\* The invariant holds throughout.
LEMMA UsageAlways == UsageSpec => []UsageInv
BY UsageStart, UsageStep, PTL DEF UsageSpec

-----------------------------------------------------------------------------
\* What is shown is about what is selected, for any number of changes of the
\* selection and any order of answers (logs-page.tsx:53, activity-page.tsx:21,
\* usage-page.tsx:22: the selection is part of the key).
THEOREM ShownIsSelectedAlways == UsageSpec => []ShownIsSelected
<1>1. UsageInv => ShownIsSelected
  <2> SUFFICES ASSUME UsageInv, viewOpen, NEW k \in KeysOf(view, selected),
                      ShownAnswer(k) # NoData
               PROVE  CASE k[1] = "logs" -> ShownAnswer(k).about = selected
                        [] k[1] \in {"activity", "by-model", "summary"} ->
                              ShownAnswer(k).about = PeriodDays(selected)
                        [] OTHER -> TRUE
    BY DEF ShownIsSelected
  <2>1. k \in AllKeys
    BY KeyShape DEF UsageInv
  <2>2. ShownAnswer(k).about = About(k)
    BY <2>1 DEF UsageInv, CacheOk, Right, ShownAnswer
  <2>3. CASE view = "logs"
    BY <2>2, <2>3 DEF KeysOf, LogKeys, About
  <2>4. CASE view = "activity"
    <3>1. selected \in {1, 2, 3}
      BY <2>4 DEF UsageInv, Selections
    <3> QED
      BY <2>2, <2>4, <3>1 DEF KeysOf, ActivityKeys, About, ByModelDays, PeriodDays
  <2>5. CASE view = "audit"
    BY <2>2, <2>5 DEF KeysOf, AuditKeys, About
  <2>6. CASE view = "dashboard"
    BY <2>6 DEF KeysOf, StatsKeys
  <2> QED
    BY <2>3, <2>4, <2>5, <2>6 DEF UsageInv, Views
<1> QED
  BY UsageAlways, <1>1, PTL

\* Nobody is led to an empty page but by a full one (logs-page.tsx:58-60).
THEOREM EmptyPageOnlyAfterFullOneAlways == UsageSpec => []EmptyPageOnlyAfterFullOne
<1>1. UsageInv => EmptyPageOnlyAfterFullOne
  BY DEF UsageInv
<1> QED
  BY UsageAlways, <1>1, PTL

\* Paging forward skips nothing, however many requests are recorded meanwhile,
\* unless the page joins an earlier fetch (logs-page.tsx:53-56).
THEOREM NextPageSkipsNothingAlways == UsageSpec => []NextPageSkipsNothing
<1>1. UsageInv => NextPageSkipsNothing
  BY LogEntryIs DEF UsageInv, CaughtUp, NextPageSkipsNothing
<1> QED
  BY UsageAlways, <1>1, PTL
=============================================================================
