---------------------------- MODULE ListsProofs ----------------------------
(***************************************************************************)
(* What the lists of the console show once they have settled, for any      *)
(* rows, requests and failures: the table of all credentials has what the  *)
(* page was told, the lists of the administrators, of a user's credentials *)
(* and of the API keys are what is stored.                                 *)
(***************************************************************************)
EXTENDS AdminCredentials, AdminLists, OwnCredentials, ApiKeyPage, QueryCacheProofs

-----------------------------------------------------------------------------
(* The table of all credentials.  Every answer to a mutation drops the     *)
(* fetch that is under way and asks again, so once the table is there it   *)
(* has what the page was told.                                             *)

RowLike == [there : BOOLEAN, pool : BOOLEAN, max : Limits \cup {1}, version : Nat]

Tables == UNION {[D -> RowLike] : D \in SUBSET Ids}

AdminRequest == [kind : AdminKinds, id : Ids, want : RowLike, done : BOOLEAN, here : BOOLEAN]

AdminTypes ==
    /\ creds \in [Ids -> RowLike] /\ table \in Entry(Tables)
    /\ sent \in SUBSET AdminRequest /\ acked \in [Ids -> Nat]
    /\ table.fetch = "answered" => table.answer \in Tables

\* A request about a row was sent from a table; its answer is not newer than the row.
SentOk(m) ==
    /\ m.kind # "create" => table.data # NoData
    /\ m.done => m.want.version <= creds[m.id].version

\* d has everything the page was told.
NotOlder(d) == \A c \in DOMAIN d : d[c].version >= acked[c]

\* Inductive: what the page was told is stored, and on its way if an answer is.
ReadsInv ==
    /\ AdminTypes
    /\ \A m \in sent : SentOk(m)
    /\ tableOpen => \A c \in Ids : acked[c] <= creds[c].version
    /\ tableOpen /\ table.fetch = "answered" => NotOlder(table.answer)
    /\ tableOpen /\ table.fetch = "idle" /\ ~table.failed => NotOlder(Shown)

-----------------------------------------------------------------------------
\* A table is not the absence of one; its rows are rows.
LEMMA TableRows ==
    /\ NoData \notin Tables /\ Empty \in Tables
    /\ \A t \in Tables : /\ DOMAIN t \in SUBSET Ids /\ \A c \in DOMAIN t : t[c] \in RowLike
                         /\ t = [c \in DOMAIN t |-> t[c]]
<1>1. NoData \notin Tables
    BY AdminAssumption DEF Tables, RowLike
<1>2. Empty \in [{} -> RowLike]
    BY DEF Empty
<1>3. {} \in SUBSET Ids
    OBVIOUS
<1>4. Empty \in Tables
    BY <1>2, <1>3 DEF Tables
<1>5. ASSUME NEW t \in Tables
      PROVE  /\ DOMAIN t \in SUBSET Ids /\ \A c \in DOMAIN t : t[c] \in RowLike
             /\ t = [c \in DOMAIN t |-> t[c]]
    <2>1. PICK D \in SUBSET Ids : t \in [D -> RowLike]
        BY DEF Tables
    <2> QED BY <2>1
<1> QED BY <1>1, <1>4, <1>5

\* What the table shows is a table, also while there is no answer.
LEMMA ShownTable == AdminTypes => Shown \in Tables
BY TableRows DEF AdminTypes, Shown, Known, Entry

\* What the rules of the cache do to the entry of the table.
LEMMA AskedEntry ==
    ASSUME NEW q \in Entry(Tables)
    PROVE  /\ Mounted(q) \in Entry(Tables) /\ Mounted(q).data = q.data
           /\ Mounted(q).fetch # "idle"
           /\ Mounted(q).fetch = "answered" => Mounted(q) = q
           /\ Invalidated(q) \in Entry(Tables) /\ Invalidated(q).data = q.data
           /\ \/ Invalidated(q).fetch = "sent"
              \/ Invalidated(q) = q /\ q.fetch # "idle" /\ q.data = NoData
BY SentEntry DEF Mounted, Invalidated

\* Requests and rows rest, the entry keeps its data.
LEMMA EntryChanges ==
    ASSUME ReadsInv, table' \in Entry(Tables), UNCHANGED <<creds, tableOpen, acked>>,
           sent' \in SUBSET AdminRequest,
           \A m \in sent' : m \in sent \/ (~m.done /\ (m.kind # "create" => table.data # NoData)),
           table.data # NoData => table'.data # NoData,
           table'.fetch = "answered" => /\ table'.answer \in Tables
                                        /\ tableOpen => NotOlder(table'.answer),
           tableOpen /\ table'.fetch = "idle" /\ ~table'.failed => NotOlder(Shown')
    PROVE  ReadsInv'
<1>1. AdminTypes'
    BY DEF ReadsInv, AdminTypes
<1>2. \A m \in sent' : SentOk(m)'
    BY DEF ReadsInv, SentOk
<1>3. \A d : NotOlder(d) => \A c \in DOMAIN d : d[c].version >= acked'[c]
    BY DEF NotOlder
<1> QED BY <1>1, <1>2, <1>3 DEF ReadsInv, NotOlder

-----------------------------------------------------------------------------
\* Two steps of the rows: one is written, or none.
LEMMA RowsWritten ==
    ASSUME ReadsInv, NEW c \in Ids, NEW new \in RowLike,
           new.version = creds[c].version + 1, creds' = [creds EXCEPT ![c] = new],
           UNCHANGED <<table, tableOpen, acked>>, sent' \in SUBSET AdminRequest,
           \A m \in sent' :
              \/ m \in sent
              \/ /\ m.id = c /\ m.want = new
                 /\ m.kind # "create" => table.data # NoData
    PROVE  ReadsInv'
<1>1. /\ creds \in [Ids -> RowLike] /\ acked \in [Ids -> Nat] /\ sent \in SUBSET AdminRequest
    BY DEF ReadsInv, AdminTypes
<1>2. AdminTypes'
    BY <1>1 DEF ReadsInv, AdminTypes
<1>3. \A d \in Ids : /\ creds[d].version <= creds'[d].version
                     /\ creds[d].version \in Nat /\ creds'[d].version \in Nat
    BY <1>1 DEF RowLike
<1>4. ASSUME NEW m \in sent' PROVE SentOk(m)'
    <2>1. CASE m \in sent
        <3>1. m.id \in Ids /\ m.want.version \in Nat /\ SentOk(m)
            BY <1>1, <2>1 DEF AdminRequest, RowLike, ReadsInv
        <3>2. m.done => m.want.version <= creds'[m.id].version
            BY <1>3, <3>1 DEF SentOk
        <3> QED BY <3>1, <3>2 DEF SentOk
    <2>2. CASE m.id = c /\ m.want = new /\ (m.kind # "create" => table.data # NoData)
        <3>1. creds'[m.id] = m.want
            BY <1>1, <2>2
        <3>2. m.want.version \in Nat
            BY <2>2 DEF RowLike
        <3> QED BY <2>2, <3>1, <3>2 DEF SentOk
    <2> QED BY <2>1, <2>2
<1>5. tableOpen' => \A d \in Ids : acked'[d] <= creds'[d].version
    <2> SUFFICES ASSUME tableOpen, NEW d \in Ids PROVE acked[d] <= creds'[d].version
        OBVIOUS
    <2>1. acked[d] <= creds[d].version /\ acked[d] \in Nat
        BY <1>1 DEF ReadsInv
    <2> QED BY <1>3, <2>1
<1> QED BY <1>2, <1>4, <1>5 DEF ReadsInv, NotOlder, Shown

\* The page has been told of nothing at the start.
LEMMA ReadsStart == AdminInit => ReadsInv
<1> SUFFICES ASSUME AdminInit PROVE ReadsInv
    OBVIOUS
<1>1. ASSUME NEW c \in Ids PROVE [NewRow EXCEPT !.there = c \in OldIds] \in RowLike
    <2>1. \A b \in BOOLEAN : [NewRow EXCEPT !.there = b] \in RowLike
        BY DEF NewRow, RowLike
    <2>2. (c \in OldIds) \in BOOLEAN
        OBVIOUS
    <2> QED BY <2>1, <2>2, Zenon
<1>2. Absent \in Entry(Tables) /\ Absent.data = NoData
    BY DEF Absent, Entry
<1>3. AdminTypes
    BY <1>1, <1>2 DEF AdminInit, AdminTypes, Absent
<1> QED BY <1>3 DEF AdminInit, ReadsInv

\* A mutation is sent from a row of the table, or is a creation.
LEMMA ReadsSend ==
    ASSUME ReadsInv, NEW kind \in AdminKinds, NEW c \in Ids, NEW want \in RowLike,
           SendMutation(kind, c, want), kind # "create" => c \in DOMAIN Shown
    PROVE  ReadsInv'
<1> DEFINE new == [kind |-> kind, id |-> c, want |-> want, done |-> FALSE, here |-> TRUE]
<1>1. new \in AdminRequest /\ ~new.done /\ new.kind = kind
    BY DEF AdminRequest
<1>2. sent' = sent \cup {new} /\ UNCHANGED <<creds, table, tableOpen, acked>>
    BY DEF SendMutation
<1> HIDE DEF new
<1>3. kind # "create" => table.data # NoData
    BY DEF Shown, Known, Empty
<1>4. sent' \in SUBSET AdminRequest /\ table' \in Entry(Tables)
    BY <1>1, <1>2 DEF ReadsInv, AdminTypes
<1>5. \A m \in sent' : m \in sent \/ (~m.done /\ (m.kind # "create" => table.data # NoData))
    BY <1>1, <1>2, <1>3
<1>6. /\ table'.fetch = "answered" => /\ table'.answer \in Tables
                                      /\ tableOpen => NotOlder(table'.answer)
      /\ tableOpen /\ table'.fetch = "idle" /\ ~table'.failed => NotOlder(Shown')
      /\ table.data # NoData => table'.data # NoData
    BY <1>2 DEF ReadsInv, AdminTypes, Shown
<1> QED BY <1>2, <1>4, <1>5, <1>6, EntryChanges

\* The server writes the row and numbers the write.
LEMMA ReadsServe ==
    ASSUME ReadsInv, NEW m \in sent, Serve(m)
    PROVE  ReadsInv'
<1>1. /\ m \in AdminRequest /\ m.id \in Ids /\ m.want \in RowLike /\ SentOk(m)
      /\ creds[m.id] \in RowLike /\ m.kind \in AdminKinds
    BY DEF ReadsInv, AdminTypes, AdminRequest
<1> DEFINE base == CASE m.kind = "create"     -> m.want
                     [] m.kind = "refresh"    -> creds[m.id]
                     [] m.kind = "delete"     -> [creds[m.id] EXCEPT !.there = FALSE]
                     [] m.kind = "limit"      -> [creds[m.id] EXCEPT !.max = m.want.max]
                     [] m.kind = "visibility" -> [creds[m.id] EXCEPT !.pool = m.want.pool]
<1>2. base \in RowLike
    BY <1>1 DEF AdminKinds, RowLike
<1>3. Written(m) = [base EXCEPT !.version = creds[m.id].version + 1]
    BY DEF Written
<1> HIDE DEF base
<1>4. Written(m) \in RowLike /\ Written(m).version = creds[m.id].version + 1
    BY <1>1, <1>2, <1>3 DEF RowLike
<1> DEFINE new == [m EXCEPT !.done = TRUE, !.want = Written(m)]
<1>5. new \in AdminRequest /\ new.id = m.id /\ new.want = Written(m) /\ new.kind = m.kind
    BY <1>1, <1>4 DEF AdminRequest
<1>6. /\ creds' = [creds EXCEPT ![m.id] = Written(m)]
      /\ sent' = (sent \ {m}) \cup {new} /\ UNCHANGED <<table, tableOpen, acked>>
    BY DEF Serve
<1> HIDE DEF new
<1>7. sent' \in SUBSET AdminRequest
    BY <1>5, <1>6 DEF ReadsInv, AdminTypes
<1>8. \A q \in sent' : \/ q \in sent
                       \/ /\ q.id = m.id /\ q.want = Written(m)
                          /\ q.kind # "create" => table.data # NoData
    BY <1>1, <1>5, <1>6 DEF SentOk
<1> QED BY <1>1, <1>4, <1>6, <1>7, <1>8, RowsWritten

\* The table an answer edits is a table still.
LEMMA EditedEntry ==
    ASSUME ReadsInv, NEW m \in sent
    PROVE  /\ EditedTable(m) \in Entry(Tables)
           /\ table.data # NoData => EditedTable(m).data # NoData
           /\ table.data = NoData => EditedTable(m) = table
<1>1. /\ table \in Entry(Tables) /\ Shown \in Tables /\ m.want \in RowLike /\ m.kind \in AdminKinds
    BY ShownTable DEF ReadsInv, AdminTypes, AdminRequest
<1>2. [c \in DOMAIN Shown \ {m.id} |-> Shown[c]] \in Tables
    <2>1. DOMAIN Shown \ {m.id} \in SUBSET Ids
        BY <1>1, TableRows
    <2>2. [c \in DOMAIN Shown \ {m.id} |-> Shown[c]] \in [DOMAIN Shown \ {m.id} -> RowLike]
        BY <1>1, TableRows
    <2> QED BY <2>1, <2>2 DEF Tables
<1>3. [c \in DOMAIN Shown |-> IF c = m.id THEN m.want ELSE Shown[c]] \in Tables
    <2>1. DOMAIN Shown \in SUBSET Ids
        BY <1>1, TableRows
    <2>2. [c \in DOMAIN Shown |-> IF c = m.id THEN m.want ELSE Shown[c]]
              \in [DOMAIN Shown -> RowLike]
        BY <1>1, TableRows
    <2> QED BY <2>1, <2>2 DEF Tables
<1>4. \A d \in Tables : /\ WithData(table, d) \in Entry(Tables)
                        /\ WithData(table, d).data = d /\ d # NoData
    BY <1>1, TableRows DEF WithData, Entry
<1>5. CASE table.data = NoData \/ m.kind \in {"create", "refresh"}
    BY <1>1, <1>5 DEF EditedTable
<1>6. CASE table.data # NoData /\ m.kind = "delete"
    <2>1. EditedTable(m) = WithData(table, [c \in DOMAIN Shown \ {m.id} |-> Shown[c]])
        BY <1>6 DEF EditedTable
    <2> QED BY <1>2, <1>4, <1>6, <2>1
<1>7. CASE table.data # NoData /\ m.kind \notin {"create", "refresh", "delete"}
    <2>1. EditedTable(m) = WithData(table, [c \in DOMAIN Shown |->
                                              IF c = m.id THEN m.want ELSE Shown[c]])
        BY <1>7 DEF EditedTable
    <2> QED BY <1>3, <1>4, <1>7, <2>1
<1> QED BY <1>5, <1>6, <1>7

\* An answer edits the table and drops the fetch under way, so that none older than
\* the answer can arrive.
LEMMA ReadsAnswered ==
    ASSUME ReadsInv, NEW m \in sent, MutationAnswered(m)
    PROVE  ReadsInv'
<1>0. /\ m \in AdminRequest /\ m.id \in Ids /\ m.want.version \in Nat /\ SentOk(m) /\ m.done
      /\ creds \in [Ids -> RowLike] /\ acked \in [Ids -> Nat] /\ sent \in SUBSET AdminRequest
    BY DEF ReadsInv, AdminTypes, AdminRequest, RowLike, MutationAnswered
<1> DEFINE q == EditedTable(m)
<1>1. /\ q \in Entry(Tables) /\ (table.data # NoData => q.data # NoData)
      /\ (table.data = NoData => q = table)
    BY EditedEntry
<1>2. /\ sent' = sent \ {m} /\ UNCHANGED <<creds, tableOpen>>
      /\ table' = IF tableOpen THEN Invalidated(q) ELSE q
    BY DEF MutationAnswered, RefetchedTable
<1> HIDE DEF q
<1>3. table' \in Entry(Tables) /\ (table.data # NoData => table'.data # NoData)
    BY <1>1, <1>2, AskedEntry
<1>4. acked' \in [Ids -> Nat]
    BY <1>0 DEF MutationAnswered
<1>5. tableOpen => \A c \in Ids : acked'[c] <= creds[c].version
    <2> SUFFICES ASSUME tableOpen, NEW c \in Ids PROVE acked'[c] <= creds[c].version
        OBVIOUS
    <2>1. acked[c] <= creds[c].version
        BY DEF ReadsInv
    <2>2. acked'[c] \in {acked[c], creds[c].version} \/ (c = m.id /\ acked'[c] = m.want.version)
        BY <1>0 DEF MutationAnswered
    <2>3. c = m.id => m.want.version <= creds[c].version
        BY <1>0 DEF SentOk
    <2>4. creds[c].version \in Nat
        BY <1>0 DEF RowLike
    <2> QED BY <2>1, <2>2, <2>3, <2>4
<1>6. tableOpen => \/ table'.fetch = "sent"
                   \/ table' = table /\ table.fetch # "idle" /\ UNCHANGED acked
    <2> SUFFICES ASSUME tableOpen, table'.fetch # "sent"
                 PROVE  table' = table /\ table.fetch # "idle" /\ UNCHANGED acked
        OBVIOUS
    <2>1. table' = q /\ q.fetch # "idle" /\ q.data = NoData
        BY <1>1, <1>2, AskedEntry
    <2>2. table.data = NoData /\ q = table
        BY <1>1, <2>1
    <2>3. m.kind = "create"
        BY <1>0, <2>2 DEF SentOk
    <2>4. acked' = [acked EXCEPT ![m.id] = @]
        BY <2>3 DEF MutationAnswered
    <2> QED BY <1>0, <2>1, <2>2, <2>4
<1>7. AdminTypes'
    <2>1. table'.fetch = "answered" => table'.answer \in Tables
        <3>1. table.fetch = "answered" => table.answer \in Tables
            BY DEF ReadsInv, AdminTypes
        <3>2. q.fetch = table.fetch /\ q.answer = table.answer
            BY DEF q, EditedTable, WithData, ReadsInv, AdminTypes, Entry
        <3>3. table'.fetch = "sent" \/ table' = q
            BY <1>1, <1>2, AskedEntry
        <3> QED BY <3>1, <3>2, <3>3
    <2> QED BY <1>0, <1>2, <1>3, <1>4, <2>1 DEF AdminTypes
<1>8. \A n \in sent' : SentOk(n)'
    BY <1>2, <1>3 DEF ReadsInv, SentOk
<1> QED BY <1>2, <1>5, <1>6, <1>7, <1>8 DEF ReadsInv, NotOlder

\* A fetch takes what is stored, and what is stored is all that was told.
LEMMA ReadsFetch == ASSUME ReadsInv, FetchTable PROVE ReadsInv'
<1>0. /\ table \in Entry(Tables) /\ creds \in [Ids -> RowLike]
      /\ UNCHANGED <<creds, tableOpen, sent, acked>>
      /\ table' \in Fetched(table, ServedTable)
      /\ sent' \in SUBSET AdminRequest
    BY DEF ReadsInv, AdminTypes, FetchTable
<1>1. ServedTable \in Tables /\ (tableOpen => NotOlder(ServedTable))
    <2>1. ServedTable \in [{d \in Ids : creds[d].there} -> RowLike]
        BY <1>0 DEF ServedTable
    <2>2. ServedTable \in Tables
        BY <2>1 DEF Tables
    <2>3. ASSUME tableOpen, NEW c \in DOMAIN ServedTable
          PROVE  ServedTable[c].version >= acked[c]
        <3>1. c \in Ids /\ ServedTable[c] = creds[c]
            BY <2>3 DEF ServedTable
        <3>2. acked[c] <= creds[c].version /\ acked[c] \in Nat /\ creds[c].version \in Nat
            BY <1>0, <2>3, <3>1 DEF ReadsInv, AdminTypes, RowLike
        <3> QED BY <3>1, <3>2
    <2> QED BY <2>2, <2>3 DEF NotOlder
<1>2. table.fetch \in {"sent", "answered", "refused"}
    BY <1>0 DEF Fetched, Entry
<1>3. CASE table.fetch = "sent"
    <2>1. table' \in {[table EXCEPT !.fetch = "answered", !.answer = ServedTable],
                      [table EXCEPT !.fetch = "refused"]}
        BY <1>0, <1>3 DEF Fetched
    <2>2. table' \in Entry(Tables) /\ table'.data = table.data /\ table'.fetch # "idle"
          /\ (table'.fetch = "answered" => table'.answer = ServedTable)
        BY <1>0, <1>1, <2>1 DEF Entry
    <2> QED BY <1>0, <1>1, <2>2, EntryChanges
<1>4. CASE table.fetch = "answered"
    <2>1. table' = [Absent EXCEPT !.data = table.answer]
        BY <1>0, <1>4 DEF Fetched
    <2>2. table.answer \in Tables /\ (tableOpen => NotOlder(table.answer))
        BY <1>4 DEF ReadsInv, AdminTypes
    <2>3. table' \in Entry(Tables) /\ table'.data = table.answer /\ table'.fetch = "idle"
        BY <2>1, <2>2 DEF Entry, Absent
    <2>4. Shown' = table.answer /\ table'.data # NoData
        BY <2>2, <2>3, TableRows DEF Shown, Known
    <2> QED BY <1>0, <2>2, <2>3, <2>4, EntryChanges
<1>5. CASE table.fetch = "refused"
    <2>1. table' = [table EXCEPT !.fetch = "idle", !.failed = TRUE]
        BY <1>0, <1>5 DEF Fetched
    <2>2. table' \in Entry(Tables) /\ table'.data = table.data /\ table'.fetch = "idle"
          /\ table'.failed
        BY <1>0, <2>1 DEF Entry
    <2> QED BY <1>0, <2>2, EntryChanges
<1> QED BY <1>2, <1>3, <1>4, <1>5

\* The table begins a fetch when it is opened.
LEMMA ReadsOpen == ASSUME ReadsInv, OpenTable PROVE ReadsInv'
<1>0. /\ table \in Entry(Tables) /\ creds \in [Ids -> RowLike] /\ UNCHANGED <<creds, sent>>
      /\ table' = Mounted(table) /\ acked' = [c \in Ids |-> 0]
    BY DEF ReadsInv, AdminTypes, OpenTable
<1>1. /\ table' \in Entry(Tables) /\ table'.data = table.data /\ table'.fetch # "idle"
      /\ table'.fetch = "answered" => table' = table
    BY <1>0, AskedEntry
<1>2. AdminTypes'
    BY <1>0, <1>1 DEF ReadsInv, AdminTypes
<1>3. \A m \in sent' : SentOk(m)'
    BY <1>0, <1>1 DEF ReadsInv, SentOk
<1>4. \A c \in Ids : acked'[c] <= creds'[c].version
    BY <1>0 DEF RowLike
<1>5. ASSUME table'.fetch = "answered", NEW c \in DOMAIN table'.answer
      PROVE  table'.answer[c].version >= acked'[c]
    <2>1. table'.answer \in Tables
        BY <1>2, <1>5 DEF AdminTypes
    <2>2. c \in Ids /\ table'.answer[c] \in RowLike
        BY <1>5, <2>1, TableRows
    <2>3. table'.answer[c].version \in Nat
        BY <2>2 DEF RowLike
    <2> QED BY <1>0, <2>2, <2>3
<1> QED BY <1>1, <1>2, <1>3, <1>4, <1>5 DEF ReadsInv, NotOlder

\* A page that is left is told nothing more.
LEMMA ReadsLeave == ASSUME ReadsInv, LeaveTable PROVE ReadsInv'
<1>0. /\ sent \in SUBSET AdminRequest /\ UNCHANGED <<creds, table, acked>> /\ ~tableOpen'
      /\ sent' = {[m EXCEPT !.here = FALSE] : m \in sent}
    BY DEF ReadsInv, AdminTypes, LeaveTable
<1>1. ASSUME NEW n \in sent' PROVE n \in AdminRequest /\ SentOk(n)'
    <2>1. PICK m \in sent : n = [m EXCEPT !.here = FALSE]
        BY <1>0
    <2>2. n \in AdminRequest /\ n.kind = m.kind /\ n.done = m.done /\ n.want = m.want /\ n.id = m.id
        BY <1>0, <2>1 DEF AdminRequest
    <2> QED BY <1>0, <2>2 DEF ReadsInv, SentOk
<1>2. AdminTypes'
    BY <1>0, <1>1 DEF ReadsInv, AdminTypes
<1> QED BY <1>0, <1>1, <1>2 DEF ReadsInv

\* Every action of the table keeps the invariant.
LEMMA ReadsNext == ReadsInv /\ [AdminNext]_adminVars => ReadsInv'
<1> SUFFICES ASSUME ReadsInv, [AdminNext]_adminVars PROVE ReadsInv'
    OBVIOUS
<1>1. NewRow \in RowLike /\ [NewRow EXCEPT !.pool = TRUE] \in RowLike
    BY DEF NewRow, RowLike
<1>2. ASSUME NEW c \in Ids, SubmitCredential(c) PROVE ReadsInv'
    BY <1>1, <1>2, ReadsSend DEF SubmitCredential, AdminKinds
<1>3. ASSUME NEW c \in Ids, ClickRefreshToken(c) \/ ClickDeleteRow(c) PROVE ReadsInv'
    BY <1>1, <1>3, ReadsSend DEF ClickRefreshToken, ClickDeleteRow, AdminKinds
<1>4. ASSUME NEW c \in Ids, ClickVisibility(c) PROVE ReadsInv'
    <2>1. [NewRow EXCEPT !.pool = ~Shown[c].pool] \in RowLike
        BY DEF NewRow, RowLike
    <2> QED BY <1>4, <2>1, ReadsSend DEF ClickVisibility, AdminKinds
<1>5. ASSUME NEW c \in Ids, NEW n \in Limits, SaveLimit(c, n) PROVE ReadsInv'
    <2>1. [NewRow EXCEPT !.max = n] \in RowLike
        BY DEF NewRow, RowLike
    <2> QED BY <1>5, <2>1, ReadsSend DEF SaveLimit, AdminKinds
<1>6. ASSUME NEW m \in sent, MutationRefused(m) PROVE ReadsInv'
    <2>1. sent' \in SUBSET AdminRequest /\ table' \in Entry(Tables) /\ sent' \subseteq sent
          /\ UNCHANGED <<creds, table, tableOpen, acked>>
        BY <1>6 DEF MutationRefused, ReadsInv, AdminTypes
    <2>2. /\ table'.fetch = "answered" => /\ table'.answer \in Tables
                                          /\ tableOpen => NotOlder(table'.answer)
          /\ tableOpen /\ table'.fetch = "idle" /\ ~table'.failed => NotOlder(Shown')
        BY <2>1 DEF ReadsInv, AdminTypes, Shown
    <2> QED BY <2>1, <2>2, EntryChanges
<1>7. CASE TableReconnect
    <2>1. /\ UNCHANGED <<creds, tableOpen, sent, acked>> /\ table' = Mounted(table)
          /\ sent' \in SUBSET AdminRequest /\ table \in Entry(Tables)
        BY <1>7 DEF TableReconnect, ReadsInv, AdminTypes
    <2>2. /\ table' \in Entry(Tables) /\ table'.data = table.data /\ table'.fetch # "idle"
          /\ table'.fetch = "answered" => table' = table
        BY <2>1, AskedEntry
    <2>3. table'.fetch = "answered" => /\ table'.answer \in Tables
                                       /\ tableOpen => NotOlder(table'.answer)
        BY <2>2 DEF ReadsInv, AdminTypes
    <2> QED BY <2>1, <2>2, <2>3, EntryChanges
<1>8. CASE OtherWriter
    <2>1. PICK c \in Ids : creds' = [creds EXCEPT ![c].pool = ~@, ![c].version = @ + 1]
        BY <1>8 DEF OtherWriter
    <2> DEFINE new == [creds[c] EXCEPT !.pool = ~@, !.version = @ + 1]
    <2>2. creds[c] \in RowLike /\ creds \in [Ids -> RowLike]
        BY DEF ReadsInv, AdminTypes
    <2>3. new \in RowLike /\ new.version = creds[c].version + 1
        <3>1. creds[c].pool \in BOOLEAN /\ creds[c].version \in Nat
            BY <2>2 DEF RowLike
        <3>2. PICK b \in BOOLEAN : b = ~creds[c].pool
            BY Zenon
        <3>3. new = [creds[c] EXCEPT !.pool = b, !.version = @ + 1]
            BY <3>2
        <3> HIDE DEF new
        <3>4. [creds[c] EXCEPT !.pool = b] \in RowLike
            BY <2>2 DEF RowLike
        <3>5. \A x \in RowLike : LET y == [x EXCEPT !.version = x.version + 1]
                                IN y \in RowLike /\ y.version = x.version + 1
            BY DEF RowLike
        <3>6. [creds[c] EXCEPT !.pool = b].version = creds[c].version
            BY <2>2 DEF RowLike
        <3>7. new = [[creds[c] EXCEPT !.pool = b] EXCEPT !.version = creds[c].version + 1]
            BY <2>2, <3>3 DEF RowLike
        <3> QED BY <3>4, <3>5, <3>6, <3>7
    <2>4. creds' = [creds EXCEPT ![c] = new]
        BY <2>1, <2>2
    <2> HIDE DEF new
    <2>5. UNCHANGED <<table, tableOpen, acked>> /\ sent' \in SUBSET AdminRequest /\ sent' \subseteq sent
        BY <1>8 DEF OtherWriter, ReadsInv, AdminTypes
    <2> QED BY <2>3, <2>4, <2>5, RowsWritten
<1>9. CASE UNCHANGED adminVars
    BY <1>9 DEF adminVars, ReadsInv, AdminTypes, SentOk, NotOlder, Shown
<1> QED BY <1>2, <1>3, <1>4, <1>5, <1>6, <1>7, <1>8, <1>9, ReadsServe, ReadsAnswered,
           ReadsFetch, ReadsOpen, ReadsLeave DEF AdminNext

\* Once the table is fetched it has what the page was told by the answers to its own
\* mutations, for any number of credentials, writes and failures.
THEOREM AdminReadsItsWritesAlways == AdminSpec => []AdminReadsItsWrites
<1>1. ReadsInv => AdminReadsItsWrites
    BY DEF ReadsInv, NotOlder, AdminReadsItsWrites
<1> QED BY <1>1, ReadsStart, ReadsNext, PTL DEF AdminSpec

-----------------------------------------------------------------------------
(* The lists of the administrators.                                        *)

ItemLists == SUBSET (Items \X States)

\* Every answer about l has been heeded: none was lost, or is still to come to the
\* page.
Heeded(l) ==
    /\ l \notin outdated
    /\ \A a \in asked : a.stage = "done" => ListKey(a.item) # l

\* What a heeded list shows, and what is on its way to it, is what is stored.
Current(l) ==
    Heeded(l) =>
        /\ lists[l].fetch = "answered" => lists[l].answer = ServedItems(l)
        /\ listOpen /\ lists[l].fetch = "idle" /\ ~lists[l].failed =>
               lists[l].data = ServedItems(l)

ListTypes ==
    /\ items \in [Items -> States]
    /\ lists \in [ListKeys -> Entry(ItemLists)]
    /\ asked \in SUBSET Asked

ListInv == ListTypes /\ \A l \in ListKeys : Current(l)

\* What the server has of a list.
LEMMA ServedIsList ==
    ASSUME ListTypes, NEW l
    PROVE  ServedItems(l) \in ItemLists /\ ServedItems(l) # NoData
<1>1. ServedItems(l) \in ItemLists
    BY DEF ListTypes, ServedItems, ItemLists
<1> QED BY <1>1, ListsAssumption DEF ItemLists, States

\* The keys of the page stay, and so does what is stored under one whose items do.
LEMMA KeysStay ==
    ASSUME UNCHANGED listPage
    PROVE  /\ ListKeys' = ListKeys /\ \A i : ListKey(i)' = ListKey(i)
           /\ \A l : (\A i \in Items : ListKey(i) = l => items'[i] = items[i])
                        => ServedItems(l)' = ServedItems(l)
<1>1. \A i : ListKey(i)' = ListKey(i)
    BY DEF ListKey
<1>2. ListKeys' = ListKeys
    BY <1>1 DEF ListKeys
<1>3. ASSUME NEW l, \A i \in Items : ListKey(i) = l => items'[i] = items[i]
      PROVE  ServedItems(l)' = ServedItems(l)
    BY <1>1, <1>3 DEF ServedItems
<1> QED BY <1>1, <1>2, <1>3

\* A list stays current when its entry rests or is fetched anew, and no answer about
\* it was waited for before and is not now.
LEMMA CurrentKept ==
    ASSUME UNCHANGED listPage, NEW l \in ListKeys, Current(l),
           ServedItems(l)' = ServedItems(l), Heeded(l)' => Heeded(l),
           \/ lists'[l].fetch \in {"sent", "refused"}
           \/ lists'[l] = lists[l] /\ (listOpen' => listOpen)
    PROVE  Current(l)'
BY DEF Current

\* No list is shown at the start.
LEMMA ListStart == ListInit => ListInv
<1> SUFFICES ASSUME ListInit PROVE ListInv
    OBVIOUS
<1>1. ListTypes
    BY AbsentEntry DEF ListInit, ListTypes, States
<1>2. \A l \in ListKeys : lists[l].fetch = "idle" /\ ~listOpen
    BY AbsentEntry DEF ListInit
<1> QED BY <1>1, <1>2 DEF ListInv, Current

\* A request that is sent changes no list.
LEMMA ListAsk ==
    ASSUME ListInv, NEW kind \in {"create", "save", "toggle", "delete", "revoke"},
           NEW i \in Items, NEW want \in States, Ask(kind, i, want)
    PROVE  ListInv'
<1> DEFINE new == [kind |-> kind, item |-> i, want |-> want, stage |-> "sent", here |-> TRUE]
<1>1. /\ asked' = asked \cup {new} /\ new \in Asked /\ new.stage = "sent"
      /\ UNCHANGED <<listPage, listOpen, items, lists, outdated>>
    BY DEF Ask, Asked
<1> HIDE DEF new
<1>2. ListTypes'
    BY <1>1, KeysStay DEF ListInv, ListTypes
<1>3. ASSUME NEW l \in ListKeys PROVE Current(l)'
    <2>1. Heeded(l)' => Heeded(l)
        BY <1>1, KeysStay DEF Heeded
    <2>2. ServedItems(l)' = ServedItems(l)
        BY <1>1, KeysStay
    <2> QED BY <1>1, <2>1, <2>2, CurrentKept DEF ListInv
<1> QED BY <1>1, <1>2, <1>3, KeysStay DEF ListInv

\* What the administrator can click sends a request.
LEMMA ListClicks ==
    ASSUME ListInv, NEW i \in Items,
           \/ CreateModel(i) \/ ToggleModel(i) \/ DeleteModel(i) \/ RevokeToken(i)
           \/ \E limit \in {"on", "off"} : SaveQuota(i, limit)
    PROVE  ListInv'
<1>1. PICK kind \in {"create", "save", "toggle", "delete", "revoke"}, want \in States :
          Ask(kind, i, want)
    BY DEF CreateModel, ToggleModel, DeleteModel, RevokeToken, SaveQuota, States
<1> QED BY <1>1, ListAsk

\* The server does what is asked: the list is to be asked for again.
LEMMA ListServed ==
    ASSUME ListInv, NEW a \in asked, ServeAsked(a)
    PROVE  ListInv'
<1> DEFINE new == [a EXCEPT !.stage = "done"]
<1>1. a \in Asked /\ asked \in SUBSET Asked /\ a.stage = "sent" /\ a.item \in Items
    BY DEF ListInv, ListTypes, ServeAsked, Asked
<1>2. /\ asked' = (asked \ {a}) \cup {new} /\ items' = [items EXCEPT ![a.item] = a.want]
      /\ UNCHANGED <<listPage, listOpen, lists, outdated>>
    BY DEF ServeAsked
<1>3. new \in Asked /\ new.stage = "done" /\ new.item = a.item
    BY <1>1 DEF Asked
<1> HIDE DEF new
<1>4. ListTypes'
    <2>1. items' \in [Items -> States]
        BY <1>1, <1>2 DEF ListInv, ListTypes, Asked
    <2> QED BY <1>1, <1>2, <1>3, <2>1, KeysStay DEF ListInv, ListTypes
<1>5. ASSUME NEW l \in ListKeys PROVE Current(l)'
    <2>1. CASE l = ListKey(a.item)
        BY <1>2, <1>3, <2>1, KeysStay DEF Current, Heeded
    <2>2. CASE l # ListKey(a.item)
        <3>1. ServedItems(l)' = ServedItems(l)
            <4>1. \A i \in Items : ListKey(i) = l => items'[i] = items[i]
                BY <1>2, <2>2 DEF ListInv, ListTypes
            <4> QED BY <1>2, <4>1, KeysStay
        <3>2. Heeded(l)' => Heeded(l)
            BY <1>1, <1>2, KeysStay DEF Heeded
        <3> QED BY <1>2, <3>1, <3>2, CurrentKept DEF ListInv
    <2> QED BY <2>1, <2>2
<1> QED BY <1>2, <1>4, <1>5, KeysStay DEF ListInv

\* An answer asks for its list again, or the list is outdated.
LEMMA ListAnswered ==
    ASSUME ListInv, NEW a \in asked, AskedAnswered(a)
    PROVE  ListInv'
<1>0. PICK k \in ListKeys : k = ListKey(a.item)
    BY DEF ListInv, ListTypes, Asked, ListKeys
<1> DEFINE q == InvalidateList(lists[k])
<1>1. /\ a \in Asked /\ asked \in SUBSET Asked /\ a.stage = "done" /\ a.item \in Items
      /\ k \in ListKeys /\ lists[k] \in Entry(ItemLists) /\ lists \in [ListKeys -> Entry(ItemLists)]
    BY DEF ListInv, ListTypes, AskedAnswered, Asked
<1>2. /\ lists' = [lists EXCEPT ![k] = q] /\ UNCHANGED <<listPage, listOpen, items>>
      /\ asked' = (asked \ ({a} \cup AskedAfter(k, q)))
                      \cup (IF a.here THEN {[a EXCEPT !.stage = "waits"]} ELSE {})
      /\ outdated' = IF ~listOpen \/ Loading(lists[k]) THEN outdated \cup {k}
                     ELSE outdated \ {k}
    BY <1>0 DEF AskedAnswered
<1>3. q \in Entry(ItemLists) /\ (k \notin outdated' => q.fetch = "sent")
    BY <1>1, <1>2, InvalidatedEntry DEF InvalidateList
<1> HIDE DEF q
<1>4. [a EXCEPT !.stage = "waits"] \in Asked /\ [a EXCEPT !.stage = "waits"].stage = "waits"
    BY <1>1 DEF Asked
<1>5. ListTypes'
    <2>1. lists' \in [ListKeys -> Entry(ItemLists)]
        BY <1>1, <1>2, <1>3
    <2>2. asked' \in SUBSET Asked
        BY <1>1, <1>2, <1>4
    <2> QED BY <1>2, <2>1, <2>2, KeysStay DEF ListInv, ListTypes
<1>6. ASSUME NEW l \in ListKeys PROVE Current(l)'
    <2>1. CASE l = k
        <3>1. lists'[l] = q
            BY <1>1, <1>2, <2>1
        <3> QED BY <1>2, <1>3, <2>1, <3>1 DEF Current, Heeded
    <2>2. CASE l # k
        <3>1. ServedItems(l)' = ServedItems(l) /\ lists'[l] = lists[l]
            BY <1>1, <1>2, <2>2, KeysStay
        <3>2. Heeded(l)' => Heeded(l)
            <4>1. l \notin outdated' => l \notin outdated
                BY <1>2, <2>2
            <4> SUFFICES ASSUME Heeded(l)', NEW b \in asked, b.stage = "done"
                         PROVE  ListKey(b.item) # l
                BY <4>1 DEF Heeded
            <4>2. b = a \/ b \in asked'
                BY <1>2 DEF AskedAfter
            <4> QED BY <1>0, <1>2, <2>2, <4>2, KeysStay DEF Heeded
        <3> QED BY <1>2, <3>1, <3>2, CurrentKept DEF ListInv
    <2> QED BY <2>1, <2>2
<1> QED BY <1>2, <1>5, <1>6, KeysStay DEF ListInv

\* An answer that is lost makes its list outdated.
LEMMA ListRefused ==
    ASSUME ListInv, NEW a \in asked, AskedRefused(a)
    PROVE  ListInv'
<1>1. /\ asked' = asked \ {a} /\ UNCHANGED <<listPage, listOpen, items, lists>>
      /\ outdated' = IF a.stage = "done" THEN outdated \cup {ListKey(a.item)} ELSE outdated
    BY DEF AskedRefused
<1>2. ListTypes'
    BY <1>1, KeysStay DEF ListInv, ListTypes
<1>3. ASSUME NEW l \in ListKeys PROVE Current(l)'
    <2>1. ServedItems(l)' = ServedItems(l)
        BY <1>1, KeysStay
    <2>2. Heeded(l)' => Heeded(l)
        BY <1>1, KeysStay DEF Heeded
    <2> QED BY <1>1, <2>1, <2>2, CurrentKept DEF ListInv
<1> QED BY <1>1, <1>2, <1>3, KeysStay DEF ListInv

\* A fetch takes what the server has at that time.
LEMMA ListFetch == ASSUME ListInv, FetchList PROVE ListInv'
<1>0. PICK k \in ListKeys : \E q \in Fetched(lists[k], ServedItems(k)) :
          /\ lists' = [lists EXCEPT ![k] = q] /\ UNCHANGED <<listPage, listOpen, items, outdated>>
          /\ asked' = IF q.fetch = "idle" THEN asked \ AskedAfter(k, q) ELSE asked
    BY DEF FetchList
<1>1. PICK q \in Fetched(lists[k], ServedItems(k)) :
          /\ lists' = [lists EXCEPT ![k] = q] /\ UNCHANGED <<listPage, listOpen, items, outdated>>
          /\ asked' = IF q.fetch = "idle" THEN asked \ AskedAfter(k, q) ELSE asked
    BY <1>0
<1>2. /\ lists \in [ListKeys -> Entry(ItemLists)] /\ lists[k] \in Entry(ItemLists)
      /\ ServedItems(k) \in ItemLists /\ asked \in SUBSET Asked /\ ListTypes
    BY ServedIsList DEF ListInv, ListTypes
<1>3. q \in Entry(ItemLists)
    BY <1>1, <1>2, FetchedEntry
<1>4. ListTypes'
    BY <1>1, <1>2, <1>3, KeysStay DEF ListTypes
<1>5. \A l \in ListKeys : ServedItems(l)' = ServedItems(l) /\ (Heeded(l)' => Heeded(l))
    <2> SUFFICES ASSUME NEW l \in ListKeys
                 PROVE  ServedItems(l)' = ServedItems(l) /\ (Heeded(l)' => Heeded(l))
        OBVIOUS
    <2>1. \A b \in asked : b.stage = "done" => b \in asked'
        BY <1>1 DEF AskedAfter
    <2> QED BY <1>1, <2>1, KeysStay DEF Heeded
<1>6. ASSUME NEW l \in ListKeys PROVE Current(l)'
    <2>1. CASE l # k
        <3>1. lists'[l] = lists[l]
            BY <1>1, <1>2, <2>1
        <3> QED BY <1>1, <1>5, <3>1, CurrentKept DEF ListInv
    <2>2. CASE l = k
        <3>1. lists'[l] = q
            BY <1>1, <1>2, <2>2
        <3>2. \/ q.fetch = "answered" /\ q.answer = ServedItems(k)
              \/ q.fetch = "refused"
              \/ lists[k].fetch = "answered" /\ q.fetch = "idle" /\ q.data = lists[k].answer
              \/ q.fetch = "idle" /\ q.failed
            BY <1>1, <1>2, FetchedEntry
        <3>3. Current(l) /\ ServedItems(l)' = ServedItems(l) /\ (Heeded(l)' => Heeded(l))
            BY <1>5 DEF ListInv
        <3> QED BY <2>2, <3>1, <3>2, <3>3 DEF Current
    <2> QED BY <2>1, <2>2
<1> QED BY <1>1, <1>4, <1>6, KeysStay DEF ListInv

\* A page that opens, or is online again, fetches what nobody fetches.
LEMMA ListMounted ==
    ASSUME ListInv, UNCHANGED <<listPage, items, asked>>, listOpen',
           lists' = [l \in ListKeys |-> Mounted(lists[l])],
           \/ UNCHANGED outdated
           \/ outdated' = {l \in outdated : lists[l].fetch # "idle"}
    PROVE  ListInv'
<1>1. \A l \in ListKeys : /\ lists[l] \in Entry(ItemLists) /\ Mounted(lists[l]) \in Entry(ItemLists)
                          /\ \/ lists[l].fetch = "idle" /\ Mounted(lists[l]).fetch = "sent"
                             \/ lists[l].fetch # "idle" /\ Mounted(lists[l]) = lists[l]
    BY MountedEntry DEF ListInv, ListTypes
<1>2. ListTypes'
    BY <1>1, KeysStay DEF ListInv, ListTypes
<1>3. ASSUME NEW l \in ListKeys PROVE Current(l)'
    <2>1. ServedItems(l)' = ServedItems(l) /\ Current(l)
        BY KeysStay DEF ListInv
    <2>2. CASE lists'[l].fetch = "sent"
        BY <2>2 DEF Current
    <2>3. CASE lists'[l] = lists[l] /\ lists[l].fetch # "idle"
        <3>1. Heeded(l)' => Heeded(l)
            BY <2>3, KeysStay DEF Heeded
        <3> QED BY <2>1, <2>3, <3>1 DEF Current
    <2> QED BY <1>1, <2>2, <2>3
<1> QED BY <1>2, <1>3, KeysStay DEF ListInv

\* A write of others leaves its list outdated; a reconnect fetches all of them.
LEMMA ListOutside == ASSUME ListInv, OutsideList PROVE ListInv'
<1>1. CASE listOpen /\ lists' = [l \in ListKeys |-> Mounted(lists[l])] /\ UNCHANGED <<items, outdated>>
    BY <1>1, ListMounted DEF OutsideList
<1>2. ASSUME NEW i \in Items, NEW s \in States, items' = [items EXCEPT ![i] = s],
             outdated' = outdated \cup {ListKey(i)}, UNCHANGED lists
      PROVE  ListInv'
    <2>1. UNCHANGED <<listPage, listOpen, asked>>
        BY DEF OutsideList
    <2>2. ListTypes'
        BY <1>2, <2>1, KeysStay DEF ListInv, ListTypes
    <2>3. ASSUME NEW l \in ListKeys PROVE Current(l)'
        <3>1. CASE l = ListKey(i)
            BY <1>2, <3>1 DEF Current, Heeded
        <3>2. CASE l # ListKey(i)
            <4>1. \A j \in Items : ListKey(j) = l => items'[j] = items[j]
                BY <1>2, <3>2 DEF ListInv, ListTypes
            <4>2. ServedItems(l)' = ServedItems(l)
                BY <2>1, <4>1, KeysStay
            <4>3. Heeded(l)' => Heeded(l)
                BY <1>2, <2>1, KeysStay DEF Heeded
            <4> QED BY <1>2, <2>1, <4>2, <4>3, CurrentKept DEF ListInv
        <3> QED BY <3>1, <3>2
    <2> QED BY <2>1, <2>2, <2>3, KeysStay DEF ListInv
<1> QED BY <1>1, <1>2 DEF OutsideList

\* A page that is left shows no list.
LEMMA ListLeave == ASSUME ListInv, LeaveList PROVE ListInv'
<1>1. /\ asked' = {[a EXCEPT !.here = FALSE] : a \in {b \in asked : b.stage # "waits"}}
      /\ ~listOpen' /\ UNCHANGED <<listPage, items, lists, outdated>> /\ asked \in SUBSET Asked
    BY DEF LeaveList, ListInv, ListTypes
<1>2. \A a \in Asked : /\ [a EXCEPT !.here = FALSE] \in Asked
                       /\ [a EXCEPT !.here = FALSE].stage = a.stage
                       /\ [a EXCEPT !.here = FALSE].item = a.item
    BY DEF Asked
<1>3. ListTypes'
    BY <1>1, <1>2, KeysStay DEF ListInv, ListTypes
<1>4. ASSUME NEW l \in ListKeys PROVE Current(l)'
    <2>1. Heeded(l)' => Heeded(l)
        <3> SUFFICES ASSUME Heeded(l)', NEW b \in asked, b.stage = "done"
                     PROVE  ListKey(b.item) # l
            BY <1>1 DEF Heeded
        <3>1. [b EXCEPT !.here = FALSE] \in asked'
            BY <1>1
        <3>2. b \in Asked
            BY <1>1
        <3> QED BY <1>1, <1>2, <3>1, <3>2, KeysStay DEF Heeded
    <2>2. ServedItems(l)' = ServedItems(l)
        BY <1>1, KeysStay
    <2> QED BY <1>1, <2>1, <2>2, CurrentKept DEF ListInv
<1> QED BY <1>1, <1>3, <1>4, KeysStay DEF ListInv

\* Every action of the administrators' lists keeps the invariant.
LEMMA ListStep == ListInv /\ [ListNext]_listVars => ListInv'
<1> SUFFICES ASSUME ListInv, [ListNext]_listVars PROVE ListInv'
    OBVIOUS
<1>1. CASE OpenList
    BY <1>1, ListMounted DEF OpenList
<1>2. CASE UNCHANGED listVars
    <2>1. ASSUME NEW l \in ListKeys PROVE Current(l)'
        <3>1. ServedItems(l)' = ServedItems(l) /\ (Heeded(l)' => Heeded(l))
            BY <1>2, KeysStay DEF listVars, Heeded
        <3> QED BY <1>2, <3>1, CurrentKept DEF listVars, ListInv
    <2>2. ListTypes'
        BY <1>2, KeysStay DEF listVars, ListInv, ListTypes
    <2> QED BY <1>2, <2>1, <2>2, KeysStay DEF listVars, ListInv
<1> QED BY <1>1, <1>2, ListClicks, ListServed, ListAnswered, ListRefused, ListFetch,
           ListOutside, ListLeave DEF ListNext

\* A list without requests under way is what the server has, unless an answer about it
\* was not heeded: for any items and tokens, requests and failures (models-page.tsx,
\* quotas-page.tsx and sessions-page.tsx invalidate in onSuccess).
THEOREM SettledListsAreStoredAlways == ListSpec => []SettledListsAreStored
<1>1. ListInv => SettledListsAreStored
    <2> SUFFICES ASSUME ListInv, NEW l \in ListKeys \ outdated, listOpen,
                        lists[l].fetch = "idle", ~lists[l].failed,
                        {a \in asked : ListKey(a.item) = l /\ a.stage = "done"} = {}
                 PROVE  ShownItems(l) = ServedItems(l)
        BY DEF SettledListsAreStored
    <2>1. lists[l].data = ServedItems(l)
        BY DEF ListInv, Current, Heeded
    <2>2. ServedItems(l) # NoData
        BY ServedIsList DEF ListInv
    <2> QED BY <2>1, <2>2 DEF ShownItems, Known
<1> QED BY <1>1, ListStart, ListStep, PTL DEF ListSpec

-----------------------------------------------------------------------------
(* A user's own credentials.                                               *)

Places == {"unborn", "private", "pool", "gone"}

RowsOf(d, c) == {row \in d : row.id = c}

IsAnswered(r) == r.answer # NoAnswer

AnswerOk(r) ==
    IsAnswered(r) => r.answer = "gone" <=> r.kind = "delete"

OwnTypes ==
    /\ stored \in [Own -> Places]
    /\ ownList \in Entry(SUBSET Row)
    /\ ownList.fetch = "answered" => ownList.answer \in SUBSET Row
    /\ requests \in SUBSET Request /\ \A r \in requests : AnswerOk(r)
    /\ upset \in BOOLEAN

\* A credential is listed and asked about once it exists; it is created once.
Born ==
    /\ \A row \in Listed : stored[row.id] # "unborn"
    /\ ownList.fetch = "answered" => \A row \in ownList.answer : stored[row.id] # "unborn"
    /\ \A r \in requests :
          IF r.kind = "add" /\ ~IsAnswered(r)
            THEN /\ stored[r.id] = "unborn"
                 /\ \A o \in requests : o.id = r.id => o = r
            ELSE stored[r.id] # "unborn"

\* Nothing is asked about a new credential before the answer to its creation.
NewIsAlone(r) ==
    r.kind = "add" /\ IsAnswered(r) =>
        /\ stored[r.id] = "private"
        /\ \A row \in Listed : row.id # r.id
        /\ \A o \in requests : o.id = r.id => o.kind = "add"

\* One of the answers about c on their way is what is stored.
LastIsStored(c) ==
    (\E r \in requests : r.id = c /\ IsAnswered(r)) =>
        \E r \in requests : r.id = c /\ IsAnswered(r) /\ r.answer = stored[c]

\* d has a row of each credential that exists, the stored one if no answer about it is
\* on its way.
Fits(d, c) ==
    (\A r \in requests : r.id = c /\ IsAnswered(r) => r.kind # "add") =>
        /\ Exists(c) => \E p \in {"private", "pool"} :
                            RowsOf(d, c) = {[id |-> c, place |-> p, copy |-> 1]}
        /\ (\A r \in requests : r.id = c => ~IsAnswered(r)) =>
               RowsOf(d, c) = RowsOf(ServerList, c)

OwnInv ==
    /\ OwnTypes /\ Born
    /\ ~upset =>
        /\ \A r \in requests : NewIsAlone(r)
        /\ \A c \in Own : LastIsStored(c)
        /\ ownList.fetch = "answered" => \A c \in Own : Fits(ownList.answer, c)
        /\ ownList.fetch = "idle" /\ page # "closed" => \A c \in Own : Fits(Listed, c)

\* What is listed and what is stored are rows, one for each stored credential.
LEMMA ListedRows ==
    ASSUME OwnTypes
    PROVE  /\ Listed \in SUBSET Row
           /\ ServerList \in SUBSET Row
           /\ \A c \in Own : RowsOf(ServerList, c) =
                  IF Exists(c) THEN {[id |-> c, place |-> stored[c], copy |-> 1]} ELSE {}
<1>1. Listed \in SUBSET Row
    BY DEF OwnTypes, Listed, Known, Entry
<1>2. ServerList \in SUBSET Row
    BY DEF ServerList, Row, Exists
<1>3. ASSUME NEW c \in Own
      PROVE  RowsOf(ServerList, c) =
                 IF Exists(c) THEN {[id |-> c, place |-> stored[c], copy |-> 1]} ELSE {}
    BY DEF RowsOf, ServerList
<1> QED BY <1>1, <1>2, <1>3

\* Nothing is listed and nothing asked at the start.
LEMMA OwnStart == OwnInit => OwnInv
<1> SUFFICES ASSUME OwnInit PROVE OwnInv
    OBVIOUS
<1>1. OwnTypes
    BY AbsentEntry DEF OwnInit, OwnTypes, Places
<1>2. Listed = {}
    BY AbsentEntry DEF OwnInit, Listed, Known
<1> QED BY <1>1, <1>2, AbsentEntry DEF OwnInit, OwnInv, Born, LastIsStored

\* The requests change in what the page watches of them, and new ones begin: about rows
\* that are shown, or for a credential that does not exist.
LEMMA OwnAsked ==
    ASSUME OwnInv, UNCHANGED <<stored, ownList, upset>>, page' = page \/ page' = "closed",
           requests' \in SUBSET Request,
           \A r \in requests' :
              \/ \E o \in requests : o.id = r.id /\ o.kind = r.kind /\ o.answer = r.answer
              \/ /\ ~IsAnswered(r)
                 /\ \/ r.kind # "add" /\ IsListed(r.id)
                    \/ /\ r.kind = "add" /\ stored[r.id] = "unborn"
                       /\ \A o \in requests : o.id # r.id,
           \A o \in requests :
              \E r \in requests' : o.id = r.id /\ o.kind = r.kind /\ o.answer = r.answer,
           \A r, o \in requests' :
              r.id = o.id /\ r.kind = "add" /\ ~IsAnswered(r) /\ o.kind = "add"
                  /\ ~IsAnswered(o) => r = o
    PROVE  OwnInv'
<1>1. OwnTypes'
    BY DEF OwnInv, OwnTypes, AnswerOk, IsAnswered
<1>2. /\ Listed' = Listed /\ ServerList' = ServerList
      /\ \A c : Exists(c)' = Exists(c) /\ (IsListed(c) => stored[c] # "unborn")
    BY DEF Listed, ServerList, Exists, IsListed, OwnInv, Born
<1>3. \A r \in requests' : r.kind # "add" \/ IsAnswered(r) => stored[r.id] # "unborn"
    BY <1>2 DEF OwnInv, Born, IsAnswered
<1>4. \A r \in requests' : r.kind = "add" /\ ~IsAnswered(r) => stored[r.id] = "unborn"
    BY DEF OwnInv, Born, IsAnswered
<1>5. Born'
    BY <1>2, <1>3, <1>4 DEF OwnInv, Born, IsAnswered
<1>6. \A c : /\ (\E r \in requests' : r.id = c /\ IsAnswered(r))
                    <=> \E r \in requests : r.id = c /\ IsAnswered(r)
             /\ (\E r \in requests' : r.id = c /\ IsAnswered(r) /\ r.kind = "add")
                    <=> \E r \in requests : r.id = c /\ IsAnswered(r) /\ r.kind = "add"
    BY DEF IsAnswered
<1>7. ASSUME ~upset, NEW r \in requests' PROVE NewIsAlone(r)'
    <2> SUFFICES ASSUME r.kind = "add", IsAnswered(r)
                 PROVE  /\ stored[r.id] = "private"
                        /\ \A row \in Listed : row.id # r.id
                        /\ \A o \in requests' : o.id = r.id => o.kind = "add"
        BY <1>2 DEF NewIsAlone, IsAnswered
    <2>1. PICK q \in requests : q.id = r.id /\ q.kind = "add" /\ IsAnswered(q)
        BY DEF IsAnswered
    <2>2. NewIsAlone(q)
        BY <1>7 DEF OwnInv
    <2>3. ~IsListed(r.id)
        BY <2>1, <2>2 DEF NewIsAlone, IsListed
    <2> QED BY <2>1, <2>2, <2>3 DEF NewIsAlone
<1>8. ASSUME ~upset, NEW c \in Own PROVE LastIsStored(c)'
    <2> SUFFICES ASSUME NEW r \in requests', r.id = c, IsAnswered(r)
                 PROVE  \E o \in requests' : o.id = c /\ IsAnswered(o) /\ o.answer = stored[c]
        BY DEF LastIsStored, IsAnswered
    <2>1. PICK q \in requests : q.id = c /\ IsAnswered(q) /\ q.answer = stored[c]
        BY <1>6, <1>8 DEF OwnInv, LastIsStored
    <2> QED BY <2>1 DEF IsAnswered
<1>9. \A d, c : Fits(d, c) =>
          ((\A r \in requests' : r.id = c /\ IsAnswered(r) => r.kind # "add") =>
              /\ Exists(c) => \E p \in {"private", "pool"} :
                                  RowsOf(d, c) = {[id |-> c, place |-> p, copy |-> 1]}
              /\ (\A r \in requests' : r.id = c => ~IsAnswered(r)) =>
                     RowsOf(d, c) = RowsOf(ServerList, c))
    BY <1>6 DEF Fits
<1>10. /\ (ownList.fetch = "answered" => \A c \in Own : Fits(ownList.answer, c))
              => (ownList.fetch = "answered" => \A c \in Own : Fits(ownList.answer, c))'
       /\ (\A c \in Own : Fits(Listed, c)) => (\A c \in Own : Fits(Listed, c))'
    BY <1>2, <1>9 DEF Fits, RowsOf, IsAnswered
<1> QED BY <1>1, <1>5, <1>7, <1>8, <1>10 DEF OwnInv

\* The requests of a page that is left go on.
LEMMA OwnLeave == ASSUME OwnInv, LeaveCredentials PROVE OwnInv'
<1>1. \A r \in Request : /\ [r EXCEPT !.latest = FALSE] \in Request
                         /\ [r EXCEPT !.latest = FALSE].id = r.id
                         /\ [r EXCEPT !.latest = FALSE].kind = r.kind
                         /\ [r EXCEPT !.latest = FALSE].answer = r.answer
    BY DEF Request
<1>2. requests \in SUBSET Request /\ requests' = {[r EXCEPT !.latest = FALSE] : r \in requests}
    BY DEF LeaveCredentials, OwnInv, OwnTypes
<1>3. ASSUME NEW r \in requests', NEW o \in requests', r.id = o.id,
             r.kind = "add", ~IsAnswered(r), o.kind = "add", ~IsAnswered(o)
      PROVE  r = o
    <2>1. PICK p \in requests : r = [p EXCEPT !.latest = FALSE]
        BY <1>2
    <2>2. PICK q \in requests : o = [q EXCEPT !.latest = FALSE]
        BY <1>2
    <2>3. q = p
        BY <1>1, <1>2, <1>3, <2>1, <2>2 DEF OwnInv, Born, IsAnswered
    <2> QED BY <2>1, <2>2, <2>3
<1>4. requests' \in SUBSET Request
    BY <1>1, <1>2
<1>5. ASSUME NEW r \in requests'
      PROVE  \E o \in requests : o.id = r.id /\ o.kind = r.kind /\ o.answer = r.answer
    <2>1. PICK o \in requests : r = [o EXCEPT !.latest = FALSE]
        BY <1>2
    <2> QED BY <1>1, <1>2, <2>1
<1>6. ASSUME NEW o \in requests
      PROVE  \E r \in requests' : o.id = r.id /\ o.kind = r.kind /\ o.answer = r.answer
    <2>1. [o EXCEPT !.latest = FALSE] \in requests'
        BY <1>2
    <2> QED BY <1>1, <1>2, <2>1
<1>7. UNCHANGED <<stored, ownList, upset>> /\ page' = "closed"
    BY DEF LeaveCredentials
<1> QED BY <1>3, <1>4, <1>5, <1>6, <1>7, OwnAsked

\* A request is about a listed credential, or creates one that nobody has asked for.
LEMMA OwnSend ==
    ASSUME OwnInv, NEW kind \in Kinds, NEW c \in Own, Send(kind, c),
           \/ kind # "add" /\ IsListed(c)
           \/ kind = "add" /\ stored[c] = "unborn" /\ \A r \in requests : r.id # c
    PROVE  OwnInv'
<1> DEFINE new == [kind |-> kind, id |-> c, answer |-> NoAnswer, latest |-> TRUE]
           Less(r) == [r EXCEPT !.latest = @ /\ r.kind # kind]
<1>1. \A r \in Request : /\ Less(r) \in Request /\ Less(r).id = r.id
                         /\ Less(r).kind = r.kind /\ Less(r).answer = r.answer
    <2>1. \A r \in Request : (r.latest /\ r.kind # kind) \in BOOLEAN
        OBVIOUS
    <2>2. ASSUME NEW r \in Request, NEW b \in BOOLEAN
          PROVE  /\ [r EXCEPT !.latest = b] \in Request /\ [r EXCEPT !.latest = b].id = r.id
                 /\ [r EXCEPT !.latest = b].kind = r.kind
                 /\ [r EXCEPT !.latest = b].answer = r.answer
        BY DEF Request
    <2> QED BY <2>1, <2>2
<1>2. /\ requests \in SUBSET Request /\ requests' = {Less(r) : r \in requests} \cup {new}
      /\ UNCHANGED <<stored, ownList, upset, page>>
    BY DEF Send, OwnInv, OwnTypes
<1>3. new \in Request /\ new.id = c /\ new.kind = kind /\ ~IsAnswered(new)
    BY DEF Request, IsAnswered
<1> HIDE DEF new, Less
<1>4. requests' \in SUBSET Request
    BY <1>1, <1>2, <1>3
<1>5. ASSUME NEW r \in requests', NEW o \in requests', r.id = o.id,
             r.kind = "add", ~IsAnswered(r), o.kind = "add", ~IsAnswered(o)
      PROVE  r = o
    <2>1. \A q \in requests : q.kind = "add" /\ ~IsAnswered(q) /\ kind = "add" => q.id # c
        OBVIOUS
    <2>2. CASE r = new \/ o = new
        BY <1>1, <1>2, <1>3, <1>5, <2>1, <2>2 DEF IsAnswered
    <2>3. CASE r # new /\ o # new
        <3>1. PICK p \in requests : r = Less(p)
            BY <1>2, <2>3
        <3>2. PICK q \in requests : o = Less(q)
            BY <1>2, <2>3
        <3>3. q = p
            BY <1>1, <1>2, <1>5, <3>1, <3>2 DEF OwnInv, Born, IsAnswered
        <3> QED BY <3>1, <3>2, <3>3
    <2> QED BY <2>2, <2>3
<1>6. \A r \in requests' :
          \/ \E o \in requests : o.id = r.id /\ o.kind = r.kind /\ o.answer = r.answer
          \/ r = new
    BY <1>1, <1>2
<1>7. \A o \in requests :
          \E r \in requests' : o.id = r.id /\ o.kind = r.kind /\ o.answer = r.answer
    BY <1>1, <1>2
<1> QED BY <1>2, <1>3, <1>4, <1>5, <1>6, <1>7, OwnAsked

\* What the user can click sends a request.
LEMMA OwnClicks ==
    ASSUME OwnInv, NEW c \in Own,
           \/ AddCredential(c) \/ ClickShare(c) \/ ClickRefresh(c) \/ ClickDelete(c)
           \/ ShareFromSetup(c)
    PROVE  OwnInv'
<1>1. CASE AddCredential(c)
    BY <1>1, OwnSend DEF AddCredential, Kinds
<1>2. CASE ~AddCredential(c)
    <2>1. PICK kind \in Kinds \ {"add"} : Send(kind, c) /\ IsListed(c)
        BY <1>2 DEF ClickShare, ClickRefresh, ClickDelete, ShareFromSetup, Kinds
    <2> QED BY <2>1, OwnSend
<1> QED BY <1>1, <1>2

\* The server does what is asked: the row is stored, the answer on its way.
LEMMA OwnServed ==
    ASSUME OwnInv, NEW r \in requests, ServeRequest(r)
    PROVE  OwnInv'
<1> DEFINE new == [r EXCEPT !.answer = Place(r)]
<1>0. PICK c \in Own : c = r.id
    BY DEF OwnInv, OwnTypes, Request
<1>1. PICK p \in {"private", "pool", "gone"} : p = Place(r)
    BY <1>0 DEF OwnInv, OwnTypes, Request, Kinds, Place, ServeRequest, Exists
<1>2. /\ requests \in SUBSET Request /\ stored \in [Own -> Places]
      /\ requests' = (requests \ {r}) \cup {new} /\ stored' = [stored EXCEPT ![c] = p]
      /\ UNCHANGED <<ownList, upset, page>> /\ ~IsAnswered(r) /\ r \in Request
    BY <1>0, <1>1 DEF ServeRequest, OwnInv, OwnTypes, IsAnswered
<1>3. /\ new \in Request /\ new.id = c /\ new.kind = r.kind /\ new.answer = p
      /\ IsAnswered(new) /\ AnswerOk(new)
    <2>1. new \in Request /\ new.id = c /\ new.kind = r.kind /\ new.answer = p
        BY <1>0, <1>1, <1>2 DEF Request
    <2>2. p = "gone" <=> r.kind = "delete"
        BY <1>0, <1>1, <1>2 DEF Place, Request, Kinds, ServeRequest, Exists
    <2> QED BY <2>1, <2>2, OwnAssumption DEF IsAnswered, AnswerOk
<1>4. /\ r.kind = "add" => p = "private" /\ stored[c] = "unborn"
                           /\ \A o \in requests : o.id = c => o = r
      /\ r.kind # "add" => Exists(c)
    BY <1>0, <1>1, <1>2 DEF Place, ServeRequest, OwnInv, Born, IsAnswered
<1>5. /\ stored'[c] = p /\ \A d \in Own : d # c => stored'[d] = stored[d]
      /\ stored' \in [Own -> Places]
    BY <1>1, <1>2 DEF Places
<1> HIDE DEF new
<1>6. OwnTypes'
    BY <1>2, <1>3, <1>5 DEF OwnInv, OwnTypes, AnswerOk, IsAnswered
<1>7. /\ Listed' = Listed /\ Listed \in SUBSET Row
      /\ \A d \in Own : d # c => Exists(d)' = Exists(d)
    BY <1>2, <1>5, ListedRows DEF Listed, Exists, OwnInv
<1>8. Born'
    <2>1. \A row \in Listed' : stored'[row.id] # "unborn"
        BY <1>1, <1>5, <1>7 DEF OwnInv, Born, Row
    <2>2. ownList'.fetch = "answered" => \A row \in ownList'.answer : stored'[row.id] # "unborn"
        BY <1>1, <1>2, <1>5 DEF OwnInv, OwnTypes, Born, Row
    <2>3. ASSUME NEW q \in requests'
          PROVE  IF q.kind = "add" /\ ~IsAnswered(q)
                   THEN /\ stored'[q.id] = "unborn"
                        /\ \A o \in requests' : o.id = q.id => o = q
                   ELSE stored'[q.id] # "unborn"
        <3>1. CASE q = new
            BY <1>1, <1>3, <1>5, <3>1
        <3>2. CASE q # new
            <4>1. q \in requests /\ q # r /\ q.id \in Own
                BY <1>2, <3>2 DEF Request
            <4>2. CASE q.kind = "add" /\ ~IsAnswered(q)
                <5>1. q.id # c /\ stored[q.id] = "unborn" /\ \A o \in requests : o.id = q.id => o = q
                    BY <1>0, <4>1, <4>2 DEF OwnInv, Born
                <5> QED BY <1>2, <1>3, <1>5, <4>1, <4>2, <5>1
            <4>3. CASE ~(q.kind = "add" /\ ~IsAnswered(q))
                <5>1. stored[q.id] # "unborn"
                    BY <4>1, <4>3 DEF OwnInv, Born
                <5> QED BY <1>1, <1>5, <4>1, <4>3, <5>1
            <4> QED BY <4>2, <4>3
        <3> QED BY <3>1, <3>2
    <2> QED BY <2>1, <2>2, <2>3 DEF Born, IsAnswered
<1>9. ASSUME ~upset, NEW q \in requests' PROVE NewIsAlone(q)'
    <2> SUFFICES ASSUME q.kind = "add", IsAnswered(q)
                 PROVE  /\ stored'[q.id] = "private"
                        /\ \A row \in Listed : row.id # q.id
                        /\ \A o \in requests' : o.id = q.id => o.kind = "add"
        BY <1>7 DEF NewIsAlone, IsAnswered
    <2>1. CASE q = new
        <3>1. \A row \in Listed : row.id # c
            BY <1>3, <1>4, <2>1 DEF OwnInv, Born
        <3> QED BY <1>2, <1>3, <1>4, <1>5, <2>1, <3>1
    <2>2. CASE q # new
        <3>1. q \in requests /\ q.id \in Own /\ NewIsAlone(q)
            BY <1>2, <1>9, <2>2 DEF OwnInv, Request
        <3>2. /\ stored[q.id] = "private" /\ \A row \in Listed : row.id # q.id
              /\ \A o \in requests : o.id = q.id => o.kind = "add"
            BY <3>1 DEF NewIsAlone
        <3>3. q.id # c
            BY <1>0, <1>4, <3>2
        <3> QED BY <1>2, <1>3, <1>5, <3>1, <3>2, <3>3
    <2> QED BY <2>1, <2>2
<1>10. ASSUME ~upset, NEW d \in Own PROVE LastIsStored(d)'
    <2>1. CASE d = c
        BY <1>2, <1>3, <1>5, <2>1 DEF LastIsStored, IsAnswered
    <2>2. CASE d # c
        <3> SUFFICES ASSUME NEW q \in requests', q.id = d, IsAnswered(q)
                     PROVE  \E o \in requests' : o.id = d /\ IsAnswered(o) /\ o.answer = stored'[d]
            BY DEF LastIsStored, IsAnswered
        <3>1. q \in requests
            BY <1>2, <1>3, <2>2
        <3>2. PICK o \in requests : o.id = d /\ IsAnswered(o) /\ o.answer = stored[d]
            BY <1>10, <3>1 DEF OwnInv, LastIsStored
        <3>3. o \in requests' /\ stored'[d] = stored[d]
            BY <1>2, <1>5, <2>2, <3>2
        <3> QED BY <3>2, <3>3
    <2> QED BY <2>1, <2>2
<1>11. ASSUME ~upset, NEW rows, NEW d \in Own, Fits(rows, d)
       PROVE  (\A q \in requests' : q.id = d /\ IsAnswered(q) => q.kind # "add") =>
                /\ Exists(d)' => \E s \in {"private", "pool"} :
                                    RowsOf(rows, d) = {[id |-> d, place |-> s, copy |-> 1]}
                /\ (\A q \in requests' : q.id = d => ~IsAnswered(q)) =>
                       RowsOf(rows, d) = RowsOf(ServerList, d)'
    <2>1. CASE d = c
        <3> SUFFICES ASSUME r.kind # "add", Exists(c)
                     PROVE  \E s \in {"private", "pool"} :
                                RowsOf(rows, c) = {[id |-> c, place |-> s, copy |-> 1]}
            BY <1>2, <1>3, <1>4, <2>1
        <3>1. \A q \in requests : q.id = c /\ IsAnswered(q) => q.kind # "add"
            BY <1>0, <1>11 DEF OwnInv, NewIsAlone
        <3> QED BY <1>11, <2>1, <3>1 DEF Fits
    <2>2. CASE d # c
        <3>1. RowsOf(ServerList, d)' = RowsOf(ServerList, d)
            BY <1>5, <1>7, <2>2 DEF RowsOf, ServerList
        <3>2. \A q : q.id = d /\ IsAnswered(q) => (q \in requests' <=> q \in requests)
            BY <1>0, <1>2, <1>3, <2>2
        <3> QED BY <1>7, <1>11, <2>2, <3>1, <3>2 DEF Fits
    <2> QED BY <2>1, <2>2
<1>12. ASSUME ~upset, ownList.fetch = "answered", NEW d \in Own
       PROVE  Fits(ownList.answer, d)'
    <2>1. Fits(ownList.answer, d)
        BY <1>12 DEF OwnInv
    <2> QED BY <1>2, <1>11, <1>12, <2>1 DEF Fits
<1>13. ASSUME ~upset, ownList.fetch = "idle", page # "closed", NEW d \in Own
       PROVE  Fits(Listed, d)'
    <2>1. Fits(Listed, d)
        BY <1>13 DEF OwnInv
    <2> QED BY <1>7, <1>11, <1>13, <2>1 DEF Fits
<1> QED BY <1>2, <1>6, <1>8, <1>9, <1>10, <1>12, <1>13 DEF OwnInv

\* The list is edited, fetched or asked for, and requests end.
LEMMA OwnListChanges ==
    ASSUME OwnInv, UNCHANGED stored, ownList' \in Entry(SUBSET Row), upset' \in BOOLEAN,
           requests' \subseteq requests,
           \A row \in Listed' : stored[row.id] # "unborn",
           ownList'.fetch = "answered" =>
               /\ ownList'.answer \in SUBSET Row
               /\ \A row \in ownList'.answer : stored[row.id] # "unborn"
    PROVE  /\ OwnTypes' /\ Born'
           /\ ServerList' = ServerList /\ \A c : Exists(c)' = Exists(c)
<1>1. OwnTypes'
    BY DEF OwnInv, OwnTypes
<1>2. Born'
    BY DEF OwnInv, Born
<1> QED BY <1>1, <1>2 DEF ServerList, Exists

\* An answer edits the row it is about.
LEMMA OwnAnswered ==
    ASSUME OwnInv, NEW r \in requests, RequestAnswered(r)
    PROVE  OwnInv'
<1>0. PICK c \in Own : c = r.id
    BY DEF OwnInv, OwnTypes, Request
<1>1. /\ r \in Request /\ IsAnswered(r) /\ AnswerOk(r) /\ Listed \in SUBSET Row
      /\ requests' = requests \ {r} /\ ownList' = WithData(ownList, Edited(r))
      /\ UNCHANGED stored /\ UNCHANGED page /\ ownList \in Entry(SUBSET Row)
      /\ r.kind \in {"add", "share", "refresh", "delete"} /\ requests \in SUBSET Request
    BY ListedRows DEF RequestAnswered, OwnInv, OwnTypes, IsAnswered, Request, Kinds
<1>2. /\ Edited(r) \in SUBSET Row
      /\ \A row \in Edited(r) : row.id = c \/ row \in Listed
      /\ \A row \in Listed : row.id # c => row \in Edited(r)
    <2>1. CASE r.kind = "add"
        BY <1>0, <1>1, <2>1 DEF Edited, Appended, Row
    <2>2. CASE r.kind = "delete"
        BY <1>0, <1>1, <2>2 DEF Edited, Without
    <2>3. CASE r.kind \in {"share", "refresh"}
        <3>1. r.answer \in {"private", "pool"}
            BY <1>1, <2>3 DEF AnswerOk, IsAnswered, Request
        <3>2. Edited(r) = {IF row.id = c THEN [row EXCEPT !.place = r.answer] ELSE row : row \in Listed}
            BY <1>0, <1>1, <2>3 DEF Edited, Replaced
        <3>3. \A row \in Row : /\ [row EXCEPT !.place = r.answer] \in Row
                               /\ [row EXCEPT !.place = r.answer].id = row.id
            BY <3>1 DEF Row
        <3> QED BY <1>1, <3>2, <3>3
    <2> QED BY <1>1, <2>1, <2>2, <2>3
<1>3. PICK rows \in SUBSET Row : rows = Edited(r)
    BY <1>2
<1>4. /\ ownList' \in Entry(SUBSET Row) /\ Listed' = rows
      /\ ownList'.fetch = ownList.fetch /\ ownList'.answer = ownList.answer
    <2>1. rows # NoData
        BY OwnAssumption
    <2> QED BY <1>1, <1>3, <2>1, WithDataEntry DEF Listed, Known
<1>5. upset' \in BOOLEAN /\ (~upset' => /\ ~upset /\ ownList.fetch = "idle" /\ page # "closed"
                                        /\ \A o \in requests : o.id = c => o = r)
    BY <1>0 DEF RequestAnswered, OwnInv, OwnTypes
<1>6. \A row \in rows : stored[row.id] # "unborn"
    <2>1. stored[c] # "unborn"
        BY <1>0, <1>1 DEF OwnInv, Born
    <2> QED BY <1>2, <1>3, <2>1 DEF OwnInv, Born
<1>7. OwnTypes' /\ Born' /\ ServerList' = ServerList /\ \A d : Exists(d)' = Exists(d)
    BY <1>1, <1>4, <1>5, <1>6, OwnListChanges DEF OwnInv, OwnTypes, Born
<1>8. CASE ~upset'
    <2>1. /\ ~upset /\ ownList.fetch = "idle" /\ page # "closed"
          /\ \A o \in requests : o.id = c => o = r
          /\ Fits(Listed, c) /\ NewIsAlone(r) /\ LastIsStored(c)
        BY <1>0, <1>5, <1>8 DEF OwnInv
    <2>2. r.answer = stored[c]
        BY <1>0, <1>1, <2>1 DEF LastIsStored
    <2>3. RowsOf(rows, c) = RowsOf(ServerList, c)
        <3>1. RowsOf(ServerList, c) =
                  IF Exists(c) THEN {[id |-> c, place |-> stored[c], copy |-> 1]} ELSE {}
            BY ListedRows DEF OwnInv
        <3>2. CASE r.kind = "add"
            <4>1. stored[c] = "private" /\ \A row \in Listed : row.id # c
                BY <1>0, <1>1, <2>1, <3>2 DEF NewIsAlone
            <4>2. rows = Listed \cup {[id |-> c, place |-> "private", copy |-> 1]}
                BY <1>0, <1>3, <3>2, <4>1 DEF Edited, Appended, IsListed
            <4> QED BY <3>1, <4>1, <4>2 DEF RowsOf, Exists
        <3>3. CASE r.kind = "delete"
            <4>1. stored[c] = "gone"
                BY <1>1, <2>2, <3>3 DEF AnswerOk
            <4>2. \A row \in rows : row.id # c
                BY <1>0, <1>3, <3>3 DEF Edited, Without
            <4> QED BY <3>1, <4>1, <4>2 DEF RowsOf, Exists
        <3>4. CASE r.kind \in {"share", "refresh"}
            <4>1. stored[c] \in {"private", "pool"}
                BY <1>1, <2>2, <3>4 DEF AnswerOk, IsAnswered, Request
            <4>2. PICK p \in {"private", "pool"} :
                      RowsOf(Listed, c) = {[id |-> c, place |-> p, copy |-> 1]}
                BY <1>0, <2>1, <3>4, <4>1 DEF Fits, Exists
            <4>3. rows = {IF row.id = c THEN [row EXCEPT !.place = stored[c]] ELSE row : row \in Listed}
                BY <1>0, <1>3, <2>2, <3>4 DEF Edited, Replaced
            <4>4. \A row \in Row : [row EXCEPT !.place = stored[c]].id = row.id
                BY DEF Row
            <4>5. [[id |-> c, place |-> p, copy |-> 1] EXCEPT !.place = stored[c]]
                        = [id |-> c, place |-> stored[c], copy |-> 1]
                OBVIOUS
            <4>6. [id |-> c, place |-> p, copy |-> 1] \in Listed
                  /\ \A row \in Listed : row.id = c => row = [id |-> c, place |-> p, copy |-> 1]
                BY <4>2 DEF RowsOf
            <4>7. ASSUME NEW row
                  PROVE  row \in rows /\ row.id = c <=> row = [id |-> c, place |-> stored[c], copy |-> 1]
                BY <1>1, <4>3, <4>4, <4>5, <4>6
            <4> QED BY <3>1, <4>1, <4>7 DEF RowsOf, Exists
        <3> QED BY <1>1, <3>2, <3>3, <3>4
    <2>4. \A d \in Own : d # c => RowsOf(rows, d) = RowsOf(Listed, d)
        BY <1>2, <1>3 DEF RowsOf
    <2>5. \A q \in requests' : q \in requests /\ q.id # c /\ q.id \in Own
        BY <1>0, <1>1, <2>1 DEF Request
    <2>6. ASSUME NEW q \in requests' PROVE NewIsAlone(q)'
        <3>1. NewIsAlone(q)
            BY <2>1, <2>5 DEF OwnInv
        <3>2. \A row \in rows : row.id = q.id => row \in Listed
            BY <1>2, <1>3, <2>5
        <3> QED BY <1>1, <1>4, <2>5, <3>1, <3>2 DEF NewIsAlone
    <2>7. ASSUME NEW d \in Own PROVE LastIsStored(d)'
        <3>1. CASE d = c
            BY <2>5, <3>1 DEF LastIsStored
        <3>2. CASE d # c
            <4>1. LastIsStored(d) /\ \A q : q.id = d => (q \in requests' <=> q \in requests)
                BY <1>0, <1>1, <2>1, <3>2 DEF OwnInv
            <4> QED BY <1>1, <4>1 DEF LastIsStored
        <3> QED BY <3>1, <3>2
    <2>8. ASSUME NEW d \in Own PROVE Fits(Listed, d)'
        <3>1. CASE d = c
            <4>1. RowsOf(rows, c) =
                      IF Exists(c) THEN {[id |-> c, place |-> stored[c], copy |-> 1]} ELSE {}
                BY <2>3, ListedRows DEF OwnInv
            <4>2. Exists(c) => \E p \in {"private", "pool"} :
                                   RowsOf(rows, c) = {[id |-> c, place |-> p, copy |-> 1]}
                BY <4>1 DEF Exists
            <4> QED BY <1>4, <1>7, <2>3, <3>1, <4>2 DEF Fits
        <3>2. CASE d # c
            <4>1. Fits(Listed, d) /\ \A q : q.id = d => (q \in requests' <=> q \in requests)
                BY <1>0, <1>1, <2>1, <3>2 DEF OwnInv
            <4> QED BY <1>4, <1>7, <2>4, <3>2, <4>1 DEF Fits
        <3> QED BY <3>1, <3>2
    <2> QED BY <1>4, <1>7, <2>1, <2>6, <2>7, <2>8 DEF OwnInv
<1>9. CASE upset'
    BY <1>7, <1>9 DEF OwnInv
<1> QED BY <1>8, <1>9

\* An error: the history has it.
LEMMA OwnFails ==
    ASSUME OwnInv, NEW r \in requests, RequestFails(r)
    PROVE  OwnInv'
<1>1. /\ UNCHANGED stored /\ UNCHANGED ownList /\ requests' \subseteq requests
      /\ upset' /\ upset' \in BOOLEAN /\ Listed' = Listed
    BY DEF RequestFails, Listed
<1> QED BY <1>1, OwnListChanges DEF OwnInv, OwnTypes, Born

\* Nothing is known of a list that is being asked for, and nothing new of one on its way.
LEMMA OwnMounted ==
    ASSUME OwnInv, UNCHANGED <<stored, requests>>, ownList' = Mounted(ownList),
           upset' \in BOOLEAN, page' # "closed",
           ~upset' => requests = {} \/ page = page',
           ~upset' => ~upset \/ (requests = {} /\ ownList.fetch = "idle")
    PROVE  OwnInv'
<1>1. /\ ownList' \in Entry(SUBSET Row) /\ Listed' = Listed
      /\ \/ ownList.fetch = "idle" /\ ownList'.fetch = "sent"
         \/ ownList.fetch # "idle" /\ ownList' = ownList
    BY MountedEntry DEF OwnInv, OwnTypes, Listed, Known
<1>2. OwnTypes' /\ Born' /\ ServerList' = ServerList /\ \A c : Exists(c)' = Exists(c)
    BY <1>1, OwnListChanges DEF OwnInv, OwnTypes, Born
<1>3. CASE ~upset' /\ requests = {}
    <2>1. ASSUME ownList'.fetch = "answered", NEW c \in Own PROVE Fits(ownList.answer, c)'
        <3>1. Fits(ownList.answer, c)
            BY <1>1, <1>3, <2>1 DEF OwnInv
        <3> QED BY <1>1, <1>2, <2>1, <3>1 DEF Fits
    <2> QED BY <1>1, <1>2, <1>3, <2>1 DEF OwnInv, LastIsStored
<1>4. CASE ~upset' /\ ~upset
    <2>1. ASSUME ownList'.fetch = "answered", NEW c \in Own PROVE Fits(ownList.answer, c)'
        <3>1. Fits(ownList.answer, c)
            BY <1>1, <1>4, <2>1 DEF OwnInv
        <3> QED BY <1>1, <1>2, <2>1, <3>1 DEF Fits
    <2>2. \A r \in requests' : NewIsAlone(r)'
        BY <1>1, <1>4 DEF OwnInv, NewIsAlone
    <2>3. \A c \in Own : LastIsStored(c)'
        BY <1>4 DEF OwnInv, LastIsStored
    <2> QED BY <1>1, <1>2, <2>1, <2>2, <2>3 DEF OwnInv
<1>5. CASE upset'
    BY <1>2, <1>5 DEF OwnInv
<1> QED BY <1>3, <1>4, <1>5

\* A page that opens begins a fetch.
LEMMA OwnOpens == ASSUME OwnInv, OpenCredentials PROVE OwnInv'
<1>1. UNCHANGED <<stored, requests>> /\ ownList' = Mounted(ownList) /\ page' # "closed"
    BY DEF OpenCredentials
<1>2. upset' = ((upset /\ ownList.fetch # "idle") \/ requests # {})
    BY DEF OpenCredentials
<1>3. upset' \in BOOLEAN
    BY <1>2
<1> QED BY <1>1, <1>2, <1>3, OwnMounted

\* A fetch takes what is stored, without the answers on their way.
LEMMA OwnFetch == ASSUME OwnInv, FetchCredentials PROVE OwnInv'
<1>1. PICK q \in Fetched(ownList, ServerList) :
          /\ ownList' = q /\ UNCHANGED <<stored, page, requests>>
          /\ upset' = \/ upset \/ q.failed
                      \/ /\ q.fetch = "idle"
                         /\ \E r \in requests : r.kind = "add" /\ r.answer # NoAnswer
    BY DEF FetchCredentials
<1>2. ServerList \in SUBSET Row /\ ownList \in Entry(SUBSET Row) /\ upset \in BOOLEAN
    BY ListedRows DEF OwnInv, OwnTypes
<1>3. /\ q \in Entry(SUBSET Row)
      /\ \/ /\ q.fetch = "answered" /\ q.answer = ServerList
            /\ q.data = ownList.data /\ q.failed = ownList.failed
         \/ /\ q.fetch = "refused"
            /\ q.data = ownList.data /\ q.failed = ownList.failed
         \/ /\ ownList.fetch = "answered" /\ q.fetch = "idle"
            /\ q.data = ownList.answer /\ ~q.failed
         \/ q.fetch = "idle" /\ q.failed /\ q.data = ownList.data
    BY <1>2, FetchedEntry
<1>4. \A row \in ServerList : stored[row.id] # "unborn"
    BY DEF ServerList, Exists
<1>5. upset' \in BOOLEAN
    <2>1. q.failed \in BOOLEAN
        BY <1>3 DEF Entry
    <2> QED BY <1>1, <1>2, <2>1
<1>6. \/ Listed' = Listed /\ q.data = ownList.data
      \/ /\ ownList.fetch = "answered" /\ q.fetch = "idle" /\ q.data = ownList.answer
         /\ Listed' = ownList.answer /\ ownList.answer \in SUBSET Row
    BY <1>1, <1>3, OwnAssumption DEF Listed, Known, OwnInv, OwnTypes
<1>7. OwnTypes' /\ Born' /\ ServerList' = ServerList /\ \A c : Exists(c)' = Exists(c)
    <2>1. \A row \in Listed' : stored[row.id] # "unborn"
        BY <1>6 DEF OwnInv, Born
    <2>2. ownList'.fetch = "answered" =>
              /\ ownList'.answer \in SUBSET Row
              /\ \A row \in ownList'.answer : stored[row.id] # "unborn"
        BY <1>1, <1>2, <1>3, <1>4
    <2> QED BY <1>1, <1>3, <1>5, <2>1, <2>2, OwnListChanges
<1>8. CASE ~upset'
    <2>1. /\ ~upset /\ ~q.failed
          /\ q.fetch = "idle" => \A r \in requests : IsAnswered(r) => r.kind # "add"
        BY <1>1, <1>8 DEF IsAnswered
    <2>2. \A c \in Own : LastIsStored(c)'
        BY <1>1, <2>1 DEF OwnInv, LastIsStored
    <2>3. ASSUME NEW r \in requests' PROVE NewIsAlone(r)'
        <3>1. NewIsAlone(r)
            BY <1>1, <2>1 DEF OwnInv
        <3>2. CASE q.fetch = "idle"
            BY <1>1, <2>1, <3>2 DEF NewIsAlone, IsAnswered
        <3>3. CASE q.fetch # "idle"
            <4>1. Listed' = Listed
                BY <1>6, <3>3
            <4> QED BY <1>1, <3>1, <4>1 DEF NewIsAlone
        <3> QED BY <3>2, <3>3
    <2>4. ASSUME q.fetch = "answered", NEW c \in Own PROVE Fits(ownList.answer, c)'
        <3>1. ownList.answer' = ServerList
            BY <1>1, <1>3, <2>4
        <3>2. Exists(c) => \E p \in {"private", "pool"} :
                  RowsOf(ServerList, c) = {[id |-> c, place |-> p, copy |-> 1]}
            BY ListedRows DEF OwnInv, Exists
        <3> QED BY <1>1, <1>7, <3>1, <3>2 DEF Fits
    <2>5. ASSUME q.fetch = "idle", NEW c \in Own PROVE Fits(Listed, c)'
        <3>1. Listed' = ownList.answer /\ Fits(ownList.answer, c)
            BY <1>1, <1>3, <2>1, <2>5, OwnAssumption DEF OwnInv, OwnTypes, Listed, Known
        <3> QED BY <1>1, <1>7, <3>1 DEF Fits
    <2> QED BY <1>1, <1>7, <2>2, <2>3, <2>4, <2>5 DEF OwnInv
<1>9. CASE upset'
    BY <1>7, <1>9 DEF OwnInv
<1> QED BY <1>8, <1>9

\* What others write is recorded as upset; a reconnect fetches the list.
LEMMA OwnOutside == ASSUME OwnInv, OutsideOwn PROVE OwnInv'
<1>1. UNCHANGED page /\ UNCHANGED requests
    BY DEF OutsideOwn
<1>2. CASE page # "closed" /\ ownList' = Mounted(ownList) /\ UNCHANGED <<stored, upset>>
    BY <1>1, <1>2, OwnMounted DEF OwnInv, OwnTypes
<1>3. ASSUME NEW c \in Own, NEW p \in {"gone", "private"}, Exists(c),
             stored' = [stored EXCEPT ![c] = p], upset', upset' \in BOOLEAN, UNCHANGED ownList
      PROVE  OwnInv'
    <2>1. /\ stored' \in [Own -> Places] /\ stored'[c] = p
          /\ \A d \in Own : d # c => stored'[d] = stored[d]
        BY <1>3 DEF OwnInv, OwnTypes, Places
    <2>2. \A d \in Own : stored[d] = "unborn" <=> stored'[d] = "unborn"
        BY <1>3, <2>1 DEF Exists
    <2>3. OwnTypes' /\ Listed' = Listed /\ Listed \in SUBSET Row
        BY <1>1, <1>3, <2>1, ListedRows DEF OwnInv, OwnTypes, Listed
    <2>4. Born'
        BY <1>1, <1>3, <2>2, <2>3 DEF OwnInv, Born, OwnTypes, Row, Request
    <2> QED BY <1>3, <2>3, <2>4 DEF OwnInv
<1>4. CASE /\ \E c \in Own : \E p \in {"gone", "private"} \ {stored[c]} :
                Exists(c) /\ stored' = [stored EXCEPT ![c] = p]
           /\ upset' = TRUE /\ UNCHANGED ownList
    BY <1>3, <1>4
<1> QED BY <1>2, <1>4 DEF OutsideOwn

\* Every action of the user's credentials keeps the invariant.
LEMMA OwnStep == OwnInv /\ [OwnNext]_ownVars => OwnInv'
<1> SUFFICES ASSUME OwnInv, [OwnNext]_ownVars PROVE OwnInv'
    OBVIOUS
<1>1. CASE UNCHANGED ownVars
    <2>1. /\ UNCHANGED <<stored, ownList, upset>> /\ page' = page /\ requests' = requests
          /\ requests \in SUBSET Request
        BY <1>1 DEF ownVars, OwnInv, OwnTypes
    <2>2. \A r, o \in requests :
              r.id = o.id /\ r.kind = "add" /\ ~IsAnswered(r) /\ o.kind = "add"
                  /\ ~IsAnswered(o) => r = o
        BY DEF OwnInv, Born
    <2> QED BY <2>1, <2>2, OwnAsked
<1> QED BY <1>1, OwnClicks, OwnOpens, OwnLeave, OwnServed, OwnAnswered, OwnFails, OwnFetch,
           OwnOutside DEF OwnNext

\* The page shows the stored credentials, each once, when nothing is under way, but for
\* the races that `upset' records: for any credentials, requests and orders of answers
\* (byok-page.tsx:85-131, portal-page.tsx:79-88: no handler fetches the list again).
THEOREM SettledListIsStoredAlways == OwnSpec => []SettledListIsStored
<1>1. OwnInv => SettledListIsStored
    <2> SUFFICES ASSUME OwnInv, page # "closed", requests = {}, ownList.fetch = "idle", ~upset
                 PROVE  Listed = ServerList
        BY DEF SettledListIsStored
    <2>1. \A c \in Own : RowsOf(Listed, c) = RowsOf(ServerList, c)
        BY DEF OwnInv, Fits
    <2>2. Listed \in SUBSET Row /\ ServerList \in SUBSET Row
        BY ListedRows DEF OwnInv
    <2>3. ASSUME NEW row \in Row PROVE row \in Listed <=> row \in ServerList
        <3>1. row.id \in Own
            BY DEF Row
        <3> QED BY <2>1, <3>1 DEF RowsOf
    <2> QED BY <2>2, <2>3
<1> QED BY <1>1, OwnStart, OwnStep, PTL DEF OwnSpec

-----------------------------------------------------------------------------
(* The keys of a user.                                                     *)

KeyTypes ==
    /\ storedKeys \in SUBSET KeyIds /\ unusedKeys \in SUBSET KeyIds
    /\ keyList \in Entry(SUBSET KeyIds)
    /\ keyList.fetch = "answered" => keyList.answer \in SUBSET KeyIds
    /\ newKey \in KeyIds \cup {NoKey}
    /\ creating \in SUBSET Creation /\ deleting \in SUBSET Deletion
    /\ disturbed \in BOOLEAN

\* An id is used once; what is deleted stays deleted.
UsedOnce ==
    /\ storedKeys \cap unusedKeys = {}
    /\ \A d \in deleting : d.done => d.id \notin storedKeys \cup unusedKeys

\* keys are the stored ones but for the answers on their way.
Follows(keys) ==
    /\ \A k \in storedKeys : k \in keys \/ \E c \in creating : c.id = k
    /\ \A k \in keys : k \in storedKeys \/ \E d \in deleting : d.id = k /\ d.done

\* What is on its way to the list, and the list when nothing is.
ListFollows ==
    ~disturbed =>
        /\ keyList.fetch = "answered" => Follows(keyList.answer)
        /\ keysOpen /\ keyList.fetch = "idle" => Follows(Keys)

\* The panel is of this visit, and the handlers of the deletions of its key know.
PanelInv ==
    /\ \A c \in creating : c.here => keysOpen
    /\ ~keysOpen => newKey = NoKey
    /\ \A d \in deleting : d.latest => d.here
    /\ ~disturbed => /\ SecretOfStoredKey
                     /\ \A d \in deleting : d.id = newKey =>
                            d.here /\ (d.latest \/ d.saw = d.id)

KeyInv == KeyTypes /\ UsedOnce /\ ListFollows /\ PanelInv

\* No key is shown at the start.
LEMMA KeyStart == KeyInit => KeyInv
<1> SUFFICES ASSUME KeyInit PROVE KeyInv
    OBVIOUS
<1>1. KeyTypes
    BY KeysAssumption, AbsentEntry DEF KeyInit, KeyTypes
<1> QED BY <1>1, AbsentEntry
       DEF KeyInit, KeyInv, UsedOnce, ListFollows, PanelInv, SecretOfStoredKey

\* The list is edited, fetched or asked for, while the keys rest.
LEMMA OpenKeysStep == ASSUME KeyInv, OpenKeys PROVE KeyInv'
<1>1. /\ keyList' \in Entry(SUBSET KeyIds)
      /\ \/ keyList.fetch = "idle" /\ keyList'.fetch = "sent"
         \/ keyList.fetch # "idle" /\ keyList' = keyList
    BY MountedEntry DEF KeyInv, KeyTypes, OpenKeys
<1>2. /\ UNCHANGED <<storedKeys, unusedKeys, newKey, creating, deleting>> /\ keysOpen'
      /\ newKey = NoKey
    BY DEF OpenKeys, KeyInv, PanelInv
<1>3. disturbed' = (disturbed /\ keyList.fetch # "idle")
    BY DEF OpenKeys
<1>4. disturbed' \in BOOLEAN
    BY <1>3
<1>5. KeyTypes' /\ UsedOnce'
    BY <1>1, <1>2, <1>4 DEF KeyInv, KeyTypes, UsedOnce
<1>6. ListFollows'
    BY <1>1, <1>2, <1>3 DEF KeyInv, ListFollows, Follows
<1>7. \A d \in deleting : d.id # newKey
    BY <1>2, KeysAssumption DEF KeyInv, KeyTypes, Deletion
<1>8. PanelInv'
    BY <1>2, <1>7 DEF KeyInv, PanelInv, SecretOfStoredKey
<1> QED BY <1>5, <1>6, <1>8 DEF KeyInv

\* The requests of a page that is left go on without its panel.
LEMMA LeaveKeysStep == ASSUME KeyInv, LeaveKeys PROVE KeyInv'
<1>1. /\ UNCHANGED <<storedKeys, unusedKeys, keyList, disturbed>> /\ ~keysOpen' /\ newKey' = NoKey
      /\ creating' = {[c EXCEPT !.latest = FALSE, !.here = FALSE] : c \in creating}
      /\ deleting' = {[d EXCEPT !.latest = FALSE, !.here = FALSE] : d \in deleting}
      /\ creating \in SUBSET Creation /\ deleting \in SUBSET Deletion
    BY DEF LeaveKeys, KeyInv, KeyTypes
<1>2. ASSUME NEW c \in Creation
      PROVE  /\ [c EXCEPT !.latest = FALSE, !.here = FALSE] \in Creation
             /\ [c EXCEPT !.latest = FALSE, !.here = FALSE].id = c.id
             /\ ~[c EXCEPT !.latest = FALSE, !.here = FALSE].here
    BY DEF Creation
<1>3. ASSUME NEW d \in Deletion
      PROVE  /\ [d EXCEPT !.latest = FALSE, !.here = FALSE] \in Deletion
             /\ [d EXCEPT !.latest = FALSE, !.here = FALSE].id = d.id
             /\ [d EXCEPT !.latest = FALSE, !.here = FALSE].done = d.done
             /\ ~[d EXCEPT !.latest = FALSE, !.here = FALSE].latest
    BY DEF Deletion
<1>4. /\ \A c \in creating' : c \in Creation /\ ~c.here
      /\ \A d \in deleting' : d \in Deletion /\ ~d.latest
    BY <1>1, <1>2, <1>3
<1>5. KeyTypes'
    BY <1>1, <1>4 DEF KeyInv, KeyTypes
<1>6. \A d \in deleting' : \E e \in deleting : e.id = d.id /\ e.done = d.done
    <2> SUFFICES ASSUME NEW d \in deleting' PROVE \E e \in deleting : e.id = d.id /\ e.done = d.done
        OBVIOUS
    <2>1. PICK e \in deleting : d = [e EXCEPT !.latest = FALSE, !.here = FALSE]
        BY <1>1
    <2> QED BY <1>1, <1>3, <2>1
<1>7. UsedOnce'
    BY <1>1, <1>6 DEF KeyInv, UsedOnce
<1>8. \A k : (\E c \in creating : c.id = k) => \E c \in creating' : c.id = k
    BY <1>1, <1>2
<1>9. \A k : (\E d \in deleting : d.id = k /\ d.done) => \E d \in deleting' : d.id = k /\ d.done
    <2> SUFFICES ASSUME NEW d \in deleting, d.done PROVE \E e \in deleting' : e.id = d.id /\ e.done
        OBVIOUS
    <2>1. [d EXCEPT !.latest = FALSE, !.here = FALSE] \in deleting'
        BY <1>1
    <2> QED BY <1>1, <1>3, <2>1
<1>10. ListFollows'
    BY <1>1, <1>8, <1>9 DEF KeyInv, ListFollows, Follows
<1>11. PanelInv'
    BY <1>1, <1>4, KeysAssumption DEF PanelInv, SecretOfStoredKey, Deletion
<1> QED BY <1>5, <1>7, <1>10, <1>11 DEF KeyInv

\* A creation is asked for.
LEMMA CreateStep == ASSUME KeyInv, Create PROVE KeyInv'
<1> DEFINE new == [id |-> NoKey, latest |-> TRUE, here |-> TRUE]
<1>1. /\ UNCHANGED <<storedKeys, unusedKeys, keyList, keysOpen, newKey, deleting, disturbed>>
      /\ creating' = creating \cup {new} /\ keysOpen /\ new \in Creation
    BY DEF Create, CreateEnabled, Creation
<1> HIDE DEF new
<1>2. KeyTypes' /\ UsedOnce' /\ PanelInv'
    BY <1>1 DEF KeyInv, KeyTypes, UsedOnce, PanelInv, SecretOfStoredKey
<1>3. ListFollows'
    BY <1>1 DEF KeyInv, ListFollows, Follows, Keys
<1> QED BY <1>2, <1>3 DEF KeyInv

\* The server stores a key under an id that was never used.
LEMMA StoreKeyStep == ASSUME KeyInv, NEW c \in creating, StoreKey(c) PROVE KeyInv'
<1>1. PICK k \in unusedKeys :
          /\ storedKeys' = storedKeys \cup {k} /\ unusedKeys' = unusedKeys \ {k}
          /\ creating' = (creating \ {c}) \cup {[c EXCEPT !.id = k]}
    BY DEF StoreKey
<1>2. /\ UNCHANGED <<keyList, keysOpen, newKey, deleting, disturbed>> /\ c.id = NoKey
      /\ c \in Creation /\ k \in KeyIds
    BY DEF StoreKey, KeyInv, KeyTypes
<1>3. PICK new \in Creation : new = [c EXCEPT !.id = k]
    BY <1>2 DEF Creation
<1>4. new.id = k /\ new.here = c.here
    BY <1>2, <1>3 DEF Creation
<1>5. KeyTypes' /\ UsedOnce'
    BY <1>1, <1>2, <1>3 DEF KeyInv, KeyTypes, UsedOnce
<1>6. PanelInv'
    BY <1>1, <1>2, <1>3, <1>4 DEF KeyInv, PanelInv, SecretOfStoredKey
<1>7. ASSUME NEW keys, Follows(keys)
      PROVE  /\ \A j \in storedKeys' : j \in keys \/ \E e \in creating' : e.id = j
             /\ \A j \in keys : j \in storedKeys' \/ \E d \in deleting' : d.id = j /\ d.done
    <2>1. \A j \in storedKeys : j # NoKey
        BY KeysAssumption DEF KeyInv, KeyTypes
    <2> QED BY <1>1, <1>2, <1>3, <1>4, <1>7, <2>1 DEF Follows
<1>8. ListFollows'
    BY <1>2, <1>7 DEF KeyInv, ListFollows, Follows, Keys
<1> QED BY <1>5, <1>6, <1>8 DEF KeyInv

\* The answer to a creation asks for the list again.
LEMMA CreateAnsweredStep == ASSUME KeyInv, NEW c \in creating, CreateAnswered(c) PROVE KeyInv'
<1>1. /\ UNCHANGED <<storedKeys, unusedKeys, keysOpen, deleting>> /\ creating' = creating \ {c}
      /\ newKey' = IF c.here THEN c.id ELSE newKey
      /\ keyList' = Invalidate(keyList) /\ c.id \in KeyIds /\ keyList \in Entry(SUBSET KeyIds)
    BY DEF CreateAnswered, KeyInv, KeyTypes, Creation
<1>2. disturbed' = \/ disturbed
                   \/ (keyList.fetch # "idle" /\ keyList' = keyList)
                   \/ c.id \notin storedKeys \/ \E d \in deleting : d.id = c.id
    BY DEF CreateAnswered
<1>3. disturbed' \in BOOLEAN
    BY <1>2 DEF KeyInv, KeyTypes
<1>4. /\ keyList' \in Entry(SUBSET KeyIds)
      /\ keyList'.fetch = "sent" \/ (keyList' = keyList /\ (keyList.fetch = "idle" => ~keysOpen))
    BY <1>1, InvalidatedEntry DEF Invalidate, Loading
<1>5. KeyTypes'
    BY <1>1, <1>3, <1>4 DEF KeyInv, KeyTypes
<1>6. UsedOnce'
    BY <1>1 DEF KeyInv, UsedOnce
<1>7. ListFollows'
    BY <1>1, <1>2, <1>4 DEF ListFollows
<1>8. PanelInv'
    <2>1. ~keysOpen' => newKey' = NoKey
        BY <1>1 DEF KeyInv, PanelInv
    <2>2. ASSUME ~disturbed'
          PROVE  /\ SecretOfStoredKey'
                 /\ \A d \in deleting' : d.id = newKey' => d.here /\ (d.latest \/ d.saw = d.id)
        BY <1>1, <1>2, <2>2 DEF KeyInv, PanelInv, SecretOfStoredKey
    <2> QED BY <1>1, <2>1, <2>2 DEF KeyInv, PanelInv
<1> QED BY <1>5, <1>6, <1>7, <1>8 DEF KeyInv

\* A deletion is asked for; the one before it remembers the key that the panel shows.
LEMMA DeleteStep == ASSUME KeyInv, NEW k \in KeyIds, Delete(k) PROVE KeyInv'
<1> DEFINE new == [id |-> k, done |-> FALSE, latest |-> TRUE, here |-> TRUE, saw |-> NoKey]
           Old(d) == [d EXCEPT !.latest = FALSE, !.saw = IF d.latest THEN newKey ELSE @]
<1>1. /\ UNCHANGED <<storedKeys, unusedKeys, keyList, keysOpen, newKey, creating, disturbed>>
      /\ deleting' = {Old(d) : d \in deleting} \cup {new} /\ deleting \in SUBSET Deletion
      /\ newKey \in KeyIds \cup {NoKey}
    BY DEF Delete, KeyInv, KeyTypes
<1>2. ASSUME NEW d \in Deletion
      PROVE  /\ Old(d) \in Deletion /\ Old(d).id = d.id /\ Old(d).done = d.done
             /\ Old(d).here = d.here /\ ~Old(d).latest
             /\ Old(d).saw = IF d.latest THEN newKey ELSE d.saw
    BY <1>1 DEF Deletion
<1>3. new \in Deletion /\ new.id = k /\ ~new.done /\ new.latest /\ new.here
    BY DEF Deletion
<1> HIDE DEF new, Old
<1>4. \A d \in deleting' : d = new \/ \E e \in deleting : d = Old(e)
    BY <1>1
<1>5. \A d \in deleting : Old(d) \in deleting'
    BY <1>1
<1>6. KeyTypes'
    BY <1>1, <1>2, <1>3, <1>4 DEF KeyInv, KeyTypes
<1>7. UsedOnce'
    <2> SUFFICES ASSUME NEW d \in deleting', d.done PROVE d.id \notin storedKeys \cup unusedKeys
        BY <1>1 DEF KeyInv, UsedOnce
    <2>1. PICK e \in deleting : d = Old(e)
        BY <1>3, <1>4
    <2> QED BY <1>1, <1>2, <2>1 DEF KeyInv, UsedOnce
<1>8. \A j : (\E d \in deleting : d.id = j /\ d.done) => \E d \in deleting' : d.id = j /\ d.done
    BY <1>1, <1>2, <1>5
<1>9. ListFollows'
    BY <1>1, <1>8 DEF KeyInv, ListFollows, Follows, Keys
<1>10. PanelInv'
    <2>1. \A d \in deleting' : d.latest => d.here
        BY <1>1, <1>2, <1>3, <1>4
    <2>2. ASSUME ~disturbed, NEW d \in deleting', d.id = newKey
          PROVE  d.here /\ (d.latest \/ d.saw = d.id)
        <3>1. CASE d = new
            BY <1>3, <3>1
        <3>2. ASSUME NEW e \in deleting, d = Old(e)
              PROVE  d.here /\ (d.latest \/ d.saw = d.id)
            BY <1>1, <1>2, <2>2, <3>2 DEF KeyInv, PanelInv
        <3> QED BY <1>4, <3>1, <3>2
    <2>3. ~disturbed => SecretOfStoredKey'
        <3>1. \A j : (\E d \in deleting : d.id = j) => \E d \in deleting' : d.id = j
            BY <1>1, <1>2, <1>5
        <3> QED BY <1>1, <3>1 DEF KeyInv, PanelInv, SecretOfStoredKey
    <2> QED BY <1>1, <2>1, <2>2, <2>3 DEF KeyInv, PanelInv
<1> QED BY <1>6, <1>7, <1>9, <1>10 DEF KeyInv

\* The server deletes a key, whose list is edited only by the answer.
LEMMA StoreDeletionStep == ASSUME KeyInv, NEW d \in deleting, StoreDeletion(d) PROVE KeyInv'
<1>1. PICK new \in Deletion : new = [d EXCEPT !.done = TRUE]
    BY DEF KeyInv, KeyTypes, Deletion
<1>2. /\ storedKeys' = storedKeys \ {d.id} /\ deleting' = (deleting \ {d}) \cup {new}
      /\ UNCHANGED <<unusedKeys, keyList, keysOpen, newKey, creating, disturbed>>
      /\ d \in Deletion /\ ~d.done /\ d.id \in storedKeys /\ d.id \notin unusedKeys
    BY <1>1 DEF StoreDeletion, KeyInv, KeyTypes, UsedOnce
<1>3. /\ new.id = d.id /\ new.done /\ new.latest = d.latest /\ new.here = d.here
      /\ new.saw = d.saw
    BY <1>1, <1>2 DEF Deletion
<1>4. KeyTypes' /\ UsedOnce'
    BY <1>1, <1>2, <1>3 DEF KeyInv, KeyTypes, UsedOnce
<1>5. ASSUME NEW keys, Follows(keys)
      PROVE  /\ \A k \in storedKeys' : k \in keys \/ \E c \in creating' : c.id = k
             /\ \A k \in keys : k \in storedKeys' \/ \E e \in deleting' : e.id = k /\ e.done
    BY <1>2, <1>3, <1>5 DEF Follows
<1>6. ListFollows'
    BY <1>2, <1>5 DEF KeyInv, ListFollows, Follows, Keys
<1>7. PanelInv'
    <2>1. \A e \in deleting' : \E f \in deleting : /\ e.id = f.id /\ e.latest = f.latest
                                                   /\ e.here = f.here /\ e.saw = f.saw
        BY <1>2, <1>3
    <2>2. ~disturbed => SecretOfStoredKey'
        BY <1>2, <1>3 DEF KeyInv, PanelInv, SecretOfStoredKey
    <2> QED BY <1>2, <2>1, <2>2 DEF KeyInv, PanelInv
<1> QED BY <1>4, <1>6, <1>7 DEF KeyInv

\* The answer to a deletion edits the list and closes the panel of its key.
LEMMA DeleteAnsweredStep == ASSUME KeyInv, NEW d \in deleting, DeleteAnswered(d) PROVE KeyInv'
<1>1. /\ UNCHANGED <<storedKeys, unusedKeys, keysOpen, creating>> /\ deleting' = deleting \ {d}
      /\ keyList' = WithData(keyList, Keys \ {d.id}) /\ newKey' = PanelAfter(d)
      /\ d \in Deletion /\ d.done /\ d.id \notin storedKeys /\ d.id \notin unusedKeys
      /\ keyList \in Entry(SUBSET KeyIds) /\ d.latest \in BOOLEAN
    BY DEF DeleteAnswered, KeyInv, KeyTypes, UsedOnce, Deletion
<1>2. disturbed' = (disturbed \/ keyList.fetch # "idle")
    BY DEF DeleteAnswered
<1>3. disturbed' \in BOOLEAN
    BY <1>2
<1>4. /\ keyList' \in Entry(SUBSET KeyIds) /\ Keys' = Keys \ {d.id}
      /\ keyList'.fetch = keyList.fetch /\ keyList'.answer = keyList.answer
    <2>1. Keys \ {d.id} \in SUBSET KeyIds /\ Keys \ {d.id} # NoData
        BY <1>1, KeysAssumption DEF Keys, Known, Entry
    <2> QED BY <1>1, <2>1, WithDataEntry DEF Keys, Known
<1>5. newKey' = newKey \/ newKey' = NoKey
    BY <1>1 DEF PanelAfter
<1>6. KeyTypes' /\ UsedOnce'
    BY <1>1, <1>3, <1>4, <1>5 DEF KeyInv, KeyTypes, UsedOnce
<1>7. ListFollows'
    <2> SUFFICES ASSUME ~disturbed'
                 PROVE  /\ keyList'.fetch = "answered" => Follows(keyList.answer)'
                        /\ keysOpen' /\ keyList'.fetch = "idle" => Follows(Keys)'
        BY DEF ListFollows
    <2>1. ~disturbed /\ keyList.fetch = "idle"
        BY <1>2
    <2>2. keysOpen => Follows(Keys)
        BY <2>1 DEF KeyInv, ListFollows
    <2>3. keysOpen => Follows(Keys)'
        BY <1>1, <1>4, <2>2 DEF Follows
    <2> QED BY <1>1, <1>4, <2>1, <2>3
<1>8. PanelInv'
    <2>1. CASE newKey' = NoKey
        <3>1. \A e \in deleting' : e.id # newKey'
            BY <1>6, <2>1, KeysAssumption DEF KeyTypes, Deletion
        <3> QED BY <1>1, <2>1, <3>1 DEF KeyInv, PanelInv, SecretOfStoredKey
    <2>2. CASE newKey' = newKey /\ newKey # NoKey
        <3>1. ~disturbed => d.id # newKey
            <4>1. ~disturbed /\ d.id = newKey => d.here /\ (d.latest \/ d.saw = d.id)
                BY DEF KeyInv, PanelInv
            <4> QED BY <1>1, <2>2, <4>1 DEF PanelAfter
        <3>2. disturbed => disturbed'
            BY <1>2
        <3>3. ~disturbed' => SecretOfStoredKey'
            BY <1>1, <2>2, <3>1, <3>2 DEF KeyInv, PanelInv, SecretOfStoredKey
        <3> QED BY <1>1, <2>2, <3>2, <3>3 DEF KeyInv, PanelInv
    <2> QED BY <1>5, <2>1, <2>2
<1> QED BY <1>6, <1>7, <1>8 DEF KeyInv

\* A failure is recorded as a disturbance.
LEMMA MutationFailsStep == ASSUME KeyInv, MutationFails PROVE KeyInv'
<1>1. /\ UNCHANGED <<storedKeys, unusedKeys, keyList, keysOpen, newKey>> /\ disturbed' = TRUE
      /\ creating' \subseteq creating /\ deleting' \subseteq deleting
    BY DEF MutationFails
<1>2. KeyTypes' /\ UsedOnce' /\ ListFollows' /\ PanelInv'
    BY <1>1 DEF KeyInv, KeyTypes, UsedOnce, ListFollows, PanelInv
<1> QED BY <1>2 DEF KeyInv

\* The list is asked for, or an answer comes.
LEMMA KeyListStep ==
    ASSUME KeyInv, UNCHANGED <<storedKeys, unusedKeys, keysOpen, newKey, creating, deleting>>,
           keyList' \in Entry(SUBSET KeyIds),
           keyList'.fetch = "answered" => keyList'.answer \in SUBSET KeyIds,
           disturbed' \in BOOLEAN, disturbed => disturbed',
           ~disturbed' =>
               /\ keyList'.fetch = "answered" =>
                      \/ keyList'.answer = storedKeys
                      \/ keyList.fetch = "answered" /\ keyList'.answer = keyList.answer
               /\ keysOpen /\ keyList'.fetch = "idle" =>
                      \/ keyList.fetch = "answered" /\ Keys' = keyList.answer
                      \/ keyList.fetch = "idle" /\ Keys' = Keys
    PROVE  KeyInv'
<1>1. KeyTypes' /\ UsedOnce'
    BY DEF KeyInv, KeyTypes, UsedOnce
<1>2. Follows(storedKeys)
    BY DEF Follows
<1>3. \A keys : Follows(keys) =>
          /\ \A k \in storedKeys' : k \in keys \/ \E c \in creating' : c.id = k
          /\ \A k \in keys : k \in storedKeys' \/ \E d \in deleting' : d.id = k /\ d.done
    BY DEF Follows
<1>4. ListFollows'
    <2> SUFFICES ASSUME ~disturbed'
                 PROVE  /\ keyList'.fetch = "answered" => Follows(keyList.answer)'
                        /\ keysOpen' /\ keyList'.fetch = "idle" => Follows(Keys)'
        BY DEF ListFollows
    <2>1. keyList'.fetch = "answered" => Follows(keyList.answer)'
        BY <1>2, <1>3 DEF KeyInv, ListFollows, Follows
    <2>2. keysOpen' /\ keyList'.fetch = "idle" => Follows(Keys)'
        BY <1>3 DEF KeyInv, ListFollows, Follows
    <2> QED BY <2>1, <2>2
<1>5. PanelInv'
    BY DEF KeyInv, PanelInv, SecretOfStoredKey
<1> QED BY <1>1, <1>4, <1>5 DEF KeyInv

\* A fetch takes the stored keys.
LEMMA FetchKeysStep == ASSUME KeyInv, FetchKeys PROVE KeyInv'
<1>1. PICK q \in Fetched(keyList, storedKeys) :
          /\ keyList' = q /\ disturbed' = (disturbed \/ q.failed)
          /\ UNCHANGED <<storedKeys, unusedKeys, keysOpen, newKey, creating, deleting>>
    BY DEF FetchKeys
<1>2. /\ storedKeys \in SUBSET KeyIds /\ keyList \in Entry(SUBSET KeyIds)
      /\ keyList.fetch = "answered" => keyList.answer \in SUBSET KeyIds
    BY DEF KeyInv, KeyTypes
<1>3. /\ q \in Entry(SUBSET KeyIds)
      /\ \/ q.fetch = "answered" /\ q.answer = storedKeys
         \/ q.fetch = "refused"
         \/ keyList.fetch = "answered" /\ q.fetch = "idle" /\ q.data = keyList.answer
         \/ q.fetch = "idle" /\ q.failed
    BY <1>2, FetchedEntry
<1>4. disturbed' \in BOOLEAN /\ (disturbed => disturbed') /\ (q.failed => disturbed')
    BY <1>1
<1>5. keyList.fetch = "answered" /\ q.data = keyList.answer => Keys' = keyList.answer
    BY <1>1, <1>2, KeysAssumption DEF Keys, Known
<1> QED BY <1>1, <1>2, <1>3, <1>4, <1>5, KeyListStep

\* The list is fetched again.
LEMMA KeysReconnectStep == ASSUME KeyInv, KeysReconnect PROVE KeyInv'
<1>1. /\ UNCHANGED <<storedKeys, unusedKeys, keysOpen, newKey, creating, deleting, disturbed>>
      /\ keyList' = Mounted(keyList) /\ keyList \in Entry(SUBSET KeyIds) /\ disturbed \in BOOLEAN
    BY DEF KeysReconnect, KeyInv, KeyTypes
<1>2. /\ keyList' \in Entry(SUBSET KeyIds)
      /\ \/ keyList.fetch = "idle" /\ keyList'.fetch = "sent"
         \/ keyList.fetch # "idle" /\ keyList' = keyList
    BY <1>1, MountedEntry
<1> QED BY <1>1, <1>2, KeyListStep DEF KeyInv, KeyTypes

\* Every action of the keys keeps the invariant.
LEMMA KeyStep == KeyInv /\ [KeyNext]_keyVars => KeyInv'
<1> SUFFICES ASSUME KeyInv, [KeyNext]_keyVars PROVE KeyInv'
    OBVIOUS
<1>1. CASE UNCHANGED keyVars
    <2>1. /\ UNCHANGED <<storedKeys, unusedKeys, keysOpen, newKey, creating, deleting, disturbed>>
          /\ UNCHANGED keyList /\ Keys' = Keys
        BY <1>1 DEF keyVars, Keys
    <2> QED BY <2>1, KeyListStep DEF KeyInv, KeyTypes
<1> QED BY <1>1, OpenKeysStep, LeaveKeysStep, CreateStep, StoreKeyStep, CreateAnsweredStep,
           DeleteStep, StoreDeletionStep, DeleteAnsweredStep, MutationFailsStep, FetchKeysStep,
           KeysReconnectStep DEF KeyNext

\* The page lists the stored keys when nothing is under way, but for the races that
\* `disturbed' records: for any keys and requests (api-keys-page.tsx:54-73 fetches the
\* list after a creation and edits it after a deletion).
THEOREM SettledKeysAreStoredAlways == KeySpec => []SettledKeysAreStored
<1>1. KeyInv => SettledKeysAreStored
    <2> SUFFICES ASSUME KeyInv, keysOpen, keyList.fetch = "idle", creating = {}, deleting = {},
                        ~disturbed
                 PROVE  Keys = storedKeys
        BY DEF SettledKeysAreStored
    <2> QED BY DEF KeyInv, ListFollows, Follows
<1> QED BY <1>1, KeyStart, KeyStep, PTL DEF KeySpec

\* The panel shows the secret of a stored key or of one whose deletion is under way, but
\* for the races that `disturbed' records: for any keys and requests (api-keys-page.tsx:
\* 69-71, the handler of a deletion compares with the key that is shown).
THEOREM SecretOfStoredKeyAlways == KeySpec => []SecretOfStoredKey
<1>1. KeyInv => SecretOfStoredKey
    BY DEF KeyInv, PanelInv, SecretOfStoredKey
<1> QED BY <1>1, KeyStart, KeyStep, PTL DEF KeySpec
=============================================================================
