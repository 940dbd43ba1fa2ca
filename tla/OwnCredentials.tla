--------------------------- MODULE OwnCredentials ---------------------------
(***************************************************************************)
(* A user's upstream credentials in the console.  The BYOK page and the    *)
(* setup page show one cached list, which answers of mutations edit in     *)
(* place and which is fetched again only when a page opens: an edit that   *)
(* meets a fetch under way is overwritten by it.                           *)
(***************************************************************************)
EXTENDS QueryCache, FiniteSets, Naturals

CONSTANTS
    Own,             \* the user's credentials,
    OldOwn,          \* those that exist at the start,
    Metered,         \* those of providers with a quota or a balance to refresh,
    Outdated,        \* and those of a compatible endpoint without an alias
    NoAnswer,
    MaxOwnRequests,  \* bound: mutations under way at a time
    MaxOwnFaults     \* bound: failures, reconnects and changes by others

VARIABLES
    stored,          \* stored: [Own -> "unborn", "private", "pool", "gone"]
    ownList,         \* cache: ["me", "upstream-credentials"]
    page,            \* the page shown
    requests,        \* mutations under way
    ownFaults,
    upset            \* history: an answer was lost or met another one under way,
                     \* a new credential was fetched before the answer to its
                     \* creation, or others changed the credentials

ownVars == <<stored, ownList, page, requests, ownFaults, upset>>

-----------------------------------------------------------------------------
\* `copy' tells apart the rows of a credential that is listed twice.
Row == [id : Own, place : {"private", "pool"}, copy : {1, 2}]

ASSUME OwnAssumption ==
    /\ \A rows \in SUBSET Row : rows # NoData
    /\ NoAnswer \notin {"private", "pool", "gone"}

Kinds == {"add", "share", "refresh", "delete"}

\* `latest': the one of its kind that the page watches.
Request == [kind : Kinds, id : Own, answer : {NoAnswer, "private", "pool", "gone"},
            latest : BOOLEAN]

Listed == Known(ownList, {})

Exists(c) == stored[c] \in {"private", "pool"}

ServerList == {[id |-> c, place |-> stored[c], copy |-> 1] :
                    c \in {d \in Own : Exists(d)}}

Busy(kind, c) == \E r \in requests : r.kind = kind /\ r.id = c /\ r.latest

CardsShown == page = "byok" /\ ~Loading(ownList) /\ ~ownList.failed

InPool(c) == \E row \in Listed : row.id = c /\ row.place = "pool"

IsListed(c) == \E row \in Listed : row.id = c

-----------------------------------------------------------------------------
OwnInit ==
    /\ stored = [c \in Own |-> IF c \in OldOwn THEN "private" ELSE "unborn"]
    /\ ownList = Absent /\ page = "closed"
    /\ requests = {} /\ ownFaults = 0 /\ upset = FALSE

OpenCredentials ==
    /\ page = "closed"
    /\ page' \in {"byok", "setup"}
    /\ ownList' = Mounted(ownList)
    /\ upset' = ((upset /\ ownList.fetch # "idle") \/ requests # {})
    /\ UNCHANGED <<stored, requests, ownFaults>>

LeaveCredentials ==
    /\ page # "closed" /\ page' = "closed"
    /\ requests' = {[r EXCEPT !.latest = FALSE] : r \in requests}
    /\ UNCHANGED <<stored, ownList, ownFaults, upset>>

Send(kind, c) ==
    /\ Cardinality(requests) < MaxOwnRequests
    /\ requests' = {[r EXCEPT !.latest = @ /\ r.kind # kind] : r \in requests}
            \cup {[kind |-> kind, id |-> c, answer |-> NoAnswer, latest |-> TRUE]}
    /\ UNCHANGED <<stored, ownList, page, ownFaults, upset>>

\* The form of the BYOK page is open whether or not the list is loaded.
AddCredential(c) ==
    /\ page = "byok" /\ stored[c] = "unborn"
    /\ \A r \in requests : r.id # c /\ ~(r.kind = "add" /\ r.latest)
    /\ Send("add", c)

\* Buttons of the card of a credential.
ClickShare(c) ==
    /\ CardsShown /\ IsListed(c) /\ ~InPool(c)
    /\ ~Busy("share", c) /\ ~Busy("delete", c) /\ c \notin Outdated
    /\ Send("share", c)

ClickRefresh(c) ==
    /\ CardsShown /\ IsListed(c) /\ c \in Metered /\ ~Busy("refresh", c)
    /\ Send("refresh", c)

ClickDelete(c) ==
    /\ CardsShown /\ IsListed(c) /\ ~Busy("delete", c) /\ ~Busy("share", c)
    /\ Send("delete", c)

\* The setup page lists what the cache has, also after a failure, and allows
\* one sharing at a time.
ShareFromSetup(c) ==
    /\ page = "setup" /\ IsListed(c) /\ ~InPool(c)
    /\ ~\E r \in requests : r.kind = "share" /\ r.latest
    /\ Send("share", c)

\* The server: what is stored for a credential after a request about it.
Place(r) ==
    CASE r.kind = "add"     -> "private"
      [] r.kind = "share"   -> "pool"
      [] r.kind = "refresh" -> stored[r.id]
      [] r.kind = "delete"  -> "gone"

ServeRequest(r) ==
    /\ r.answer = NoAnswer
    /\ r.kind = "add" \/ Exists(r.id)
    /\ stored' = [stored EXCEPT ![r.id] = Place(r)]
    /\ requests' = (requests \ {r}) \cup {[r EXCEPT !.answer = Place(r)]}
    /\ UNCHANGED <<ownList, page, ownFaults, upset>>

\* What the handlers of the four mutations make of the list.
Appended(rows, c) ==
    rows \cup {[id |-> c, place |-> "private",
                copy |-> IF IsListed(c) THEN 2 ELSE 1]}

\* Mutant: the answer is not put in place of the row.
ReplacedNothing(rows, c, place) == rows

Replaced(rows, c, place) ==
    {IF row.id = c THEN [row EXCEPT !.place = place] ELSE row : row \in rows}

Without(rows, c) == {row \in rows : row.id # c}

Edited(r) ==
    CASE r.kind = "add"    -> Appended(Listed, r.id)
      [] r.kind = "delete" -> Without(Listed, r.id)
      [] OTHER             -> Replaced(Listed, r.id, r.answer)

RequestAnswered(r) ==
    /\ r.answer # NoAnswer
    /\ requests' = requests \ {r}
    /\ ownList' = WithData(ownList, Edited(r))
    /\ upset' = \/ upset \/ ownList.fetch # "idle" \/ page = "closed"
                \/ \E o \in requests \ {r} : o.id = r.id
    /\ UNCHANGED <<stored, page, ownFaults>>

\* An error, with or without effect; a request about a credential that is gone
\* has no other answer.
RequestFails(r) ==
    /\ requests' = requests \ {r}
    /\ \/ ownFaults < MaxOwnFaults /\ ownFaults' = ownFaults + 1
       \/ /\ r.kind # "add" /\ r.answer = NoAnswer /\ ~Exists(r.id)
          /\ UNCHANGED ownFaults
    /\ upset' = TRUE
    /\ UNCHANGED <<stored, ownList, page>>

FetchCredentials ==
    \E q \in Fetched(ownList, ServerList) :
        /\ ownList' = q
        /\ q.fetch = "refused" => ownFaults < MaxOwnFaults
        /\ ownFaults' = IF q.fetch = "refused" THEN ownFaults + 1 ELSE ownFaults
        /\ upset' = \/ upset \/ q.failed
                    \/ /\ q.fetch = "idle"
                       /\ \E r \in requests : r.kind = "add" /\ r.answer # NoAnswer
        /\ UNCHANGED <<stored, page, requests>>

\* The browser is online again, or others act: an administrator withdraws a
\* credential or deletes it.
OutsideOwn ==
    /\ ownFaults < MaxOwnFaults /\ ownFaults' = ownFaults + 1
    /\ \/ page # "closed" /\ ownList' = Mounted(ownList) /\ UNCHANGED <<stored, upset>>
       \/ /\ \E c \in Own : \E p \in {"gone", "private"} \ {stored[c]} :
                Exists(c) /\ stored' = [stored EXCEPT ![c] = p]
          /\ upset' = TRUE /\ UNCHANGED ownList
    /\ UNCHANGED <<page, requests>>

OwnNext ==
    \/ OpenCredentials \/ LeaveCredentials
    \/ \E c \in Own : \/ AddCredential(c) \/ ClickShare(c) \/ ClickRefresh(c)
                      \/ ClickDelete(c) \/ ShareFromSetup(c)
    \/ \E r \in requests : ServeRequest(r) \/ RequestAnswered(r) \/ RequestFails(r)
    \/ FetchCredentials \/ OutsideOwn

OwnSpec == OwnInit /\ [][OwnNext]_ownVars

-----------------------------------------------------------------------------
\* Once nothing is under way the page shows the stored credentials, each once,
\* unless an answer met a fetch or another request about its credential, a
\* new credential was fetched before its answer, or others were at work (lines 85-131
\* of the BYOK page, 79-88 of the setup page: no handler fetches the
\* list again).
SettledListIsStored ==
    page # "closed" /\ requests = {} /\ ownList.fetch = "idle" /\ ~upset
        => Listed = ServerList
=============================================================================
