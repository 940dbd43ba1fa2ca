----------------------------- MODULE ApiKeyPage -----------------------------
(***************************************************************************)
(* The API key page: keys are created and deleted, the secret of a new key *)
(* is shown once, and the list follows the stored keys by an invalidation  *)
(* after a creation and by an edit of the cache after a deletion.          *)
(***************************************************************************)
EXTENDS QueryCache, FiniteSets, Naturals

CONSTANTS
    KeyIds,        \* keys of the user,
    OldKeys,       \* and those of them that exist at the start
    NoKey,
    MaxKeyRequests,\* bound: mutations under way at a time
    MaxKeyFaults   \* bound: failures and interruptions of the network

ASSUME KeysAssumption ==
    /\ OldKeys \subseteq KeyIds /\ NoKey \notin KeyIds
    /\ \A keys \in SUBSET KeyIds : keys # NoData

VARIABLES
    storedKeys,    \* stored: the user's active keys
    unusedKeys,    \* ids not yet given to a key
    keyList,       \* cache: ["me", "api-keys"]
    keysOpen,      \* the page is shown
    newKey,        \* the key whose secret the page shows
    creating,      \* POST requests under way
    deleting,      \* DELETE requests under way
    keyFaults,
    disturbed      \* history: an answer met a fetch it could not restart, came
                   \* after the key was deleted, or was an error

keyVars == <<storedKeys, unusedKeys, keyList, keysOpen, newKey, creating,
             deleting, keyFaults, disturbed>>

-----------------------------------------------------------------------------
\* `latest': the page watches this request, and its handler sees the page as it
\* is; an earlier one keeps the handler of the page as it was (`saw').
Creation == [id : KeyIds \cup {NoKey}, latest : BOOLEAN, here : BOOLEAN]

Deletion == [id : KeyIds, done : BOOLEAN, latest : BOOLEAN, here : BOOLEAN,
             saw : KeyIds \cup {NoKey}]

Keys == Known(keyList, {})

\* A list that could not be loaded is shown as an empty one.
ShownKeys == IF Loading(keyList) THEN {} ELSE Keys

CreateEnabled == keysOpen /\ \A c \in creating : ~c.latest

DeleteEnabled(k) ==
    keysOpen /\ k \in ShownKeys /\ ~\E d \in deleting : d.latest /\ d.id = k

\* Mutant: a creation does not ask for the list again.
InvalidateNothing(q) == q

Invalidate(q) == IF keysOpen THEN Invalidated(q) ELSE q

-----------------------------------------------------------------------------
KeyInit ==
    /\ storedKeys = OldKeys /\ unusedKeys = KeyIds \ OldKeys
    /\ keyList = Absent /\ keysOpen = FALSE
    /\ newKey = NoKey /\ creating = {} /\ deleting = {}
    /\ keyFaults = 0 /\ disturbed = FALSE

OpenKeys ==
    /\ ~keysOpen /\ keysOpen' = TRUE
    /\ keyList' = Mounted(keyList)
    /\ disturbed' = (disturbed /\ keyList.fetch # "idle")
    /\ UNCHANGED <<storedKeys, unusedKeys, newKey, creating, deleting, keyFaults>>

LeaveKeys ==
    /\ keysOpen /\ keysOpen' = FALSE
    /\ newKey' = NoKey
    /\ creating' = {[c EXCEPT !.latest = FALSE, !.here = FALSE] : c \in creating}
    /\ deleting' = {[d EXCEPT !.latest = FALSE, !.here = FALSE] : d \in deleting}
    /\ UNCHANGED <<storedKeys, unusedKeys, keyList, keyFaults, disturbed>>

RequestsLeft == Cardinality(creating) + Cardinality(deleting) < MaxKeyRequests

Create ==
    /\ CreateEnabled /\ RequestsLeft
    /\ creating' = creating \cup {[id |-> NoKey, latest |-> TRUE, here |-> TRUE]}
    /\ UNCHANGED <<storedKeys, unusedKeys, keyList, keysOpen, newKey, deleting,
                   keyFaults, disturbed>>

StoreKey(c) ==
    /\ c.id = NoKey
    /\ \E k \in unusedKeys :
        /\ storedKeys' = storedKeys \cup {k}
        /\ unusedKeys' = unusedKeys \ {k}
        /\ creating' = (creating \ {c}) \cup {[c EXCEPT !.id = k]}
    /\ UNCHANGED <<keyList, keysOpen, newKey, deleting, keyFaults, disturbed>>

\* The handler runs also when the user has left the page.
CreateAnswered(c) ==
    /\ c.id # NoKey
    /\ creating' = creating \ {c}
    /\ newKey' = IF c.here THEN c.id ELSE newKey
    /\ keyList' = Invalidate(keyList)
    /\ disturbed' = \/ disturbed
                      \/ (keyList.fetch # "idle" /\ keyList' = keyList)
                      \/ c.id \notin storedKeys \/ \E d \in deleting : d.id = c.id
    /\ UNCHANGED <<storedKeys, unusedKeys, keysOpen, deleting, keyFaults>>

\* A confirmed click on the delete button of a row.
Delete(k) ==
    /\ DeleteEnabled(k) /\ RequestsLeft
    /\ deleting' = {[d EXCEPT !.latest = FALSE,
                              !.saw = IF d.latest THEN newKey ELSE @] : d \in deleting}
            \cup {[id |-> k, done |-> FALSE, latest |-> TRUE, here |-> TRUE,
                   saw |-> NoKey]}
    /\ UNCHANGED <<storedKeys, unusedKeys, keyList, keysOpen, newKey, creating,
                   keyFaults, disturbed>>

StoreDeletion(d) ==
    /\ ~d.done /\ d.id \in storedKeys
    /\ storedKeys' = storedKeys \ {d.id}
    /\ deleting' = (deleting \ {d}) \cup {[d EXCEPT !.done = TRUE]}
    /\ UNCHANGED <<unusedKeys, keyList, keysOpen, newKey, creating, keyFaults,
                   disturbed>>

\* Mutant: the handler compares with the key shown when it was made.
PanelAfterStale(d) == IF d.here /\ d.saw = d.id THEN NoKey ELSE newKey

\* Of a page the user has left the handler still edits the cache.
PanelAfter(d) ==
    LET seen == IF d.latest THEN newKey ELSE d.saw
    IN IF d.here /\ seen = d.id THEN NoKey ELSE newKey

DeleteAnswered(d) ==
    /\ d.done
    /\ deleting' = deleting \ {d}
    /\ keyList' = WithData(keyList, Keys \ {d.id})
    /\ newKey' = PanelAfter(d)
    /\ disturbed' = (disturbed \/ keyList.fetch # "idle")
    /\ UNCHANGED <<storedKeys, unusedKeys, keysOpen, creating, keyFaults>>

\* An error, with or without effect: the handlers for success do not run.  A
\* deletion of a deleted key is an error as well.
MutationFails ==
    /\ \/ \E c \in creating : creating' = creating \ {c} /\ UNCHANGED deleting
       \/ \E d \in deleting : deleting' = deleting \ {d} /\ UNCHANGED creating
    /\ \/ keyFaults < MaxKeyFaults /\ keyFaults' = keyFaults + 1
       \/ /\ \E d \in deleting \ deleting' : ~d.done /\ d.id \notin storedKeys
          /\ UNCHANGED keyFaults
    /\ disturbed' = TRUE
    /\ UNCHANGED <<storedKeys, unusedKeys, keyList, keysOpen, newKey>>

FetchKeys ==
    \E q \in Fetched(keyList, storedKeys) :
        /\ keyList' = q
        /\ q.fetch = "refused" => keyFaults < MaxKeyFaults
        /\ keyFaults' = IF q.fetch = "refused" THEN keyFaults + 1 ELSE keyFaults
        /\ disturbed' = (disturbed \/ q.failed)
        /\ UNCHANGED <<storedKeys, unusedKeys, keysOpen, newKey, creating, deleting>>

KeysReconnect ==
    /\ keysOpen /\ keyFaults < MaxKeyFaults /\ keyFaults' = keyFaults + 1
    /\ keyList' = Mounted(keyList)
    /\ UNCHANGED <<storedKeys, unusedKeys, keysOpen, newKey, creating, deleting,
                   disturbed>>

KeyNext ==
    \/ OpenKeys \/ LeaveKeys \/ Create
    \/ \E c \in creating : StoreKey(c) \/ CreateAnswered(c)
    \/ \E k \in KeyIds : Delete(k)
    \/ \E d \in deleting : StoreDeletion(d) \/ DeleteAnswered(d)
    \/ MutationFails \/ FetchKeys \/ KeysReconnect

KeySpec == KeyInit /\ [][KeyNext]_keyVars

-----------------------------------------------------------------------------
\* Once nothing is under way the page lists exactly the stored keys, unless an
\* answer met a fetch it could not restart or was an error (lines 59, 65-68: a
\* creation refetches the list, a deletion edits it).
SettledKeysAreStored ==
    keysOpen /\ keyList.fetch = "idle"
        /\ creating = {} /\ deleting = {} /\ ~disturbed
            => Keys = storedKeys

\* The page shows the secret of a deleted key only until the answer to the
\* deletion, unless an answer came out of order or was lost (lines 69-71: the
\* handler compares with the key shown when it runs, not when it was made).
SecretOfStoredKey ==
    newKey \in storedKeys \cup {NoKey} \/ disturbed
        \/ \E d \in deleting : d.id = newKey
=============================================================================
