----------------------------- MODULE AdminLists -----------------------------
(***************************************************************************)
(* The administrators' pages of custom models, quotas and issued tokens.   *)
(* Every answer of a mutation invalidates the list it is about and waits   *)
(* for it; the pages differ in what may be clicked meanwhile.              *)
(***************************************************************************)
EXTENDS QueryCache, Naturals

CONSTANTS
    Items,           \* models, quota rules or tokens
    OldItems,        \* the models and rules that exist at the start
    Activations,     \* the tokens that the second list of the tokens shows
    MaxAsked,        \* bound: mutations asked for
    MaxListFaults    \* bound: failures, reconnects and changes by others

ASSUME ListsAssumption ==
    \A shown \in SUBSET (Items \X {"none", "on", "off"}) : shown # NoData

VARIABLES
    listPage,        \* the page of the console
    listOpen,
    items,           \* stored: absent, enabled or disabled; quotas: two limits
    lists,           \* cache: an entry for each list of the page
    asked,           \* mutations under way
    asks,            \* and how many there have been
    listFaults,
    outdated         \* history: lists that may be older than their last answer

listVars == <<listPage, listOpen, items, lists, asked, asks,
              listFaults, outdated>>

-----------------------------------------------------------------------------
States == {"none", "on", "off"}

\* A mutation is sent, done by the server, and waits for the list.  Requests
\* that ask the same are one.
Asked == [kind : {"create", "save", "toggle", "delete", "revoke"}, item : Items,
          want : States, stage : {"sent", "done", "waits"}, here : BOOLEAN]

\* queryKey of the page, or the one that is given to the button of a row.
ListKey(i) ==
    CASE listPage = "models" -> "admin-models"
      [] listPage = "quotas" -> "admin-quotas"
      [] listPage = "users"  -> IF i \in Activations THEN "activations" ELSE "sessions"

ListKeys == {ListKey(i) : i \in Items}

ServedItems(l) == {<<i, items[i]>> : i \in {j \in Items : items[j] # "none" /\ ListKey(j) = l}}

\* A list that could not be loaded is shown as an empty one.
ShownItems(l) == Known(lists[l], {})

\* isPending of one mutation of the page, or of the button of a row.
IsPending(kind, on) == \E a \in asked : a.here /\ a.kind = kind /\ a.item \in on

-----------------------------------------------------------------------------
ListInit ==
    /\ listPage \in {"models", "quotas", "users"}
    /\ items = [i \in Items |->
                    IF listPage = "users" \/ i \in OldItems THEN "on" ELSE "none"]
    /\ lists = [l \in ListKeys |-> Absent]
    /\ listOpen = FALSE /\ asked = {} /\ asks = 0 /\ listFaults = 0 /\ outdated = {}

OpenList ==
    /\ ~listOpen /\ listOpen' = TRUE
    /\ lists' = [l \in ListKeys |-> Mounted(lists[l])]
    /\ outdated' = {l \in outdated : lists[l].fetch # "idle"}
    /\ UNCHANGED <<listPage, items, asked, asks, listFaults>>

LeaveList ==
    /\ listOpen /\ listOpen' = FALSE
    /\ asked' = {[a EXCEPT !.here = FALSE] : a \in {b \in asked : b.stage # "waits"}}
    /\ UNCHANGED <<listPage, items, lists, asks, listFaults, outdated>>

Ask(kind, i, want) ==
    /\ listOpen /\ asks < MaxAsked /\ asks' = asks + 1
    /\ asked' = asked \cup {[kind |-> kind, item |-> i, want |-> want,
                             stage |-> "sent", here |-> TRUE]}
    /\ UNCHANGED <<listPage, listOpen, items, lists, listFaults, outdated>>

\* Forms, for any name; one request at a time.
CreateModel(i) ==
    /\ listPage = "models" /\ ~IsPending("create", Items)
    /\ Ask("create", i, "on")

SaveQuota(i, limit) ==
    /\ listPage = "quotas" /\ ~IsPending("save", Items)
    /\ Ask("save", i, limit)

\* Buttons of a row: the two of a model are always enabled.
ToggleModel(i) ==
    /\ listPage = "models"
    /\ \E now \in {"on", "off"} :
        /\ <<i, now>> \in ShownItems(ListKey(i))
        /\ Ask("toggle", i, IF now = "on" THEN "off" ELSE "on")

DeleteModel(i) ==
    /\ listPage = "models" /\ \E now \in States : <<i, now>> \in ShownItems(ListKey(i))
    /\ Ask("delete", i, "none")

RevokeToken(i) ==
    /\ listPage = "users" /\ ~IsPending("revoke", {i})
    /\ \E now \in States : <<i, now>> \in ShownItems(ListKey(i))
    /\ Ask("revoke", i, "off")

\* A model is created once; it is changed and deleted while it exists.
Accepted(a) ==
    CASE a.kind = "create" -> items[a.item] = "none"
      [] a.kind = "save"   -> TRUE
      [] OTHER             -> items[a.item] # "none"

ServeAsked(a) ==
    /\ a.stage = "sent" /\ Accepted(a)
    /\ items' = [items EXCEPT ![a.item] = a.want]
    /\ asked' = (asked \ {a}) \cup {[a EXCEPT !.stage = "done"]}
    /\ UNCHANGED <<listPage, listOpen, lists, asks, listFaults, outdated>>

AskedAfter(l, q) == {a \in asked : a.stage = "waits" /\ ListKey(a.item) = l /\ q # lists[l]}

\* Mutant: a fetch under way is joined instead of repeated.
InvalidateUnlessBusy(q) == IF listOpen THEN Mounted(q) ELSE q

InvalidateList(q) == IF listOpen THEN Invalidated(q) ELSE q

\* The first load cannot be repeated: the answer joins it.  A fetch that is
\* dropped lets those go that waited for it.
AskedAnswered(a) ==
    LET l == ListKey(a.item)
        q == InvalidateList(lists[l])
    IN /\ a.stage = "done"
       /\ lists' = [lists EXCEPT ![l] = q]
       /\ asked' = (asked \ ({a} \cup AskedAfter(l, q)))
                \cup (IF a.here THEN {[a EXCEPT !.stage = "waits"]} ELSE {})
       /\ outdated' = IF ~listOpen \/ Loading(lists[l])
                        THEN outdated \cup {l} ELSE outdated \ {l}
       /\ UNCHANGED <<listPage, listOpen, items, asks, listFaults>>

SpendListFault == listFaults < MaxListFaults /\ listFaults' = listFaults + 1

\* An error, with or without effect; of a request not accepted always.
AskedRefused(a) ==
    /\ a.stage # "waits"
    /\ asked' = asked \ {a}
    /\ SpendListFault \/ (a.stage = "sent" /\ ~Accepted(a) /\ UNCHANGED listFaults)
    /\ outdated' = IF a.stage = "done" THEN outdated \cup {ListKey(a.item)} ELSE outdated
    /\ UNCHANGED <<listPage, listOpen, items, lists, asks>>

FetchList ==
    \E l \in ListKeys : \E q \in Fetched(lists[l], ServedItems(l)) :
        /\ lists' = [lists EXCEPT ![l] = q]
        /\ IF q.fetch = "refused" THEN SpendListFault ELSE UNCHANGED listFaults
        /\ asked' = IF q.fetch = "idle" THEN asked \ AskedAfter(l, q) ELSE asked
        /\ UNCHANGED <<listPage, listOpen, items, asks, outdated>>

\* The browser is online again, or another administrator acts.
OutsideList ==
    /\ SpendListFault
    /\ \/ /\ listOpen /\ lists' = [l \in ListKeys |-> Mounted(lists[l])]
          /\ UNCHANGED <<items, outdated>>
       \/ /\ \E i \in Items : \E s \in States \ {items[i]} :
                /\ items' = [items EXCEPT ![i] = s]
                /\ outdated' = outdated \cup {ListKey(i)}
          /\ UNCHANGED lists
    /\ UNCHANGED <<listPage, listOpen, asked, asks>>

ListNext ==
    \/ OpenList \/ LeaveList
    \/ \E i \in Items : \/ CreateModel(i) \/ ToggleModel(i) \/ DeleteModel(i)
                        \/ RevokeToken(i)
                        \/ \E limit \in {"on", "off"} : SaveQuota(i, limit)
    \/ \E a \in asked : ServeAsked(a) \/ AskedAnswered(a) \/ AskedRefused(a)
    \/ FetchList \/ OutsideList

ListSpec == ListInit /\ [][ListNext]_listVars

-----------------------------------------------------------------------------
\* A list that is fetched and has no request of this page under way is what the
\* server has, unless the last answer joined the first load, came when the page
\* was closed or was lost, or others wrote (lines 55-88 of the models, 25-30 of
\* the quotas, 24-31 of the tokens: each answer asks for its own list again).
SettledListsAreStored ==
    \A l \in ListKeys \ outdated :
        listOpen /\ lists[l].fetch = "idle" /\ ~lists[l].failed
            /\ {a \in asked : ListKey(a.item) = l /\ a.stage = "done"} = {}
                => ShownItems(l) = ServedItems(l)
=============================================================================
