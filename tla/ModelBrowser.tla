---------------------------- MODULE ModelBrowser ----------------------------
(***************************************************************************)
(* The models listed on the API key page: a card that is expanded and      *)
(* collapsed, with the models in groups that are opened one by one, and a  *)
(* search that shows every group open while it lasts.                      *)
(***************************************************************************)
EXTENDS QueryCache, Naturals

CONSTANTS
    Offers,        \* sets of models the server may offer
    Found,         \* ids and names that the searched word finds
    MaxOffers      \* bound: changes of the offer, failures, reconnects

VARIABLES
    offered,       \* server: the models the user can be routed to
    offer,         \* cache: ["ui-models", "routable"]
    browserOpen,   \* the page is shown
    expanded, searched, openGroups,
    offers,
    opened         \* history: groups the user saw open at the last click on them

browserVars == <<offered, offer, browserOpen, expanded, searched, openGroups,
                 offers, opened>>

-----------------------------------------------------------------------------
\* The texts in the search field: a word that finds the ids of Found.
Texts == {"", "blanks", "word"}

\* An alias is a label of its own, also when a provider has the same one.
LabelOf(m) ==
    IF m.alias # "" THEN <<m.alias>>
    ELSE IF m.source = "byok" THEN <<m.provider, "(BYOK)">> ELSE <<m.provider>>

Offered == Known(offer, {})

LabelsOf(ms) == {LabelOf(m) : m \in ms}

\* Blanks are no search.
Searching == searched = "word"

FilteredOffer == IF Searching THEN {m \in Offered : m.id \in Found} ELSE Offered

\* Nothing is shown while the list is loaded first or empty; the card keeps its
\* state meanwhile.
CardShown == browserOpen /\ ~Loading(offer) /\ Offered # {}

IsOpen(g) == Searching \/ g \in openGroups

\* Mutant: a click counts while all groups are shown open.
ToggledAlways(g) == IF g \in openGroups THEN openGroups \ {g} ELSE openGroups \cup {g}

Toggled(g) ==
    IF Searching THEN openGroups
    ELSE IF g \in openGroups THEN openGroups \ {g} ELSE openGroups \cup {g}

-----------------------------------------------------------------------------
BrowserInit ==
    /\ offered \in Offers
    /\ offer = Absent /\ browserOpen = FALSE
    /\ expanded = FALSE /\ searched = "" /\ openGroups = {}
    /\ offers = 0 /\ opened = {}

OpenBrowser ==
    /\ ~browserOpen /\ browserOpen' = TRUE
    /\ offer' = Mounted(offer)
    /\ UNCHANGED <<offered, expanded, searched, openGroups, offers, opened>>

LeaveBrowser ==
    /\ browserOpen /\ browserOpen' = FALSE
    /\ expanded' = FALSE /\ searched' = "" /\ openGroups' = {} /\ opened' = {}
    /\ UNCHANGED <<offered, offer, offers>>

\* Collapsing clears the search and closes the groups.
ToggleCard ==
    /\ CardShown /\ expanded' = ~expanded
    /\ searched' = IF expanded THEN "" ELSE searched
    /\ openGroups' = IF expanded THEN {} ELSE openGroups
    /\ opened' = IF expanded THEN {} ELSE opened
    /\ UNCHANGED <<offered, offer, browserOpen, offers>>

TypeSearch(text) ==
    /\ CardShown /\ expanded /\ text # searched
    /\ searched' = text
    /\ UNCHANGED <<offered, offer, browserOpen, expanded, openGroups, offers, opened>>

ClickGroup(g) ==
    /\ CardShown /\ expanded /\ g \in LabelsOf(FilteredOffer)
    /\ openGroups' = Toggled(g)
    /\ UNCHANGED <<offered, offer, browserOpen, expanded, searched, offers>>
    /\ opened' = IF IsOpen(g) = IsOpen(g)' THEN opened
                 ELSE IF IsOpen(g) THEN opened \ {g} ELSE opened \cup {g}

SpendOffer == offers < MaxOffers /\ offers' = offers + 1

FetchOffer ==
    \E q \in Fetched(offer, offered) :
        /\ offer' = q
        /\ IF q.fetch = "refused" THEN SpendOffer ELSE UNCHANGED offers
        /\ UNCHANGED <<offered, browserOpen, expanded, searched, openGroups, opened>>

OfferReconnect ==
    /\ SpendOffer /\ browserOpen
    /\ offer' = Mounted(offer)
    /\ UNCHANGED <<offered, browserOpen, expanded, searched, openGroups, opened>>

OfferChanges ==
    /\ SpendOffer /\ offered' \in Offers \ {offered}
    /\ UNCHANGED <<offer, browserOpen, expanded, searched, openGroups, opened>>

BrowserNext ==
    \/ OpenBrowser \/ LeaveBrowser \/ ToggleCard
    \/ \E text \in Texts : TypeSearch(text)
    \/ \E g \in LabelsOf(UNION Offers) : ClickGroup(g)
    \/ FetchOffer \/ OfferReconnect \/ OfferChanges

BrowserSpec == BrowserInit /\ [][BrowserNext]_browserVars

-----------------------------------------------------------------------------
\* Without a search the open groups are those the user opened, as the page
\* showed it, since the card was expanded: neither a click on a group that a
\* search holds open, nor a list that comes and goes, opens or closes one
\* (lines 278-285 and 300-306, and 332-341 for the search).
OpenGroupsWereOpened == openGroups = opened
=============================================================================
