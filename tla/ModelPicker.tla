----------------------------- MODULE ModelPicker -----------------------------
(***************************************************************************)
(* The model of the command that the setup page offers, for each client:   *)
(* the configured default until the user picks another one from a list     *)
(* with a search, and the first of the list when the list does not have it.*)
(***************************************************************************)
EXTENDS QueryCache, SequencesExt

CONSTANTS
    PickModels,
    ClaudeDefault, CodexDefault,   \* of the configuration
    Served,          \* lists of models the server may have
    Needles,         \* texts to search for,
    Matches,         \* and the models each of them finds
    MaxListings      \* bound: changes of the server's list, failures, reconnects

ASSUME PickerAssumption == Served \subseteq Seq(PickModels)

VARIABLES
    catalog,         \* server: the list of models
    listed,          \* cache: ["ui-models"]
    setupOpen,       \* the page is shown
    choice,          \* the model in the command of each client
    picking,         \* for each client: the list is closed, or the text searched
    listings

pickerVars == <<catalog, listed, setupOpen, choice, picking, listings>>

-----------------------------------------------------------------------------
Clients == {"claude", "codex"}

Fallback == <<ClaudeDefault, CodexDefault>>

\* Any list replaces the fallback, an empty one as well.
OptionsOf(q) == Known(q, Fallback)

Options == OptionsOf(listed)

\* Mutant: a list that arrives changes nothing.
SettledNever(chosen, options) == chosen

\* Mutant: a list that arrives puts its first model into the command.
SettledFirst(chosen, options) == IF options = <<>> THEN chosen ELSE options[1]

\* The two effects of the page, one for each client.
Settled(chosen, options) ==
    IF options = <<>> \/ chosen \in ToSet(options) THEN chosen ELSE options[1]

Filtered(text) ==
    IF text = "" THEN ToSet(Options) ELSE ToSet(Options) \cap Matches[text]

DefaultOf(client) == IF client = "claude" THEN ClaudeDefault ELSE CodexDefault

\* The page renders with q in the cache.
ShowList(q, chosen) ==
    /\ listed' = q
    /\ choice' = IF setupOpen'
                   THEN [client \in Clients |-> Settled(chosen[client], OptionsOf(q))]
                   ELSE chosen

-----------------------------------------------------------------------------
PickerInit ==
    /\ catalog \in Served
    /\ listed = Absent /\ setupOpen = FALSE
    /\ choice = [client \in Clients |-> DefaultOf(client)]
    /\ picking = [client \in Clients |-> "closed"]
    /\ listings = 0

OpenSetup ==
    /\ ~setupOpen /\ setupOpen' = TRUE
    /\ ShowList(Mounted(listed), [client \in Clients |-> DefaultOf(client)])
    /\ UNCHANGED <<catalog, picking, listings>>

LeaveSetup ==
    /\ setupOpen /\ setupOpen' = FALSE
    /\ choice' = [client \in Clients |-> DefaultOf(client)]
    /\ picking' = [client \in Clients |-> "closed"]
    /\ UNCHANGED <<catalog, listed, listings>>

\* One list is open at a time: a click outside closes it and clears the search,
\* a click on its button closes it with the search kept for the next time (the
\* list is then the same with the text, so that only what it offers is told).
OpenPicker(client) ==
    /\ setupOpen /\ picking[client] = "closed"
    /\ \E text \in Needles :
        picking' = [c \in Clients |-> IF c = client THEN text ELSE "closed"]
    /\ UNCHANGED <<catalog, listed, setupOpen, choice, listings>>

ClosePicker(client) ==
    /\ picking[client] # "closed"
    /\ picking' = [picking EXCEPT ![client] = "closed"]
    /\ UNCHANGED <<catalog, listed, setupOpen, choice, listings>>

SearchFor(client, text) ==
    /\ picking[client] \notin {"closed", text}
    /\ picking' = [picking EXCEPT ![client] = text]
    /\ UNCHANGED <<catalog, listed, setupOpen, choice, listings>>

ChooseModel(client, m) ==
    /\ picking[client] # "closed" /\ m \in Filtered(picking[client])
    /\ picking' = [picking EXCEPT ![client] = "closed"]
    /\ choice' = [choice EXCEPT ![client] = m]
    /\ UNCHANGED <<catalog, listed, setupOpen, listings>>

SpendListing == listings < MaxListings /\ listings' = listings + 1

FetchListed ==
    \E q \in Fetched(listed, catalog) :
        /\ IF q.fetch = "refused" THEN SpendListing ELSE UNCHANGED listings
        /\ setupOpen' = setupOpen
        /\ ShowList(q, choice)
        /\ UNCHANGED <<catalog, picking>>

\* The browser is online again; a credential added on another page makes the
\* list stale, which opening the page does not tell apart.
ListedReconnect ==
    /\ SpendListing /\ setupOpen /\ setupOpen' = TRUE
    /\ ShowList(Mounted(listed), choice)
    /\ UNCHANGED <<catalog, picking>>

CatalogChanges ==
    /\ SpendListing /\ catalog' \in Served \ {catalog}
    /\ UNCHANGED <<listed, setupOpen, choice, picking>>

PickerNext ==
    \/ OpenSetup \/ LeaveSetup
    \/ \E client \in Clients :
        \/ OpenPicker(client) \/ ClosePicker(client)
        \/ \E text \in Needles : SearchFor(client, text)
        \/ \E m \in PickModels : ChooseModel(client, m)
    \/ FetchListed \/ ListedReconnect \/ CatalogChanges

PickerSpec == PickerInit /\ [][PickerNext]_pickerVars

-----------------------------------------------------------------------------
\* The command names a model of the list whenever there is one, for the first
\* list, for a later one without the model and for the fallback (lines 56-66).
CommandCanRun ==
    setupOpen /\ Options # <<>> => \A client \in Clients : choice[client] \in ToSet(Options)

\* A list that arrives leaves a model alone that it offers, and the effect of
\* one client the model of the other (lines 56-66).
ChoiceSurvivesLists ==
    [][setupOpen /\ setupOpen' => \A client \in Clients :
            choice'[client] # choice[client] =>
                \/ choice[client] \notin ToSet(OptionsOf(listed'))
                \/ picking[client] # "closed" /\ picking'[client] = "closed"
                        /\ choice'[client] \in Filtered(picking[client])]_pickerVars
=============================================================================
