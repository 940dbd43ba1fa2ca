-------------------------- MODULE PreferencesForm --------------------------
(***************************************************************************)
(* The preferences page: a default model is picked in two steps, provider  *)
(* and model, in a form that is filled from the stored preferences by      *)
(* effects, which run again whenever the page has changed.                 *)
(***************************************************************************)
EXTENDS QueryCache, FiniteSets, Naturals

CONSTANTS
    Models, Groups,
    GroupOf,         \* [Models -> Groups]: alias or provider of a model
    NoModel,         \* the empty choice; stored: no default of the user's own
    NoGroup,
    MaxSaves,        \* bound: PATCH requests under way at a time
    MaxOutside       \* bound: failures, and changes made outside the page

ASSUME PrefAssumption == NoModel \notin Models /\ NoGroup \notin Groups

VARIABLES
    default,         \* stored: the user's default model
    routable,        \* stored: the models the user can be routed to
    prefs, models,   \* cache: ["me", "preferences"] and ["ui-models", "routable"]
    prefsOpen,       \* the page is shown
    form,            \* selectedProvider and defaultModel of the page
    saves,           \* PATCH requests under way
    outside,
    known            \* history: defaults the page, while open, was told of, and
                     \* choices its list had lost at a click on another provider

prefVars == <<default, routable, prefs, models, prefsOpen, form, saves, outside,
              known>>

-----------------------------------------------------------------------------
Form == [provider : Groups \cup {NoGroup}, model : Models \cup {NoModel}]

EmptyForm == [provider |-> NoGroup, model |-> NoModel]

\* `here': sent by the page as it is now, not before the user left it.
PatchRequest == [model : Models \cup {NoModel}, stored : BOOLEAN, here : BOOLEAN]

AllModels == Known(models, {})

Providers == {GroupOf[m] : m \in AllModels}

FilteredModels ==
    {m \in AllModels : form.provider = NoGroup \/ GroupOf[m] = form.provider}

\* Mutant: the effect fills the form whenever the preferences arrive.
FillAlways(f, p) ==
    IF p.data # NoData /\ p.data # NoModel THEN [f EXCEPT !.model = p.data] ELSE f

\* An empty choice is replaced by the stored one as often as it becomes empty;
\* a choice without a provider selects its own.
FillDefault(f, p) ==
    IF f.model = NoModel /\ p.data # NoData THEN [f EXCEPT !.model = p.data] ELSE f

SelectItsProvider(f, ms) ==
    IF f.model \in Known(ms, {}) /\ f.provider = NoGroup
        THEN [f EXCEPT !.provider = GroupOf[f.model]] ELSE f

AfterEffects(f, p, ms) == SelectItsProvider(FillDefault(f, p), ms)

ControlsShown ==
    /\ prefsOpen /\ ~Loading(prefs) /\ ~Loading(models) /\ ~prefs.failed

\* A choice the list does not offer is shown as "use the system default".
ShownChoice == IF form.model \in FilteredModels THEN form.model ELSE NoModel

\* A choice that a click on a provider keeps because the list has it no more.
KeptUnlisted(f) ==
    IF f.provider = form.provider THEN {} ELSE {form.model} \ (AllModels \cup {NoModel})

\* The default that the cache p tells an open page of.
Told(p) == IF prefsOpen THEN {p.data} \ {NoData, NoModel} ELSE {}

\* The page renders again: with a cache p and ms, and f in the form.
Render(f, p, ms) ==
    /\ prefs' = p
    /\ models' = ms
    /\ form' = IF prefsOpen THEN AfterEffects(f, p, ms) ELSE f
    /\ known' = known \cup Told(p) \cup KeptUnlisted(f)

-----------------------------------------------------------------------------
PrefInit ==
    /\ default \in Models \cup {NoModel}
    /\ routable = Models
    /\ prefs = Absent /\ models = Absent
    /\ prefsOpen = FALSE /\ form = EmptyForm
    /\ saves = {}
    /\ outside = 0 /\ known = {}

OpenPreferences ==
    /\ ~prefsOpen
    /\ prefsOpen' = TRUE
    /\ prefs' = Mounted(prefs) /\ models' = Mounted(models)
    /\ form' = AfterEffects(EmptyForm, prefs, models)
    /\ known' = {prefs.data} \ {NoData, NoModel}
    /\ UNCHANGED <<default, routable, saves, outside>>

\* Requests under way go on, their answers still reach the cache.
LeavePreferences ==
    /\ prefsOpen
    /\ prefsOpen' = FALSE
    /\ form' = EmptyForm /\ known' = {}
    /\ saves' = {[s EXCEPT !.here = FALSE] : s \in saves}
    /\ UNCHANGED <<default, routable, prefs, models, outside>>

PickModel(m) ==
    /\ ControlsShown
    /\ m \in FilteredModels \cup {NoModel} /\ m # ShownChoice
    /\ Render([form EXCEPT !.model = m], prefs, models)
    /\ UNCHANGED <<default, routable, prefsOpen, saves, outside>>

\* Mutant: the choice is kept when the provider changes.
ClickedKeepsModel(f, g) ==
    [f EXCEPT !.provider = IF @ = g THEN NoGroup ELSE g]

\* A second click on a provider gives it up.  A choice of another provider is
\* given up as well.
Clicked(f, g) ==
    [provider |-> IF f.provider = g THEN NoGroup ELSE g,
     model    |-> IF f.model \in AllModels /\ GroupOf[f.model] # g
                    THEN NoModel ELSE f.model]

ClickProvider(g) ==
    /\ ControlsShown /\ g \in Providers
    /\ Render(Clicked(form, g), prefs, models)
    /\ UNCHANGED <<default, routable, prefsOpen, saves, outside>>

SavePreferences ==
    /\ ControlsShown
    /\ \A s \in saves : ~s.here
    /\ Cardinality(saves) < MaxSaves
    /\ saves' = saves \cup {[model |-> form.model, stored |-> FALSE, here |-> TRUE]}
    /\ UNCHANGED <<default, routable, prefs, models, prefsOpen, form,
                   outside, known>>

\* A default of null keeps the stored one; the answer is the stored record.
Upserted(m) == IF m = NoModel THEN default ELSE m

StorePreferences(s) ==
    /\ ~s.stored
    /\ default' = Upserted(s.model)
    /\ saves' = (saves \ {s}) \cup
                    {[s EXCEPT !.stored = TRUE, !.model = default']}
    /\ UNCHANGED <<routable, prefs, models, prefsOpen, form, outside, known>>

\* A failing database is no error of the endpoint: it answers what was sent,
\* stored or not.
StoreDegraded(s) ==
    /\ ~s.stored
    /\ outside < MaxOutside /\ outside' = outside + 1
    /\ default' \in {default, Upserted(s.model)}
    /\ saves' = (saves \ {s}) \cup {[s EXCEPT !.stored = TRUE]}
    /\ UNCHANGED <<routable, prefs, models, prefsOpen, form, known>>

SaveAnswered(s) ==
    /\ s.stored
    /\ saves' = saves \ {s}
    /\ Render(form, WithData(prefs, s.model), models)
    /\ UNCHANGED <<default, routable, prefsOpen, outside>>

\* Whether or not it was stored, the page shows the error.
SaveFails(s) ==
    /\ outside < MaxOutside /\ outside' = outside + 1
    /\ saves' = saves \ {s}
    /\ UNCHANGED <<default, routable, prefs, models, prefsOpen, form, known>>

\* A refused fetch counts as a failure.
Spend(q) ==
    /\ q.fetch = "refused" => outside < MaxOutside
    /\ outside' = IF q.fetch = "refused" THEN outside + 1 ELSE outside

FetchPreferences ==
    \E q \in Fetched(prefs, default) :
        /\ Spend(q)
        /\ Render(form, q, models)
        /\ UNCHANGED <<default, routable, prefsOpen, saves>>

\* With a failing database nobody has a default.
FetchDegraded ==
    /\ prefs.fetch = "sent"
    /\ outside < MaxOutside /\ outside' = outside + 1
    /\ Render(form, [prefs EXCEPT !.fetch = "answered", !.answer = NoModel], models)
    /\ UNCHANGED <<default, routable, prefsOpen, saves>>

FetchModels ==
    \E q \in Fetched(models, routable) :
        /\ Spend(q)
        /\ Render(form, prefs, q)
        /\ UNCHANGED <<default, routable, prefsOpen, saves>>

Reconnect ==
    /\ prefsOpen /\ outside < MaxOutside
    /\ outside' = outside + 1
    /\ Render(form, Mounted(prefs), Mounted(models))
    /\ UNCHANGED <<default, routable, prefsOpen, saves>>

\* Another tab of the user saves a default; the pool serves other models.
OutsideChange ==
    /\ outside < MaxOutside
    /\ outside' = outside + 1
    /\ \/ default' \in Models /\ UNCHANGED routable
       \/ routable' \in SUBSET Models /\ UNCHANGED default
    /\ UNCHANGED <<prefs, models, prefsOpen, form, saves, known>>

PrefNext ==
    \/ OpenPreferences \/ LeavePreferences
    \/ \E m \in Models \cup {NoModel} : PickModel(m)
    \/ \E g \in Groups : ClickProvider(g)
    \/ SavePreferences
    \/ \E s \in saves : \/ StorePreferences(s) \/ StoreDegraded(s)
                       \/ SaveAnswered(s) \/ SaveFails(s)
    \/ FetchPreferences \/ FetchDegraded \/ FetchModels
    \/ Reconnect \/ OutsideChange

PrefSpec == PrefInit /\ [][PrefNext]_prefVars

-----------------------------------------------------------------------------
\* A choice the user has made stays until the user makes another one: no answer
\* that arrives while the form is open, of a fetch or of a save, replaces it
\* (lines 55-68: the effects fill what is empty).
ChoiceStays ==
    [][form'.model # form.model =>
            \/ form.model = NoModel
            \/ prefsOpen' # prefsOpen
            \/ \E m \in Models \cup {NoModel} : PickModel(m)
            \/ \E g \in Groups : ClickProvider(g)]_prefVars

\* When the list shows "use the system default" while the page would save a
\* model that can still be chosen, that model is a default the page was told
\* of, or the list had lost it when the provider was changed; it is never one
\* that the user has just picked (lines 75-76 and 92-101: the provider filters
\* the list, and changing it gives the choice up if the list has it).
HiddenChoiceWasDefault ==
    form.model \in AllModels \ FilteredModels => form.model \in known
=============================================================================
