------------------------------- MODULE Console -------------------------------
(***************************************************************************)
(* The web console, one of its parts at a time: the user stays within one  *)
(* part, whose queries no other part edits.  The parts share the rules of  *)
(* the query cache, not their state.                                       *)
(***************************************************************************)
EXTENDS PreferencesForm, ApiKeyPage, OwnCredentials, AdminCredentials,
        AdminLists, UsagePages, ConsoleShell, ByokForm, ModelPicker,
        ModelBrowser, SetupSteps

VARIABLE part

consoleVars == <<part, prefVars, keyVars, ownVars, adminVars, listVars,
                 usageVars, shellVars, formVars, pickerVars, browserVars,
                 stepsVars>>

Parts == {"preferences", "keys", "own", "credentials", "lists", "usage",
          "shell", "form", "picker", "browser",
          "steps"}

-----------------------------------------------------------------------------
\* The parts the user is not in have one initial state.
Still ==
    /\ part # "preferences" => default = NoModel
    /\ part # "lists" => listPage = "users"
    /\ part # "usage" => view = "dashboard"
    /\ part # "shell" => who = "none" /\ ~loginUrl
    /\ part # "picker" => catalog = Fallback
    /\ part # "browser" => offered = CHOOSE ms \in Offers : TRUE

ConsoleInit ==
    /\ part \in Parts
    /\ PrefInit /\ KeyInit /\ OwnInit /\ AdminInit /\ ListInit /\ UsageInit
    /\ ShellInit /\ FormInit /\ PickerInit /\ BrowserInit
    /\ StepsInit
    /\ Still

Other(p, vars) == IF part = p THEN TRUE ELSE UNCHANGED vars

Only(p) ==
    /\ part = p /\ UNCHANGED part
    /\ Other("preferences", prefVars) /\ Other("keys", keyVars)
    /\ Other("own", ownVars) /\ Other("credentials", adminVars)
    /\ Other("lists", listVars) /\ Other("usage", usageVars)
    /\ Other("shell", shellVars) /\ Other("form", formVars)
    /\ Other("picker", pickerVars) /\ Other("browser", browserVars)
    /\ Other("steps", stepsVars)

ConsoleNext ==
    \/ Only("preferences") /\ PrefNext
    \/ Only("keys") /\ KeyNext
    \/ Only("own") /\ OwnNext
    \/ Only("credentials") /\ AdminNext
    \/ Only("lists") /\ ListNext
    \/ Only("usage") /\ UsageNext
    \/ Only("shell") /\ ShellNext
    \/ Only("form") /\ FormNext
    \/ Only("picker") /\ PickerNext
    \/ Only("browser") /\ BrowserNext
    \/ Only("steps") /\ StepsNext

ConsoleSpec == ConsoleInit /\ [][ConsoleNext]_consoleVars
=============================================================================
