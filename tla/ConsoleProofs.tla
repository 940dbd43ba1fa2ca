---------------------------- MODULE ConsoleProofs ----------------------------
(***************************************************************************)
(* The theorems about the remaining parts of the console, and about the    *)
(* console as a whole, each for every value of the constants: the frame,   *)
(* the list of models, the form of a credential, the setup page, the       *)
(* preferences and the picker here; the lists and the usage pages in the   *)
(* modules this one extends.  Last, every run of the console is a run of   *)
(* each of its parts, so that all of them hold of it together.             *)
(***************************************************************************)
EXTENDS Console, ListsProofs, UsagePagesProofs

-----------------------------------------------------------------------------
(* The frame.                                                              *)
(* After a 401 about the session no page of the console is shown, however  *)
(* often the session changes and whatever the cache holds: every change of *)
(* the cache passes through the effect of the frame.                       *)

ShellInv ==
    /\ at \in Pages \cup {"login", "feishu", "elsewhere"}
    /\ DeniedLeavesConsole

-----------------------------------------------------------------------------
\* Where the effect leaves the visitor, a denied session shows no page of the
\* console (app.tsx:112-116).
LEMMA RedirectedIsOutside ==
    ASSUME NEW place \in Pages \cup {"login", "feishu", "elsewhere"}, NEW s, NEW c,
           GoTo(place, s, c)
    PROVE  ShellInv'
BY DEF GoTo, Redirected, ShellInv, DeniedLeavesConsole, InPortal, Pages

\* The visitor starts on another site.
LEMMA ShellStart == ShellInit => ShellInv
BY DEF ShellInit, ShellInv, DeniedLeavesConsole, InPortal, Pages

\* Every action keeps the invariant: a link is followed where a page is shown
\* already, everything else passes through the effect or leaves the console.
LEMMA ShellStep == ShellInv /\ [ShellNext]_shellVars => ShellInv'
<1> SUFFICES ASSUME ShellInv, [ShellNext]_shellVars PROVE ShellInv'
  OBVIOUS
<1>1. ASSUME NEW place \in Pages \cup {"login"}, EnterUrl(place) PROVE ShellInv'
  BY <1>1, RedirectedIsOutside DEF EnterUrl
<1>2. ASSUME NEW place \in Pages, ClickLink(place) PROVE ShellInv'
  <2>1. InPortal(at)
    BY <1>2 DEF ClickLink, Screen, ShellInv, InPortal
  <2>2. ~(session.failed /\ denied)
    BY <2>1 DEF ShellInv, DeniedLeavesConsole
  <2> QED
    BY <1>2, <2>2 DEF ClickLink, ShellInv, DeniedLeavesConsole
<1>3. ASSUME NEW place \in Pages, GoBack(place) PROVE ShellInv'
  BY <1>3, RedirectedIsOutside DEF GoBack
<1>4. CASE LeaveForLogin
  BY <1>4 DEF LeaveForLogin, ShellInv, DeniedLeavesConsole, InPortal, Pages
<1>5. CASE Callback
  BY <1>5 DEF Callback, ShellInv, DeniedLeavesConsole, InPortal, Pages
<1>6. CASE FetchSession
  <2>1. PICK q \in Fetched(session, who) :
            \/ GoTo(at, [session EXCEPT !.fetch = "idle", !.failed = TRUE,
                                        !.answer = NoData], config)
            \/ GoTo(at, q, config)
    BY <1>6 DEF FetchSession
  <2> QED
    BY <2>1, RedirectedIsOutside DEF ShellInv
<1>7. CASE FetchConfig
  BY <1>7, RedirectedIsOutside DEF FetchConfig, ShellInv
<1>8. CASE ShellReconnect
  BY <1>8, RedirectedIsOutside DEF ShellReconnect, ShellInv
<1>9. CASE SessionChanges
  BY <1>9 DEF SessionChanges, ShellInv, DeniedLeavesConsole
<1>10. CASE UNCHANGED shellVars
  BY <1>10 DEF shellVars, ShellInv, DeniedLeavesConsole, InPortal
<1> QED
  BY <1>1, <1>2, <1>3, <1>4, <1>5, <1>6, <1>7, <1>8, <1>9, <1>10 DEF ShellNext

\* A denied session shows no page of the console, for any number of failures,
\* reconnects and changes of the session (app.tsx:100-116).
THEOREM DeniedLeavesConsoleAlways == ShellSpec => []DeniedLeavesConsole
<1>1. ShellInv => DeniedLeavesConsole
  BY DEF ShellInv
<1> QED
  BY ShellStart, ShellStep, <1>1, PTL DEF ShellSpec

\* What the frame returns is the content only on a page, with both answers there
\* and neither of them a failure.
LEMMA ContentIsAnswered ==
    ASSUME ShellInv, Screen = "content"
    PROVE  InPortal(at) /\ ~config.failed /\ ~session.failed
<1>1. at # "content"
  BY DEF ShellInv, Pages
<1>2. InPortal(at)
  BY <1>1 DEF Screen
<1>3. ~Loading(config) /\ ~Loading(session)
  BY <1>2 DEF Screen
<1>4. ~(config.failed \/ session.failed)
  <2> SUFFICES ASSUME config.failed \/ session.failed PROVE FALSE
    OBVIOUS
  <2>1. Screen = IF NotAllowed THEN "to-login" ELSE "unavailable"
    BY <1>2, <1>3 DEF Screen
  <2> QED
    BY <2>1
<1> QED
  BY <1>2, <1>4

\* A page of administrators is shown only to a session that was last answered to
\* be an administrator's, for any changes of roles, failures and ways through the
\* console (app.tsx:118-158).
THEOREM AdminPagesForAdminsAlways == ShellSpec => []AdminPagesForAdmins
<1>1. ASSUME ShellInv, Screen = "content", ShownPage \in AdminPages
      PROVE  session.data = "admin"
  BY <1>1 DEF ShownPage, AdminPages
<1>2. ShellInv => AdminPagesForAdmins
  BY <1>1, ContentIsAnswered DEF AdminPagesForAdmins
<1> QED
  BY ShellStart, ShellStep, <1>2, PTL DEF ShellSpec

-----------------------------------------------------------------------------
(* The list of models.                                                     *)
(* The groups of the list of models that are open without a search are     *)
(* those the user has seen open after a click, for any lists the server    *)
(* may offer and any searches.                                             *)

\* A click on a group changes what the user sees of it exactly as it changes
\* the set of open groups (api-keys-page.tsx:278-285, 332-339).
LEMMA ClickIsSeen ==
    ASSUME OpenGroupsWereOpened, NEW g, ClickGroup(g)
    PROVE  OpenGroupsWereOpened'
<1>1. searched' = searched
  BY DEF ClickGroup
<1>2. CASE Searching
  <2>1. openGroups' = openGroups
    BY <1>2 DEF ClickGroup, Toggled
  <2>2. IsOpen(g) /\ IsOpen(g)'
    BY <1>1, <1>2 DEF IsOpen, Searching
  <2>3. opened' = opened
    BY <2>2 DEF ClickGroup
  <2> QED
    BY <2>1, <2>3 DEF OpenGroupsWereOpened
<1>3. CASE ~Searching /\ g \in openGroups
  <2>1. openGroups' = openGroups \ {g}
    BY <1>3 DEF ClickGroup, Toggled
  <2>2. IsOpen(g) /\ ~IsOpen(g)'
    BY <1>1, <1>3, <2>1 DEF IsOpen, Searching
  <2>3. opened' = opened \ {g}
    BY <2>2 DEF ClickGroup
  <2> QED
    BY <2>1, <2>3 DEF OpenGroupsWereOpened
<1>4. CASE ~Searching /\ g \notin openGroups
  <2>1. openGroups' = openGroups \cup {g}
    BY <1>4 DEF ClickGroup, Toggled
  <2>2. ~IsOpen(g) /\ IsOpen(g)'
    BY <1>1, <1>4, <2>1 DEF IsOpen, Searching
  <2>3. opened' = opened \cup {g}
    BY <2>2 DEF ClickGroup
  <2> QED
    BY <2>1, <2>3 DEF OpenGroupsWereOpened
<1> QED
  BY <1>2, <1>3, <1>4

\* Every other action leaves both alone or clears both.
LEMMA BrowserStep ==
    OpenGroupsWereOpened /\ [BrowserNext]_browserVars => OpenGroupsWereOpened'
<1> SUFFICES ASSUME OpenGroupsWereOpened, [BrowserNext]_browserVars
             PROVE  OpenGroupsWereOpened'
  OBVIOUS
<1>1. ASSUME NEW g \in LabelsOf(UNION Offers), ClickGroup(g)
      PROVE  OpenGroupsWereOpened'
  BY <1>1, ClickIsSeen
<1>2. CASE LeaveBrowser
  BY <1>2 DEF LeaveBrowser, OpenGroupsWereOpened
<1>6. CASE ToggleCard
  <2>1. /\ openGroups' = IF expanded THEN {} ELSE openGroups
        /\ opened' = IF expanded THEN {} ELSE opened
    BY <1>6 DEF ToggleCard
  <2> QED
    BY <2>1 DEF OpenGroupsWereOpened
<1>3. CASE OpenBrowser \/ FetchOffer \/ OfferReconnect \/ OfferChanges
  BY <1>3 DEF OpenBrowser, FetchOffer, OfferReconnect, OfferChanges,
              OpenGroupsWereOpened
<1>4. ASSUME NEW text \in Texts, TypeSearch(text) PROVE OpenGroupsWereOpened'
  BY <1>4 DEF TypeSearch, OpenGroupsWereOpened
<1>5. CASE UNCHANGED browserVars
  BY <1>5 DEF browserVars, OpenGroupsWereOpened
<1> QED
  BY <1>1, <1>2, <1>3, <1>4, <1>5, <1>6 DEF BrowserNext

\* No group opens or closes by itself, for any offers of the server
\* (api-keys-page.tsx:253-285, 300-306, 332-339).
THEOREM OpenGroupsWereOpenedAlways == BrowserSpec => []OpenGroupsWereOpened
<1>1. BrowserInit => OpenGroupsWereOpened
  BY DEF BrowserInit, OpenGroupsWereOpened
<1> QED
  BY <1>1, BrowserStep, PTL DEF BrowserSpec

-----------------------------------------------------------------------------
(* The form of a provider.                                                 *)
(* Nothing typed into the form of one provider is sent to another, for any *)
(* providers: every opening clears all fields, so that what the closing of *)
(* a form leaves behind never meets an open form.                          *)

FormTypeOK ==
    /\ adding \in Compatible \cup Simple \cup {NoForm}
    /\ fields \in [FieldNames -> Contents]

\* The fields of an open form are its own, and what the form of a
\* simple provider does not show is empty (lines 164-169).
FieldsAreTheForms ==
    /\ adding # NoForm => \A f \in FieldNames : fields[f] # "over"
    /\ adding \in Simple => fields["baseUrl"] = "empty" /\ fields["alias"] = "empty"

FormInv == FormTypeOK /\ FieldsAreTheForms /\ SentIsTypedHere

-----------------------------------------------------------------------------
\* Clearing fields leaves contents in all of them, and the cleared ones empty
\* (byok-page.tsx:158-162).
LEMMA ClearedFields ==
    ASSUME FormTypeOK, NEW names \in SUBSET FieldNames
    PROVE  /\ Cleared(names) \in [FieldNames -> Contents]
           /\ \A f \in names : Cleared(names)[f] = "empty"
BY DEF FormTypeOK, Cleared, Contents

\* A form that is opened has empty fields but for the provider's own address
\* (byok-page.tsx:164-169).
LEMMA OpenedFields ==
    ASSUME FormTypeOK, NEW p
    PROVE  /\ FieldsOnOpen(p) \in [FieldNames -> Contents]
           /\ \A f \in FieldNames : FieldsOnOpen(p)[f] # "over"
           /\ p \notin Compatible => \A f \in FieldNames : FieldsOnOpen(p)[f] = "empty"
<1>1. /\ Cleared(FieldNames) \in [FieldNames -> Contents]
      /\ \A f \in FieldNames : Cleared(FieldNames)[f] = "empty"
  BY ClearedFields
<1> QED
  BY <1>1 DEF FieldsOnOpen, Contents, FieldNames

\* A form that is closed leaves contents in its fields (byok-page.tsx:158-162).
LEMMA ClosedFields ==
    ASSUME FormTypeOK
    PROVE  FieldsOnClose \in [FieldNames -> Contents]
BY ClearedFields DEF FieldsOnClose

-----------------------------------------------------------------------------
\* The page starts without a form and with empty fields (byok-page.tsx:73-78).
LEMMA FormStart == FormInit => FormInv
BY FormAssumption
  DEF FormInit, FormInv, FormTypeOK, FieldsAreTheForms, SentIsTypedHere, Contents,
      FieldNames

\* Every action of the page keeps the invariant.
LEMMA FormStep == FormInv /\ [FormNext]_formVars => FormInv'
<1> SUFFICES ASSUME FormInv, [FormNext]_formVars PROVE FormInv'
  OBVIOUS
<1> USE FormAssumption DEF FormInv
<1>1. CASE OpenByok
  BY <1>1 DEF OpenByok, FormTypeOK, FieldsAreTheForms, SentIsTypedHere
<1>2. CASE LeaveByok
  BY <1>2 DEF LeaveByok, FormTypeOK, FieldsAreTheForms, SentIsTypedHere, Contents,
              FieldNames
<1>3. CASE CancelForm
  BY <1>3, ClosedFields
    DEF CancelForm, FormTypeOK, FieldsAreTheForms, SentIsTypedHere
<1>4. ASSUME NEW p \in Compatible \cup Simple, OpenProvider(p) PROVE FormInv'
  <2>1. CASE adding = p
    BY <1>4, <2>1, ClosedFields
      DEF OpenProvider, FormTypeOK, FieldsAreTheForms, SentIsTypedHere
  <2>2. CASE adding # p
    <3>1. adding' = p /\ fields' = FieldsOnOpen(p) /\ addSent' = addSent
      BY <1>4, <2>2 DEF OpenProvider
    <3>2. FormTypeOK' /\ SentIsTypedHere'
      BY <1>4, <3>1, OpenedFields DEF FormTypeOK, SentIsTypedHere
    <3>3. FieldsAreTheForms'
      BY <1>4, <3>1, OpenedFields DEF FieldsAreTheForms, FieldNames
    <3> QED
      BY <3>2, <3>3
  <2> QED
    BY <2>1, <2>2
<1>5. ASSUME NEW f \in FieldNames, TypeField(f) PROVE FormInv'
  <2>1. PICK c \in {"typed", "empty"} : fields' = [fields EXCEPT ![f] = c]
    BY <1>5 DEF TypeField
  <2>2. adding' = adding /\ addSent' = addSent /\ f \in ShownFields
    BY <1>5 DEF TypeField
  <2>3. adding \in Simple => f \notin {"baseUrl", "alias"}
    BY <2>2 DEF ShownFields
  <2>4. FormTypeOK' /\ SentIsTypedHere'
    BY <2>1, <2>2 DEF FormTypeOK, SentIsTypedHere, Contents
  <2>5. FieldsAreTheForms'
    BY <2>1, <2>2, <2>3 DEF FieldsAreTheForms, FormTypeOK, FieldNames
  <2> QED
    BY <2>4, <2>5
<1>6. CASE SubmitForm
  <2>1. /\ addSent' = {[provider |-> adding, sentFields |-> fields]}
        /\ adding # NoForm /\ adding' = adding /\ fields' = fields
    BY <1>6 DEF SubmitForm
  <2>2. SentIsTypedHere'
    BY <2>1 DEF SentIsTypedHere, FieldsAreTheForms
  <2> QED
    BY <2>1, <2>2 DEF FormTypeOK, FieldsAreTheForms
<1>7. CASE AddAnswered
  BY <1>7 DEF AddAnswered, FormTypeOK, FieldsAreTheForms, SentIsTypedHere, Contents,
              FieldNames
<1>8. CASE AddRefused
  BY <1>8 DEF AddRefused, FormTypeOK, FieldsAreTheForms, SentIsTypedHere
<1>9. CASE UNCHANGED formVars
  BY <1>9 DEF formVars, FormTypeOK, FieldsAreTheForms, SentIsTypedHere
<1> QED
  BY <1>1, <1>2, <1>3, <1>4, <1>5, <1>6, <1>7, <1>8, <1>9 DEF FormNext

\* What is sent to a provider was typed into its own form, whatever was opened,
\* closed, submitted and left before (byok-page.tsx:144-171, 324-336).
THEOREM SentIsTypedHereAlways == FormSpec => []SentIsTypedHere
<1>1. FormInv => SentIsTypedHere
  BY DEF FormInv
<1> QED
  BY FormStart, FormStep, <1>1, PTL DEF FormSpec

-----------------------------------------------------------------------------
(* The install panel.                                                      *)
(* A button of the install panel that says "copied" stands beside the text *)
(* it copied.  The reason is that asking for a token takes the panel away: *)
(* while a token is asked for there is neither a button nor a write whose  *)
(* button is still there.                                                  *)

StepsTypeOK ==
    /\ copied \in SUBSET Lines
    /\ \A w \in writes : w = [line |-> w.line, value |-> w.value,
                              click |-> w.click, shown |-> w.shown] /\ w.line \in Lines
    /\ DOMAIN lastCopied = Lines /\ lastCopied = [line \in Lines |-> lastCopied[line]]

\* A write of a button that is still there is about the text beside it.
WritesAreShown == \A w \in writes : w.shown => w.value = LineValue(w.line)

NoPanelWhileAsking ==
    generating # NoAsk =>
        panel = 0 /\ copied = {} /\ \A w \in writes : ~w.shown

StepsInv == StepsTypeOK /\ WritesAreShown /\ NoPanelWhileAsking /\ CopiedIsShown

-----------------------------------------------------------------------------
\* When the buttons go, no button says anything and no write has a button
\* (portal-page.tsx:175-183, 554-575).
LEMMA GoneButtons ==
    ASSUME StepsTypeOK, ButtonsGone, lastCopied' = lastCopied
    PROVE  /\ StepsTypeOK' /\ WritesAreShown' /\ CopiedIsShown'
           /\ copied' = {} /\ \A w \in writes' : ~w.shown
<1>1. \A w \in writes' : /\ w = [line |-> w.line, value |-> w.value,
                                 click |-> w.click, shown |-> w.shown]
                         /\ w.line \in Lines /\ ~w.shown
  <2> SUFFICES ASSUME NEW w \in writes'
               PROVE  /\ w = [line |-> w.line, value |-> w.value,
                              click |-> w.click, shown |-> w.shown]
                      /\ w.line \in Lines /\ ~w.shown
    OBVIOUS
  <2>1. PICK v \in writes : w = [v EXCEPT !.shown = FALSE]
    BY DEF ButtonsGone
  <2>2. /\ v = [line |-> v.line, value |-> v.value, click |-> v.click, shown |-> v.shown]
        /\ v.line \in Lines
    BY DEF StepsTypeOK
  <2>3. w = [line |-> v.line, value |-> v.value, click |-> v.click, shown |-> FALSE]
    BY <2>1, <2>2
  <2> QED
    BY <2>2, <2>3
<1>2. copied' = {}
  BY DEF ButtonsGone
<1> QED
  BY <1>1, <1>2 DEF StepsTypeOK, WritesAreShown, CopiedIsShown

\* The page starts without a panel.
LEMMA StepsStart == StepsInit => StepsInv
BY DEF StepsInit, StepsInv, StepsTypeOK, WritesAreShown, NoPanelWhileAsking,
       CopiedIsShown

\* A write that is done tells of its own text (copy-button.tsx:17-21).
LEMMA CopiedStep ==
    ASSUME StepsInv, NEW w \in writes, Copied(w)
    PROVE  StepsInv'
<1> USE DEF StepsInv
<1>1. /\ writes' = writes \ {w} /\ generating' = generating /\ panel' = panel
      /\ platform' = platform
  BY DEF Copied
<1>2. w.line \in Lines
  BY DEF StepsTypeOK
<1>3. WritesAreShown'
  BY <1>1 DEF WritesAreShown, LineValue
<1>4. CASE w.shown
  <2>1. /\ copied' = copied \cup {w.line}
        /\ lastCopied' = [lastCopied EXCEPT ![w.line] = w.value]
    BY <1>4 DEF Copied
  <2>2. w.value = LineValue(w.line)
    BY <1>4 DEF WritesAreShown
  <2>3. StepsTypeOK'
    BY <1>1, <1>2, <2>1 DEF StepsTypeOK
  <2>4. CopiedIsShown'
    BY <1>1, <1>2, <2>1, <2>2 DEF CopiedIsShown, StepsTypeOK, LineValue
  <2>5. NoPanelWhileAsking'
    BY <1>1, <1>4 DEF NoPanelWhileAsking
  <2> QED
    BY <1>3, <2>3, <2>4, <2>5
<1>5. CASE ~w.shown
  <2>1. copied' = copied /\ lastCopied' = lastCopied
    BY <1>5 DEF Copied
  <2> QED
    BY <1>1, <1>3, <2>1 DEF StepsTypeOK, CopiedIsShown, NoPanelWhileAsking, LineValue
<1> QED
  BY <1>4, <1>5

\* Every action keeps the invariant.
LEMMA StepsStep == StepsInv /\ [StepsNext]_stepsVars => StepsInv'
<1> SUFFICES ASSUME StepsInv, [StepsNext]_stepsVars PROVE StepsInv'
  OBVIOUS
<1> USE DEF StepsInv
<1>1. CASE LeaveSteps \/ SwitchPlatform
  <2>1. ButtonsGone /\ lastCopied' = lastCopied
    BY <1>1 DEF LeaveSteps, SwitchPlatform
  <2>2. generating' # NoAsk => panel' = 0
    BY <1>1 DEF LeaveSteps, SwitchPlatform, NoPanelWhileAsking
  <2> QED
    BY <2>1, <2>2, GoneButtons DEF NoPanelWhileAsking
<1>2. CASE Generate
  <2>1. ButtonsGone /\ lastCopied' = lastCopied /\ panel' = 0
    BY <1>2 DEF Generate, PanelOnClick
  <2> QED
    BY <2>1, GoneButtons DEF NoPanelWhileAsking
<1>3. CASE GenerateAnswered
  <2>1. generating # NoAsk
    BY <1>3 DEF GenerateAnswered, NoAsk
  <2>2. copied = {} /\ \A w \in writes : ~w.shown
    BY <2>1 DEF NoPanelWhileAsking
  <2> QED
    BY <1>3, <2>2
      DEF GenerateAnswered, StepsTypeOK, WritesAreShown, NoPanelWhileAsking,
          CopiedIsShown
<1>4. CASE IssueToken
  <2>1. generating # NoAsk
    BY <1>4, StepsAssumption DEF IssueToken, NoAsk, Asking
  <2> QED
    BY <1>4, <2>1
      DEF IssueToken, StepsTypeOK, WritesAreShown, NoPanelWhileAsking,
          CopiedIsShown, LineValue
<1>5. CASE GenerateFails
  BY <1>5 DEF GenerateFails, StepsTypeOK, WritesAreShown, NoPanelWhileAsking,
              CopiedIsShown, LineValue
<1>6. ASSUME NEW line \in Lines, ClickCopy(line) PROVE StepsInv'
  <2> DEFINE new == [line |-> line, value |-> LineValue(line), click |-> copies,
                     shown |-> TRUE]
  <2>1. writes' = writes \cup {new} /\ panel # 0
    BY <1>6 DEF ClickCopy
  <2>2. generating = NoAsk
    BY <2>1 DEF NoPanelWhileAsking
  <2>3. /\ generating' = generating /\ panel' = panel /\ platform' = platform
        /\ copied' = copied /\ lastCopied' = lastCopied
    BY <1>6 DEF ClickCopy
  <2>4. /\ new.line = line /\ new.value = LineValue(line) /\ new.shown
        /\ new = [line |-> new.line, value |-> new.value, click |-> new.click,
                  shown |-> new.shown]
    OBVIOUS
  <2> HIDE DEF new
  <2>5. StepsTypeOK'
    BY <2>1, <2>3, <2>4 DEF StepsTypeOK
  <2>6. WritesAreShown'
    BY <2>1, <2>3, <2>4 DEF WritesAreShown, LineValue
  <2>7. NoPanelWhileAsking' /\ CopiedIsShown'
    BY <2>2, <2>3 DEF NoPanelWhileAsking, CopiedIsShown, LineValue
  <2> QED
    BY <2>5, <2>6, <2>7
<1>7. ASSUME NEW w \in writes, Copied(w) PROVE StepsInv'
  BY <1>7, CopiedStep
<1>8. ASSUME NEW w \in writes, CopyFails(w) PROVE StepsInv'
  BY <1>8 DEF CopyFails, StepsTypeOK, WritesAreShown, NoPanelWhileAsking,
              CopiedIsShown, LineValue
<1>9. ASSUME NEW line \in Lines, ResetButton(line) PROVE StepsInv'
  BY <1>9 DEF ResetButton, StepsTypeOK, WritesAreShown, NoPanelWhileAsking,
              CopiedIsShown, LineValue
<1>10. CASE BindAnswered
  BY <1>10 DEF BindAnswered, StepsTypeOK, WritesAreShown, NoPanelWhileAsking,
               CopiedIsShown
<1>11. CASE OpenSteps \/ ClickBind \/ BindFails \/ ReturnFromCodex \/ UNCHANGED stepsVars
  <2>1. UNCHANGED <<generating, panel, platform, copied, writes, lastCopied>>
    BY <1>11 DEF OpenSteps, ClickBind, BindFails, ReturnFromCodex, stepsVars
  <2> QED
    BY <2>1 DEF StepsTypeOK, WritesAreShown, NoPanelWhileAsking, CopiedIsShown, LineValue
<1> QED
  BY <1>1, <1>2, <1>3, <1>4, <1>5, <1>6, <1>7, <1>8, <1>9, <1>10, <1>11 DEF StepsNext

\* A button never claims to have copied a line it did not, for any number of
\* tokens and clicks (portal-page.tsx:171-185, 535-585, copy-button.tsx:15-21).
THEOREM CopiedIsShownAlways == StepsSpec => []CopiedIsShown
<1>1. StepsInv => CopiedIsShown
  BY DEF StepsInv
<1> QED
  BY StepsStart, StepsStep, <1>1, PTL DEF StepsSpec
-----------------------------------------------------------------------------
(* The form of the preferences.                                            *)

IsForm(f) == f = [provider |-> f.provider, model |-> f.model]

\* The choice of f is a known one or belongs to the provider of f.
KnownOrOfProvider(f, told) ==
    f.model \notin told \cup {NoModel} => f.provider \in {NoGroup, GroupOf[f.model]}

PrefInv ==
    /\ routable \in SUBSET Models /\ models \in Entry(SUBSET Models)
    /\ models.fetch = "answered" => models.answer \in SUBSET Models
    /\ IsForm(form) /\ KnownOrOfProvider(form, known)

\* The effects fill an empty choice with what the page was told of, and choose the
\* provider of a choice without one.
LEMMA EffectsFill ==
    ASSUME NEW f, NEW p, NEW ms, NEW told, IsForm(f), KnownOrOfProvider(f, told),
           p.data # NoData => p.data \in told \cup {NoModel}
    PROVE  /\ IsForm(AfterEffects(f, p, ms)) /\ KnownOrOfProvider(AfterEffects(f, p, ms), told)
           /\ AfterEffects(f, p, ms).model # f.model => f.model = NoModel
<1> DEFINE g == FillDefault(f, p)
<1>1. /\ IsForm(g) /\ KnownOrOfProvider(g, told)
      /\ g.model # f.model => f.model = NoModel
    <2>1. CASE f.model = NoModel /\ p.data # NoData
        <3>1. g = [f EXCEPT !.model = p.data]
            BY <2>1 DEF FillDefault
        <3>2. g = [provider |-> f.provider, model |-> p.data]
            BY <3>1 DEF IsForm
        <3> QED BY <2>1, <3>2 DEF IsForm, KnownOrOfProvider
    <2>2. CASE ~(f.model = NoModel /\ p.data # NoData)
        BY <2>2 DEF FillDefault
    <2> QED BY <2>1, <2>2
<1> HIDE DEF g
<1>2. AfterEffects(f, p, ms) = SelectItsProvider(g, ms)
    BY DEF AfterEffects, g
<1>3. CASE g.model \in Known(ms, {}) /\ g.provider = NoGroup
    <2>1. SelectItsProvider(g, ms) = [g EXCEPT !.provider = GroupOf[g.model]]
        BY <1>3 DEF SelectItsProvider
    <2>2. SelectItsProvider(g, ms) = [provider |-> GroupOf[g.model], model |-> g.model]
        BY <1>1, <2>1 DEF IsForm
    <2> QED BY <1>1, <1>2, <2>2 DEF IsForm, KnownOrOfProvider
<1>4. CASE ~(g.model \in Known(ms, {}) /\ g.provider = NoGroup)
    BY <1>1, <1>2, <1>4 DEF SelectItsProvider
<1> QED BY <1>3, <1>4

\* Whatever makes the page render, what is in the form is known or of its provider.
LEMMA RenderKeeps ==
    ASSUME PrefInv, NEW f, NEW p, NEW ms, Render(f, p, ms), UNCHANGED routable,
           ms \in Entry(SUBSET Models), ms.fetch = "answered" => ms.answer \in SUBSET Models,
           IsForm(f), KnownOrOfProvider(f, known \cup KeptUnlisted(f))
    PROVE  /\ PrefInv'
           /\ form'.model # f.model => f.model = NoModel
<1>1. /\ known' = known \cup Told(p) \cup KeptUnlisted(f)
      /\ models' = ms /\ form' = IF prefsOpen THEN AfterEffects(f, p, ms) ELSE f
    BY DEF Render
<1>2. KnownOrOfProvider(f, known')
    BY <1>1 DEF KnownOrOfProvider
<1>3. prefsOpen /\ p.data # NoData => p.data \in known' \cup {NoModel}
    BY <1>1 DEF Told
<1>4. /\ IsForm(form') /\ KnownOrOfProvider(form', known')
      /\ form'.model # f.model => f.model = NoModel
    BY <1>1, <1>2, <1>3, EffectsFill
<1> QED BY <1>1, <1>4 DEF PrefInv, IsForm, KnownOrOfProvider

\* A fetch, an answer or a reconnect leaves the form to the effects.
LEMMA CacheRenders ==
    ASSUME PrefInv, NEW p, NEW ms, Render(form, p, ms), UNCHANGED routable,
           ms \in Entry(SUBSET Models), ms.fetch = "answered" => ms.answer \in SUBSET Models
    PROVE  PrefInv' /\ (form'.model # form.model => form.model = NoModel)
<1>1. KnownOrOfProvider(form, known \cup KeptUnlisted(form))
    BY DEF PrefInv, KnownOrOfProvider
<1> QED BY <1>1, RenderKeeps DEF PrefInv

\* Nothing is chosen before the page is opened.
LEMMA PrefStart == PrefInit => PrefInv
<1> SUFFICES ASSUME PrefInit PROVE PrefInv
    OBVIOUS
<1>1. /\ routable = Models /\ models = Absent /\ form = [provider |-> NoGroup, model |-> NoModel]
    BY DEF PrefInit, EmptyForm
<1> QED BY <1>1, AbsentEntry DEF PrefInv, IsForm, KnownOrOfProvider

\* A page that opens starts with an empty form and what the cache has.
LEMMA PrefOpens == ASSUME PrefInv, OpenPreferences PROVE PrefInv'
<1>1. /\ models' = Mounted(models) /\ UNCHANGED routable
      /\ form' = AfterEffects(EmptyForm, prefs, models)
      /\ known' = {prefs.data} \ {NoData, NoModel}
    BY DEF OpenPreferences
<1>2. /\ models' \in Entry(SUBSET Models)
      /\ models'.fetch = "answered" => models'.answer \in SUBSET Models
    BY <1>1, MountedEntry DEF PrefInv
<1>3. IsForm(EmptyForm) /\ KnownOrOfProvider(EmptyForm, known')
    BY DEF EmptyForm, IsForm, KnownOrOfProvider
<1>4. prefs.data # NoData => prefs.data \in known' \cup {NoModel}
    BY <1>1
<1>5. IsForm(form') /\ KnownOrOfProvider(form', known')
    BY <1>1, <1>3, <1>4, EffectsFill
<1> QED BY <1>1, <1>2, <1>5 DEF PrefInv, IsForm, KnownOrOfProvider

\* The user picks a model of the provider that is selected, or none.
LEMMA PrefPicks ==
    ASSUME PrefInv, NEW m \in Models \cup {NoModel}, PickModel(m)
    PROVE  PrefInv'
<1> DEFINE f == [form EXCEPT !.model = m]
<1>1. /\ Render(f, prefs, models) /\ UNCHANGED routable
      /\ m # NoModel => form.provider = NoGroup \/ GroupOf[m] = form.provider
    BY DEF PickModel, FilteredModels
<1>2. f = [provider |-> form.provider, model |-> m]
    BY DEF PrefInv, IsForm
<1> HIDE DEF f
<1>3. IsForm(f) /\ KnownOrOfProvider(f, known \cup KeptUnlisted(f))
    BY <1>1, <1>2 DEF IsForm, KnownOrOfProvider
<1> QED BY <1>1, <1>3, RenderKeeps DEF PrefInv

\* The user clicks a provider: a choice of another one is given up if the list has it.
LEMMA PrefClicks ==
    ASSUME PrefInv, NEW g \in Groups, ClickProvider(g)
    PROVE  PrefInv'
<1> DEFINE f == Clicked(form, g)
<1>1. Render(f, prefs, models) /\ UNCHANGED routable
    BY DEF ClickProvider
<1>2. f = [provider |-> IF form.provider = g THEN NoGroup ELSE g,
           model    |-> IF form.model \in AllModels /\ GroupOf[form.model] # g
                          THEN NoModel ELSE form.model]
    BY DEF Clicked
<1> HIDE DEF f
<1>3. f.provider # form.provider
    BY <1>2, PrefAssumption
<1>4. IsForm(f)
    BY <1>2 DEF IsForm
<1>5. KnownOrOfProvider(f, known \cup KeptUnlisted(f))
    BY <1>2, <1>3 DEF KnownOrOfProvider, KeptUnlisted
<1> QED BY <1>1, <1>4, <1>5, RenderKeeps DEF PrefInv

\* Everything that is not the user's choice: the form is filled where it is empty.
LEMMA PrefAnswers ==
    ASSUME PrefInv,
           \/ \E s \in saves : SaveAnswered(s)
           \/ FetchPreferences \/ FetchDegraded \/ FetchModels \/ Reconnect
    PROVE  PrefInv' /\ (form'.model # form.model => form.model = NoModel)
<1>1. ASSUME NEW s \in saves, SaveAnswered(s)
      PROVE  PrefInv' /\ (form'.model # form.model => form.model = NoModel)
    BY <1>1, CacheRenders DEF SaveAnswered, PrefInv
<1>2. CASE FetchPreferences \/ FetchDegraded
    BY <1>2, CacheRenders DEF FetchPreferences, FetchDegraded, PrefInv
<1>3. CASE FetchModels
    <2>1. PICK q \in Fetched(models, routable) : Render(form, prefs, q) /\ UNCHANGED routable
        BY <1>3 DEF FetchModels
    <2>2. q \in Entry(SUBSET Models) /\ (q.fetch = "answered" => q.answer \in SUBSET Models)
        BY FetchedEntry DEF PrefInv
    <2> QED BY <2>1, <2>2, CacheRenders
<1>4. CASE Reconnect
    <2>1. Render(form, Mounted(prefs), Mounted(models)) /\ UNCHANGED routable
        BY <1>4 DEF Reconnect
    <2>2. /\ Mounted(models) \in Entry(SUBSET Models)
          /\ Mounted(models).fetch = "answered" => Mounted(models).answer \in SUBSET Models
        BY MountedEntry DEF PrefInv
    <2> QED BY <2>1, <2>2, CacheRenders
<1> QED BY <1>1, <1>2, <1>3, <1>4

\* What is sent, stored and changed elsewhere does not touch the form.
LEMMA PrefRests ==
    ASSUME PrefInv,
           \/ SavePreferences \/ OutsideChange \/ UNCHANGED prefVars
           \/ \E s \in saves : StorePreferences(s) \/ StoreDegraded(s) \/ SaveFails(s)
    PROVE  PrefInv' /\ form' = form
<1>1. /\ UNCHANGED <<models, form, known>> /\ routable' \in SUBSET Models
    BY DEF PrefInv, SavePreferences, OutsideChange, StorePreferences, StoreDegraded,
           SaveFails, prefVars
<1> QED BY <1>1 DEF PrefInv, IsForm, KnownOrOfProvider

\* Every action of the preferences keeps the invariant.
LEMMA PrefStep == PrefInv /\ [PrefNext]_prefVars => PrefInv'
<1> SUFFICES ASSUME PrefInv, [PrefNext]_prefVars PROVE PrefInv'
    OBVIOUS
<1>1. CASE LeavePreferences
    <2>1. UNCHANGED <<routable, models>> /\ form' = EmptyForm
        BY <1>1 DEF LeavePreferences
    <2> QED BY <2>1 DEF PrefInv, EmptyForm, IsForm, KnownOrOfProvider
<1> QED BY <1>1, PrefOpens, PrefPicks, PrefClicks, PrefAnswers, PrefRests DEF PrefNext

\* The invariant of the preferences holds in every reachable state.
LEMMA PrefAlways == PrefSpec => []PrefInv
BY PrefStart, PrefStep, PTL DEF PrefSpec

\* A choice that the list does not show but would be saved is one the page was told of,
\* or one the list had lost: for any models, providers, saves and changes elsewhere.
THEOREM HiddenChoiceWasDefaultAlways == PrefSpec => []HiddenChoiceWasDefault
<1>1. PrefInv => HiddenChoiceWasDefault
    <2> SUFFICES ASSUME PrefInv, form.model \in AllModels \ FilteredModels
                 PROVE  form.model \in known
        BY DEF HiddenChoiceWasDefault
    <2>1. form.model # NoModel
        BY PrefAssumption DEF PrefInv, AllModels, Known, Entry
    <2>2. form.provider # NoGroup /\ form.provider # GroupOf[form.model]
        BY DEF FilteredModels
    <2> QED BY <2>1, <2>2 DEF PrefInv, KnownOrOfProvider
<1> QED BY <1>1, PrefAlways, PTL

\* No answer replaces a choice of the user, for any models, saves and failures
\* (preferences-page.tsx:55-68).
THEOREM ChoiceStaysAlways == PrefSpec => ChoiceStays
<1>1. ASSUME PrefInv, [PrefNext]_prefVars
      PROVE  [form'.model # form.model =>
                  \/ form.model = NoModel
                  \/ prefsOpen' # prefsOpen
                  \/ \E m \in Models \cup {NoModel} : PickModel(m)
                  \/ \E g \in Groups : ClickProvider(g)]_prefVars
    <2>1. CASE OpenPreferences \/ LeavePreferences
        <3>1. prefsOpen' # prefsOpen
            BY <2>1 DEF OpenPreferences, LeavePreferences
        <3> QED BY <3>1
    <2> QED BY <1>1, <2>1, PrefAnswers, PrefRests DEF PrefNext
<1> QED BY <1>1, PrefAlways, PTL DEF PrefSpec, ChoiceStays

-----------------------------------------------------------------------------
(* The model of the command.                                               *)

PickerInv ==
    /\ catalog \in Served
    /\ listed.fetch = "answered" => listed.answer \in Served
    /\ Options \in Served \cup {Fallback}
    /\ listed \in Entry(Served)
    /\ DOMAIN choice = Clients /\ DOMAIN picking = Clients
    /\ CommandCanRun

\* The effects leave the command with a model of a list that has one.
LEMMA SettledIsListed ==
    ASSUME NEW chosen, NEW options \in Served \cup {Fallback}, options # <<>>
    PROVE  Settled(chosen, options) \in ToSet(options)
<1>1. CASE options \in Served
    <2>1. options \in Seq(PickModels) /\ options # <<>>
        BY <1>1, PickerAssumption
    <2>2. 1 \in DOMAIN options
        BY <2>1
    <2> QED BY <2>2 DEF Settled, ToSet
<1>2. CASE options = Fallback
    BY <1>2 DEF Fallback, Settled, ToSet
<1> QED BY <1>1, <1>2

\* A list that is shown.
LEMMA ListIsShown ==
    ASSUME NEW q \in Entry(Served), NEW chosen, ShowList(q, chosen), DOMAIN chosen = Clients,
           catalog' \in Served, q.fetch = "answered" => q.answer \in Served,
           OptionsOf(q) \in Served \cup {Fallback}, DOMAIN picking' = Clients
    PROVE  PickerInv'
<1>1. /\ listed' = q /\ Options' = OptionsOf(q)
      /\ choice' = IF setupOpen' THEN [client \in Clients |-> Settled(chosen[client], OptionsOf(q))]
                                 ELSE chosen
    BY DEF ShowList, Options, OptionsOf
<1>2. CommandCanRun'
    BY <1>1, SettledIsListed DEF CommandCanRun
<1> QED BY <1>1, <1>2 DEF PickerInv

\* Every action of the setup page keeps the invariant: the effects run after each
\* change of the list, and a search offers models of the list only.
LEMMA PickerStep == PickerInv /\ [PickerNext]_pickerVars => PickerInv'
<1> SUFFICES ASSUME PickerInv, [PickerNext]_pickerVars PROVE PickerInv'
    OBVIOUS
<1>1. CASE OpenSetup
    <2>1. Mounted(listed) \in Entry(Served) /\ OptionsOf(Mounted(listed)) = Options
        BY MountedEntry DEF PickerInv, OptionsOf, Options, Known
    <2>2. Mounted(listed).fetch = "answered" => Mounted(listed).answer \in Served
        BY MountedEntry DEF PickerInv
    <2>3. /\ ShowList(Mounted(listed), [client \in Clients |-> DefaultOf(client)])
          /\ catalog' \in Served /\ DOMAIN picking' = Clients
        BY <1>1 DEF OpenSetup, PickerInv
    <2> QED BY <2>1, <2>2, <2>3, ListIsShown DEF PickerInv
<1>2. CASE LeaveSetup
    BY <1>2 DEF LeaveSetup, PickerInv, CommandCanRun, Options
<1>3. ASSUME NEW client \in Clients,
             \/ OpenPicker(client) \/ ClosePicker(client)
             \/ \E text \in Needles : SearchFor(client, text)
      PROVE  PickerInv'
    <2>1. UNCHANGED <<catalog, listed, setupOpen, choice>> /\ DOMAIN picking' = Clients
        BY <1>3 DEF OpenPicker, ClosePicker, SearchFor, PickerInv
    <2> QED BY <2>1 DEF PickerInv, CommandCanRun, Options
<1>4. ASSUME NEW client \in Clients, NEW m \in PickModels, ChooseModel(client, m)
      PROVE  PickerInv'
    <2>1. /\ UNCHANGED <<catalog, listed, setupOpen>> /\ DOMAIN picking' = Clients
          /\ choice' = [choice EXCEPT ![client] = m] /\ m \in ToSet(Options)
        BY <1>4 DEF ChooseModel, Filtered, PickerInv
    <2>2. CommandCanRun'
        BY <2>1 DEF PickerInv, CommandCanRun, Options
    <2> QED BY <2>1, <2>2 DEF PickerInv, Options
<1>5. CASE FetchListed
    <2>1. PICK q \in Fetched(listed, catalog) :
              /\ ShowList(q, choice) /\ setupOpen' = setupOpen /\ UNCHANGED <<catalog, picking>>
        BY <1>5 DEF FetchListed
    <2>2. /\ q \in Entry(Served) /\ (q.fetch = "answered" => q.answer \in Served)
          /\ q.data = listed.data \/ (listed.fetch = "answered" /\ q.data = listed.answer)
        BY FetchedEntry DEF PickerInv
    <2>3. OptionsOf(q) \in Served \cup {Fallback}
        BY <2>2 DEF PickerInv, OptionsOf, Options, Known
    <2> QED BY <2>1, <2>2, <2>3, ListIsShown DEF PickerInv
<1>6. CASE ListedReconnect
    <2>1. Mounted(listed) \in Entry(Served) /\ OptionsOf(Mounted(listed)) = Options
        BY MountedEntry DEF PickerInv, OptionsOf, Options, Known
    <2>2. Mounted(listed).fetch = "answered" => Mounted(listed).answer \in Served
        BY MountedEntry DEF PickerInv
    <2>3. ShowList(Mounted(listed), choice) /\ catalog' \in Served /\ DOMAIN picking' = Clients
        BY <1>6 DEF ListedReconnect, PickerInv
    <2> QED BY <2>1, <2>2, <2>3, ListIsShown DEF PickerInv
<1>7. CASE CatalogChanges
    BY <1>7 DEF CatalogChanges, PickerInv, CommandCanRun, Options
<1>8. CASE UNCHANGED pickerVars
    BY <1>8 DEF pickerVars, PickerInv, CommandCanRun, Options
<1> QED BY <1>1, <1>2, <1>3, <1>4, <1>5, <1>6, <1>7, <1>8 DEF PickerNext

\* There is no command before the page is opened.
LEMMA PickerStart == PickerInit => PickerInv
<1> SUFFICES ASSUME PickerInit PROVE PickerInv
    OBVIOUS
<1>1. Options = Fallback /\ listed \in Entry(Served) /\ listed.fetch = "idle" /\ ~setupOpen
    BY AbsentEntry DEF PickerInit, Options, OptionsOf, Known
<1> QED BY <1>1 DEF PickerInit, PickerInv, CommandCanRun

\* The invariant of the picker holds in every reachable state.
LEMMA PickerAlways == PickerSpec => []PickerInv
BY PickerStart, PickerStep, PTL DEF PickerSpec

\* The command names a model of the list whenever there is one, for any lists that the
\* server has and any searches (portal-page.tsx:56-66).
THEOREM CommandCanRunAlways == PickerSpec => []CommandCanRun
<1>1. PickerInv => CommandCanRun
    BY DEF PickerInv
<1> QED BY <1>1, PickerAlways, PTL

\* A list that arrives leaves a choice alone that it offers, for any lists
\* (portal-page.tsx:56-66).
THEOREM ChoiceSurvivesListsAlways == PickerSpec => ChoiceSurvivesLists
<1> DEFINE Survives ==
        setupOpen /\ setupOpen' => \A client \in Clients :
            choice'[client] # choice[client] =>
                \/ choice[client] \notin ToSet(OptionsOf(listed'))
                \/ picking[client] # "closed" /\ picking'[client] = "closed"
                        /\ choice'[client] \in Filtered(picking[client])
<1>1. ASSUME PickerInv, [PickerNext]_pickerVars PROVE [Survives]_pickerVars
    <2> SUFFICES ASSUME setupOpen, setupOpen', NEW c \in Clients, choice'[c] # choice[c]
                 PROVE  \/ choice[c] \notin ToSet(OptionsOf(listed'))
                        \/ picking[c] # "closed" /\ picking'[c] = "closed"
                                /\ choice'[c] \in Filtered(picking[c])
        OBVIOUS
    <2>1. ASSUME NEW q, ShowList(q, choice)
          PROVE  choice[c] \notin ToSet(OptionsOf(listed'))
        BY <2>1 DEF ShowList, Settled
    <2>2. CASE FetchListed \/ ListedReconnect
        BY <2>1, <2>2 DEF FetchListed, ListedReconnect
    <2>3. ASSUME NEW client \in Clients, NEW m \in PickModels, ChooseModel(client, m)
          PROVE  picking[c] # "closed" /\ picking'[c] = "closed"
                    /\ choice'[c] \in Filtered(picking[c])
        <3>1. /\ choice' = [choice EXCEPT ![client] = m]
              /\ picking' = [picking EXCEPT ![client] = "closed"]
              /\ picking[client] # "closed" /\ m \in Filtered(picking[client])
              /\ DOMAIN choice = Clients /\ DOMAIN picking = Clients
            BY <1>1, <2>3 DEF ChooseModel, PickerInv
        <3>2. c = client
            BY <3>1
        <3> QED BY <3>1, <3>2
    <2>4. ASSUME UNCHANGED choice PROVE FALSE
        BY <2>4
    <2> QED BY <1>1, <2>2, <2>3, <2>4
            DEF PickerNext, OpenSetup, LeaveSetup, OpenPicker, ClosePicker, SearchFor,
                CatalogChanges, pickerVars
<1> QED BY <1>1, PickerAlways, PTL DEF PickerSpec, ChoiceSurvivesLists

-----------------------------------------------------------------------------
(* The console as a whole.                                                 *)
(* The user is in one part; the others stand still.  A step of the console *)
(* is therefore a step of the part or leaves its variables alone.          *)

\* The console starts with every part in a state that the part starts in.
LEMMA ConsoleStart ==
    ConsoleInit =>
        /\ PrefInit /\ KeyInit /\ OwnInit /\ AdminInit /\ ListInit /\ UsageInit
        /\ ShellInit /\ FormInit /\ PickerInit /\ BrowserInit /\ StepsInit
BY DEF ConsoleInit

\* A step is one of the part the user is in, and the variables of every other part
\* are as they were.
LEMMA ConsoleStep ==
    [ConsoleNext]_consoleVars =>
        /\ [PrefNext]_prefVars
        /\ [KeyNext]_keyVars
        /\ [OwnNext]_ownVars
        /\ [AdminNext]_adminVars
        /\ [ListNext]_listVars
        /\ [UsageNext]_usageVars
        /\ [ShellNext]_shellVars
        /\ [FormNext]_formVars
        /\ [PickerNext]_pickerVars
        /\ [BrowserNext]_browserVars
        /\ [StepsNext]_stepsVars
<1>1. CASE UNCHANGED consoleVars
    BY <1>1 DEF consoleVars
<1>2. CASE Only("preferences") /\ PrefNext
    BY <1>2 DEF Only, Other
<1>3. CASE Only("keys") /\ KeyNext
    BY <1>3 DEF Only, Other
<1>4. CASE Only("own") /\ OwnNext
    BY <1>4 DEF Only, Other
<1>5. CASE Only("credentials") /\ AdminNext
    BY <1>5 DEF Only, Other
<1>6. CASE Only("lists") /\ ListNext
    BY <1>6 DEF Only, Other
<1>7. CASE Only("usage") /\ UsageNext
    BY <1>7 DEF Only, Other
<1>8. CASE Only("shell") /\ ShellNext
    BY <1>8 DEF Only, Other
<1>9. CASE Only("form") /\ FormNext
    BY <1>9 DEF Only, Other
<1>10. CASE Only("picker") /\ PickerNext
    BY <1>10 DEF Only, Other
<1>11. CASE Only("browser") /\ BrowserNext
    BY <1>11 DEF Only, Other
<1>12. CASE Only("steps") /\ StepsNext
    BY <1>12 DEF Only, Other
<1> QED
    BY <1>1, <1>2, <1>3, <1>4, <1>5, <1>6, <1>7, <1>8, <1>9, <1>10, <1>11, <1>12
    DEF ConsoleNext

\* Every run of the console is, seen through the variables of a part, a run of
\* that part (app.tsx:43-93: every page has a route of its own).
LEMMA ConsoleRunsParts ==
    ConsoleSpec =>
        /\ PrefSpec /\ KeySpec /\ OwnSpec /\ AdminSpec /\ ListSpec /\ UsageSpec
        /\ ShellSpec /\ FormSpec /\ PickerSpec /\ BrowserSpec /\ StepsSpec
<1>1. ConsoleSpec => PrefSpec
    BY ConsoleStart, ConsoleStep, PTL DEF ConsoleSpec, PrefSpec
<1>2. ConsoleSpec => KeySpec
    BY ConsoleStart, ConsoleStep, PTL DEF ConsoleSpec, KeySpec
<1>3. ConsoleSpec => OwnSpec
    BY ConsoleStart, ConsoleStep, PTL DEF ConsoleSpec, OwnSpec
<1>4. ConsoleSpec => AdminSpec
    BY ConsoleStart, ConsoleStep, PTL DEF ConsoleSpec, AdminSpec
<1>5. ConsoleSpec => ListSpec
    BY ConsoleStart, ConsoleStep, PTL DEF ConsoleSpec, ListSpec
<1>6. ConsoleSpec => UsageSpec
    BY ConsoleStart, ConsoleStep, PTL DEF ConsoleSpec, UsageSpec
<1>7. ConsoleSpec => ShellSpec
    BY ConsoleStart, ConsoleStep, PTL DEF ConsoleSpec, ShellSpec
<1>8. ConsoleSpec => FormSpec
    BY ConsoleStart, ConsoleStep, PTL DEF ConsoleSpec, FormSpec
<1>9. ConsoleSpec => PickerSpec
    BY ConsoleStart, ConsoleStep, PTL DEF ConsoleSpec, PickerSpec
<1>10. ConsoleSpec => BrowserSpec
    BY ConsoleStart, ConsoleStep, PTL DEF ConsoleSpec, BrowserSpec
<1>11. ConsoleSpec => StepsSpec
    BY ConsoleStart, ConsoleStep, PTL DEF ConsoleSpec, StepsSpec
<1> QED
    BY <1>1, <1>2, <1>3, <1>4, <1>5, <1>6, <1>7, <1>8, <1>9, <1>10, <1>11

\* What the console shows, sends and copies is right in every part and every run,
\* for all values of the constants: the invariants of the parts hold of the
\* console, and no answer replaces a choice of its user.
THEOREM ConsoleCorrect ==
    ConsoleSpec =>
        /\ [](HiddenChoiceWasDefault /\ CommandCanRun)
        /\ [](SettledKeysAreStored /\ SecretOfStoredKey /\ SettledListIsStored
                /\ SettledListsAreStored /\ AdminReadsItsWrites)
        /\ [](ShownIsSelected /\ EmptyPageOnlyAfterFullOne /\ NextPageSkipsNothing)
        /\ [](DeniedLeavesConsole /\ AdminPagesForAdmins)
        /\ [](SentIsTypedHere /\ OpenGroupsWereOpened /\ CopiedIsShown)
        /\ ChoiceStays /\ ChoiceSurvivesLists
<1>1. ConsoleSpec => [](HiddenChoiceWasDefault /\ CommandCanRun)
    BY ConsoleRunsParts, HiddenChoiceWasDefaultAlways, CommandCanRunAlways, PTL
<1>2. ConsoleSpec => [](SettledKeysAreStored /\ SecretOfStoredKey /\ SettledListIsStored
                          /\ SettledListsAreStored /\ AdminReadsItsWrites)
    BY ConsoleRunsParts, SettledKeysAreStoredAlways, SecretOfStoredKeyAlways,
       SettledListIsStoredAlways, SettledListsAreStoredAlways, AdminReadsItsWritesAlways, PTL
<1>3. ConsoleSpec => [](ShownIsSelected /\ EmptyPageOnlyAfterFullOne /\ NextPageSkipsNothing)
    BY ConsoleRunsParts, ShownIsSelectedAlways, EmptyPageOnlyAfterFullOneAlways,
       NextPageSkipsNothingAlways, PTL
<1>4. ConsoleSpec => [](DeniedLeavesConsole /\ AdminPagesForAdmins)
    BY ConsoleRunsParts, DeniedLeavesConsoleAlways, AdminPagesForAdminsAlways, PTL
<1>5. ConsoleSpec => [](SentIsTypedHere /\ OpenGroupsWereOpened /\ CopiedIsShown)
    BY ConsoleRunsParts, SentIsTypedHereAlways, OpenGroupsWereOpenedAlways,
       CopiedIsShownAlways, PTL
<1>6. ConsoleSpec => ChoiceStays /\ ChoiceSurvivesLists
    BY ConsoleRunsParts, ChoiceStaysAlways, ChoiceSurvivesListsAlways
<1> QED
    BY <1>1, <1>2, <1>3, <1>4, <1>5, <1>6
=============================================================================
