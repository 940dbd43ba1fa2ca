----------------------------- MODULE SetupSteps -----------------------------
(***************************************************************************)
(* The first two steps of the setup page: a panel with the lines that      *)
(* install routerctl, made for a one-time token, with a copy button for    *)
(* each line, and the button that leads to the login of Codex.  What the   *)
(* server makes of the token is in CliAuth.                                *)
(***************************************************************************)
EXTENDS Naturals

CONSTANTS
    MaxTokens,     \* bound: tokens issued
    MaxCopies      \* bound: clicks on copy buttons

ASSUME StepsAssumption == MaxTokens \in Nat /\ MaxCopies \in Nat

VARIABLES
    stepsAt,       \* "elsewhere" in the console, the setup "page", "away"
    issued,        \* server: the number of the last token issued
    generating,    \* no request, one that was "sent", or the token of its answer
    panel,         \* the token of the panel shown; 0: no panel
    platform,      \* the tab of the panel
    copied,        \* buttons that say so
    timers,        \* timeouts that will reset a button
    writes,        \* writes to the clipboard under way
    copies,
    bindings,      \* requests for the login of Codex: of this page, of an earlier
    lastCopied     \* history: the text of the last write of each button

stepsVars == <<stepsAt, issued, generating, panel, platform, copied, timers,
               writes, copies, bindings, lastCopied>>

-----------------------------------------------------------------------------
Lines == {"token", "install"}

NoAsk == 0

Asking == MaxTokens + 1

\* The text of a line; only the first one has the token in it.
LineValue(line) ==
    <<line, platform, IF line = "token" THEN panel ELSE 0>>

StepsInit ==
    /\ stepsAt = "elsewhere"
    /\ issued = 0 /\ generating = NoAsk
    /\ panel = 0 /\ platform = "unix"
    /\ copied = {} /\ timers = [line \in Lines |-> 0]
    /\ writes = {} /\ copies = 0 /\ bindings = {}
    /\ lastCopied = [line \in Lines |-> <<>>]

\* Buttons that go lose their state, a write under way goes on and a timeout
\* has no effect any more.
ButtonsGone ==
    /\ copied' = {} /\ timers' = [line \in Lines |-> 0]
    /\ writes' = {[w EXCEPT !.shown = FALSE] : w \in writes}

OpenSteps ==
    /\ stepsAt = "elsewhere" /\ stepsAt' = "page"
    /\ UNCHANGED <<issued, generating, panel, platform, copied, timers, writes,
                   copies, bindings, lastCopied>>

LeaveSteps ==
    /\ stepsAt = "page" /\ stepsAt' = "elsewhere"
    /\ generating' = NoAsk /\ panel' = 0 /\ platform' = "unix"
    /\ ButtonsGone
    /\ bindings' = {"left" : b \in bindings}
    /\ UNCHANGED <<issued, copies, lastCopied>>

\* Mutant: the panel stays until there is another one.
PanelKept == panel

\* A mutation forgets the answer of the one before.
PanelOnClick == 0

Generate ==
    /\ stepsAt = "page" /\ generating = NoAsk /\ issued < MaxTokens
    /\ generating' = Asking
    /\ panel' = PanelOnClick
    /\ IF PanelOnClick = 0
         THEN ButtonsGone /\ platform' = "unix"
         ELSE UNCHANGED <<copied, timers, writes, platform>>
    /\ UNCHANGED <<stepsAt, issued, copies, bindings, lastCopied>>

IssueToken ==
    /\ generating = Asking
    /\ issued' = issued + 1 /\ generating' = issued + 1
    /\ UNCHANGED <<stepsAt, panel, platform, copied, timers, writes, copies,
                   bindings, lastCopied>>

GenerateAnswered ==
    /\ generating \in 1 .. MaxTokens
    /\ panel' = generating /\ generating' = NoAsk
    /\ UNCHANGED <<stepsAt, issued, platform, copied, timers, writes, copies,
                   bindings, lastCopied>>

GenerateFails ==
    /\ generating # NoAsk /\ generating' = NoAsk
    /\ UNCHANGED <<stepsAt, issued, panel, platform, copied, timers, writes,
                   copies, bindings, lastCopied>>

\* Only the lines of the tab that is shown are there.
SwitchPlatform ==
    /\ panel # 0
    /\ platform' = IF platform = "unix" THEN "windows" ELSE "unix"
    /\ ButtonsGone
    /\ UNCHANGED <<stepsAt, issued, generating, panel, copies, bindings, lastCopied>>

ClickCopy(line) ==
    /\ panel # 0 /\ copies < MaxCopies /\ copies' = copies + 1
    /\ writes' = writes \cup {[line |-> line, value |-> LineValue(line),
                             click |-> copies, shown |-> TRUE]}
    /\ UNCHANGED <<stepsAt, issued, generating, panel, platform, copied, timers,
                   bindings, lastCopied>>

\* The button speaks once the clipboard has the text, and a timeout is set.
Copied(w) ==
    /\ writes' = writes \ {w}
    /\ copied' = IF w.shown THEN copied \cup {w.line} ELSE copied
    /\ timers' = IF w.shown THEN [timers EXCEPT ![w.line] = @ + 1] ELSE timers
    /\ lastCopied' = IF w.shown THEN [lastCopied EXCEPT ![w.line] = w.value] ELSE lastCopied
    /\ UNCHANGED <<stepsAt, issued, generating, panel, platform, copies, bindings>>

CopyFails(w) ==
    /\ writes' = writes \ {w}
    /\ UNCHANGED <<stepsAt, issued, generating, panel, platform, copied, timers,
                   copies, bindings, lastCopied>>

\* Every click has a timeout of its own, the first to fire resets the button.
ResetButton(line) ==
    /\ timers[line] > 0 /\ timers' = [timers EXCEPT ![line] = @ - 1]
    /\ copied' = copied \ {line}
    /\ UNCHANGED <<stepsAt, issued, generating, panel, platform, writes, copies,
                   bindings, lastCopied>>

ClickBind ==
    /\ stepsAt = "page" /\ "here" \notin bindings
    /\ bindings' = bindings \cup {"here"}
    /\ UNCHANGED <<stepsAt, issued, generating, panel, platform, copied, timers,
                   writes, copies, lastCopied>>

\* The answer leads away from whatever page is shown by then, with its state.
BindAnswered ==
    /\ stepsAt # "away" /\ bindings # {}
    /\ stepsAt' = "away" /\ bindings' = {}
    /\ generating' = NoAsk /\ panel' = 0 /\ platform' = "unix"
    /\ copied' = {} /\ timers' = [line \in Lines |-> 0] /\ writes' = {}
    /\ UNCHANGED <<issued, copies, lastCopied>>

BindFails ==
    /\ \E b \in bindings : bindings' = bindings \ {b}
    /\ UNCHANGED <<stepsAt, issued, generating, panel, platform, copied, timers,
                   writes, copies, lastCopied>>

\* The callback of the login leads to the first page of the console.
ReturnFromCodex ==
    /\ stepsAt = "away" /\ stepsAt' = "elsewhere"
    /\ UNCHANGED <<issued, generating, panel, platform, copied, timers, writes,
                   copies, bindings, lastCopied>>

StepsNext ==
    \/ OpenSteps \/ LeaveSteps
    \/ Generate \/ IssueToken \/ GenerateAnswered \/ GenerateFails
    \/ SwitchPlatform
    \/ \E line \in Lines : ClickCopy(line) \/ ResetButton(line)
    \/ \E w \in writes : Copied(w) \/ CopyFails(w)
    \/ ClickBind \/ BindAnswered \/ BindFails \/ ReturnFromCodex

StepsSpec == StepsInit /\ [][StepsNext]_stepsVars

-----------------------------------------------------------------------------
\* A button that says "copied" stands beside the text its last write put on the
\* clipboard: never beside the line of a newer token or of another platform
\* (lines 175-183 of the page: the panel goes while a token is asked for, and
\* with it the buttons).
CopiedIsShown == \A line \in copied : lastCopied[line] = LineValue(line)
=============================================================================
