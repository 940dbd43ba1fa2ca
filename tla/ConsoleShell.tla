---------------------------- MODULE ConsoleShell ----------------------------
(***************************************************************************)
(* The frame of the web console: what is shown for an address, given the   *)
(* answers about the configuration and the session, the way of a visitor   *)
(* without a session to the login page and back, and the pages that only   *)
(* administrators see.                                                     *)
(***************************************************************************)
EXTENDS QueryCache, Naturals

CONSTANT MaxTurns   \* bound: failures, reconnects and changes of the session

VARIABLES
    who,            \* server: the role of the visitor's session, or "none"
    loginUrl,       \* server: whether login is configured
    at,             \* the address: a page, the login page, or another site
    session,        \* cache: ["ui-session"]
    config,         \* cache: ["ui-config"]
    denied,         \* the error of the session query is a 401
    turns

shellVars == <<who, loginUrl, at, session, config, denied, turns>>

-----------------------------------------------------------------------------
Roles == {"member", "admin"}

Pages == {"dashboard", "keys", "admin/credentials"}

AdminPages == {"admin/credentials"}

\* The links of the navigation.
Links(role) == IF role = "admin" THEN Pages ELSE Pages \ AdminPages

InPortal(place) == place \in Pages

NotAllowed == session.failed /\ denied

\* What PortalLayout returns, in its order.
Screen ==
    CASE ~InPortal(at)                        -> at
      [] InPortal(at) /\ (Loading(config) \/ Loading(session)) -> "loading"
      [] InPortal(at) /\ ~Loading(config) /\ ~Loading(session)
            /\ (config.failed \/ session.failed) ->
                 IF NotAllowed THEN "to-login" ELSE "unavailable"
      [] OTHER                                -> "content"

\* Mutant: every page is within the frame as it is.
ShownPageUnguarded == at

\* The page within the frame: AdminOnly looks at the session of the frame.
ShownPage ==
    IF at \in AdminPages /\ session.data # "admin" THEN "forbidden" ELSE at

-----------------------------------------------------------------------------
ShellInit ==
    /\ who \in Roles \cup {"none"} /\ loginUrl \in BOOLEAN
    /\ at = "elsewhere"
    /\ session = Absent /\ config = Absent /\ denied = FALSE /\ turns = 0

\* Mutant: a 401 is heeded only while there is no session.
RedirectedAtFirst(place, q, is401) ==
    IF InPortal(place) /\ q.failed /\ is401 /\ q.data = NoData THEN "login" ELSE place

\* The address after the effect of the frame: a 401 leads to the login page,
\* whether or not there was a session before.  The login page uses the
\* configuration as well.
Redirected(place, q, is401) ==
    IF InPortal(place) /\ q.failed /\ is401 THEN "login" ELSE place

\* place is shown, with s and c in the cache.
GoTo(place, s, c) ==
    /\ session' = s /\ config' = c
    /\ at' = Redirected(place, s, denied')

\* A typed address, or the way back from the login: the program starts anew.
EnterUrl(place) ==
    /\ at = "elsewhere" \/ turns < MaxTurns
    /\ turns' = IF at = "elsewhere" THEN turns ELSE turns + 1
    /\ denied' = FALSE
    /\ GoTo(place, IF InPortal(place) THEN Mounted(Absent) ELSE Absent, Mounted(Absent))
    /\ UNCHANGED <<who, loginUrl>>

\* A link, within the frame that stays.
ClickLink(place) ==
    /\ Screen = "content" /\ place \in Links(session.data) \ {at}
    /\ at' = place
    /\ UNCHANGED <<who, loginUrl, session, config, denied, turns>>

\* Back from the login page: an error that is cached next to older data is
\* still there and leads to the login page at once.
GoBack(place) ==
    /\ at = "login" /\ session.data # NoData
    /\ denied' = denied
    /\ GoTo(place, Mounted(session), Mounted(config))
    /\ UNCHANGED <<who, loginUrl, turns>>

\* The timer of the login page, or its button; both need the address.
LeaveForLogin ==
    /\ at = "login" /\ Known(config, FALSE)
    /\ at' = "feishu"
    /\ UNCHANGED <<who, loginUrl, session, config, denied, turns>>

\* The callback sets the cookie and sends the visitor to the console; without
\* a code it sends back to the login page.
Callback ==
    /\ at = "feishu"
    /\ \/ who' \in Roles /\ at' = "dashboard"
       \/ who' = who /\ at' = "login"
    /\ session' = IF at' = "login" THEN Absent ELSE Mounted(Absent)
    /\ config' = Mounted(Absent) /\ denied' = FALSE
    /\ UNCHANGED <<loginUrl, turns>>

SpendTurn == turns < MaxTurns /\ turns' = turns + 1

\* The server's answer "none" is a 401.
FetchSession ==
    \E q \in Fetched(session, who) :
        /\ IF q.fetch = "refused" THEN SpendTurn ELSE UNCHANGED turns
        /\ IF q.fetch = "idle" /\ q.data = "none"
             THEN /\ denied' = TRUE
                  /\ GoTo(at, [session EXCEPT !.fetch = "idle", !.failed = TRUE,
                                              !.answer = NoData], config)
             ELSE /\ denied' = (denied /\ q.fetch # "idle")
                  /\ GoTo(at, q, config)
        /\ UNCHANGED <<who, loginUrl>>

FetchConfig ==
    \E q \in Fetched(config, loginUrl) :
        /\ IF q.fetch = "refused" THEN SpendTurn ELSE UNCHANGED turns
        /\ denied' = denied /\ GoTo(at, session, q)
        /\ UNCHANGED <<who, loginUrl>>

\* The browser is online again: what is shown is fetched again.
ShellReconnect ==
    /\ SpendTurn /\ (InPortal(at) \/ at = "login")
    /\ denied' = denied
    /\ GoTo(at, IF InPortal(at) THEN Mounted(session) ELSE session, Mounted(config))
    /\ UNCHANGED <<who, loginUrl>>

\* The session expires or is revoked, another tab logs in, a role changes.
SessionChanges ==
    /\ SpendTurn /\ who' \in (Roles \cup {"none"}) \ {who}
    /\ UNCHANGED <<loginUrl, at, session, config, denied>>

ShellNext ==
    \/ \E place \in Pages \cup {"login"} : EnterUrl(place)
    \/ \E place \in Pages : ClickLink(place) \/ GoBack(place)
    \/ LeaveForLogin \/ Callback
    \/ FetchSession \/ FetchConfig \/ ShellReconnect \/ SessionChanges

ShellSpec == ShellInit /\ [][ShellNext]_shellVars

-----------------------------------------------------------------------------
\* After a 401 about the session nothing of the console is shown any more, not
\* even with an older session in the cache or without a configuration (lines
\* 112-116: the effect runs before and beside what is returned).
DeniedLeavesConsole == session.failed /\ denied => ~InPortal(at)

\* A page of administrators is shown to those whose session, as last answered,
\* is an administrator's: not while it is being loaded, after a 401 or after
\* the role was lost (lines 118-148, 150-158).
AdminPagesForAdmins ==
    Screen = "content" /\ ShownPage \in AdminPages =>
        session.data = "admin" /\ ~session.failed
=============================================================================
