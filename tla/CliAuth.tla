------------------------------ MODULE CliAuth ------------------------------
(***************************************************************************)
(* The life of the tokens of routerctl: a browser login that hands out a   *)
(* code, the code or a bootstrap token exchanged for a CLI session, the    *)
(* session for a client token, and the revocation of any of them.          *)
(*                                                                         *)
(* Tokens are signed and live with the clients.  What a process remembers  *)
(* is in its repositories: of its own memory, the default, or one database *)
(* of all the processes, when create_app is given those.  The handlers do  *)
(* not await, so a process runs one at a time; those of two processes      *)
(* interleave between their transactions.                                  *)
(***************************************************************************)
EXTENDS Integers, FiniteSets

CONSTANTS
    Procs,      \* router processes
    DB,         \* the database
    Wirings,    \* of {"memory", "postgres"}: the repositories create_app gets
    Logins,     \* login ids
    Codes,      \* authorization codes
    Tokens,     \* jtis
    KindOf,     \* bound: the kind of token each jti is used for
    NoLogin, NoOrigin,
    LoginTtl,   \* lifetimes
    CodeTtl,
    TokenTtl,   \* of each kind of token that expires
    Supplies,   \* bound: the codes and jtis that one run may use together
    MaxTime,    \* bound: the clock
    MaxRestarts, \* bound: restarts, all of the same process
    MaxRevoked  \* bound: revocations

Kinds == {"human_session", "bootstrap_install", "cli_session", "client_access"}

ASSUME AuthAssumption ==
    /\ DB \notin Procs
    /\ Wirings \subseteq {"memory", "postgres"}
    /\ NoLogin \notin Logins
    /\ NoOrigin \notin Logins \cup Codes \cup Tokens
    /\ Logins \cap Codes = {} /\ (Logins \cup Codes) \cap Tokens = {}
    /\ {LoginTtl, CodeTtl} \subseteq Nat \ {0}
    /\ KindOf \in [Tokens -> Kinds]
    /\ Supplies \subseteq SUBSET (Codes \cup Tokens)
    /\ TokenTtl \in [Kinds \ {"human_session"} -> Nat \ {0}]
    /\ {MaxTime, MaxRestarts, MaxRevoked} \subseteq Nat

VARIABLES
    wiring,     \* which repositories this deployment uses
    supply,     \* bound: the codes and jtis of this run
    now,        \* the clock
    begun,      \* when each login was started, as its client knows
    sent,       \* the codes browsers were redirected with
    tokens,     \* the tokens clients hold, with their claims
    store,      \* the repositories of each process, and the database
    job,        \* the handler of each process between two transactions
    restarts,
    revocations,
    served      \* history: for the sessions, which request was answered

vars == <<wiring, supply, now, begun, sent, tokens, store, job, restarts,
          revocations, served>>

\* What the handlers leave alone, and what only clients are given.
frame   == <<wiring, supply, now, restarts, revocations>>
clients == <<begun, sent, tokens, served>>

-----------------------------------------------------------------------------
Never == -1
Forever == MaxTime + 1

\* `renewed' (history): how many codes, each presented as a login, lie
\* between the login and this code.
NotSent == [login |-> NoLogin, at |-> Never, renewed |-> 0]

\* `origin': what it was issued for, a code or a token (history, too).
NoToken == [kind |-> "none", exp |-> Never, origin |-> NoOrigin]

\* When the code or the bootstrap token was looked at, by which process, in
\* which of its lives.
NotServed == [asked |-> Never, by |-> DB, life |-> 0]

\* `pending': the keys of the pending logins and of the pending codes.
EmptyStore == [pending |-> {}, consumed |-> {}, revoked |-> {}]

Idle == [op |-> "idle", key |-> NoOrigin, verifier |-> NoLogin, asked |-> Never]

StoreOf(p) == IF wiring = "memory" THEN p ELSE DB

\* Mutant: codes live for ever.
CodeNeverExpires(c) == FALSE

CodeExpired(c) == sent[c].at + CodeTtl <= now

Expired(k) ==
    \/ k \in Logins /\ begun[k] + LoginTtl <= now
    \/ k \in Codes /\ CodeExpired(k)

\* What a lookup for a login and one for a code find.  In memory each has a
\* table of its own; the database has one table, the key is its primary key
\* and neither lookup asks for the kind of the row.
AsLogin(p) ==
    {k \in store[StoreOf(p)].pending : k \in Logins \/ wiring = "postgres"}

AsCode(p) ==
    {k \in store[StoreOf(p)].pending : k \in Codes \/ wiring = "postgres"}

\* The login whose challenge and redirection a row has.
LoginOf(k) == IF k \in Codes THEN sent[k].login ELSE k

\* A token the signature and `exp' of which are good.
Authentic(t) == tokens[t].kind \in Kinds /\ now < tokens[t].exp

\* authenticate_auth_token on process p.
Accepted(p, t) == Authentic(t) /\ t \notin store[StoreOf(p)].revoked

-----------------------------------------------------------------------------
\* The memory of the processes and the clients' tokens keep their types; a
\* token expires after it was issued.
TypeOK ==
    /\ wiring \in Wirings
    /\ supply \in Supplies
    /\ now \in 0..MaxTime
    /\ begun \in [Logins -> {Never} \cup 0..MaxTime]
    /\ sent \in [Codes -> [login   : Logins \cup {NoLogin},
                           at      : {Never} \cup 0..MaxTime,
                           renewed : Nat]]
    /\ tokens \in [Tokens -> [kind   : Kinds \cup {"none"},
                              exp    : {Never} \cup Nat,
                              origin : Codes \cup Tokens \cup {NoOrigin}]]
    /\ store \in [Procs \cup {DB} -> [pending  : SUBSET (Logins \cup Codes),
                                      consumed : SUBSET Tokens,
                                      revoked  : SUBSET Tokens]]
    /\ job \in [Procs -> [op       : {"idle", "pop_code", "consume"},
                          key      : Logins \cup Codes \cup Tokens \cup {NoOrigin},
                          verifier : Logins \cup {NoLogin},
                          asked    : {Never} \cup 0..MaxTime]]
    /\ restarts \in [Procs -> 0..MaxRestarts]
    /\ revocations \in 0..MaxRevoked
    /\ served \in [Tokens -> [asked : {Never} \cup 0..MaxTime,
                              by    : Procs \cup {DB},
                              life  : 0..MaxRestarts]]

Init ==
    /\ wiring \in Wirings
    /\ supply \in Supplies
    /\ now = 0
    /\ begun = [l \in Logins |-> Never]
    /\ sent = [c \in Codes |-> NotSent]
    /\ tokens = [t \in Tokens |-> NoToken]
    /\ store = [s \in Procs \cup {DB} |-> EmptyStore]
    /\ job = [p \in Procs |-> Idle]
    /\ restarts = [p \in Procs |-> 0]
    /\ revocations = 0
    /\ served = [t \in Tokens |-> NotServed]

-----------------------------------------------------------------------------
(* Repositories                                                            *)

\* Mutant: a pop that is only a lookup.
DropNothing(p, field, x) == UNCHANGED store

Put(p, field, x)  == store' = [store EXCEPT ![StoreOf(p)][field] = @ \cup {x}]
Drop(p, field, x) == store' = [store EXCEPT ![StoreOf(p)][field] = @ \ {x}]

\* Mutant: the lifetime is subtracted.
ExpInThePast(kind) ==
    IF kind = "human_session" THEN Forever ELSE now - TokenTtl[kind]

ExpOf(kind) == IF kind = "human_session" THEN Forever ELSE now + TokenTtl[kind]

\* issue_token, to the client that asked.
IssueAs(t, kind, origin) ==
    /\ tokens[t] = NoToken
    /\ t \in supply
    /\ KindOf[t] = kind
    /\ tokens' = [tokens EXCEPT ![t] =
                    [kind |-> kind, exp |-> ExpOf(kind), origin |-> origin]]

Issue(kind, origin) ==
    (\E t \in Tokens : IssueAs(t, kind, origin)) /\ UNCHANGED served

IssueSession(p) ==
    \E t \in Tokens :
        /\ IssueAs(t, "cli_session", job[p].key)
        /\ served' = [served EXCEPT ![t] =
                        [asked |-> job[p].asked, by |-> p,
                         life |-> restarts[p]]]

\* Mutant: the mark of a token is swept before the token expires.
UnexpiredEarly(r) == [r EXCEPT !.pending  = {k \in @ : ~Expired(k)},
                               !.consumed = {t \in @ : now + 1 < tokens[t].exp}]

Unexpired(r) == [r EXCEPT !.pending  = {k \in @ : ~Expired(k)},
                          !.consumed = {t \in @ : now < tokens[t].exp}]

-----------------------------------------------------------------------------
(* The login of a browser                                                  *)

AuthStart(p, l) ==
    /\ job[p] = Idle
    /\ begun[l] = Never
    /\ begun' = [begun EXCEPT ![l] = now]
    /\ Put(p, "pending", l)
    /\ UNCHANGED <<frame, sent, tokens, job, served>>

\* Any lookup deletes what has expired; the redirect to the identity
\* provider changes nothing.
AuthBrowser(p, k) ==
    /\ job[p] = Idle
    /\ k \in AsLogin(p)
    /\ Expired(k)
    /\ Drop(p, "pending", k)
    /\ UNCHANGED <<frame, clients, job>>

\* The identity provider sends the browser back.  The login is looked up and
\* not popped, so a browser that comes back twice is given two codes; a code
\* found as the login has what the callback reads of one, and gives another
\* code, with a lifetime of its own.
OidcCallbackCli(p, k) ==
    /\ job[p] = Idle
    /\ k \in AsLogin(p)
    /\ ~Expired(k)
    /\ \E c \in Codes :
         /\ sent[c] = NotSent /\ c \in supply
         /\ sent' = [sent EXCEPT ![c] =
                       [login   |-> LoginOf(k), at |-> now,
                        renewed |-> IF k \in Codes THEN sent[k].renewed + 1 ELSE 0]]
         /\ Put(p, "pending", c)
    /\ UNCHANGED <<frame, begun, tokens, job, served>>

\* A login this process does not know, or none: a browser session.
OidcCallbackBrowser(p) ==
    /\ job[p] = Idle
    /\ \/ UNCHANGED store
       \/ \E k \in AsLogin(p) : Expired(k) /\ Drop(p, "pending", k)
    /\ Issue("human_session", NoOrigin)
    /\ UNCHANGED <<frame, begun, sent, job>>

-----------------------------------------------------------------------------
(* The exchange of a code                                                  *)

PopMiss(p, k) ==
    /\ job[p] = Idle
    /\ k \in AsCode(p)
    /\ Expired(k)
    /\ Drop(p, "pending", k)
    /\ UNCHANGED <<frame, clients, job>>

\* The client presents a code and the verifier of one of its logins.
PopRead(p, k, v) ==
    /\ job[p] = Idle
    /\ begun[v] # Never
    /\ k \in AsCode(p)
    /\ ~Expired(k)
    /\ job' = [job EXCEPT ![p] = [op |-> "pop_code", key |-> k,
                                  verifier |-> v, asked |-> now]]
    /\ UNCHANGED <<frame, clients, store>>

\* The verifier is right, and the row has a principal, as codes do.
Redeemable(k, v) == k \in Codes /\ v = LoginOf(k)

\* The DELETE of a row another process has deleted matches no row, of which
\* SQLAlchemy warns: the exchange goes on.  Then PKCE, and the session.
PopDelete(p) ==
    /\ job[p].op = "pop_code"
    /\ Drop(p, "pending", job[p].key)
    /\ job' = [job EXCEPT ![p] = Idle]
    /\ \/ /\ Redeemable(job[p].key, job[p].verifier)
          /\ IssueSession(p)
       \/ /\ ~Redeemable(job[p].key, job[p].verifier)
          /\ UNCHANGED <<tokens, served>>
    /\ UNCHANGED <<frame, begun, sent>>

-----------------------------------------------------------------------------
(* Bootstrap tokens, client tokens                                         *)

\* require_principal asks for no kind.
BootstrapRouterctl(p, t) ==
    /\ job[p] = Idle
    /\ Accepted(p, t)
    /\ Issue("bootstrap_install", t)
    /\ UNCHANGED <<frame, begun, sent, store, job>>

BootstrapAuthenticate(p, b) ==
    /\ job[p] = Idle
    /\ Authentic(b)
    /\ tokens[b].kind = "bootstrap_install"
    /\ job' = [job EXCEPT ![p] = [op |-> "consume", key |-> b,
                                  verifier |-> NoLogin, asked |-> now]]
    /\ UNCHANGED <<frame, clients, store>>

\* consume_jti: INSERT .. ON CONFLICT DO NOTHING.
BootstrapConsume(p) ==
    /\ job[p].op = "consume"
    /\ job' = [job EXCEPT ![p] = Idle]
    /\ \/ /\ job[p].key \in store[StoreOf(p)].consumed
          /\ UNCHANGED <<tokens, store, served>>
       \/ /\ job[p].key \notin store[StoreOf(p)].consumed
          /\ Put(p, "consumed", job[p].key)
          /\ IssueSession(p)
    /\ UNCHANGED <<frame, begun, sent>>

Activate(p, t) ==
    /\ job[p] = Idle
    /\ Authentic(t)
    /\ tokens[t].kind = "cli_session"
    /\ Issue("client_access", t)
    /\ UNCHANGED <<frame, begun, sent, store, job>>

-----------------------------------------------------------------------------
(* Revocation, the sweep, restarts                                         *)

Revoke(p, t) ==
    /\ revocations < MaxRevoked
    /\ revocations' = revocations + 1
    /\ Put(p, "revoked", t)

ServerLogout(p, t) ==
    /\ job[p] = Idle
    /\ Authentic(t)
    /\ Revoke(p, t)
    /\ UNCHANGED <<clients, wiring, supply, now, job, restarts>>

\* Of a token listed by some process, expired by now or not.
RevokeCliToken(p, t) ==
    /\ job[p] = Idle
    /\ tokens[t].kind \in {"cli_session", "client_access"}
    /\ Revoke(p, t)
    /\ UNCHANGED <<clients, wiring, supply, now, job, restarts>>

SweepExpired(p) ==
    /\ job[p] = Idle
    /\ store' = [store EXCEPT ![StoreOf(p)] = Unexpired(@)]
    /\ UNCHANGED <<frame, clients, job>>

\* Mutant: start-up empties the database.
ForgetAll(p) == [store EXCEPT ![StoreOf(p)] = EmptyStore]

Forget(p) ==
    IF wiring = "memory" THEN [store EXCEPT ![p] = EmptyStore] ELSE store

Restart(p) ==
    /\ restarts[p] < MaxRestarts
    /\ \A q \in Procs \ {p} : restarts[q] = 0
    /\ restarts' = [restarts EXCEPT ![p] = @ + 1]
    /\ job' = [job EXCEPT ![p] = Idle]
    /\ store' = Forget(p)
    /\ UNCHANGED <<clients, wiring, supply, now, revocations>>

Tick ==
    /\ now < MaxTime
    /\ now' = now + 1
    /\ UNCHANGED <<clients, wiring, supply, store, job, restarts, revocations>>

-----------------------------------------------------------------------------
Next ==
    \/ \E p \in Procs :
         \/ \E l \in Logins : AuthStart(p, l)
         \/ \E k \in Logins \cup Codes : \/ AuthBrowser(p, k)
                                       \/ OidcCallbackCli(p, k)
                                       \/ PopMiss(p, k)
         \/ \E k \in Logins \cup Codes, v \in Logins : PopRead(p, k, v)
         \/ OidcCallbackBrowser(p)
         \/ PopDelete(p)
         \/ \E t \in Tokens : \/ BootstrapRouterctl(p, t)
                              \/ BootstrapAuthenticate(p, t)
                              \/ Activate(p, t)
                              \/ ServerLogout(p, t)
                              \/ RevokeCliToken(p, t)
         \/ BootstrapConsume(p)
         \/ SweepExpired(p)
         \/ Restart(p)
    \/ Tick

Spec == Init /\ [][Next]_vars

-----------------------------------------------------------------------------
(* Properties                                                              *)

\* The lifetime of the memory a token was issued from.
SameMemory(t, u) ==
    served[t].by = served[u].by /\ served[t].life = served[u].life

Sessions == {t \in Tokens : tokens[t].kind = "cli_session"}

\* Two sessions for one code: only from two processes that share the
\* database and popped it at once (pop_pending_code reads the row before it
\* deletes it).  No process redeems a code again, and with repositories in
\* memory nobody does, restarts included.
CodeRedeemedOnce ==
    \A t, u \in Sessions :
        (/\ t # u
         /\ tokens[t].origin = tokens[u].origin
         /\ tokens[t].origin \in Codes)
            => wiring = "postgres" /\ served[t].by # served[u].by

IssuedAt(t) == tokens[t].exp - TokenTtl["cli_session"]

\* Two sessions for one bootstrap token (consume_jti): with repositories in
\* memory, only from two lives or two processes; with the database, only if
\* the later one was being served while the token expired and its mark was
\* swept.  The mark outlives the token, so a sweep revives no other.
BootstrapSpentOnce ==
    \A t, u \in Sessions :
        LET b == tokens[t].origin
            late == IF tokens[t].exp < tokens[u].exp THEN u ELSE t
        IN  t # u /\ b = tokens[u].origin /\ b \in Tokens
              => \/ wiring = "memory" /\ ~SameMemory(t, u)
                 \/ wiring = "postgres" /\ tokens[b].exp <= IssuedAt(late)

\* From the start of a login to the request for its session no more time
\* passes than a login and a code live together: neither the lookup of the
\* callback nor the exchange honours what has expired.  But with the database
\* (get_pending_login asks for no kind) a living code presented as a login is
\* replaced by a new one, and each one so presented adds a code's life.
SessionInTime ==
    \A t \in Sessions :
        tokens[t].origin \in Codes =>
            LET code == sent[tokens[t].origin]
            IN  /\ served[t].asked <
                     begun[code.login] + LoginTtl + CodeTtl * (code.renewed + 1)
                /\ code.renewed > 0 => wiring = "postgres"

\* A token that a process refuses is never accepted by it again, whatever
\* the sweep removes and however long it waits; except by a process that
\* kept its revocations in its memory and was restarted.
NeverRehabilitated ==
    [][\A p \in Procs, t \in Tokens :
         tokens[t].kind \in Kinds /\ ~Accepted(p, t) /\ Accepted(p, t)'
            => wiring = "memory" /\ restarts'[p] > restarts[p]]_vars

\* `Immediately revokes a CLI or client_access token, so that it can no
\* longer be used for API calls': once every process knows of it, nothing is
\* issued for the token.
RevokedIssuesNothing ==
    [][\A t \in Tokens, r \in store[DB].revoked :
         /\ tokens[r].kind \in {"cli_session", "client_access"}
         /\ tokens[t] = NoToken
         => tokens'[t].origin # r]_vars
=============================================================================
