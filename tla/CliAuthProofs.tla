---------------------------- MODULE CliAuthProofs ----------------------------
(***************************************************************************)
(* Types, what is redeemed once, what is spent once, what is in time, and  *)
(* what is never accepted again: for any processes, logins, codes, tokens, *)
(* lifetimes and bounds.                                                   *)
(***************************************************************************)
EXTENDS CliAuth, TLAPS

Stores == Procs \cup {DB}

Memory == [pending  : SUBSET (Logins \cup Codes),
           consumed : SUBSET Tokens,
           revoked  : SUBSET Tokens]

-----------------------------------------------------------------------------
(* Types                                                                   *)

\* The repositories of a process are one of the memories.
LEMMA StoreOfType == ASSUME NEW p \in Procs PROVE StoreOf(p) \in Stores
BY DEF StoreOf, Stores

\* A login or a code is put in one memory.
LEMMA PutPending ==
    ASSUME TypeOK, NEW p \in Procs, NEW k \in Logins \cup Codes, Put(p, "pending", k)
    PROVE  /\ store' \in [Stores -> Memory]
           /\ \A s \in Stores :
                /\ store'[s].consumed = store[s].consumed
                /\ store'[s].revoked = store[s].revoked
                /\ store'[s].pending = IF s = StoreOf(p) THEN store[s].pending \cup {k}
                                       ELSE store[s].pending
<1>1. store' = [store EXCEPT ![StoreOf(p)].pending = @ \cup {k}]
  BY DEF Put
<1>2. \A s \in Stores :
        /\ store[s] \in Memory
        /\ store'[s] = IF s = StoreOf(p) THEN [store[s] EXCEPT !.pending = @ \cup {k}] ELSE store[s]
  BY <1>1, StoreOfType DEF TypeOK, Stores, Memory
<1>3. \A r \in Memory : [r EXCEPT !.pending = @ \cup {k}] \in Memory
  BY DEF Memory
<1>4. store' = [s \in Stores |-> store'[s]]
  BY <1>1 DEF TypeOK, Stores
<1> QED
  BY <1>2, <1>3, <1>4 DEF Memory

\* The mark of a token is put beside the other marks.
LEMMA PutConsumed ==
    ASSUME TypeOK, NEW p \in Procs, NEW t \in Tokens, Put(p, "consumed", t)
    PROVE  /\ store' \in [Stores -> Memory]
           /\ \A s \in Stores :
                /\ store'[s].pending = store[s].pending
                /\ store'[s].revoked = store[s].revoked
                /\ store'[s].consumed = IF s = StoreOf(p) THEN store[s].consumed \cup {t}
                                        ELSE store[s].consumed
<1>1. store' = [store EXCEPT ![StoreOf(p)].consumed = @ \cup {t}]
  BY DEF Put
<1>2. \A s \in Stores :
        /\ store[s] \in Memory
        /\ store'[s] = IF s = StoreOf(p) THEN [store[s] EXCEPT !.consumed = @ \cup {t}] ELSE store[s]
  BY <1>1, StoreOfType DEF TypeOK, Stores, Memory
<1>3. \A r \in Memory : [r EXCEPT !.consumed = @ \cup {t}] \in Memory
  BY DEF Memory
<1>4. store' = [s \in Stores |-> store'[s]]
  BY <1>1 DEF TypeOK, Stores
<1> QED
  BY <1>2, <1>3, <1>4 DEF Memory

\* A revocation is put beside the others.
LEMMA PutRevoked ==
    ASSUME TypeOK, NEW p \in Procs, NEW t \in Tokens, Put(p, "revoked", t)
    PROVE  /\ store' \in [Stores -> Memory]
           /\ \A s \in Stores :
                /\ store'[s].pending = store[s].pending
                /\ store'[s].consumed = store[s].consumed
                /\ store[s].revoked \subseteq store'[s].revoked
<1>1. store' = [store EXCEPT ![StoreOf(p)].revoked = @ \cup {t}]
  BY DEF Put
<1>2. \A s \in Stores :
        /\ store[s] \in Memory
        /\ store'[s] = IF s = StoreOf(p) THEN [store[s] EXCEPT !.revoked = @ \cup {t}] ELSE store[s]
  BY <1>1, StoreOfType DEF TypeOK, Stores, Memory
<1>3. \A r \in Memory : [r EXCEPT !.revoked = @ \cup {t}] \in Memory
  BY DEF Memory
<1>4. store' = [s \in Stores |-> store'[s]]
  BY <1>1 DEF TypeOK, Stores
<1> QED
  BY <1>2, <1>3, <1>4 DEF Memory

\* A login or a code is dropped from one memory, and nothing else.
LEMMA DropPending ==
    ASSUME TypeOK, NEW p \in Procs, NEW k, Drop(p, "pending", k)
    PROVE  /\ store' \in [Stores -> Memory]
           /\ \A s \in Stores :
                /\ store'[s].consumed = store[s].consumed
                /\ store'[s].revoked = store[s].revoked
                /\ store'[s].pending = IF s = StoreOf(p) THEN store[s].pending \ {k}
                                       ELSE store[s].pending
<1>1. store' = [store EXCEPT ![StoreOf(p)].pending = @ \ {k}]
  BY DEF Drop
<1>2. \A s \in Stores :
        /\ store[s] \in Memory
        /\ store'[s] = IF s = StoreOf(p) THEN [store[s] EXCEPT !.pending = @ \ {k}] ELSE store[s]
  BY <1>1, StoreOfType DEF TypeOK, Stores, Memory
<1>3. \A r \in Memory : [r EXCEPT !.pending = @ \ {k}] \in Memory
  BY DEF Memory
<1>4. store' = [s \in Stores |-> store'[s]]
  BY <1>1 DEF TypeOK, Stores
<1> QED
  BY <1>2, <1>3, <1>4 DEF Memory

\* A sweep removes, and of the marks only those of expired tokens.
LEMMA Swept ==
    ASSUME TypeOK, NEW p \in Procs, store' = [store EXCEPT ![StoreOf(p)] = Unexpired(@)]
    PROVE  /\ store' \in [Stores -> Memory]
           /\ \A s \in Stores :
                /\ store'[s].pending \subseteq store[s].pending
                /\ store'[s].revoked = store[s].revoked
                /\ \A t \in store[s].consumed :
                     t \in store'[s].consumed \/ (s = StoreOf(p) /\ ~(now < tokens[t].exp))
<1>1. \A s \in Stores :
        /\ store[s] \in Memory
        /\ store'[s] = IF s = StoreOf(p) THEN Unexpired(store[s]) ELSE store[s]
  BY StoreOfType DEF TypeOK, Stores, Memory
<1>2. \A r \in Memory :
        /\ Unexpired(r) \in Memory
        /\ Unexpired(r).pending \subseteq r.pending
        /\ Unexpired(r).revoked = r.revoked
        /\ \A t \in r.consumed : t \in Unexpired(r).consumed \/ ~(now < tokens[t].exp)
  BY DEF Unexpired, Memory
<1>3. store' = [s \in Stores |-> store'[s]]
  BY DEF TypeOK, Stores
<1> QED
  BY <1>1, <1>2, <1>3

\* A restart empties the memory of its process, not the database.
LEMMA Forgotten ==
    ASSUME TypeOK, NEW p \in Procs, store' = Forget(p)
    PROVE  /\ store' \in [Stores -> Memory]
           /\ \A s \in Stores :
                store'[s] = IF wiring = "memory" /\ s = p THEN EmptyStore ELSE store[s]
BY DEF TypeOK, Forget, EmptyStore, Stores, Memory

\* A token that is issued is new, and nothing happens to the others.
LEMMA Issued ==
    ASSUME TypeOK, NEW t \in Tokens, NEW kind \in Kinds,
           NEW origin \in Codes \cup Tokens \cup {NoOrigin}, IssueAs(t, kind, origin)
    PROVE  /\ tokens' \in [Tokens -> [kind   : Kinds \cup {"none"},
                                      exp    : {Never} \cup Nat,
                                      origin : Codes \cup Tokens \cup {NoOrigin}]]
           /\ tokens[t].kind = "none"
           /\ tokens'[t] = [kind |-> kind, exp |-> ExpOf(kind), origin |-> origin]
           /\ \A u \in Tokens \ {t} : tokens'[u] = tokens[u]
<1>1. ExpOf(kind) \in Nat
  BY AuthAssumption DEF ExpOf, Forever, TypeOK, Kinds
<1> QED
  BY <1>1 DEF IssueAs, TypeOK, NoToken

\* The types hold at the start.
LEMMA TypesStart == Init => TypeOK
BY AuthAssumption DEF Init, TypeOK, NotSent, NoToken, NotServed, EmptyStore, Idle, Never

\* The parts of the type invariant, by variable.
ClockOK  == wiring \in Wirings /\ supply \in Supplies /\ now \in 0..MaxTime
BegunOK  == begun \in [Logins -> {Never} \cup 0..MaxTime]
SentOK   == sent \in [Codes -> [login   : Logins \cup {NoLogin},
                                at      : {Never} \cup 0..MaxTime,
                                renewed : Nat]]
TokensOK == tokens \in [Tokens -> [kind   : Kinds \cup {"none"},
                                   exp    : {Never} \cup Nat,
                                   origin : Codes \cup Tokens \cup {NoOrigin}]]
StoreOK  == store \in [Stores -> Memory]
JobOK    == job \in [Procs -> [op       : {"idle", "pop_code", "consume"},
                               key      : Logins \cup Codes \cup Tokens \cup {NoOrigin},
                               verifier : Logins \cup {NoLogin},
                               asked    : {Never} \cup 0..MaxTime]]
CountsOK == restarts \in [Procs -> 0..MaxRestarts] /\ revocations \in 0..MaxRevoked
ServedOK == served \in [Tokens -> [asked : {Never} \cup 0..MaxTime,
                                   by    : Procs \cup {DB},
                                   life  : 0..MaxRestarts]]

Typed ==
    /\ ClockOK /\ BegunOK /\ SentOK /\ TokensOK
    /\ StoreOK /\ JobOK /\ CountsOK /\ ServedOK

\* They make it up, now and after a step.
LEMMA TypeParts == (TypeOK <=> Typed) /\ (TypeOK' <=> Typed')
BY DEF TypeOK, Typed, ClockOK, BegunOK, SentOK, TokensOK, StoreOK, JobOK, CountsOK,
       ServedOK, Stores, Memory

\* The job of a process ends.
LEMMA JobDone ==
    ASSUME TypeOK, NEW p \in Procs, job' = [job EXCEPT ![p] = Idle]
    PROVE  JobOK' /\ job'[p] = Idle /\ \A q \in Procs \ {p} : job'[q] = job[q]
BY TypeParts DEF Typed, JobOK, Idle

\* A session is issued for the key of the job of its process.
LEMMA SessionIssued ==
    ASSUME TypeOK, NEW p \in Procs, IssueSession(p), job[p].key \in Codes \cup Tokens
    PROVE  /\ TokensOK' /\ ServedOK'
           /\ \E t \in Tokens :
                /\ tokens[t].kind = "none"
                /\ tokens'[t] = [kind |-> "cli_session", exp |-> ExpOf("cli_session"),
                                 origin |-> job[p].key]
                /\ served'[t] = [asked |-> job[p].asked, by |-> p, life |-> restarts[p]]
                /\ \A u \in Tokens \ {t} : tokens'[u] = tokens[u] /\ served'[u] = served[u]
<1>1. PICK t \in Tokens :
         /\ IssueAs(t, "cli_session", job[p].key)
         /\ served' = [served EXCEPT ![t] =
                         [asked |-> job[p].asked, by |-> p, life |-> restarts[p]]]
  BY DEF IssueSession
<1>2. /\ job[p].asked \in {Never} \cup 0..MaxTime
      /\ restarts[p] \in 0..MaxRestarts
  BY TypeParts DEF Typed, JobOK, CountsOK
<1>3. "cli_session" \in Kinds
  BY DEF Kinds
<1>4. /\ TokensOK'
      /\ tokens[t].kind = "none"
      /\ tokens'[t] = [kind |-> "cli_session", exp |-> ExpOf("cli_session"),
                       origin |-> job[p].key]
      /\ \A u \in Tokens \ {t} : tokens'[u] = tokens[u]
  BY <1>1, <1>2, <1>3, Issued DEF TokensOK
<1>5. /\ ServedOK'
      /\ served'[t] = [asked |-> job[p].asked, by |-> p, life |-> restarts[p]]
      /\ \A u \in Tokens \ {t} : served'[u] = served[u]
  BY <1>1, <1>2, TypeParts DEF Typed, ServedOK
<1> QED
  BY <1>4, <1>5

\* Any other token.
LEMMA OtherIssued ==
    ASSUME TypeOK, NEW kind \in Kinds,
           NEW origin \in Codes \cup Tokens \cup {NoOrigin}, Issue(kind, origin)
    PROVE  /\ TokensOK' /\ served' = served
           /\ \E t \in Tokens :
                /\ tokens[t].kind = "none"
                /\ tokens'[t] = [kind |-> kind, exp |-> ExpOf(kind), origin |-> origin]
                /\ \A u \in Tokens \ {t} : tokens'[u] = tokens[u]
<1>1. PICK t \in Tokens : IssueAs(t, kind, origin)
  BY DEF Issue
<1>2. /\ TokensOK' /\ tokens[t].kind = "none"
      /\ tokens'[t] = [kind |-> kind, exp |-> ExpOf(kind), origin |-> origin]
      /\ \A u \in Tokens \ {t} : tokens'[u] = tokens[u]
  BY <1>1, Issued DEF TokensOK
<1> QED
  BY <1>2 DEF Issue

\* A handler between its transactions has looked up what it was asked for.
JobKeys ==
    \A p \in Procs :
        /\ job[p].op = "pop_code" => job[p].key \in Logins \cup Codes
        /\ job[p].op = "consume" => job[p].key \in Tokens

\* What the callback sends for a row.
CodeFor(k) == [login   |-> LoginOf(k), at |-> now,
               renewed |-> IF k \in Codes THEN sent[k].renewed + 1 ELSE 0]

\* It is one of the records of a code.
LEMMA CodeForType ==
    ASSUME TypeOK, NEW k \in Logins \cup Codes
    PROVE  CodeFor(k) \in [login   : Logins \cup {NoLogin},
                           at      : {Never} \cup 0..MaxTime,
                           renewed : Nat]
BY DEF TypeOK, CodeFor, LoginOf

\* Every action keeps the types.
LEMMA TypeStep == TypeOK /\ JobKeys /\ [Next]_vars => TypeOK'
<1> SUFFICES ASSUME TypeOK, JobKeys, [Next]_vars PROVE TypeOK'
  OBVIOUS
<1> USE TypeParts DEF Typed
<1>1. ASSUME NEW p \in Procs, NEW l \in Logins, AuthStart(p, l) PROVE TypeOK'
  <2>1. BegunOK'
    BY <1>1 DEF AuthStart, BegunOK, ClockOK
  <2>2. StoreOK'
    BY <1>1, PutPending DEF AuthStart, StoreOK
  <2> QED
    BY <1>1, <2>1, <2>2 DEF AuthStart, frame, ClockOK, SentOK, TokensOK, JobOK,
                            CountsOK, ServedOK
<1>2. ASSUME NEW p \in Procs, NEW k \in Logins \cup Codes, AuthBrowser(p, k)
      PROVE  TypeOK'
  <2>1. StoreOK'
    BY <1>2, DropPending DEF AuthBrowser, StoreOK
  <2> QED
    BY <1>2, <2>1 DEF AuthBrowser, frame, clients, ClockOK, BegunOK, SentOK, TokensOK,
                      JobOK, CountsOK, ServedOK
<1>3. ASSUME NEW p \in Procs, NEW k \in Logins \cup Codes, OidcCallbackCli(p, k)
      PROVE  TypeOK'
  <2>1. PICK c \in Codes : sent' = [sent EXCEPT ![c] = CodeFor(k)] /\ Put(p, "pending", c)
    BY <1>3 DEF OidcCallbackCli, CodeFor
  <2>2. StoreOK'
    BY <2>1, PutPending DEF StoreOK
  <2>3. SentOK'
    BY <2>1, CodeForType DEF SentOK
  <2> QED
    BY <1>3, <2>2, <2>3 DEF OidcCallbackCli, frame, ClockOK, BegunOK, TokensOK, JobOK,
                            CountsOK, ServedOK
<1>4. ASSUME NEW p \in Procs, OidcCallbackBrowser(p) PROVE TypeOK'
  <2>1. StoreOK'
    <3>1. CASE UNCHANGED store
      BY <3>1 DEF StoreOK
    <3>2. ASSUME NEW k, Drop(p, "pending", k) PROVE StoreOK'
      BY <3>2, DropPending DEF StoreOK
    <3> QED
      BY <1>4, <3>1, <3>2 DEF OidcCallbackBrowser
  <2>2. TokensOK' /\ served' = served
    BY <1>4, OtherIssued DEF OidcCallbackBrowser, Kinds
  <2> QED
    BY <1>4, <2>1, <2>2 DEF OidcCallbackBrowser, frame, ClockOK, BegunOK, SentOK, JobOK,
                            CountsOK, ServedOK
<1>5. ASSUME NEW p \in Procs, NEW k \in Logins \cup Codes, PopMiss(p, k) PROVE TypeOK'
  <2>1. StoreOK'
    BY <1>5, DropPending DEF PopMiss, StoreOK
  <2> QED
    BY <1>5, <2>1 DEF PopMiss, frame, clients, ClockOK, BegunOK, SentOK, TokensOK, JobOK,
                      CountsOK, ServedOK
<1>6. ASSUME NEW p \in Procs, NEW k \in Logins \cup Codes, NEW v \in Logins,
             PopRead(p, k, v)
      PROVE  TypeOK'
  <2>1. JobOK'
    BY <1>6 DEF PopRead, JobOK, ClockOK
  <2> QED
    BY <1>6, <2>1 DEF PopRead, frame, clients, ClockOK, BegunOK, SentOK, TokensOK,
                      StoreOK, CountsOK, ServedOK
<1>7. ASSUME NEW p \in Procs, PopDelete(p) PROVE TypeOK'
  <2>1. StoreOK'
    BY <1>7, DropPending DEF PopDelete, StoreOK
  <2>2. TokensOK' /\ ServedOK'
    <3>1. CASE UNCHANGED <<tokens, served>>
      BY <3>1 DEF TokensOK, ServedOK
    <3>2. CASE Redeemable(job[p].key, job[p].verifier) /\ IssueSession(p)
      BY <3>2, SessionIssued DEF Redeemable
    <3> QED
      BY <1>7, <3>1, <3>2 DEF PopDelete
  <2>3. JobOK'
    BY <1>7, JobDone DEF PopDelete
  <2> QED
    BY <1>7, <2>1, <2>2, <2>3 DEF PopDelete, frame, ClockOK, BegunOK, SentOK, CountsOK
<1>8. ASSUME NEW p \in Procs, NEW t \in Tokens, BootstrapRouterctl(p, t) PROVE TypeOK'
  <2>1. TokensOK' /\ served' = served
    BY <1>8, OtherIssued DEF BootstrapRouterctl, Kinds
  <2> QED
    BY <1>8, <2>1 DEF BootstrapRouterctl, frame, ClockOK, BegunOK, SentOK, StoreOK, JobOK,
                      CountsOK, ServedOK
<1>9. ASSUME NEW p \in Procs, NEW t \in Tokens, BootstrapAuthenticate(p, t) PROVE TypeOK'
  <2>1. JobOK'
    BY <1>9 DEF BootstrapAuthenticate, JobOK, ClockOK
  <2> QED
    BY <1>9, <2>1 DEF BootstrapAuthenticate, frame, clients, ClockOK, BegunOK, SentOK,
                      TokensOK, StoreOK, CountsOK, ServedOK
<1>10. ASSUME NEW p \in Procs, NEW t \in Tokens, Activate(p, t) PROVE TypeOK'
  <2>1. TokensOK' /\ served' = served
    BY <1>10, OtherIssued DEF Activate, Kinds
  <2> QED
    BY <1>10, <2>1 DEF Activate, frame, ClockOK, BegunOK, SentOK, StoreOK, JobOK,
                       CountsOK, ServedOK
<1>11. ASSUME NEW p \in Procs, NEW t \in Tokens, Revoke(p, t),
              UNCHANGED <<clients, wiring, supply, now, job, restarts>>
       PROVE  TypeOK'
  <2>1. StoreOK'
    BY <1>11, PutRevoked DEF Revoke, StoreOK
  <2>2. CountsOK'
    BY <1>11, AuthAssumption DEF Revoke, CountsOK
  <2> QED
    BY <1>11, <2>1, <2>2 DEF clients, ClockOK, BegunOK, SentOK, TokensOK, JobOK, ServedOK
<1>12. ASSUME NEW p \in Procs, BootstrapConsume(p) PROVE TypeOK'
  <2>1. JobOK'
    BY <1>12, JobDone DEF BootstrapConsume
  <2>2. StoreOK' /\ TokensOK' /\ ServedOK'
    <3>1. CASE UNCHANGED <<tokens, store, served>>
      BY <3>1 DEF StoreOK, TokensOK, ServedOK
    <3>2. CASE Put(p, "consumed", job[p].key) /\ IssueSession(p)
      <4>1. job[p].key \in Tokens
        BY <1>12 DEF BootstrapConsume, JobKeys
      <4> QED
        BY <3>2, <4>1, SessionIssued, PutConsumed DEF StoreOK
    <3> QED
      BY <1>12, <3>1, <3>2 DEF BootstrapConsume
  <2> QED
    BY <1>12, <2>1, <2>2 DEF BootstrapConsume, frame, ClockOK, BegunOK, SentOK, CountsOK
<1>13. ASSUME NEW p \in Procs, SweepExpired(p) PROVE TypeOK'
  <2>1. StoreOK'
    BY <1>13, Swept DEF SweepExpired, StoreOK
  <2> QED
    BY <1>13, <2>1 DEF SweepExpired, frame, clients, ClockOK, BegunOK, SentOK, TokensOK,
                       JobOK, CountsOK, ServedOK
<1>14. ASSUME NEW p \in Procs, Restart(p) PROVE TypeOK'
  <2>1. StoreOK'
    BY <1>14, Forgotten DEF Restart, StoreOK
  <2>2. JobOK'
    BY <1>14, JobDone DEF Restart
  <2>3. CountsOK'
    BY <1>14, AuthAssumption DEF Restart, CountsOK
  <2> QED
    BY <1>14, <2>1, <2>2, <2>3 DEF Restart, clients, ClockOK, BegunOK, SentOK, TokensOK,
                                   ServedOK
<1>15. CASE Tick
  <2>1. ClockOK'
    BY <1>15, AuthAssumption DEF Tick, ClockOK
  <2> QED
    BY <1>15, <2>1 DEF Tick, clients, BegunOK, SentOK, TokensOK, StoreOK, JobOK, CountsOK,
                       ServedOK
<1>16. CASE UNCHANGED vars
  BY <1>16 DEF vars, ClockOK, BegunOK, SentOK, TokensOK, StoreOK, JobOK, CountsOK, ServedOK
<1> QED
  BY <1>1, <1>2, <1>3, <1>4, <1>5, <1>6, <1>7, <1>8, <1>9, <1>10, <1>11, <1>12, <1>13,
     <1>14, <1>15, <1>16 DEF Next, ServerLogout, RevokeCliToken

\* Every action keeps the keys: only the two lookups give a process a job.
LEMMA JobKeysStep == TypeOK /\ JobKeys /\ [Next]_vars => JobKeys'
<1> SUFFICES ASSUME TypeOK, JobKeys, [Next]_vars PROVE JobKeys'
  OBVIOUS
<1>1. CASE UNCHANGED job
  BY <1>1 DEF JobKeys
<1>2. ASSUME NEW p \in Procs, job' = [job EXCEPT ![p] = Idle] PROVE JobKeys'
  BY <1>2, JobDone DEF JobKeys, Idle
<1>3. ASSUME NEW p \in Procs, NEW k \in Logins \cup Codes, NEW v \in Logins,
             PopRead(p, k, v)
      PROVE  JobKeys'
  BY <1>3, TypeParts DEF Typed, JobOK, PopRead, JobKeys
<1>4. ASSUME NEW p \in Procs, NEW t \in Tokens, BootstrapAuthenticate(p, t)
      PROVE  JobKeys'
  BY <1>4, TypeParts DEF Typed, JobOK, BootstrapAuthenticate, JobKeys
<1>5. \/ UNCHANGED job
      \/ \E p \in Procs : job' = [job EXCEPT ![p] = Idle]
      \/ \E p \in Procs, k \in Logins \cup Codes, v \in Logins : PopRead(p, k, v)
      \/ \E p \in Procs, t \in Tokens : BootstrapAuthenticate(p, t)
  BY DEF Next, vars, AuthStart, AuthBrowser, OidcCallbackCli, OidcCallbackBrowser, PopMiss,
     PopDelete, BootstrapRouterctl, Activate, ServerLogout, RevokeCliToken,
     BootstrapConsume, SweepExpired, Restart, Tick
<1> QED
  BY <1>1, <1>2, <1>3, <1>4, <1>5

\* No process has a job at the start.
LEMMA JobKeysStart == Init => JobKeys
BY DEF Init, JobKeys, Idle

\* Types hold throughout.
LEMMA TypedAlways == Spec => [](TypeOK /\ JobKeys)
BY TypesStart, JobKeysStart, TypeStep, JobKeysStep, PTL DEF Spec

\* The tables of every process, the claims of every token and the handlers keep
\* their types, whatever the login, exchange, revocation and sweep handlers do.
THEOREM AuthTypeCorrect == Spec => []TypeOK
BY TypedAlways, PTL

-----------------------------------------------------------------------------
(* What a step does to the tokens and to the tables                        *)

\* Other tokens than sessions are issued in one step, sessions after a lookup.
LEMMA TokensStep ==
    ASSUME TypeOK, JobKeys, [Next]_vars
    PROVE  \/ UNCHANGED <<tokens, served>>
           \/ /\ served' = served
              /\ \E t \in Tokens, kind \in Kinds \ {"cli_session"} :
                   /\ tokens[t].kind = "none" /\ tokens'[t].kind = kind
                   /\ \A u \in Tokens \ {t} : tokens'[u] = tokens[u]
           \/ \E p \in Procs : /\ PopDelete(p) \/ BootstrapConsume(p)
                               /\ IssueSession(p)
                               /\ job[p].key \in Codes \cup Tokens
<1> DEFINE Other == /\ served' = served
                    /\ \E t \in Tokens, kind \in Kinds \ {"cli_session"} :
                         /\ tokens[t].kind = "none" /\ tokens'[t].kind = kind
                         /\ \A u \in Tokens \ {t} : tokens'[u] = tokens[u]
<1>1. ASSUME NEW kind \in Kinds \ {"cli_session"}, NEW origin \in Tokens \cup {NoOrigin},
             Issue(kind, origin)
      PROVE  Other
  <2>1. PICK t \in Tokens :
           /\ tokens[t].kind = "none"
           /\ tokens'[t] = [kind |-> kind, exp |-> ExpOf(kind), origin |-> origin]
           /\ \A u \in Tokens \ {t} : tokens'[u] = tokens[u]
    BY <1>1, OtherIssued
  <2>2. served' = served
    BY <1>1 DEF Issue
  <2> QED
    BY <2>1, <2>2
<1>2. {"human_session", "bootstrap_install", "client_access"} \subseteq Kinds \ {"cli_session"}
  BY DEF Kinds
<1>3. ASSUME NEW p \in Procs, OidcCallbackBrowser(p) PROVE Other
  BY <1>1, <1>2, <1>3 DEF OidcCallbackBrowser
<1>4. ASSUME NEW p \in Procs, NEW t \in Tokens, BootstrapRouterctl(p, t) PROVE Other
  BY <1>1, <1>2, <1>4 DEF BootstrapRouterctl
<1>5. ASSUME NEW p \in Procs, NEW t \in Tokens, Activate(p, t) PROVE Other
  BY <1>1, <1>2, <1>5 DEF Activate
<1> HIDE DEF Other
<1>6. \/ UNCHANGED <<tokens, served>>
      \/ \E p \in Procs : OidcCallbackBrowser(p)
      \/ \E p \in Procs, t \in Tokens : BootstrapRouterctl(p, t) \/ Activate(p, t)
      \/ \E p \in Procs : /\ PopDelete(p) \/ BootstrapConsume(p)
                          /\ IssueSession(p)
                          /\ job[p].key \in Codes \cup Tokens
  BY DEF Next, vars, clients, AuthStart, AuthBrowser, OidcCallbackCli, PopMiss, PopRead,
     PopDelete, Redeemable, BootstrapAuthenticate, ServerLogout, RevokeCliToken,
     BootstrapConsume, JobKeys, SweepExpired, Restart, Tick
<1>7. Other \/ UNCHANGED <<tokens, served>>
        \/ \E p \in Procs : /\ PopDelete(p) \/ BootstrapConsume(p)
                            /\ IssueSession(p)
                            /\ job[p].key \in Codes \cup Tokens
  BY <1>3, <1>4, <1>5, <1>6
<1> QED
  BY <1>7 DEF Other

\* A token that was issued keeps its claims, and the clock does not go back.
LEMMA ClaimsKept ==
    ASSUME TypeOK, JobKeys, [Next]_vars
    PROVE  /\ \A t \in Tokens : tokens[t].kind # "none" =>
                  tokens'[t] = tokens[t] /\ served'[t] = served[t]
           /\ wiring' = wiring /\ now' \in {now, now + 1}
<1>1. \A t \in Tokens : tokens[t].kind # "none" =>
          tokens'[t] = tokens[t] /\ served'[t] = served[t]
  BY TokensStep, SessionIssued
<1>2. wiring' = wiring /\ now' \in {now, now + 1}
  BY DEF Next, vars, frame, AuthStart, AuthBrowser, OidcCallbackCli, OidcCallbackBrowser,
     PopMiss, PopRead, PopDelete, BootstrapRouterctl, BootstrapAuthenticate, Activate,
     ServerLogout, RevokeCliToken, BootstrapConsume, SweepExpired, Restart, Tick
<1> QED
  BY <1>1, <1>2

\* A revocation is forgotten with the memory that has it only.
LEMMA RevocationsKept ==
    ASSUME TypeOK, JobKeys, [Next]_vars
    PROVE  \A s \in Stores :
               \/ store[s].revoked \subseteq store'[s].revoked
               \/ wiring = "memory" /\ s \in Procs /\ restarts'[s] > restarts[s]
<1> DEFINE Kept == \A s \in Stores : store[s].revoked \subseteq store'[s].revoked
<1>1. CASE UNCHANGED store
  BY <1>1
<1>2. ASSUME NEW p \in Procs, NEW k \in Logins \cup Codes, Put(p, "pending", k) PROVE Kept
  BY <1>2, PutPending
<1>4. ASSUME NEW p \in Procs, NEW t \in Tokens, Put(p, "consumed", t) PROVE Kept
  BY <1>4, PutConsumed
<1>5. ASSUME NEW p \in Procs, NEW t \in Tokens, Put(p, "revoked", t) PROVE Kept
  BY <1>5, PutRevoked
<1>6. ASSUME NEW p \in Procs, NEW k, Drop(p, "pending", k) PROVE Kept
  BY <1>6, DropPending
<1>8. ASSUME NEW p \in Procs, SweepExpired(p) PROVE Kept
  BY <1>8, Swept DEF SweepExpired
<1>9. ASSUME NEW p \in Procs, Restart(p), NEW s \in Stores
      PROVE  \/ store[s].revoked \subseteq store'[s].revoked
             \/ wiring = "memory" /\ s \in Procs /\ restarts'[s] > restarts[s]
  <2>1. store'[s] = IF wiring = "memory" /\ s = p THEN EmptyStore ELSE store[s]
    BY <1>9, Forgotten DEF Restart
  <2>2. restarts'[p] > restarts[p]
    BY <1>9, TypeParts, AuthAssumption DEF Typed, CountsOK, Restart
  <2> QED
    BY <2>1, <2>2
<1>10. ASSUME NEW p \in Procs, BootstrapConsume(p) PROVE Kept
  <2>1. job[p].key \in Tokens
    BY <1>10 DEF BootstrapConsume, JobKeys
  <2> QED
    BY <1>1, <1>4, <1>10, <2>1 DEF BootstrapConsume
<1>11. \/ UNCHANGED store
       \/ \E p \in Procs, k \in Logins \cup Codes : Put(p, "pending", k)
       \/ \E p \in Procs, t \in Tokens : Put(p, "revoked", t)
       \/ \E p \in Procs : \E k : Drop(p, "pending", k)
       \/ \E p \in Procs : SweepExpired(p) \/ Restart(p) \/ BootstrapConsume(p)
  BY DEF Next, vars, AuthStart, AuthBrowser, OidcCallbackCli, OidcCallbackBrowser, PopMiss,
     PopRead, PopDelete, BootstrapRouterctl, BootstrapAuthenticate, Activate, ServerLogout,
     RevokeCliToken, Revoke, Tick
<1> HIDE DEF Kept
<1>12. Kept \/ UNCHANGED store \/ \E p \in Procs : Restart(p)
  BY <1>2, <1>5, <1>6, <1>8, <1>10, <1>11
<1> QED
  BY <1>1, <1>9, <1>12 DEF Kept

\* A token that a process refuses it refuses ever after, but for a process that
\* kept its revocations in memory and was restarted (authenticate_auth_token).
THEOREM NeverRehabilitatedAlways == Spec => NeverRehabilitated
<1> DEFINE Again == \A p \in Procs, t \in Tokens :
                tokens[t].kind \in Kinds /\ ~Accepted(p, t) /\ Accepted(p, t)'
                    => wiring = "memory" /\ restarts'[p] > restarts[p]
<1>1. TypeOK /\ JobKeys /\ [Next]_vars => Again
  <2> SUFFICES ASSUME TypeOK, JobKeys, [Next]_vars, NEW p \in Procs, NEW t \in Tokens,
                      tokens[t].kind \in Kinds, ~Accepted(p, t), Accepted(p, t)'
               PROVE  wiring = "memory" /\ restarts'[p] > restarts[p]
    OBVIOUS
  <2>1. tokens'[t] = tokens[t] /\ wiring' = wiring /\ now' \in {now, now + 1}
    BY ClaimsKept DEF Kinds
  <2>2. Authentic(t)
    BY <2>1, TypeParts DEF Typed, ClockOK, TokensOK, Accepted, Authentic, Never
  <2>3. StoreOf(p)' = StoreOf(p)
    BY <2>1 DEF StoreOf
  <2>4. t \in store[StoreOf(p)].revoked /\ t \notin store'[StoreOf(p)].revoked
    BY <2>2, <2>3 DEF Accepted
  <2>5. wiring = "memory" /\ StoreOf(p) \in Procs /\ restarts'[StoreOf(p)] > restarts[StoreOf(p)]
    BY <2>4, StoreOfType, RevocationsKept
  <2> QED
    BY <2>5 DEF StoreOf
<1>2. TypeOK /\ JobKeys /\ [Next]_vars => [Again]_vars
  BY <1>1
<1> QED
  BY TypedAlways, <1>2, PTL DEF Spec, NeverRehabilitated

-----------------------------------------------------------------------------
(* Codes                                                                   *)

PopsCode(p, c) == job[p].op = "pop_code" /\ job[p].key = c

CodeSession(t) == tokens[t].kind = "cli_session" /\ tokens[t].origin \in Codes

\* A process has a code to hand: in its tables, in its hands, or redeemed.
Knows(p, c) ==
    \/ c \in store[StoreOf(p)].pending
    \/ PopsCode(p, c)
    \/ \E t \in Tokens : CodeSession(t) /\ tokens[t].origin = c /\ served[t].by = p

\* Logins in the tables were begun, and codes were sent in time for them.
LoginsBegun ==
    \A s \in Stores, l \in Logins : l \in store[s].pending => begun[l] # Never

\* Every code between the two was presented while it lived.
SentInTime ==
    \A c \in Codes : sent[c] # NotSent =>
        /\ sent[c].login \in Logins /\ begun[sent[c].login] # Never
        /\ sent[c].at \in 0..MaxTime
        /\ sent[c].at < begun[sent[c].login] + LoginTtl + CodeTtl * sent[c].renewed
        /\ sent[c].renewed > 0 => wiring = "postgres"

\* Codes in the tables were sent; those in a process's hands had not expired.
CodesSent ==
    \A s \in Stores, c \in Codes : c \in store[s].pending => sent[c] # NotSent

PopsInTime ==
    \A p \in Procs, c \in Codes : PopsCode(p, c) =>
        /\ sent[c] # NotSent
        /\ job[p].asked \in 0..MaxTime /\ job[p].asked < sent[c].at + CodeTtl

SessionsInTime ==
    \A t \in Tokens : CodeSession(t) =>
        /\ sent[tokens[t].origin] # NotSent
        /\ served[t].by \in Procs /\ served[t].asked \in 0..MaxTime
        /\ served[t].asked < sent[tokens[t].origin].at + CodeTtl

InTimeInv == LoginsBegun /\ SentInTime /\ CodesSent /\ PopsInTime /\ SessionsInTime

\* A code a process has redeemed is in its tables no more, nor in its hands.
SpentHere ==
    \A t \in Tokens : CodeSession(t) =>
        /\ tokens[t].origin \notin store[StoreOf(served[t].by)].pending
        /\ ~PopsCode(served[t].by, tokens[t].origin)

\* With tables in memory one process only has a code.
KnownToOne ==
    wiring = "memory" =>
        \A p, q \in Procs, c \in Codes : Knows(p, c) /\ Knows(q, c) => p = q

CodeInv == InTimeInv /\ SpentHere /\ KnownToOne /\ CodeRedeemedOnce

\* Nothing is there at the start.
LEMMA CodeStart == Init => CodeInv
<1> SUFFICES ASSUME Init PROVE CodeInv
  OBVIOUS
<1>1. /\ \A s \in Stores : store[s].pending = {}
      /\ \A c \in Codes : sent[c] = NotSent
      /\ \A p \in Procs, c \in Codes : ~PopsCode(p, c)
      /\ \A t \in Tokens : tokens[t].kind = "none"
  BY DEF Init, EmptyStore, PopsCode, Idle, NoToken, Stores
<1>2. InTimeInv
  BY <1>1 DEF InTimeInv, LoginsBegun, SentInTime, CodesSent, PopsInTime, SessionsInTime,
              CodeSession
<1>3. SpentHere /\ CodeRedeemedOnce
  BY <1>1 DEF SpentHere, CodeSession, CodeRedeemedOnce, Sessions
<1>4. KnownToOne
  BY <1>1, StoreOfType DEF KnownToOne, Knows, CodeSession
<1> QED
  BY <1>2, <1>3, <1>4 DEF CodeInv

\* A step that sends no code, looks none up and redeems none.
LEMMA CodeQuiet ==
    ASSUME TypeOK, CodeInv, wiring' = wiring, sent' = sent, LoginsBegun',
           \A l \in Logins : begun[l] # Never => begun'[l] = begun[l],
           \A s \in Stores, c \in Codes : c \in store'[s].pending => c \in store[s].pending,
           \A p \in Procs : job'[p].op = "pop_code" => job'[p] = job[p],
           \A t \in Tokens : CodeSession(t)' =>
                tokens'[t] = tokens[t] /\ served'[t] = served[t]
    PROVE  CodeInv'
<1>1. /\ \A p \in Procs : StoreOf(p)' = StoreOf(p) /\ StoreOf(p) \in Stores
      /\ \A p \in Procs, c \in Codes : PopsCode(p, c)' => PopsCode(p, c) /\ job'[p] = job[p]
      /\ \A t \in Tokens : CodeSession(t)' =>
             CodeSession(t) /\ tokens'[t] = tokens[t] /\ served'[t] = served[t]
  BY StoreOfType DEF StoreOf, PopsCode, CodeSession
<1>2. SentInTime'
  BY DEF CodeInv, InTimeInv, SentInTime
<1>3. CodesSent'
  BY DEF CodeInv, InTimeInv, CodesSent
<1>4. PopsInTime'
  BY <1>1 DEF CodeInv, InTimeInv, PopsInTime
<1>5. SessionsInTime'
  BY <1>1 DEF CodeInv, InTimeInv, SessionsInTime
<1>6. SpentHere'
  <2> SUFFICES ASSUME NEW t \in Tokens, CodeSession(t)'
               PROVE  /\ tokens'[t].origin \notin store'[StoreOf(served[t].by)'].pending
                      /\ ~PopsCode(served[t].by, tokens[t].origin)'
    BY DEF SpentHere
  <2>1. /\ CodeSession(t) /\ tokens'[t] = tokens[t] /\ served'[t] = served[t]
        /\ served[t].by \in Procs /\ tokens[t].origin \in Codes
    BY <1>1 DEF CodeInv, InTimeInv, SessionsInTime, CodeSession
  <2>2. /\ tokens[t].origin \notin store[StoreOf(served[t].by)].pending
        /\ ~PopsCode(served[t].by, tokens[t].origin)
    BY <2>1 DEF CodeInv, SpentHere
  <2>3. StoreOf(served[t].by)' = StoreOf(served[t].by)
    BY <2>1 DEF StoreOf
  <2>4. ~PopsCode(served[t].by, tokens[t].origin)'
    BY <2>1, <2>2 DEF PopsCode
  <2> QED
    BY <1>1, <2>1, <2>2, <2>3, <2>4
<1>7. KnownToOne'
  <2>1. ASSUME NEW p \in Procs, NEW c \in Codes, Knows(p, c)' PROVE Knows(p, c)
    BY <1>1, <2>1 DEF Knows
  <2> QED
    BY <2>1 DEF CodeInv, KnownToOne
<1>8. CodeRedeemedOnce'
  <2>1. \A t \in Tokens : t \in Sessions' /\ tokens'[t].origin \in Codes => CodeSession(t)'
    BY DEF Sessions, CodeSession
  <2>2. \A t \in Tokens : CodeSession(t) => t \in Sessions
    BY DEF Sessions, CodeSession
  <2> QED
    BY <1>1, <2>1, <2>2 DEF CodeInv, CodeRedeemedOnce, Sessions
<1> QED
  BY <1>2, <1>3, <1>4, <1>5, <1>6, <1>7, <1>8 DEF CodeInv, InTimeInv

\* What the callback finds, a login or a code, lives, so the code it sends is in
\* time for the login the row goes back to.
LEMMA RowInTime ==
    ASSUME TypeOK, CodeInv, NEW p \in Procs, NEW k \in Logins \cup Codes,
           k \in store[StoreOf(p)].pending, ~Expired(k),
           k \in Codes => wiring = "postgres"
    PROVE  /\ LoginOf(k) \in Logins /\ begun[LoginOf(k)] # Never
           /\ now < begun[LoginOf(k)] + LoginTtl + CodeTtl * CodeFor(k).renewed
           /\ CodeFor(k).renewed > 0 => wiring = "postgres"
<1>1. now \in Int /\ StoreOf(p) \in Stores /\ LoginTtl \in Nat /\ CodeTtl \in Nat
  BY StoreOfType, AuthAssumption, TypeParts DEF Typed, ClockOK
<1>2. CASE k \in Codes
  <2>1. PICK l \in Logins : l = sent[k].login
    BY <1>1, <1>2 DEF CodeInv, InTimeInv, CodesSent, SentInTime
  <2>2. PICK n \in Nat : n = sent[k].renewed
    BY <1>2, TypeParts DEF Typed, SentOK
  <2>3. /\ begun[l] # Never /\ begun[l] \in Int
        /\ sent[k].at \in Int /\ sent[k].at < begun[l] + LoginTtl + CodeTtl * n
    BY <1>1, <1>2, <2>1, <2>2, TypeParts
       DEF Typed, BegunOK, Never, CodeInv, InTimeInv, CodesSent, SentInTime
  <2>4. now < sent[k].at + CodeTtl
    BY <1>1, <1>2, <2>3 DEF Expired, CodeExpired
  <2>5. CodeTtl * (n + 1) = CodeTtl * n + CodeTtl /\ CodeTtl * n \in Int
    BY <1>1
  <2>6. now < begun[l] + LoginTtl + CodeTtl * (n + 1)
    BY <1>1, <2>3, <2>4, <2>5
  <2>7. LoginOf(k) = l /\ CodeFor(k).renewed = n + 1
    BY <1>2, <2>1, <2>2 DEF LoginOf, CodeFor
  <2> QED
    BY <1>2, <2>3, <2>6, <2>7
<1>3. CASE k \notin Codes
  <2>1. begun[k] # Never /\ begun[k] \in Int
    BY <1>1, <1>3, TypeParts DEF Typed, BegunOK, Never, CodeInv, InTimeInv, LoginsBegun
  <2>2. now < begun[k] + LoginTtl
    BY <1>1, <1>3, <2>1 DEF Expired
  <2>3. LoginOf(k) = k /\ CodeFor(k).renewed = 0
    BY <1>3 DEF LoginOf, CodeFor
  <2> QED
    BY <1>1, <1>3, <2>1, <2>2, <2>3
<1> QED
  BY <1>2, <1>3

\* The callback sends a code nobody has had, while the row it found lives.
LEMMA CodeSentKeeps ==
    ASSUME TypeOK, JobKeys, CodeInv,
           NEW p \in Procs, NEW k \in Logins \cup Codes, OidcCallbackCli(p, k)
    PROVE  CodeInv'
<1>1. PICK c \in Codes : /\ sent[c] = NotSent
                         /\ sent' = [sent EXCEPT ![c] = CodeFor(k)]
                         /\ Put(p, "pending", c)
  BY DEF OidcCallbackCli, CodeFor
<1>2. /\ UNCHANGED <<wiring, begun, tokens, job, served>>
      /\ k \in store[StoreOf(p)].pending /\ ~Expired(k)
      /\ k \in Codes => wiring = "postgres"
  BY AuthAssumption DEF OidcCallbackCli, frame, AsLogin
<1>3. /\ sent'[c] = CodeFor(k)
      /\ \A d \in Codes \ {c} : sent'[d] = sent[d]
  BY <1>1, CodeForType, TypeParts DEF Typed, SentOK
<1>4. \A s \in Stores :
         store'[s].pending = IF s = StoreOf(p) THEN store[s].pending \cup {c}
                             ELSE store[s].pending
  BY <1>1, PutPending
<1>5. now \in 0..MaxTime
  BY TypeParts DEF Typed, ClockOK
<1>6. sent'[c] # NotSent
  BY <1>3, <1>5 DEF CodeFor, NotSent, Never
<1>7. /\ \A q \in Procs : StoreOf(q)' = StoreOf(q) /\ StoreOf(q) \in Stores
      /\ \A q \in Procs, d \in Codes : PopsCode(q, d)' <=> PopsCode(q, d)
      /\ \A t \in Tokens : CodeSession(t)' <=> CodeSession(t)
  BY <1>2, StoreOfType DEF StoreOf, PopsCode, CodeSession
<1>8. /\ \A q \in Procs : ~PopsCode(q, c) /\ c \notin store[StoreOf(q)].pending
      /\ \A t \in Tokens : CodeSession(t) => tokens[t].origin \in Codes \ {c}
  BY <1>1, <1>7 DEF CodeInv, InTimeInv, PopsInTime, CodesSent, SessionsInTime, CodeSession
<1>9. LoginsBegun'
  <2> SUFFICES ASSUME NEW s \in Stores, NEW l \in Logins, l \in store'[s].pending
               PROVE  begun'[l] # Never
    BY DEF LoginsBegun
  <2>1. l # c
    BY AuthAssumption
  <2>2. l \in store[s].pending
    BY <1>4, <2>1
  <2> QED
    BY <1>2, <2>2 DEF CodeInv, InTimeInv, LoginsBegun
<1>10. SentInTime'
  <2>1. /\ LoginOf(k) \in Logins /\ begun[LoginOf(k)] # Never
        /\ now < begun[LoginOf(k)] + LoginTtl + CodeTtl * CodeFor(k).renewed
        /\ CodeFor(k).renewed > 0 => wiring = "postgres"
    BY <1>2, RowInTime
  <2>2. CodeFor(k).login = LoginOf(k) /\ CodeFor(k).at = now
    BY DEF CodeFor
  <2>3. ASSUME NEW d \in Codes, sent'[d] # NotSent
        PROVE  /\ sent'[d].login \in Logins /\ begun[sent'[d].login] # Never
               /\ sent'[d].at \in 0..MaxTime
               /\ sent'[d].at <
                    begun[sent'[d].login] + LoginTtl + CodeTtl * sent'[d].renewed
               /\ sent'[d].renewed > 0 => wiring = "postgres"
    <3>1. CASE d = c
      BY <1>3, <1>5, <2>1, <2>2, <3>1
    <3>2. CASE d # c
      BY <1>3, <2>3, <3>2 DEF CodeInv, InTimeInv, SentInTime
    <3> QED
      BY <3>1, <3>2
  <2> QED
    BY <1>2, <2>3 DEF SentInTime
<1>11. CodesSent'
  BY <1>3, <1>4, <1>6 DEF CodeInv, InTimeInv, CodesSent
<1>12. PopsInTime'
  BY <1>2, <1>3, <1>7, <1>8 DEF CodeInv, InTimeInv, PopsInTime
<1>13. SessionsInTime'
  BY <1>2, <1>3, <1>7, <1>8 DEF CodeInv, InTimeInv, SessionsInTime
<1>14. SpentHere'
  <2> SUFFICES ASSUME NEW t \in Tokens, CodeSession(t)
               PROVE  /\ tokens[t].origin \notin store'[StoreOf(served[t].by)'].pending
                      /\ ~PopsCode(served[t].by, tokens[t].origin)'
    BY <1>2, <1>7 DEF SpentHere
  <2>1. served[t].by \in Procs /\ tokens[t].origin \in Codes \ {c}
    BY <1>8 DEF CodeInv, InTimeInv, SessionsInTime
  <2>2. StoreOf(served[t].by)' = StoreOf(served[t].by) /\ StoreOf(served[t].by) \in Stores
    BY <1>2, <2>1, StoreOfType DEF StoreOf
  <2>3. /\ tokens[t].origin \notin store[StoreOf(served[t].by)].pending
        /\ ~PopsCode(served[t].by, tokens[t].origin)
    BY DEF CodeInv, SpentHere
  <2>4. ~PopsCode(served[t].by, tokens[t].origin)'
    BY <1>2, <2>3 DEF PopsCode
  <2> QED
    BY <1>4, <2>1, <2>2, <2>3, <2>4
<1>15. KnownToOne'
  <2> SUFFICES ASSUME wiring = "memory", NEW q \in Procs, NEW r \in Procs, NEW d \in Codes,
                      Knows(q, d)', Knows(r, d)'
               PROVE  q = r
    BY <1>2 DEF KnownToOne
  <2>1. StoreOf(p) = p /\ StoreOf(q) = q /\ StoreOf(r) = r
    BY DEF StoreOf
  <2>2. CASE d = c
    <3>1. \A t \in Tokens : CodeSession(t)' => tokens'[t].origin # c
      BY <1>2, <1>7, <1>8
    <3>2. c \in store'[q].pending /\ c \in store'[r].pending
      BY <1>7, <1>8, <2>1, <2>2, <3>1 DEF Knows
    <3> QED
      BY <1>4, <1>7, <1>8, <2>1, <3>2
  <2>3. CASE d # c
    <3>1. Knows(q, d) /\ Knows(r, d)
      BY <1>2, <1>4, <1>7, <2>3 DEF Knows
    <3> QED
      BY <3>1 DEF CodeInv, KnownToOne
  <2> QED
    BY <2>2, <2>3
<1>16. CodeRedeemedOnce'
  BY <1>2 DEF CodeInv, CodeRedeemedOnce, Sessions
<1> QED
  BY <1>9, <1>10, <1>11, <1>12, <1>13, <1>14, <1>15, <1>16 DEF CodeInv, InTimeInv

\* A code is looked up where it is, while it lives; so is a login in its place,
\* which is no code in anybody's hands.
LEMMA CodeReadKeeps ==
    ASSUME TypeOK, JobKeys, CodeInv,
           NEW p \in Procs, NEW c \in Logins \cup Codes, NEW v \in Logins, PopRead(p, c, v)
    PROVE  CodeInv'
<1>1. /\ UNCHANGED <<wiring, begun, sent, tokens, served, store>>
      /\ c \in store[StoreOf(p)].pending /\ ~Expired(c)
  BY DEF PopRead, frame, clients, AsCode
<1>2. /\ job'[p] = [op |-> "pop_code", key |-> c, verifier |-> v, asked |-> now]
      /\ \A q \in Procs \ {p} : job'[q] = job[q]
  BY TypeParts DEF Typed, JobOK, PopRead
<1>3. /\ \A q \in Procs : StoreOf(q)' = StoreOf(q) /\ StoreOf(q) \in Stores
      /\ \A t \in Tokens : CodeSession(t)' <=> CodeSession(t)
      /\ \A q \in Procs, d \in Codes :
             PopsCode(q, d)' <=> IF q = p THEN d = c ELSE PopsCode(q, d)
  BY <1>1, <1>2, StoreOfType DEF StoreOf, CodeSession, PopsCode
<1>4. LoginsBegun' /\ SentInTime' /\ CodesSent'
  BY <1>1 DEF CodeInv, InTimeInv, LoginsBegun, SentInTime, CodesSent
<1>5. PopsInTime'
  <2>1. now \in 0..MaxTime
    BY TypeParts DEF Typed, ClockOK
  <2>2. c \in Codes => sent[c] # NotSent /\ sent[c].at \in 0..MaxTime
    BY <1>1, <1>3 DEF CodeInv, InTimeInv, CodesSent, SentInTime
  <2>3. c \in Codes => now < sent[c].at + CodeTtl
    BY <1>1, <2>1, <2>2, AuthAssumption DEF Expired, CodeExpired
  <2> QED
    BY <1>1, <1>2, <1>3, <2>1, <2>2, <2>3 DEF CodeInv, InTimeInv, PopsInTime
<1>6. SessionsInTime'
  BY <1>1, <1>3 DEF CodeInv, InTimeInv, SessionsInTime
<1>7. SpentHere'
  <2> SUFFICES ASSUME NEW t \in Tokens, CodeSession(t)
               PROVE  /\ tokens[t].origin \notin store[StoreOf(served[t].by)'].pending
                      /\ ~PopsCode(served[t].by, tokens[t].origin)'
    BY <1>1, <1>3 DEF SpentHere
  <2>1. served[t].by \in Procs /\ tokens[t].origin \in Codes
    BY DEF CodeInv, InTimeInv, SessionsInTime, CodeSession
  <2>2. StoreOf(served[t].by)' = StoreOf(served[t].by)
    BY <1>1 DEF StoreOf
  <2>3. /\ tokens[t].origin \notin store[StoreOf(served[t].by)].pending
        /\ ~PopsCode(served[t].by, tokens[t].origin)
    BY DEF CodeInv, SpentHere
  <2>4. served[t].by = p => tokens[t].origin # c
    BY <1>1, <2>3
  <2>5. ~PopsCode(served[t].by, tokens[t].origin)'
    BY <1>1, <1>2, <2>1, <2>3, <2>4 DEF PopsCode
  <2> QED
    BY <2>2, <2>3, <2>5
<1>8. KnownToOne'
  <2>1. ASSUME NEW q \in Procs, NEW d \in Codes, Knows(q, d)' PROVE Knows(q, d)
    BY <1>1, <1>3, <2>1 DEF Knows
  <2> QED
    BY <1>1, <2>1 DEF CodeInv, KnownToOne
<1>9. CodeRedeemedOnce'
  BY <1>1 DEF CodeInv, CodeRedeemedOnce, Sessions
<1> QED
  BY <1>4, <1>5, <1>6, <1>7, <1>8, <1>9 DEF CodeInv, InTimeInv

\* A code is redeemed by a process that has it to hand and has no more of it
\* afterwards: another process that redeemed it must have had it as well.
LEMMA CodeRedeemedKeeps ==
    ASSUME TypeOK, JobKeys, CodeInv, NEW p \in Procs, PopDelete(p), IssueSession(p),
           job[p].key \in Codes
    PROVE  CodeInv'
<1> DEFINE c == job[p].key
<1>1. /\ UNCHANGED <<wiring, begun, sent>> /\ job[p].op = "pop_code" /\ c \in Codes
      /\ Drop(p, "pending", c) /\ job' = [job EXCEPT ![p] = Idle]
  BY DEF PopDelete, frame
<1>2. /\ job'[p] = Idle
      /\ \A q \in Procs \ {p} : job'[q] = job[q]
  BY <1>1, JobDone
<1>3. \A s \in Stores :
         store'[s].pending = IF s = StoreOf(p) THEN store[s].pending \ {c}
                             ELSE store[s].pending
  BY <1>1, DropPending
<1>4. PICK t \in Tokens :
         /\ tokens[t].kind = "none"
         /\ tokens'[t] = [kind |-> "cli_session", exp |-> ExpOf("cli_session"), origin |-> c]
         /\ served'[t] = [asked |-> job[p].asked, by |-> p, life |-> restarts[p]]
         /\ \A u \in Tokens \ {t} : tokens'[u] = tokens[u] /\ served'[u] = served[u]
  BY SessionIssued
<1>5. /\ \A q \in Procs : StoreOf(q)' = StoreOf(q) /\ StoreOf(q) \in Stores
      /\ \A q \in Procs, d \in Codes : PopsCode(q, d)' <=> q # p /\ PopsCode(q, d)
  BY <1>1, <1>2, StoreOfType DEF StoreOf, PopsCode, Idle
<1>6. /\ CodeSession(t)' /\ ~CodeSession(t)
      /\ \A u \in Tokens \ {t} : CodeSession(u)' <=> CodeSession(u)
  BY <1>1, <1>4 DEF CodeSession
<1>7. PopsCode(p, c)
  BY <1>1 DEF PopsCode
<1> HIDE DEF c
<1>8. LoginsBegun' /\ SentInTime' /\ CodesSent'
  BY <1>1, <1>3 DEF CodeInv, InTimeInv, LoginsBegun, SentInTime, CodesSent
<1>9. PopsInTime'
  BY <1>1, <1>2, <1>5 DEF CodeInv, InTimeInv, PopsInTime
<1>10. SessionsInTime'
  <2>1. /\ sent[c] # NotSent
        /\ job[p].asked \in 0..MaxTime /\ job[p].asked < sent[c].at + CodeTtl
    BY <1>1, <1>7 DEF CodeInv, InTimeInv, PopsInTime
  <2> QED
    BY <1>1, <1>4, <1>6, <2>1 DEF CodeInv, InTimeInv, SessionsInTime
<1>11. SpentHere'
  <2> SUFFICES ASSUME NEW u \in Tokens, CodeSession(u)'
               PROVE  /\ tokens'[u].origin \notin store'[StoreOf(served[u].by)'].pending
                      /\ ~PopsCode(served[u].by, tokens[u].origin)'
    BY DEF SpentHere
  <2>1. CASE u = t
    <3>1. served'[u].by = p /\ tokens'[u].origin = c
      BY <1>4, <2>1
    <3>2. StoreOf(served[u].by)' = StoreOf(p) /\ StoreOf(p) \in Stores
      BY <1>1, <3>1, StoreOfType DEF StoreOf
    <3>3. ~PopsCode(served[u].by, tokens[u].origin)'
      BY <1>2, <3>1 DEF PopsCode, Idle
    <3> QED
      BY <1>3, <3>1, <3>2, <3>3
  <2>2. CASE u # t
    <3>1. /\ tokens'[u] = tokens[u] /\ served'[u] = served[u] /\ CodeSession(u)
          /\ served[u].by \in Procs /\ tokens[u].origin \in Codes
      BY <1>4, <1>6, <2>2 DEF CodeInv, InTimeInv, SessionsInTime, CodeSession
    <3>2. /\ tokens[u].origin \notin store[StoreOf(served[u].by)].pending
          /\ ~PopsCode(served[u].by, tokens[u].origin)
      BY <3>1 DEF CodeInv, SpentHere
    <3>3. StoreOf(served[u].by)' = StoreOf(served[u].by) /\ StoreOf(served[u].by) \in Stores
      BY <1>1, <3>1, StoreOfType DEF StoreOf
    <3>4. ~PopsCode(served[u].by, tokens[u].origin)'
      BY <1>2, <3>1, <3>2 DEF PopsCode, Idle
    <3> QED
      BY <1>3, <3>1, <3>2, <3>3, <3>4
  <2> QED
    BY <2>1, <2>2
<1>12. ASSUME NEW q \in Procs, NEW d \in Codes, Knows(q, d)' PROVE Knows(q, d)
  <2>1. ASSUME d \in store'[StoreOf(q)'].pending PROVE Knows(q, d)
    BY <1>3, <1>5, <2>1 DEF Knows
  <2>2. ASSUME PopsCode(q, d)' PROVE Knows(q, d)
    BY <1>5, <2>2 DEF Knows
  <2>3. ASSUME NEW u \in Tokens, CodeSession(u)', tokens'[u].origin = d, served'[u].by = q
        PROVE  Knows(q, d)
    <3>1. CASE u = t
      BY <1>4, <1>7, <2>3, <3>1 DEF Knows
    <3>2. CASE u # t
      BY <1>4, <1>6, <2>3, <3>2 DEF Knows
    <3> QED
      BY <3>1, <3>2
  <2> QED
    BY <1>12, <2>1, <2>2, <2>3 DEF Knows
<1>13. KnownToOne'
  BY <1>1, <1>12 DEF CodeInv, KnownToOne
<1>14. ASSUME NEW u \in Tokens \ {t}, CodeSession(u), tokens[u].origin = c
       PROVE  wiring = "postgres" /\ served[u].by # p
  <2>1. served[u].by \in Procs /\ served[u].by # p
    BY <1>7, <1>14 DEF CodeInv, InTimeInv, SessionsInTime, SpentHere
  <2>2. Knows(p, c) /\ Knows(served[u].by, c)
    BY <1>7, <1>14 DEF Knows
  <2>3. wiring # "memory"
    BY <1>1, <2>1, <2>2 DEF CodeInv, KnownToOne
  <2> QED
    BY <2>1, <2>3, TypeParts, AuthAssumption DEF Typed, ClockOK
<1>15. CodeRedeemedOnce'
  <2> SUFFICES ASSUME NEW u \in Tokens, NEW w \in Tokens, CodeSession(u)', CodeSession(w)',
                      u # w, tokens'[u].origin = tokens'[w].origin
               PROVE  wiring = "postgres" /\ served'[u].by # served'[w].by
    BY <1>1 DEF CodeRedeemedOnce, Sessions, CodeSession
  <2>1. CASE u = t
    BY <1>4, <1>6, <1>14, <2>1
  <2>2. CASE w = t
    BY <1>4, <1>6, <1>14, <2>2
  <2>3. CASE u # t /\ w # t
    <3>1. /\ CodeSession(u) /\ CodeSession(w) /\ tokens'[u] = tokens[u]
          /\ tokens'[w] = tokens[w] /\ served'[u] = served[u] /\ served'[w] = served[w]
      BY <1>4, <1>6, <2>3
    <3> QED
      BY <3>1 DEF CodeInv, CodeRedeemedOnce, Sessions, CodeSession
  <2> QED
    BY <2>1, <2>2, <2>3
<1> QED
  BY <1>8, <1>9, <1>10, <1>11, <1>13, <1>15 DEF CodeInv, InTimeInv

\* What the other steps do to the tables: codes go, and the logins that come
\* have begun.
LEMMA TablesQuiet ==
    ASSUME TypeOK, JobKeys, CodeInv, [Next]_vars,
           \A p \in Procs, k \in Logins \cup Codes : ~OidcCallbackCli(p, k)
    PROVE  /\ \A s \in Stores, c \in Codes : c \in store'[s].pending => c \in store[s].pending
           /\ \A l \in Logins : begun[l] # Never => begun'[l] = begun[l]
           /\ LoginsBegun'
<1> DEFINE Fewer == \A s \in Stores : store'[s].pending \subseteq store[s].pending
           Quiet == /\ \A s \in Stores, c \in Codes :
                         c \in store'[s].pending => c \in store[s].pending
                    /\ \A l \in Logins : begun[l] # Never => begun'[l] = begun[l]
                    /\ LoginsBegun'
<1>1. ASSUME UNCHANGED store PROVE Fewer
  BY <1>1
<1>2. ASSUME NEW p \in Procs, NEW t \in Tokens, Put(p, "consumed", t) PROVE Fewer
  BY <1>2, PutConsumed
<1>3. ASSUME NEW p \in Procs, NEW t \in Tokens, Put(p, "revoked", t) PROVE Fewer
  BY <1>3, PutRevoked
<1>4. ASSUME NEW p \in Procs, NEW k, Drop(p, "pending", k) PROVE Fewer
  BY <1>4, DropPending
<1>6. ASSUME NEW p \in Procs, SweepExpired(p) PROVE Fewer
  BY <1>6, Swept DEF SweepExpired
<1>7. ASSUME NEW p \in Procs, Restart(p) PROVE Fewer
  BY <1>7, Forgotten DEF Restart, EmptyStore
<1>8. ASSUME NEW p \in Procs, BootstrapConsume(p) PROVE Fewer
  <2>1. job[p].key \in Tokens
    BY <1>8 DEF BootstrapConsume, JobKeys
  <2> QED
    BY <1>1, <1>2, <1>8, <2>1 DEF BootstrapConsume
<1>9. ASSUME NEW p \in Procs, NEW l \in Logins, AuthStart(p, l) PROVE Quiet
  <2>1. /\ begun[l] = Never /\ begun'[l] # Never
        /\ \A k \in Logins \ {l} : begun'[k] = begun[k]
    BY <1>9, TypeParts DEF Typed, BegunOK, ClockOK, AuthStart, Never
  <2>2. \A s \in Stores : store'[s].pending \subseteq store[s].pending \cup {l}
    BY <1>9, PutPending DEF AuthStart
  <2>3. l \notin Codes
    BY AuthAssumption
  <2> QED
    BY <2>1, <2>2, <2>3 DEF CodeInv, InTimeInv, LoginsBegun
<1>10. \/ /\ begun' = begun
          /\ \/ UNCHANGED store
             \/ \E p \in Procs, t \in Tokens : Put(p, "revoked", t)
             \/ \E p \in Procs : \E k : Drop(p, "pending", k)
             \/ \E p \in Procs : SweepExpired(p) \/ Restart(p) \/ BootstrapConsume(p)
       \/ \E p \in Procs, l \in Logins : AuthStart(p, l)
  BY DEF Next, vars, clients, AuthBrowser, OidcCallbackBrowser, PopMiss, PopRead, PopDelete,
     BootstrapRouterctl, BootstrapAuthenticate, BootstrapConsume, Activate, ServerLogout,
     RevokeCliToken, Revoke, SweepExpired, Restart, Tick
<1>11. CASE begun' = begun /\ Fewer
  BY <1>11 DEF CodeInv, InTimeInv, LoginsBegun
<1> HIDE DEF Fewer, Quiet
<1>12. Quiet \/ (begun' = begun /\ Fewer)
  BY <1>1, <1>3, <1>4, <1>6, <1>7, <1>8, <1>9, <1>10
<1> QED
  BY <1>11, <1>12 DEF Quiet

\* Every action keeps the invariant of the codes.
LEMMA CodeStep == TypeOK /\ JobKeys /\ CodeInv /\ [Next]_vars => CodeInv'
<1> SUFFICES ASSUME TypeOK, JobKeys, CodeInv, [Next]_vars PROVE CodeInv'
  OBVIOUS
<1>1. CASE \E p \in Procs, k \in Logins \cup Codes : OidcCallbackCli(p, k)
  BY <1>1, CodeSentKeeps
<1>2. CASE \E p \in Procs, k \in Logins \cup Codes, v \in Logins : PopRead(p, k, v)
  BY <1>2, CodeReadKeeps
<1>3. CASE \E p \in Procs : PopDelete(p) /\ IssueSession(p) /\ job[p].key \in Codes
  BY <1>3, CodeRedeemedKeeps
<1>4. CASE /\ \A p \in Procs, k \in Logins \cup Codes : ~OidcCallbackCli(p, k)
           /\ \A p \in Procs, k \in Logins \cup Codes, v \in Logins : ~PopRead(p, k, v)
           /\ \A p \in Procs : ~(PopDelete(p) /\ IssueSession(p) /\ job[p].key \in Codes)
  <2>1. wiring' = wiring
    BY ClaimsKept
  <2>2. sent' = sent
    BY <1>4 DEF Next, vars, clients, AuthStart, AuthBrowser, OidcCallbackBrowser, PopMiss,
       PopDelete, BootstrapRouterctl, BootstrapAuthenticate, BootstrapConsume, Activate,
       ServerLogout, RevokeCliToken, SweepExpired, Restart, Tick
  <2>3. /\ \A s \in Stores, c \in Codes : c \in store'[s].pending => c \in store[s].pending
        /\ \A l \in Logins : begun[l] # Never => begun'[l] = begun[l]
        /\ LoginsBegun'
    BY <1>4, TablesQuiet
  <2>4. \A q \in Procs : job'[q].op = "pop_code" => job'[q] = job[q]
    <3>1. \/ UNCHANGED job
          \/ \E p \in Procs : job' = [job EXCEPT ![p] = Idle]
          \/ \E p \in Procs, t \in Tokens : BootstrapAuthenticate(p, t)
      BY <1>4 DEF Next, vars, AuthStart, AuthBrowser, OidcCallbackCli, OidcCallbackBrowser,
         PopMiss, PopDelete, BootstrapRouterctl, Activate, ServerLogout, RevokeCliToken,
         BootstrapConsume, SweepExpired, Restart, Tick
    <3>2. ASSUME NEW p \in Procs, job' = [job EXCEPT ![p] = Idle], NEW q \in Procs
          PROVE  job'[q].op = "pop_code" => job'[q] = job[q]
      BY <3>2, JobDone DEF Idle
    <3>3. ASSUME NEW p \in Procs, NEW t \in Tokens, BootstrapAuthenticate(p, t),
                 NEW q \in Procs
          PROVE  job'[q].op = "pop_code" => job'[q] = job[q]
      BY <3>3, TypeParts DEF Typed, JobOK, BootstrapAuthenticate
    <3> QED
      BY <3>1, <3>2, <3>3
  <2>5. ASSUME NEW t \in Tokens, CodeSession(t)'
        PROVE  tokens'[t] = tokens[t] /\ served'[t] = served[t]
    <3>1. CASE tokens[t].kind # "none"
      BY <3>1, ClaimsKept
    <3>2. CASE UNCHANGED <<tokens, served>>
      BY <3>2
    <3>3. CASE tokens[t].kind = "none" /\ served' = served
               /\ \E u \in Tokens, kind \in Kinds \ {"cli_session"} :
                    /\ tokens[u].kind = "none" /\ tokens'[u].kind = kind
                    /\ \A w \in Tokens \ {u} : tokens'[w] = tokens[w]
      BY <2>5, <3>3 DEF CodeSession
    <3>4. ASSUME NEW p \in Procs, PopDelete(p) \/ BootstrapConsume(p), IssueSession(p),
                 job[p].key \in Codes \cup Tokens
          PROVE  tokens'[t] = tokens[t] /\ served'[t] = served[t]
      <4>1. job[p].key \notin Codes
        BY <1>4, <3>4, AuthAssumption DEF BootstrapConsume, JobKeys
      <4>2. PICK u \in Tokens :
               /\ tokens'[u] = [kind |-> "cli_session", exp |-> ExpOf("cli_session"),
                                origin |-> job[p].key]
               /\ \A w \in Tokens \ {u} : tokens'[w] = tokens[w] /\ served'[w] = served[w]
        BY <3>4, SessionIssued
      <4>3. tokens'[u].origin = job[p].key
        BY <4>2
      <4>4. t # u
        BY <2>5, <4>1, <4>3 DEF CodeSession
      <4> QED
        BY <4>2, <4>4
    <3> QED
      BY <1>4, <3>1, <3>2, <3>3, <3>4, TokensStep
  <2> QED
    BY <2>1, <2>2, <2>3, <2>4, <2>5, CodeQuiet
<1> QED
  BY <1>1, <1>2, <1>3, <1>4

\* The invariant of the codes holds throughout.
LEMMA CodesAlways == Spec => [](TypeOK /\ JobKeys /\ CodeInv)
BY TypedAlways, CodeStart, CodeStep, PTL DEF Spec

\* A code gives one session, but for two processes that share the database and
\* have both read its row (pop_pending_code reads before it deletes).
THEOREM CodeRedeemedOnceAlways == Spec => []CodeRedeemedOnce
<1>1. CodeInv => CodeRedeemedOnce
  BY DEF CodeInv
<1> QED
  BY <1>1, CodesAlways, PTL

\* From the start of a login to the request for its session no more time passes
\* than the login and the code live, one after the other, and, with the database,
\* one code's life more for each code that was presented as a login between them.
THEOREM SessionInTimeAlways == Spec => []SessionInTime
<1>1. TypeOK /\ CodeInv => SessionInTime
  <2> SUFFICES ASSUME TypeOK, CodeInv, NEW t \in Sessions, tokens[t].origin \in Codes
               PROVE  /\ served[t].asked < begun[sent[tokens[t].origin].login] + LoginTtl
                                            + CodeTtl * (sent[tokens[t].origin].renewed + 1)
                      /\ sent[tokens[t].origin].renewed > 0 => wiring = "postgres"
    BY DEF SessionInTime
  <2>1. PICK c \in Codes : c = tokens[t].origin
    OBVIOUS
  <2>2. /\ sent[c] # NotSent
        /\ served[t].asked \in 0..MaxTime /\ served[t].asked < sent[c].at + CodeTtl
    BY <2>1 DEF CodeInv, InTimeInv, SessionsInTime, CodeSession, Sessions
  <2>3. PICK l \in Logins : l = sent[c].login
    BY <2>2 DEF CodeInv, InTimeInv, SentInTime
  <2>4. PICK n \in Nat : n = sent[c].renewed
    BY TypeParts DEF Typed, SentOK
  <2>5. /\ begun[l] # Never /\ sent[c].at \in 0..MaxTime
        /\ sent[c].at < begun[l] + LoginTtl + CodeTtl * n
    BY <2>2, <2>3, <2>4 DEF CodeInv, InTimeInv, SentInTime
  <2>6. begun[l] \in 0..MaxTime /\ LoginTtl \in Nat /\ CodeTtl \in Nat
    BY <2>5, TypeParts, AuthAssumption DEF Typed, BegunOK
  <2>7. CodeTtl * (n + 1) = CodeTtl * n + CodeTtl /\ CodeTtl * n \in Int
    BY <2>6
  <2>8. served[t].asked < begun[l] + LoginTtl + CodeTtl * (n + 1)
    BY <2>2, <2>5, <2>6, <2>7
  <2>9. sent[c].renewed > 0 => wiring = "postgres"
    BY <2>2 DEF CodeInv, InTimeInv, SentInTime
  <2> QED
    BY <2>1, <2>3, <2>4, <2>8, <2>9
<1> QED
  BY <1>1, CodesAlways, PTL

-----------------------------------------------------------------------------
(* Bootstrap tokens                                                        *)

BootSession(t) == tokens[t].kind = "cli_session" /\ tokens[t].origin \in Tokens

Consumes(p, b) == job[p].op = "consume" /\ job[p].key = b

\* The memory a session was issued from is still there.
SameLife(t) == wiring = "memory" => served[t].life = restarts[served[t].by]

\* A token in the hands of a process was issued, so its claims are fixed.
ConsumesKnown == \A p \in Procs, b \in Tokens : Consumes(p, b) => tokens[b].kind # "none"

\* So was the one a session came from; and the session is no younger than now.
SessionsKnown ==
    \A t \in Tokens : BootSession(t) =>
        /\ tokens[tokens[t].origin].kind # "none"
        /\ served[t].by \in Procs /\ served[t].life <= restarts[served[t].by]
        /\ tokens[t].exp \in Nat /\ IssuedAt(t) <= now

\* A token that was exchanged has its mark, or it has expired and, in memory, its
\* process is not about to look for the mark.
Marked ==
    \A t \in Tokens : BootSession(t) /\ SameLife(t) =>
        \/ tokens[t].origin \in store[StoreOf(served[t].by)].consumed
        \/ /\ tokens[tokens[t].origin].exp <= now
           /\ wiring = "memory" => ~Consumes(served[t].by, tokens[t].origin)

SpentInv == ConsumesKnown /\ SessionsKnown /\ Marked /\ BootstrapSpentOnce

\* A session lives as long as any other, so its age is known.
LEMMA SessionTtl == TokenTtl["cli_session"] \in Nat
BY AuthAssumption DEF Kinds

\* Two sessions for one token are of two memories, or one of them is no older than
\* the end of the token: the property, without the later one of the two.
Apart(t, u) ==
    \/ wiring = "memory" /\ ~SameMemory(t, u)
    \/ /\ wiring = "postgres"
       /\ \/ tokens[tokens[t].origin].exp <= IssuedAt(t)
          \/ tokens[tokens[t].origin].exp <= IssuedAt(u)

AllApart ==
    \A t, u \in Tokens :
        (/\ BootSession(t) /\ BootSession(u)
         /\ t # u /\ tokens[t].origin = tokens[u].origin) => Apart(t, u)

\* It says the same.
LEMMA ApartEnough == TypeOK => (BootstrapSpentOnce <=> AllApart)
<1> SUFFICES ASSUME TypeOK PROVE BootstrapSpentOnce <=> AllApart
  OBVIOUS
<1> DEFINE Late(t, u) == IF tokens[t].exp < tokens[u].exp THEN u ELSE t
           Said(t, u) == \/ wiring = "memory" /\ ~SameMemory(t, u)
                         \/ /\ wiring = "postgres"
                            /\ tokens[tokens[t].origin].exp <= IssuedAt(Late(t, u))
           Two(t, u) == /\ BootSession(t) /\ BootSession(u)
                        /\ t # u /\ tokens[t].origin = tokens[u].origin
<1>1. BootstrapSpentOnce <=> \A t, u \in Tokens : Two(t, u) => Said(t, u)
  BY DEF BootstrapSpentOnce, Sessions, BootSession
<1>2. ASSUME NEW t \in Tokens, NEW u \in Tokens, Two(t, u) PROVE Said(t, u) <=> Apart(t, u)
  <2>1. /\ tokens[t].exp \in Int /\ tokens[u].exp \in Int
        /\ tokens[tokens[t].origin].exp \in Int
    BY <1>2, TypeParts DEF Typed, TokensOK, BootSession, Never
  <2>2. /\ IssuedAt(t) \in Int /\ IssuedAt(u) \in Int
        /\ IssuedAt(t) < IssuedAt(u) <=> tokens[t].exp < tokens[u].exp
    BY <2>1, SessionTtl DEF IssuedAt
  <2>3. CASE tokens[t].exp < tokens[u].exp
    <3>1. Late(t, u) = u
      BY <2>3
    <3> QED
      BY <2>1, <2>2, <2>3, <3>1 DEF Apart
  <2>4. CASE ~(tokens[t].exp < tokens[u].exp)
    <3>1. Late(t, u) = t
      BY <2>4
    <3> QED
      BY <2>1, <2>2, <2>4, <3>1 DEF Apart
  <2> QED
    BY <2>3, <2>4
<1> HIDE DEF Said
<1> QED
  BY <1>1, <1>2 DEF AllApart

\* So it does after a step.
LEMMA ApartEnoughNext == TypeOK' => (BootstrapSpentOnce' <=> AllApart')
BY ApartEnough, PTL

\* A step that issues no session: marks go with the memory they are in, or
\* because their tokens have expired.
LEMMA SpentQuiet ==
    ASSUME TypeOK, TypeOK', SpentInv, wiring' = wiring, now' \in {now, now + 1},
           \A p \in Procs : restarts'[p] >= restarts[p],
           \A t \in Tokens : tokens[t].kind # "none" =>
                tokens'[t] = tokens[t] /\ served'[t] = served[t],
           \A t \in Tokens : BootSession(t)' =>
                tokens'[t] = tokens[t] /\ served'[t] = served[t],
           \A p \in Procs, b \in Tokens : Consumes(p, b)' =>
                Consumes(p, b) \/ (tokens[b].kind # "none" /\ now < tokens[b].exp),
           \A p \in Procs, b \in Tokens : b \in store[StoreOf(p)].consumed =>
                \/ b \in store'[StoreOf(p)].consumed
                \/ /\ tokens[b].exp <= now
                   /\ wiring = "memory" => ~Consumes(p, b)'
                \/ wiring = "memory" /\ restarts'[p] # restarts[p]
    PROVE  SpentInv'
<1>1. ConsumesKnown'
  BY DEF SpentInv, ConsumesKnown
<1>2. /\ now \in Int /\ now' \in Int /\ now <= now'
      /\ \A p \in Procs : restarts[p] \in Int /\ restarts'[p] \in Int
      /\ \A t \in Tokens : tokens[t].exp \in Int /\ served[t].life \in Int
  BY TypeParts DEF Typed, ClockOK, CountsOK, TokensOK, ServedOK, Never
<1>3. ASSUME NEW t \in Tokens, BootSession(t)'
      PROVE  /\ BootSession(t) /\ tokens'[t] = tokens[t] /\ served'[t] = served[t]
             /\ tokens[t].origin \in Tokens
             /\ tokens[tokens[t].origin].kind # "none"
             /\ tokens'[tokens[t].origin] = tokens[tokens[t].origin]
             /\ served[t].by \in Procs /\ served[t].life <= restarts[served[t].by]
             /\ tokens[t].exp \in Nat /\ IssuedAt(t) <= now /\ IssuedAt(t)' = IssuedAt(t)
  <2>1. BootSession(t) /\ tokens'[t] = tokens[t] /\ served'[t] = served[t]
    BY <1>3 DEF BootSession
  <2>2. IssuedAt(t)' = IssuedAt(t)
    BY <2>1 DEF IssuedAt
  <2> QED
    BY <2>1, <2>2 DEF SpentInv, SessionsKnown, BootSession
<1>4. SessionsKnown'
  <2> SUFFICES ASSUME NEW t \in Tokens, BootSession(t)'
               PROVE  /\ tokens'[tokens'[t].origin].kind # "none"
                      /\ served'[t].by \in Procs
                      /\ served'[t].life <= restarts'[served'[t].by]
                      /\ tokens'[t].exp \in Nat /\ IssuedAt(t)' <= now'
    BY DEF SessionsKnown
  <2>1. served[t].life <= restarts'[served[t].by]
    BY <1>2, <1>3
  <2>2. IssuedAt(t) <= now'
    BY <1>2, <1>3, SessionTtl DEF IssuedAt
  <2> QED
    BY <1>3, <2>1, <2>2
<1>5. Marked'
  <2> SUFFICES ASSUME NEW t \in Tokens, BootSession(t)', SameLife(t)',
                      NEW b \in Tokens, b = tokens[t].origin,
                      NEW p \in Procs, p = served[t].by
               PROVE  \/ b \in store'[StoreOf(p)].consumed
                      \/ /\ tokens[b].exp <= now'
                         /\ wiring = "memory" => ~Consumes(p, b)'
    <3>1. ASSUME NEW t \in Tokens, BootSession(t)'
          PROVE  /\ tokens'[t].origin = tokens[t].origin /\ served'[t].by = served[t].by
                 /\ tokens[t].origin \in Tokens /\ served[t].by \in Procs
                 /\ tokens'[tokens[t].origin] = tokens[tokens[t].origin]
      BY <1>3, <3>1
    <3> QED
      BY <3>1 DEF Marked, StoreOf, Consumes
  <2>1. BootSession(t) /\ tokens[b].exp \in Int
    BY <1>2, <1>3
  <2>2. SameLife(t) /\ (wiring = "memory" => restarts'[p] = restarts[p])
    <3>1. CASE wiring # "memory"
      BY <3>1 DEF SameLife
    <3>2. CASE wiring = "memory"
      <4>1. served'[t].life = restarts'[served'[t].by]
        BY <3>2 DEF SameLife
      <4>2. served[t].life = restarts'[p]
        BY <1>3, <4>1
      <4>3. served[t].life <= restarts[p] /\ restarts'[p] >= restarts[p]
        BY <1>3
      <4>4. restarts'[p] = restarts[p]
        BY <1>2, <4>2, <4>3
      <4> QED
        BY <4>2, <4>4 DEF SameLife
    <3> QED
      BY <3>1, <3>2
  <2>3. CASE b \in store[StoreOf(p)].consumed
    <3>1. \/ b \in store'[StoreOf(p)].consumed
          \/ tokens[b].exp <= now /\ (wiring = "memory" => ~Consumes(p, b)')
      BY <2>2, <2>3
    <3> QED
      BY <1>2, <2>1, <3>1
  <2>4. CASE tokens[b].exp <= now /\ (wiring = "memory" => ~Consumes(p, b))
    <3>1. ~(now < tokens[b].exp)
      BY <1>2, <2>1, <2>4
    <3>2. wiring = "memory" => ~Consumes(p, b)'
      BY <2>4, <3>1
    <3>3. tokens[b].exp <= now'
      BY <1>2, <2>1, <2>4
    <3> QED
      BY <3>2, <3>3
  <2> QED
    BY <2>1, <2>2, <2>3, <2>4 DEF SpentInv, Marked
<1>6. AllApart'
  <2> SUFFICES ASSUME NEW t \in Tokens, NEW u \in Tokens, BootSession(t)', BootSession(u)',
                      t # u, tokens'[t].origin = tokens'[u].origin
               PROVE  Apart(t, u)'
    BY DEF AllApart
  <2>1. SameMemory(t, u)' <=> SameMemory(t, u)
    BY <1>3 DEF SameMemory
  <2>2. Apart(t, u)
    BY <1>3, ApartEnough DEF SpentInv, AllApart
  <2> QED
    BY <1>3, <2>1, <2>2 DEF Apart
<1> QED
  BY <1>1, <1>4, <1>5, <1>6, ApartEnoughNext DEF SpentInv

\* A token is exchanged: an older session from it is of another memory, or was
\* issued for a token that has expired since and whose mark was swept.
LEMMA SpentConsumed ==
    ASSUME TypeOK, TypeOK', JobKeys, SpentInv, NEW p \in Procs,
           BootstrapConsume(p), IssueSession(p)
    PROVE  SpentInv'
<1>1. PICK b \in Tokens : b = job[p].key
  BY DEF BootstrapConsume, JobKeys
<1>2. PICK t \in Tokens :
         /\ tokens[t].kind = "none"
         /\ tokens'[t] = [kind |-> "cli_session", exp |-> ExpOf("cli_session"), origin |-> b]
         /\ served'[t] = [asked |-> job[p].asked, by |-> p, life |-> restarts[p]]
         /\ \A u \in Tokens \ {t} : tokens'[u] = tokens[u] /\ served'[u] = served[u]
  BY <1>1, SessionIssued
<1>3. /\ UNCHANGED <<wiring, now, restarts>>
      /\ Consumes(p, b) /\ tokens[b].kind # "none" /\ t # b
  BY <1>1, <1>2 DEF BootstrapConsume, frame, SpentInv, ConsumesKnown, Consumes
<1>4. /\ job'[p] = Idle
      /\ \A q \in Procs \ {p} : job'[q] = job[q]
      /\ \A q \in Procs, d \in Tokens : Consumes(q, d)' => q # p /\ Consumes(q, d)
  <2>1. job' = [job EXCEPT ![p] = Idle]
    BY DEF BootstrapConsume
  <2>2. job'[p] = Idle /\ \A q \in Procs \ {p} : job'[q] = job[q]
    BY <2>1, JobDone
  <2> QED
    BY <2>2 DEF Consumes, Idle
<1>5. tokens'[t] # tokens[t]
  BY <1>2
<1>6. b \notin store[StoreOf(p)].consumed /\ Put(p, "consumed", b)
  BY <1>1, <1>5 DEF BootstrapConsume
<1>7. /\ \A s \in Stores : store[s].consumed \subseteq store'[s].consumed
      /\ b \in store'[StoreOf(p)].consumed
      /\ \A q \in Procs : StoreOf(q)' = StoreOf(q) /\ StoreOf(q) \in Stores
  BY <1>3, <1>6, PutConsumed, StoreOfType DEF StoreOf
<1>8. /\ now \in Int
      /\ \A q \in Procs : restarts[q] \in Int
      /\ tokens'[t].exp = now + TokenTtl["cli_session"]
      /\ tokens'[t].exp \in Nat /\ IssuedAt(t)' = now
  BY <1>2, TypeParts, SessionTtl DEF Typed, ClockOK, CountsOK, ExpOf, IssuedAt
<1>9. ASSUME NEW u \in Tokens \ {t}, BootSession(u)'
      PROVE  /\ BootSession(u) /\ tokens'[u] = tokens[u] /\ served'[u] = served[u]
             /\ tokens[u].origin \in Tokens
             /\ tokens[tokens[u].origin].kind # "none"
             /\ tokens'[tokens[u].origin] = tokens[tokens[u].origin]
             /\ served[u].by \in Procs /\ served[u].life <= restarts[served[u].by]
             /\ tokens[u].exp \in Nat /\ IssuedAt(u) <= now /\ IssuedAt(u)' = IssuedAt(u)
  <2>1. BootSession(u) /\ tokens'[u] = tokens[u] /\ served'[u] = served[u]
    BY <1>2, <1>9 DEF BootSession
  <2>2. IssuedAt(u)' = IssuedAt(u)
    BY <2>1 DEF IssuedAt
  <2> QED
    BY <1>2, <2>1, <2>2 DEF SpentInv, SessionsKnown, BootSession
<1>10. ConsumesKnown'
  BY <1>2, <1>4 DEF SpentInv, ConsumesKnown
<1>11. SessionsKnown'
  <2> SUFFICES ASSUME NEW u \in Tokens, BootSession(u)'
               PROVE  /\ tokens'[tokens'[u].origin].kind # "none"
                      /\ served'[u].by \in Procs
                      /\ served'[u].life <= restarts'[served'[u].by]
                      /\ tokens'[u].exp \in Nat /\ IssuedAt(u)' <= now'
    BY DEF SessionsKnown
  <2>1. CASE u = t
    BY <1>2, <1>3, <1>8, <2>1
  <2>2. CASE u # t
    BY <1>3, <1>9, <2>2
  <2> QED
    BY <2>1, <2>2
<1>12. Marked'
  <2> SUFFICES ASSUME NEW u \in Tokens, BootSession(u)', SameLife(u)',
                      NEW d \in Tokens, d = tokens'[u].origin,
                      NEW q \in Procs, q = served'[u].by
               PROVE  \/ d \in store'[StoreOf(q)].consumed
                      \/ /\ tokens'[d].exp <= now
                         /\ wiring = "memory" => ~Consumes(q, d)'
    <3>1. ASSUME NEW u \in Tokens, BootSession(u)'
          PROVE  tokens'[u].origin \in Tokens /\ served'[u].by \in Procs
      BY <1>2, <1>9, <3>1
    <3> QED
      BY <1>3, <3>1 DEF Marked, StoreOf, Consumes
  <2>1. CASE u = t
    BY <1>2, <1>7, <2>1
  <2>2. CASE u # t
    <3>1. /\ BootSession(u) /\ d = tokens[u].origin /\ q = served[u].by
          /\ tokens'[d] = tokens[d]
      BY <1>9, <2>2
    <3>2. SameLife(u)
      BY <1>3, <1>9, <2>2 DEF SameLife
    <3>3. \/ d \in store[StoreOf(q)].consumed
          \/ tokens[d].exp <= now /\ (wiring = "memory" => ~Consumes(q, d))
      BY <3>1, <3>2 DEF SpentInv, Marked
    <3> QED
      BY <1>4, <1>7, <3>1, <3>3
  <2> QED
    BY <2>1, <2>2
<1>13. ASSUME NEW u \in Tokens \ {t}, BootSession(u)', tokens'[u].origin = b
       PROVE  \/ /\ wiring = "memory"
                 /\ ~(served[u].by = p /\ served[u].life = restarts[p])
              \/ wiring = "postgres" /\ tokens[b].exp <= now
  <2>1. BootSession(u) /\ tokens[u].origin = b /\ served[u].by \in Procs
    BY <1>9, <1>13
  <2>2. CASE wiring = "memory"
    <3>1. SUFFICES ASSUME served[u].by = p, served[u].life = restarts[p] PROVE FALSE
      BY <2>2
    <3>2. SameLife(u)
      BY <3>1 DEF SameLife
    <3> QED
      BY <1>3, <1>6, <2>1, <2>2, <3>1, <3>2 DEF SpentInv, Marked
  <2>3. CASE wiring = "postgres"
    <3>1. SameLife(u)
      BY <2>3 DEF SameLife
    <3>2. StoreOf(served[u].by) = StoreOf(p)
      BY <2>3 DEF StoreOf
    <3> QED
      BY <1>6, <2>1, <2>3, <3>1, <3>2 DEF SpentInv, Marked
  <2> QED
    BY <2>2, <2>3, TypeParts, AuthAssumption DEF Typed, ClockOK
<1>14. AllApart'
  <2> SUFFICES ASSUME NEW u \in Tokens, NEW w \in Tokens, BootSession(u)', BootSession(w)',
                      u # w, tokens'[u].origin = tokens'[w].origin
               PROVE  Apart(u, w)'
    BY DEF AllApart
  <2>1. tokens'[b] = tokens[b] /\ tokens'[t].origin = b
    BY <1>2, <1>3
  <2>2. CASE u = t
    <3>1. tokens'[w].origin = b /\ served'[w] = served[w]
      BY <1>9, <2>1, <2>2
    <3> QED
      BY <1>2, <1>3, <1>8, <1>13, <2>1, <2>2, <3>1 DEF Apart, SameMemory
  <2>3. CASE w = t
    <3>1. tokens'[u].origin = b /\ served'[u] = served[u]
      BY <1>9, <2>1, <2>3
    <3> QED
      BY <1>2, <1>3, <1>8, <1>13, <2>1, <2>3, <3>1 DEF Apart, SameMemory
  <2>4. CASE u # t /\ w # t
    <3>1. Apart(u, w)
      BY <1>9, <2>4, ApartEnough DEF SpentInv, AllApart
    <3>2. SameMemory(u, w)' <=> SameMemory(u, w)
      BY <1>9, <2>4 DEF SameMemory
    <3> QED
      BY <1>3, <1>9, <2>4, <3>1, <3>2 DEF Apart
  <2> QED
    BY <2>2, <2>3, <2>4
<1> QED
  BY <1>10, <1>11, <1>12, <1>14, ApartEnoughNext DEF SpentInv

\* Marks go with the memory they are in, or for tokens that have expired.
LEMMA MarksKept ==
    ASSUME TypeOK, JobKeys, [Next]_vars, NEW p \in Procs, NEW b \in Tokens,
           b \in store[StoreOf(p)].consumed
    PROVE  \/ b \in store'[StoreOf(p)].consumed
           \/ /\ tokens[b].exp <= now
              /\ wiring = "memory" => ~Consumes(p, b)'
           \/ wiring = "memory" /\ restarts'[p] # restarts[p]
<1> DEFINE Kept == b \in store'[StoreOf(p)].consumed
<1>1. StoreOf(p) \in Stores
  BY StoreOfType
<1>2. ASSUME UNCHANGED store PROVE Kept
  BY <1>2
<1>3. ASSUME NEW q \in Procs, NEW k \in Logins \cup Codes, Put(q, "pending", k) PROVE Kept
  BY <1>1, <1>3, PutPending
<1>5. ASSUME NEW q \in Procs, NEW t \in Tokens, Put(q, "consumed", t) PROVE Kept
  BY <1>1, <1>5, PutConsumed
<1>6. ASSUME NEW q \in Procs, NEW t \in Tokens, Put(q, "revoked", t) PROVE Kept
  BY <1>1, <1>6, PutRevoked
<1>7. ASSUME NEW q \in Procs, NEW k, Drop(q, "pending", k) PROVE Kept
  BY <1>1, <1>7, DropPending
<1>9. ASSUME NEW q \in Procs, BootstrapConsume(q) PROVE Kept
  <2>1. job[q].key \in Tokens
    BY <1>9 DEF BootstrapConsume, JobKeys
  <2> QED
    BY <1>2, <1>5, <1>9, <2>1 DEF BootstrapConsume
<1>10. ASSUME NEW q \in Procs, SweepExpired(q)
       PROVE  Kept \/ (tokens[b].exp <= now /\ (wiring = "memory" => ~Consumes(p, b)'))
  <2>1. Kept \/ (StoreOf(p) = StoreOf(q) /\ ~(now < tokens[b].exp))
    BY <1>1, <1>10, Swept DEF SweepExpired
  <2>2. now \in Int /\ tokens[b].exp \in Int
    BY TypeParts DEF Typed, ClockOK, TokensOK, Never
  <2>3. wiring = "memory" /\ StoreOf(p) = StoreOf(q) => ~Consumes(p, b)'
    BY <1>10 DEF SweepExpired, StoreOf, Consumes, Idle
  <2> QED
    BY <2>1, <2>2, <2>3
<1>11. ASSUME NEW q \in Procs, Restart(q)
       PROVE  Kept \/ (wiring = "memory" /\ restarts'[p] # restarts[p])
  <2>1. Kept \/ (wiring = "memory" /\ StoreOf(p) = q)
    BY <1>1, <1>11, Forgotten DEF Restart
  <2>2. restarts'[q] = restarts[q] + 1 /\ restarts[q] \in Int
    BY <1>11, TypeParts DEF Typed, CountsOK, Restart
  <2>3. wiring = "memory" => StoreOf(p) = p
    BY DEF StoreOf
  <2> QED
    BY <2>1, <2>2, <2>3
<1>12. \/ UNCHANGED store
       \/ \E q \in Procs, k \in Logins \cup Codes : Put(q, "pending", k)
       \/ \E q \in Procs, t \in Tokens : Put(q, "revoked", t)
       \/ \E q \in Procs : \E k : Drop(q, "pending", k)
       \/ \E q \in Procs : SweepExpired(q) \/ Restart(q) \/ BootstrapConsume(q)
  BY DEF Next, vars, AuthStart, AuthBrowser, OidcCallbackCli, OidcCallbackBrowser, PopMiss,
     PopRead, PopDelete, BootstrapRouterctl, BootstrapAuthenticate, Activate, ServerLogout,
     RevokeCliToken, Revoke, Tick
<1> HIDE DEF Kept
<1>13. Kept \/ \E q \in Procs : SweepExpired(q) \/ Restart(q)
  BY <1>2, <1>3, <1>6, <1>7, <1>9, <1>12
<1> QED
  BY <1>10, <1>11, <1>13 DEF Kept

\* Every action keeps the invariant of the bootstrap tokens.
LEMMA SpentStep == TypeOK /\ JobKeys /\ SpentInv /\ [Next]_vars => SpentInv'
<1> SUFFICES ASSUME TypeOK, JobKeys, SpentInv, [Next]_vars PROVE SpentInv'
  OBVIOUS
<1>1. TypeOK'
  BY TypeStep
<1>2. CASE \E p \in Procs : BootstrapConsume(p) /\ IssueSession(p)
  BY <1>1, <1>2, SpentConsumed
<1>3. CASE \A p \in Procs : ~(BootstrapConsume(p) /\ IssueSession(p))
  <2>1. /\ wiring' = wiring /\ now' \in {now, now + 1}
        /\ \A t \in Tokens : tokens[t].kind # "none" =>
               tokens'[t] = tokens[t] /\ served'[t] = served[t]
    BY ClaimsKept
  <2>2. \A q \in Procs : restarts'[q] >= restarts[q]
    <3>1. restarts' = restarts \/ \E p \in Procs : restarts' = [restarts EXCEPT ![p] = @ + 1]
      BY DEF Next, vars, frame, AuthStart, AuthBrowser, OidcCallbackCli,
         OidcCallbackBrowser, PopMiss, PopRead, PopDelete, BootstrapRouterctl,
         BootstrapAuthenticate, Activate, ServerLogout, RevokeCliToken, BootstrapConsume,
         SweepExpired, Restart, Tick
    <3> QED
      BY <3>1, TypeParts DEF Typed, CountsOK
  <2>3. ASSUME NEW t \in Tokens, BootSession(t)'
        PROVE  tokens'[t] = tokens[t] /\ served'[t] = served[t]
    <3>1. CASE tokens[t].kind # "none"
      BY <2>1, <3>1
    <3>2. CASE UNCHANGED <<tokens, served>>
      BY <3>2
    <3>3. CASE tokens[t].kind = "none" /\ served' = served
               /\ \E u \in Tokens, kind \in Kinds \ {"cli_session"} :
                    /\ tokens[u].kind = "none" /\ tokens'[u].kind = kind
                    /\ \A w \in Tokens \ {u} : tokens'[w] = tokens[w]
      BY <2>3, <3>3 DEF BootSession
    <3>4. ASSUME NEW p \in Procs, PopDelete(p), IssueSession(p),
                 job[p].key \in Codes \cup Tokens
          PROVE  tokens'[t] = tokens[t] /\ served'[t] = served[t]
      <4>1. job[p].key \notin Tokens
        BY <3>4, AuthAssumption DEF PopDelete, JobKeys
      <4>2. PICK u \in Tokens :
               /\ tokens'[u] = [kind |-> "cli_session", exp |-> ExpOf("cli_session"),
                                origin |-> job[p].key]
               /\ \A w \in Tokens \ {u} : tokens'[w] = tokens[w] /\ served'[w] = served[w]
        BY <3>4, SessionIssued
      <4>3. tokens'[u].origin = job[p].key
        BY <4>2
      <4>4. t # u
        BY <2>3, <4>1, <4>3 DEF BootSession
      <4> QED
        BY <4>2, <4>4
    <3> QED
      BY <1>3, <3>1, <3>2, <3>3, <3>4, TokensStep
  <2>4. ASSUME NEW q \in Procs, NEW b \in Tokens, Consumes(q, b)'
        PROVE  Consumes(q, b) \/ (tokens[b].kind # "none" /\ now < tokens[b].exp)
    <3>1. CASE UNCHANGED job
      BY <2>4, <3>1 DEF Consumes
    <3>2. ASSUME NEW p \in Procs, job' = [job EXCEPT ![p] = Idle] PROVE Consumes(q, b)
      BY <2>4, <3>2, JobDone DEF Consumes, Idle
    <3>3. ASSUME NEW p \in Procs, NEW k \in Logins \cup Codes, NEW v \in Logins,
                 PopRead(p, k, v)
          PROVE  Consumes(q, b)
      BY <2>4, <3>3, TypeParts DEF Typed, JobOK, PopRead, Consumes
    <3>4. ASSUME NEW p \in Procs, NEW t \in Tokens, BootstrapAuthenticate(p, t)
          PROVE  Consumes(q, b) \/ (tokens[b].kind # "none" /\ now < tokens[b].exp)
      <4>1. CASE q = p
        <5>1. job'[p].key = t
          BY <3>4, TypeParts DEF Typed, JobOK, BootstrapAuthenticate
        <5> QED
          BY <2>4, <3>4, <4>1, <5>1 DEF BootstrapAuthenticate, Authentic, Consumes
      <4>2. CASE q # p
        BY <2>4, <3>4, <4>2, TypeParts DEF Typed, JobOK, BootstrapAuthenticate, Consumes
      <4> QED
        BY <4>1, <4>2
    <3>5. \/ UNCHANGED job
          \/ \E p \in Procs : job' = [job EXCEPT ![p] = Idle]
          \/ \E p \in Procs, k \in Logins \cup Codes, v \in Logins : PopRead(p, k, v)
          \/ \E p \in Procs, t \in Tokens : BootstrapAuthenticate(p, t)
      BY DEF Next, vars, AuthStart, AuthBrowser, OidcCallbackCli, OidcCallbackBrowser, PopMiss,
         PopDelete, BootstrapRouterctl, Activate, ServerLogout, RevokeCliToken,
         BootstrapConsume, SweepExpired, Restart, Tick
    <3> QED
      BY <3>1, <3>2, <3>3, <3>4, <3>5
  <2> QED
    BY <1>1, <2>1, <2>2, <2>3, <2>4, MarksKept, SpentQuiet
<1> QED
  BY <1>2, <1>3

\* A bootstrap token gives one session: with tables in memory for each life of each
\* process, with a database unless the second request was being served when the
\* token expired and its mark was swept (consume_jti and the sweep of the tables).
THEOREM BootstrapSpentOnceAlways == Spec => []BootstrapSpentOnce
<1>1. Init => SpentInv
  BY DEF Init, SpentInv, ConsumesKnown, Consumes, Idle, SessionsKnown, BootSession, Marked,
         BootstrapSpentOnce, Sessions, NoToken
<1>2. SpentInv => BootstrapSpentOnce
  BY DEF SpentInv
<1> QED
  BY <1>1, <1>2, TypesStart, JobKeysStart, TypeStep, JobKeysStep, SpentStep, PTL DEF Spec
=============================================================================
