# Verification of the LLM router suite

TLA+ modules, TLC configurations and TLAPS proofs for the router service under
`src/src/enterprise_llm_proxy` and its web console under `src/web/src` (paths
below are relative to the one or the other). The router keeps upstream
credentials (API keys, OAuth subscriptions) in one table, gives each request of
its users a lease on one of them, and mirrors them as channels in a New API
gateway. Several router processes share the database. The console is a browser
client that shows cached answers of the service and edits them.

## The system

| Part | State | Operations | What makes it correct |
|---|---|---|---|
| Credential table, `repositories/credentials.py` | `provider_credentials`: state, cooldown_until, concurrent_leases, max_concurrency, visibility, updated_at | create, update_credential, update_visibility, select, mark_cooldown, mark_disabled, release, reset_stale_leases, delete | the lease count is the number of users; no credential is over its limit; selection sees what it commits |
| Lease and inference handlers, `app.py` 452-483, 2217-2382, 2617-2724 | `_CredentialLease`, `excluded_ids`, generator and background callbacks | plain requests with retries, streams, fallback | one decrement for one increment on every path; every request ends |
| Routing, `services/routing.py` | none | loop over the auth modes | ends; requests start on eligible credentials only |
| Lifespan, `app.py` 220-256 | sweep task | reset at start-up, periodic sweep | leaked leases come back, live ones are left alone |
| Pool service, `services/credentials.py` | overlay dict, in-memory dict | the repository's operations, for overlay credentials in memory | overlay leases balance; diagnosis agrees with selection |
| Bridge endpoints, `app.py` 2384-2610 | none | one upstream call on a named credential | do not disturb the leases of others |
| Owner and admin endpoints, `app.py` 1109-1320, 1533-1702 | none | import, create, share, unshare, promote, demote, delete, refresh, PATCH, refresh-quota | visibility changes only when asked to |
| New API synchronisation, `services/newapi.py` | channels in New API | lookup, update or add; push of everything | a channel's group follows the credential's visibility |
| Quotas and usage, `services/quotas.py`, `services/usage.py` | quota rules, ledger | ensure_capacity, record | use stays within the quota |
| CLI authorization, `app.py` 880-955, 1889-2215, `repositories/cli_auth.py` | pending logins, codes, consumed bootstrap jtis, revoked jtis; in one process or in the database | start, callback, exchange, activate, revoke, sweep | a code and a bootstrap token give one session; nothing expired is honoured; a revoked token is refused |
| Tokens, `services/identity.py` | none: signed, with the clients | issue, authenticate | - |
| API keys, identity providers, SSO | tables, signed cookies | create, revoke, look up, redirect | - |
| Upstream bridge, `services/openai_bridge.py` | cache of unsupported parameters | translation of event streams, retry without a parameter, token refresh | the translated stream is well formed; the retry ends |
| Catalog, aliases, preferences | tables | look up, upsert | - |
| Console shell, `app.tsx`, `components/app-shell.tsx` | cached session and configuration, location | gate, redirect, role guard, navigation | who is denied leaves; pages of administrators are for administrators |
| Pages of the user, `pages/api-keys-page.tsx`, `byok-page.tsx`, `portal-page.tsx`, `preferences-page.tsx` | cached lists, forms, panels, choices | create, delete, share, refresh, choose, copy, save | what is shown is what is stored; what is sent was typed; a choice stays |
| Pages of administrators, `pages/credentials-page.tsx`, `quotas-page.tsx`, `sessions-page.tsx`, `models-page.tsx` | cached lists | writes, each followed by an invalidation | the page reads its own writes |
| Usage pages, `pages/dashboard-page.tsx`, `activity-page.tsx`, `logs-page.tsx`, `usage-page.tsx` | cached answers by period or page | choose, page | the answer shown is about what is selected |
| routerctl, migrations, deployment, vendored New API | - | - | not part of the service's own core |

How they interact: a handler asks routing, routing asks the pool, the pool asks
the repository, and every repository call is one transaction on the table.
Callbacks of the web framework (generator `finally`, background task) settle a
stream's lease long after the handler returned. The sweep task and the
handlers of other processes write the same rows. Owner and admin handlers
write a row and then call New API over HTTP; New API calls back into the bridge
endpoints. The pages of the console share one cache of answers (TanStack Query):
a fetch is a snapshot of the server that arrives later, a mutation edits the
cache or asks for another fetch.

What is hard: selections, settlements, sweeps and edits of several processes
interleave on a row; a process may die at any point; a database call may fail
with or without effect; handlers await an upstream between reading and writing
a credential; HTTP calls may be lost or processed late; time decides about
cooldowns and leaked leases; in the console, answers arrive after the user has
gone on, and snapshots taken before a write after its answer. `PROJECT.json` lists each such hazard at its line
with the properties aimed at it.

## Modules

- `CredentialRow`: a row and what each statement does to it, no state.
- `LeaseLifecycle`: the table, the row locks, the requests and the router
  instances. The core of the project.
- `CredentialSlots`: the abstract pool. A credential has Max slots; a request
  takes one and gives it back, a dying request loses it, lost slots come back
  while nobody occupies one.
- `LeaseLifecycleProofs`: theorems about `LeaseLifecycle`.
- `PoolWriters`: extends `LeaseLifecycle` with the writers that do not take a
  lease or do not hold a lock between reading and writing. `PoolWritersProofs`: theorems
  about them.
- `ChannelSync`: the mirror in New API. `ChannelSyncProofs`: theorems about it.
- `CliAuth`: the tokens of routerctl, independent of the others.
  `CliAuthProofs`: theorems about it.
- `QueryCache`: an entry of the console's cache, no state. `QueryCacheProofs`: what
  a mount, an invalidation, an edit and a fetch do to an entry, for the proofs of
  the pages.
- `ConsoleShell`, `ApiKeyPage`, `ModelBrowser`, `OwnCredentials`, `ByokForm`,
  `ModelPicker`, `SetupSteps`, `PreferencesForm`, `AdminCredentials`,
  `AdminLists`, `UsagePages`: the parts of the console, each with its own
  variables and specification.
- `Console`: the parts side by side, of which one is in use.
- `ListsProofs` (`AdminCredentials`, `AdminLists`, `OwnCredentials`, `ApiKeyPage`),
  `UsagePagesProofs`, `ConsoleProofs` (the other parts, and all of them together):
  theorems about the console.
- `MC*`: instances for TLC.

### LeaseLifecycle and the code

| Model | Code |
|---|---|
| `row[c]` | a row of `provider_credentials`; `cool` is the rest of `cooldown_until`, `age` the time since `updated_at` |
| `lock[c]` | the row lock of the transaction of `select` that is between its SELECT and its COMMIT |
| `req[r]` | a request: what its handler is doing, `excluded_ids`, and its `_CredentialLease` (`cred`, `released`) with the callbacks still to run (`pending`) |
| `LockCandidates`, `CommitSelect`, `NoCandidate` | `select` in two steps; a request without a row goes to the next auth mode or ends with 429 or 503 |
| `FinishPlain`, `UpstreamRateLimited`, `UpstreamInvalid`, `FallBack` | one transaction each: release, mark_cooldown, mark_disabled, and the fallback of a stream to a plain request |
| `StreamEnds`, `RunFinalizer` | a stream ends and its generator's `finally` and background task call `release()` in some order |
| `CommitFails`, `ReleaseFails`, `FinalizerFails`, `MarkFails`, `Crash` | database calls that fail, with or without effect, and the end of a process |
| `Restart`, `Sweep` | the lifespan's reset and the sweep loop |
| `CreateCredential`, `UpdateVisibility`, `DeleteCredential` | owners and admins |
| `Tick` | the clock; transactions take no time |

Only `select` spans two steps because it is the only transaction that looks at
rows it does not yet hold: every other statement gets one row `FOR UPDATE` (or
updates it) and commits, so its effect is one step guarded by `Unlocked`.
`orphans` is a history variable: leases taken that nobody will settle.
A `mark_cooldown` or `mark_disabled` that takes effect and reports an error
decrements twice; `LeaseLifecycle` leaves both out, so that its accounting is
exact, and `PoolWriters` has them as `MarkAckLost`. In the same way
`UpdateVisibility` is one step here, and the handlers that read a row, work on a
copy and write it back are in `PoolWriters`.

### PoolWriters and the code

`BridgeStart`, `BridgeDone`, `BridgeRefused` are the two bridges: a check of
the state, a call without a lease, and on refusal a mark that decrements all
the same. `Read`, `Load`, `Flush` are the handlers that read a credential, work
on the copy and call `update_credential`: `Read` is `get_credential`, `Load` is
`session.get` with `_apply_domain`, which makes dirty the columns in which the
copy differs from the row as it is by then, `Flush` is the UPDATE of the dirty
columns, which waits for the row lock. `stolen` is a history variable:
decrements nobody held a lease for.

### ChannelSync and the code

A handler of an instance is one task at a time, since the handlers are
coroutines that never await here. An operation changes the row; the push then
reads the row again (`ReadAgain`, skipping inactive credentials), looks the
channel up by name (`Find`) and updates or adds it (`Put`). `PushAll` reads all
rows and pushes them one by one. A failing call is logged (`FindFails`,
`PutFails`); a request the client gave up may still be processed
(`ProcessLate`). The lookup reads one page of 50 keyword matches, and takes an
answer without `data.items` for none: `FindMisses` is such a miss, after which a
channel is added although there is one; misses are counted with the failures. New
API itself is external: a set of channels with ids. A channel's name is a constant of
the credential (`NameOf`). The code makes it of the owner, or, for a credential
without one, of whoever pushes it (`app.py` 667-692), so that such a credential may
have a channel under the name of each administrator who pushed it: this is left out.

### CliAuth and the code

A process runs one handler at a time (the handlers never await), so `job[p]` is
busy only between two transactions of one handler: `PopRead` and `PopDelete`
are the lookup and the delete of `pop_pending_code`, with the rest of
`cli_auth_exchange` in the second; `BootstrapAuthenticate` and
`BootstrapConsume` are the check of the token and the insert of its jti.
`wiring` is the choice of repositories in `create_app`: `StoreOf(p)` is the
memory of the process or the database. The pending logins and codes are one set
`pending` of keys, since their expiry follows from when they were put. `AsLogin`
and `AsCode` are what a lookup for the one or the other can find in it: in memory
there are two tables; in the database there is one, its primary key is the key alone
(`repositories/models.py` 133-142), and neither `get_pending_login` nor
`pop_pending_code` (`repositories/cli_auth.py` 57-67, 101-114) asks for the kind of
the row. So a code presented as a login (`OidcCallbackCli` of a code) gives a
new code, and a login presented as a code (`PopRead` of a login) is deleted, after
which the exchange fails for want of a principal (`Redeemable`). A DELETE that matches no row because
another process was first is, for a mapping without a version column, a warning
of SQLAlchemy and not an error, so both exchanges go on. `tokens` are with the
clients; `served`, the `origin` of a token and the number `renewed` of a code are history. The step from the
lookup of a login to the put of its code is one action: nobody else's step
changes its outcome.

### The console and its code

`QueryCache` is how the console uses its cache library, which is external:
without retries and without refetch on focus (`app.tsx` 27-34), data stale at
once, so that every mount of a component fetches and joins a fetch that is under
way; `Invalidated` drops a fetch and repeats it unless it is the first;
`WithData` edits the data and leaves a fetch alone. A fetch takes two steps, the
server's (the snapshot, or a refusal) and the arrival.

| Module | Code | State and actions |
|---|---|---|
| `ConsoleShell` | `app.tsx` 36-158, `app-shell.tsx`, `launch-page.tsx` | the queries of session and configuration, the location, the history entry to come back to; redirect on 401, role guard, login |
| `ApiKeyPage` | `api-keys-page.tsx` 32-217, 391-425 | the stored keys, the cached list, the panel with a new secret, requests under way |
| `ModelBrowser` | `api-keys-page.tsx` 240-385, `model-groups.ts` | the list of models in groups, the search, the groups open |
| `OwnCredentials` | `byok-page.tsx` 80-131, 358-545, `portal-page.tsx` 43-88, 237-291 | the user's credentials, the cached list that two pages share, add, share, refresh, delete |
| `ByokForm` | `byok-page.tsx` 71-171, 201-336 | the form of a provider; a field is empty, typed for this form or left over from another |
| `ModelPicker` | `portal-page.tsx` 33-66, 467-492, 640-745 | the models chosen for the two clients and the lists that come and go |
| `SetupSteps` | `portal-page.tsx` 163-227, 526-585, `copy-button.tsx`, `code-panel.tsx` | the panel of install commands, writes to the clipboard, timeouts, the login of Codex |
| `PreferencesForm` | `preferences-page.tsx`, `repositories/preferences.py` | form, effects, filter by provider, save |
| `AdminCredentials` | `credentials-page.tsx`, `components/data-table.tsx` | the table, five kinds of writes, edit and refetch; rows carry a version |
| `AdminLists` | `quotas-page.tsx`, `sessions-page.tsx`, `models-page.tsx` | three lists and the writes that invalidate them |
| `UsagePages` | `dashboard-page.tsx`, `activity-page.tsx`, `logs-page.tsx`, `usage-page.tsx`, `repositories/usage.py` | the selected period or page, the answers by key, events recorded meanwhile |

The repository of the preferences hides a failing database: it answers 200 with what
was sent, stored or not (`StoreDegraded`), and a read with no default
(`FetchDegraded`); both count against `MaxOutside`.

An effect that React runs after a render is part of the action that causes the
render (`AfterEffects`, `Settled`, `Redirected`). A request of a page the user
has left is answered all the same, and its handlers run as far as the library
runs them. Where the code leaves a race open, the property names it: the history
variables `disturbed`, `upset`, `joined` and `outdated` record that an answer met
a fetch it could not restart, that a request failed, or that others wrote; `known`
records the defaults that the open page of the preferences was told of, and the choices
that had left the list of models when another provider was clicked.

Four observations have no run of their own. The hint of `preferences-page.tsx`
141 says that an empty default means the system's; but the effect of lines 56-60
fills an empty field from the stored default at once, and the service keeps what
is stored on a null (`app.py` 1816-1822, `repositories/preferences.py` 37), so a
default can be changed and never cleared. And the bridges decrement a lease they
do not hold (`app.py` 2428): `UndercountExplained` counts these decrements; that
a limit is then exceeded follows from it and is not shown separately. With the
database, a callback whose state names a living code (`state=cli:<code>`, `app.py`
894-915) finds the code as a pending login and gives a new code with five fresh
minutes, and this can be repeated without end: `SessionInTime` says by how much a
session may be late for it, a code's life each time, and that with repositories in
memory it cannot. And the copy buttons of the two command panels of the setup page
(`portal-page.tsx` 338, 376) stay mounted while the command changes with the model,
so that one may say that it copied beside a command it did not copy; `CopiedIsShown`
is about the install panel, whose buttons go with their text, and the command panels
are not in the model.

## Runs

| Run | Question | Answer |
|---|---|---|
| `lease` | Are lease counts exact, limits kept, starts eligible, and is the abstract pool implemented, whatever instances, crashes and edits interleave? | yes, while requests are shorter than the lease TTL |
| `lease_live` | Does every request end, and does a credential saturated by leaked leases come back? | yes |
| `long_stream` | And when a request runs as long as the lease TTL? | no: the sweep resets the lease under its holder |
| `revived` | Does a disabled credential stay disabled? | no: a late 429 turns it into a cooled-down one |
| `writers` | With bridge requests, stale writes and lost acknowledgements, is the undercount of leases explained by them alone, and do requests still start on eligible rows? | yes |
| `drift` | Does a credential nobody uses lose its charge after such disturbances? | yes |
| `stale_share` | Does a credential become visible to others only by promotion? | no: a handler's stale copy undoes an unshare |
| `channels` | Is a channel shared only if its credential was promoted, are duplicates bounded, and does an undisturbed push of everything repair the mirror, although lookups may miss a channel? | yes |
| `unshare` | Does unsharing withdraw the channel from the enterprise group? | no: inactive credentials are skipped |
| `cli_auth` | When does a code or a bootstrap token give two sessions, is anything expired honoured, does a refused token come back? | only by two processes at once, by a sweep during an exchange, or by a restart that forgets; only a login whose code was presented as a login, in the database; only by such a restart |
| `revoked` | Is a revoked session of no use any more? | no: it still activates a client |
| `console` | Is what a page shows, once it has settled, what the server has; is what it sends what was typed there; does a choice stay, does the denied user leave, is a secret, a copy or a page of the log what it claims to be? | yes, but for the races the properties name |

The five violations quote the line of the documents, comments or tests that
says otherwise under "findings".

### Bounds

- Two requests on two instances and two credentials are enough for every pair of
  transactions to interleave on a row, for a retry after exclusion and for a
  selection that skips a locked row. `lease_live` has one slot for two requests,
  so that waiting and saturation happen.
- `CooldownTicks = 1`, `LeaseTtl = 2`: one cooldown ends before a lease is
  stale. The code's 300 s and its default of 1800 s differ by more, but the code
  only compares times with these two limits.
- `MaxRun` bounds the ticks of a request; `MaxRun < LeaseTtl` in all runs but
  `long_stream`. Nothing in the code enforces it: it is the assumption under
  which the lease count is right.
- `MaxFaults` (1 or 2), `MaxEdits` (1), `MaxOps` (4), `MaxTurns` (1) bound
  failures and operations; one fault with two requests reaches every recovery
  path, two faults leak both leases of a row or fail a reset after a crash.
- In `console` two models, two keys, two credentials, two requests under way and
  one failure per page: an answer can meet a fetch, another request for the same
  row and a failure. The preferences have three failures, reconnects or changes
  from outside (`MaxOutside`), since a model can leave the list and come back
  while it is chosen. Three events over pages of two rows reach a second page, a
  full last page and a row that moves from one page to the next; four changes of
  the selection come back to a page seen before. `MaxTurns = 3` failures and
  changes of the session, two tokens and three copies on the setup page, two
  lists of models after the first. All sequences of clicks are allowed; a page
  whose bounds are used up may stop, so deadlock is not checked.
- In `channels` deadlock is not checked: the operations are bounded, so the
  system stops when they are used up. Instances, and the two credentials with
  one name, are symmetric, and no liveness is checked there.

- `cli_auth` has one login and two codes, two processes, and up to four tokens.
  A run uses the codes and tokens of one of the `Supplies`: two codes and a
  session, for codes that renew one another (twice, since the sessions are
  symmetric); a code, two sessions and a client token, for a code redeemed twice
  and for revocation; a browser session, a bootstrap token and two sessions.
  Together in one run they would be too many, and no property relates more of
  them. A login and a bootstrap token live for one tick and a code for three,
  out of `MaxTime = 4`: a session for a code that was renewed once can come
  after the time a login and one code live together, and one without renewal
  cannot. The code's 15, 5 and 30 minutes are only ever compared with the clock.
  `MaxRevoked = 1` and one restart of one process: each race needs at most one.
  The system stops when the tokens are used up, so deadlock is not checked.

### Fairness

A request that has begun is scheduled (`WF` of selecting, which always has a
step: `SKIP LOCKED` never waits; `SF` of settling, since a row lock that others
take again and again is granted in the order of asking). The clock advances
(`SF(Tick)`, a tick only waits for open transactions), the sweep loop runs and a
dead instance is restarted (`WF`). Two of these lean on the environment and not
on the code. That an upstream answers within `MaxRun` ticks: plain requests have
timeouts of 120 s against a lease TTL of 1800 s, but the Claude Max streams use
`httpx.Timeout(None)`, so a stream lasts as long as the upstream and the client
keep it open; `long_stream` shows what follows. That the sweep gets to its
reset: it runs after `sweep_expired` of the CLI tables in one `try`, so it needs
that call to succeed; that the reset never comes while `sweep_expired` keeps
failing is a hazard no property covers. Neither does one exclude the 503 of a
request that found all free rows locked by another selection: the statement has
no LIMIT and locks them all, and `EveryRequestEnds` counts that answer as an
end. Nothing makes users send requests or faults occur, and no bridge call or
read-modify-write has to finish. The console has no fairness: nothing makes a
user click or a server answer, and its properties are about safety.

## Proofs

`LeaseLifecycleProofs` proves for all sets of credentials, requests and
instances, all limits and bounds:

- `TypeCorrect`: `Spec => []TypeOK`;
- `StartsEligible`: `Spec => StartsOnlyOnEligible`, whatever the length of
  requests. The argument: a locked row is not written by anybody but its
  holder, so what `select` saw when it took the lock still holds at its commit
  (the invariant `Locks`);
- under `MaxRun < LeaseTtl`: `LeasesAccounted`, `NeverOversubscribed` and
  `SlotsImplemented`, the refinement of `CredentialSlots`.

The inductive invariant `IInv` adds to the type: a request past selection has a
credential, and its lease is unreleased until it closes (`Chosen`); a request
between its two selection steps holds the lock of its row, the row is still
eligible, and a lock is held by such a request only (`Locks`); a row is never
older than any request that holds a lease on it (`YoungRow`), which with
`MaxRun < LeaseTtl` keeps the sweep away from live leases; and
`leases = holders + orphans` (`CountOk`). `NoOversubscription` alone is not inductive: it
needs the exact count, and the count needs the sweep argument.

`PoolWritersProofs` carries this over to the writers that break those rules. Steps
that `LeaseLifecycle` has as well are covered by its lemmas, for the parts of the
invariant that survive (`TypeInv`, `Locks`). Every other step that writes the table
stores one row that nobody has locked, of the same phase and young, and adds to
`stolen` what it takes off (`ForeignStores`):

- `PoolTypeCorrect`: a mixture of columns of two rows is a row (`WrittenRow`), and
  a handler that has read a credential knows which (`WriterLike`).
- `PoolStartsEligible`: the foreign steps respect `Locks` and start no request.
- `UndercountExplainedAlways`, under `MaxRun < LeaseTtl`: the exact count is lost,
  and what is left of it is inductive: holders are at most `leases + stolen` on
  every row that was not deleted (`UnderOk`). The sweep, which sets `leases` to 0,
  keeps this because `YoungRow` still holds: foreign writes make rows younger.

The parts of the console have inductive invariants of their own. Those of
`ConsoleProofs` and `UsagePagesProofs` are short:

- `SentIsTypedHereAlways` (`ByokForm`): while a form is open no field holds
  what was typed for another, and what an opening does not clear the closings
  have cleared.
- `DeniedLeavesConsoleAlways` (`ConsoleShell`): the redirect is part of every
  step after which a denied session could be in the console.
- `AdminPagesForAdminsAlways` (`ConsoleShell`): the content is shown only where
  both answers are there and neither failed (`ContentIsAnswered`).
- `OpenGroupsWereOpenedAlways` (`ModelBrowser`): the groups open are those
  opened, step by step; toggles happen outside a search only.
- `CopiedIsShownAlways` (`SetupSteps`): a write whose button is still there
  was begun on the panel and platform shown, so the button that speaks after it
  speaks of what is shown. A new panel comes only after the old one has gone.
- `UsagePagesProofs`, `ShownIsSelectedAlways`, `EmptyPageOnlyAfterFullOneAlways`,
  `NextPageSkipsNothingAlways`: an entry of the cache answers its own key, an
  answer counts no more events than there are, and a page of the log that is
  shown and was fetched after the last change has seen all of them.
- `HiddenChoiceWasDefaultAlways`, `ChoiceStaysAlways` (`PreferencesForm`): the
  choice in the form is in `known` or belongs to the provider chosen
  (`KnownOrOfProvider`), and the effects keep that (`EffectsFill`).
- `CommandCanRunAlways`, `ChoiceSurvivesListsAlways` (`ModelPicker`): the effects
  run with each new list, and `Settled` leaves a choice of the list alone.

The proofs of `ListsProofs` follow an answer from the request to the list. In each,
the invariant speaks of three things at once: the server, the answer of a fetch on
its way, and the list when nothing is fetched.

- `AdminReadsItsWritesAlways` (`AdminCredentials`): what the page was told is
  stored, and an answer on its way has it, because being told drops the fetch
  under way. Only the first fetch is not dropped, and before it no mutation can
  be sent that the page would be told of, a creation excepted (`SentOk`).
- `SettledListsAreStoredAlways` (`AdminLists`): a list of which no answer is
  outstanding (`Heeded`) is what the server has, in the cache if it rests and in
  the answer if one is on its way (`Current`). A write makes its own request
  outstanding, its answer asks for the list again, and a fetch that is under way
  at that time is dropped.
- `SettledListIsStoredAlways` (`OwnCredentials`), where no answer fetches the list
  again: a credential has one row, the stored one if no answer about it is on its
  way (`Fits`); of the answers on their way one is what is stored (`LastIsStored`);
  a new credential is listed, and asked about, only after the answer to its
  creation (`NewIsAlone`, `Born`).
- `SettledKeysAreStoredAlways` (`ApiKeyPage`): the list misses only keys whose
  creation is still to be answered, and has only keys too many whose deletion is
  (`Follows`); ids are used once (`UsedOnce`).
- `SecretOfStoredKeyAlways` (`ApiKeyPage`): a deletion of the key in the panel is
  of this visit and sees it when its answer comes (`PanelInv`).

`ConsoleCorrect` puts the parts together: a step of `Console` is a step of the part
the user is in and changes no variable of another (`ConsoleStep`), so a run of the
console is a run of each part (`ConsoleRunsParts`), and all invariants and action
properties of the run `console` hold of it.

The proof of `HiddenChoiceWasDefault` failed at first for a good reason: the
property had been stated without the choices that leave the list, and the run had
a bound (`MaxOutside = 1`) under which none comes back. A model that is chosen may
vanish from the list (the pool no longer serves it); a click on another provider
gives up only a choice that the list has (`preferences-page.tsx` 96-100); when the
model returns, it is hidden by the filter and would be saved unseen. The property
now says so, and the bound is 3, from which TLC finds that case.

`CliAuthProofs` proves the types and four properties, for any processes, tokens,
lifetimes and bounds:

- `NeverRehabilitatedAlways`: a mark of revocation goes only with its token's
  expiry or with the memory of its process.
- `CodeRedeemedOnceAlways`: a code redeemed by a process is neither in its tables
  nor in its hands (`SpentHere`), and with tables in memory one process only has
  it (`KnownToOne`); so two sessions need two processes and the database.
- `SessionInTimeAlways`: a code was sent within the life of its login and of the
  codes presented as logins before it, which are none with tables in memory, and a
  process holds only codes that had not expired when it was asked (`InTimeInv`).
- `BootstrapSpentOnceAlways`: the mark of a token that was exchanged is there, or
  the token has expired and, in memory, its process is not about to look for the
  mark (`Marked`).

`ChannelSyncProofs` proves all four properties of the run `channels`:

- `MirrorTypeCorrect`: ids are counted up, so an added channel has a new one.
- `ExposedOnlyIfPromotedAlways`: whatever says "shared", be it a row, a copy in
  a handler, a late request or a channel, is of a promoted credential.
- `DuplicatesBoundedAlways`: an update is of a channel of the same name
  (`AimInv`), and channels, handlers about to add one and late additions of a
  name are together at most the instances and failures (`BoundedFor`). A lookup
  that finds nothing is the step where this is not obvious: there are then no
  channels, one addition per instance, one late request per failure; or it missed a
  channel, and that was a failure.
- `PushAllRepairsAlways`: while a push is calm, searches that miss included, it is
  alone, its copies are true,
  and each credential it is about is written or still to be written (`CalmInv`).

Assumptions on constants are named ASSUMEs, which TLC evaluates in the runs:
those of `CredentialRow` and `LeaseLifecycle` (finite requests, a well-formed
initial table without leases, bounds in Nat), `AuthAssumption` (names are
distinct, each token has a kind and each kind a lifetime, bounds in Nat),
`MirrorAssumption` (finitely many credentials and instances), `UsageAssumption` (a
page has a row), those that keep the constants for "nothing" apart from the values
they stand beside (`AdminAssumption`, `ListsAssumption`, `OwnAssumption`,
`KeysAssumption`, `PrefAssumption`), `PickerAssumption` (the server's lists are
sequences of models), `FormAssumption` and `StepsAssumption`. Lease theorems that
need `MaxRun < LeaseTtl` state it as a hypothesis.

Only model-checked: liveness (`EveryRequestEnds`, `OrphanSaturationHeals`,
`DriftHeals`), which is beyond the prover. Every invariant, action property and
refinement that a passing run checks is also the statement of a theorem.

## Plan

1. Done: `CredentialRow`, `LeaseLifecycle`, `CredentialSlots`, `ChannelSync`,
   `CliAuth`, `PoolWriters` and the console, with the proofs of their safety.
2. `OverlayPool` (overlay and in-memory credentials, threads interleaving on a
   dict); the codex OAuth states next to `CliAuth`.
3. `StreamTranslator` and `UnsupportedParams` (the event-stream translation of
   `openai_bridge.py` and its retry), `RouteDiagnosis` (the WHERE clause
   against the Python predicates, over bounded rows), `QuotaAdmission`.
4. Proofs: an abstract specification of the lists of the console, which their
   pages implement; the weaker accounting of leases in `PoolWriters` as a refinement.

## Not modelled

Of the service: parsing, formatting, HTTP payloads, the choice of executors and
models, configuration, encryption, the command-line client, migrations and
deployment. Of the console: the built bundle under `static/ui/assets` (made
from `web/src`), `lib/api-reference-data.ts` (a constant table of texts), the
docs page and the components that only render; the drafts in the cells of the
admin table and the fields of the forms of quotas and models. The parts of the
console are checked one at a time: what they share is the session, which
`ConsoleShell` has, and the list of the user's credentials, which
`OwnCredentials` has for both of its pages. `PROJECT.json` gives the reason for
each part.
