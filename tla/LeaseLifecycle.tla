--------------------------- MODULE LeaseLifecycle ---------------------------
(***************************************************************************)
(* The /v1 traffic of the router: requests select a credential from the    *)
(* table provider_credentials under row locks, hold one of its leases      *)
(* while an upstream answers, and settle the lease by releasing it,        *)
(* cooling the credential down or disabling it.  Several instances of the  *)
(* router share the table; each sweeps it for leases that leaked.          *)
(*                                                                         *)
(* A step of a request is one database transaction, except that selection  *)
(* takes two: SELECT ... FOR UPDATE SKIP LOCKED, then the update and the   *)
(* commit, and other transactions run between them.                        *)
(***************************************************************************)
EXTENDS CredentialRow, Sequences, FiniteSets

CONSTANTS
    Creds,       \* credential ids
    Reqs,        \* slots for requests in flight
    Instances,   \* router processes
    InstanceOf,  \* [Reqs -> Instances]
    WhoOf,       \* [Reqs -> principals]: who sends the requests of a slot
    Admins,      \* principals with the role admin
    OwnerOf,     \* [Creds -> principals]
    KindOf,      \* [Creds -> auth kinds]
    AuthModes,   \* the auth kinds a request tries, in order
    Serves,      \* [Reqs -> SUBSET Creds]: catalogs that list the model asked for
    InitRow,     \* [Creds -> Row]: the table at the start
    NoReq,       \* "not locked"
    NoCred,      \* "no credential selected"
    MaxRun,      \* bound: ticks an upstream may keep a request
    MaxFaults,   \* bound: crashes and failing database calls
    MaxEdits     \* bound: operations of owners and admins

ASSUME SlotsAssumption ==
    /\ IsFiniteSet(Reqs)
    /\ NoReq \notin Reqs
    /\ NoCred \notin Creds
    /\ InstanceOf \in [Reqs -> Instances]
    /\ Serves \in [Reqs -> SUBSET Creds]
    /\ AuthModes \in Seq(STRING) \ {<<>>}

ASSUME TableAssumption ==
    /\ InitRow \in [Creds -> Row]
    /\ \A c \in Creds : InitRow[c].leases = 0 /\ InitRow[c].phase # "gone"

ASSUME BoundsAssumption ==
    MaxRun \in Nat /\ MaxFaults \in Nat /\ MaxEdits \in Nat

VARIABLES
    row,      \* the table
    lock,     \* the request whose open transaction holds the lock of a row
    req,      \* what each request is doing
    up,       \* which instances run
    orphans,  \* history: leases taken that no request will settle any more
    faults,   \* faults so far
    edits     \* edits so far

vars == <<row, lock, req, up, orphans, faults, edits>>

-----------------------------------------------------------------------------
\* Requests.  `cred', `released' and `pending' are the _CredentialLease of a
\* request and the callbacks that will still call its release().

Finalizer == {"generator", "background"}

Request == [pc       : {"idle", "selecting", "committing", "executing", "closing"},
            stream   : BOOLEAN,
            mode     : 1 .. Len(AuthModes),
            excluded : SUBSET Creds,
            cred     : Creds \cup {NoCred},
            released : BOOLEAN,
            pending  : SUBSET Finalizer,
            age      : 0 .. MaxRun]

Idle == [pc |-> "idle", stream |-> FALSE, mode |-> 1, excluded |-> {},
         cred |-> NoCred, released |-> FALSE, pending |-> {}, age |-> 0]

Selecting(stream, excluded) ==
    [Idle EXCEPT !.pc = "selecting", !.stream = stream, !.excluded = excluded]

Running(r) == req[r].pc \in {"executing", "closing"}

\* r owes the table one decrement of c's lease count.
Holds(r, c) == Running(r) /\ ~req[r].released /\ req[r].cred = c

Holders(c) == {r \in Reqs : Holds(r, c)}

Live(c) == row[c].phase = "live"

Unlocked(c) == lock[c] = NoReq

Free(r) == [c \in Creds |-> IF lock[c] = r THEN NoReq ELSE lock[c]]

\* An UPDATE of a row that may have been deleted meanwhile.
Store(c, new) == row' = IF Live(c) THEN [row EXCEPT ![c] = new] ELSE row

Become(r, new) == req' = [req EXCEPT ![r] = new]

-----------------------------------------------------------------------------
\* Selection.

\* The WHERE clause of select, for request r.
Matches(r, c) ==
    /\ Live(c)
    /\ KindOf[c] = AuthModes[req[r].mode]
    /\ Selectable(row[c])
    /\ HasFreeLease(row[c])
    /\ Accessible(row[c], OwnerOf[c] = WhoOf[r], WhoOf[r] \in Admins)
    /\ c \notin req[r].excluded

\* Mutant: the statement has lost its SKIP LOCKED, and waits for nobody.
CandidatesUnlocked(r) == {c \in Creds : Matches(r, c)}

Candidates(r) == {c \in Creds : Matches(r, c) /\ Unlocked(c)}

\* ORDER BY concurrent_leases; last_selected_at breaks ties, any way here.
LeastLeased(C) == {c \in C : \A d \in C : row[c].leases <= row[d].leases}

Start(r, stream) ==
    /\ up[InstanceOf[r]]
    /\ req[r].pc = "idle"
    /\ Become(r, Selecting(stream, {}))
    /\ UNCHANGED <<row, lock, up, orphans, faults, edits>>

\* Mutant: the SELECT has lost its FOR UPDATE.
LockNoCandidates(r) ==
    /\ req[r].pc = "selecting"
    /\ \E c \in LeastLeased(Candidates(r) \cap Serves[r]) :
           Become(r, [req[r] EXCEPT !.pc = "committing", !.cred = c])
    /\ UNCHANGED <<row, lock, up, orphans, faults, edits>>

\* The statement locks every candidate, not only the one it will use.
LockCandidates(r) ==
    /\ req[r].pc = "selecting"
    /\ \E c \in LeastLeased(Candidates(r) \cap Serves[r]) :
           Become(r, [req[r] EXCEPT !.pc = "committing", !.cred = c])
    /\ lock' = [c \in Creds |-> IF c \in Candidates(r) THEN r ELSE lock[c]]
    /\ UNCHANGED <<row, up, orphans, faults, edits>>

CommitSelect(r) ==
    /\ req[r].pc = "committing"
    /\ row' = [row EXCEPT ![req[r].cred] = TakeLease(@)]
    /\ lock' = Free(r)
    /\ Become(r, [req[r] EXCEPT !.pc = "executing"])
    /\ UNCHANGED <<up, orphans, faults, edits>>

\* Mutant: the loop over the auth modes runs one too far.
NoCandidateTooFar(r) ==
    /\ req[r].pc = "selecting"
    /\ Candidates(r) \cap Serves[r] = {}
    /\ Become(r, IF req[r].mode <= Len(AuthModes)
                 THEN [req[r] EXCEPT !.mode = @ + 1]
                 ELSE Idle)
    /\ UNCHANGED <<row, lock, up, orphans, faults, edits>>

\* No row: the next auth mode, and after the last one a 429 or 503.
NoCandidate(r) ==
    /\ req[r].pc = "selecting"
    /\ Candidates(r) \cap Serves[r] = {}
    /\ Become(r, IF req[r].mode < Len(AuthModes)
                 THEN [req[r] EXCEPT !.mode = @ + 1]
                 ELSE Idle)
    /\ UNCHANGED <<row, lock, up, orphans, faults, edits>>

-----------------------------------------------------------------------------
\* The lease is settled.

\* execute_inference: the answer, or an error that says nothing of the
\* credential; the `finally' releases.
FinishPlain(r) ==
    LET c == req[r].cred IN
    /\ req[r].pc = "executing" /\ ~req[r].stream
    /\ Unlocked(c)
    /\ Store(c, ReleaseLease(row[c]))
    /\ Become(r, Idle)
    /\ UNCHANGED <<lock, up, orphans, faults, edits>>

\* Mutant: the credential that refused is not excluded.
AfterRefusalForgetful(r) ==
    IF req[r].stream THEN Idle ELSE Selecting(FALSE, req[r].excluded)

\* A stream cannot be retried; a plain request excludes the credential and
\* selects again, from the first auth mode.
AfterRefusal(r) ==
    IF req[r].stream THEN Idle
    ELSE Selecting(FALSE, req[r].excluded \cup {req[r].cred})

UpstreamRateLimited(r) ==
    LET c == req[r].cred IN
    /\ req[r].pc = "executing"
    /\ Unlocked(c)
    /\ Store(c, CoolDown(row[c]))
    /\ Become(r, AfterRefusal(r))
    /\ UNCHANGED <<lock, up, orphans, faults, edits>>

UpstreamInvalid(r) ==
    LET c == req[r].cred IN
    /\ req[r].pc = "executing"
    /\ Unlocked(c)
    /\ Store(c, Disable(row[c]))
    /\ Become(r, AfterRefusal(r))
    /\ UNCHANGED <<lock, up, orphans, faults, edits>>

\* The executor has no execute_stream: release, then serve it as a plain one.
FallBack(r) ==
    LET c == req[r].cred IN
    /\ req[r].pc = "executing" /\ req[r].stream
    /\ Unlocked(c)
    /\ Store(c, ReleaseLease(row[c]))
    /\ Become(r, Selecting(FALSE, {}))
    /\ UNCHANGED <<lock, up, orphans, faults, edits>>

\* The stream is exhausted, fails or loses its client.  Which callbacks run:
\* both when it is exhausted, the generator's `finally' when it raised, the
\* background task when the generator never started.
StreamEnds(r) ==
    /\ req[r].pc = "executing" /\ req[r].stream
    /\ \E F \in SUBSET Finalizer \ {{}} :
           Become(r, [req[r] EXCEPT !.pc = "closing", !.pending = F])
    /\ UNCHANGED <<row, lock, up, orphans, faults, edits>>

\* Mutant: release() does not remember that it ran.
AfterFinalizerAgain(r, f) ==
    IF req[r].pending = {f} THEN Idle
    ELSE [req[r] EXCEPT !.pending = @ \ {f}]

AfterFinalizer(r, f) ==
    IF req[r].pending = {f} THEN Idle
    ELSE [req[r] EXCEPT !.pending = @ \ {f}, !.released = TRUE]

\* One callback calls release(), which acts on its first call only.
RunFinalizer(r, f) ==
    LET c == req[r].cred IN
    /\ req[r].pc = "closing" /\ f \in req[r].pending
    /\ IF req[r].released THEN UNCHANGED row
       ELSE Unlocked(c) /\ Store(c, ReleaseLease(row[c]))
    /\ Become(r, AfterFinalizer(r, f))
    /\ UNCHANGED <<lock, up, orphans, faults, edits>>

-----------------------------------------------------------------------------
\* Database calls that fail, and processes that die.

Fault == faults < MaxFaults /\ faults' = faults + 1

Orphan(c) == orphans' = [orphans EXCEPT ![c] = @ + 1]

\* The commit of the selection fails; `done' when it took effect all the same.
CommitFails(r, done) ==
    LET c == req[r].cred IN
    /\ req[r].pc = "committing"
    /\ Fault
    /\ lock' = Free(r)
    /\ Become(r, Idle)
    /\ IF done THEN row' = [row EXCEPT ![c] = TakeLease(@)] /\ Orphan(c)
       ELSE UNCHANGED <<row, orphans>>
    /\ UNCHANGED <<up, edits>>

\* release() has set its flag before the UPDATE that now fails: nobody tries
\* again.
ReleaseFails(r) ==
    /\ req[r].pc = "executing"
    /\ Fault
    /\ Orphan(req[r].cred)
    /\ Become(r, Idle)
    /\ UNCHANGED <<row, lock, up, edits>>

FinalizerFails(r, f) ==
    /\ req[r].pc = "closing" /\ f \in req[r].pending /\ ~req[r].released
    /\ Fault
    /\ Orphan(req[r].cred)
    /\ Become(r, AfterFinalizer(r, f))
    /\ UNCHANGED <<row, lock, up, edits>>

\* mark_cooldown or mark_disabled fails: the lease is released instead, the
\* error ends the request, and the credential stays selectable.
MarkFails(r) ==
    LET c == req[r].cred IN
    /\ req[r].pc = "executing"
    /\ Unlocked(c)
    /\ Fault
    /\ Store(c, ReleaseLease(row[c]))
    /\ Become(r, Idle)
    /\ UNCHANGED <<lock, up, orphans, edits>>

Crash(i) ==
    LET gone == {r \in Reqs : InstanceOf[r] = i} IN
    /\ up[i]
    /\ Fault
    /\ up' = [up EXCEPT ![i] = FALSE]
    /\ req' = [r \in Reqs |-> IF r \in gone THEN Idle ELSE req[r]]
    /\ lock' = [c \in Creds |-> IF lock[c] \in gone THEN NoReq ELSE lock[c]]
    /\ orphans' = [c \in Creds |->
                      orphans[c] + Cardinality(Holders(c) \cap gone)]
    /\ UNCHANGED <<row, edits>>

\* reset_stale_leases, which skips rows another transaction has locked.
StaleRows == {c \in Creds : Stale(row[c]) /\ Unlocked(c)}

\* Mutant: commit and rollback of the sweep are swapped.
ResetRolledBack == UNCHANGED <<row, orphans>>

ResetStaleLeases ==
    /\ row' = [c \in Creds |-> IF c \in StaleRows THEN ResetLeases(row[c])
                               ELSE row[c]]
    /\ orphans' = [c \in Creds |-> IF c \in StaleRows THEN 0 ELSE orphans[c]]

\* The lifespan handler goes on when its reset fails.
Restart(i) ==
    /\ ~up[i]
    /\ up' = [up EXCEPT ![i] = TRUE]
    /\ \/ ResetStaleLeases /\ UNCHANGED faults
       \/ Fault /\ UNCHANGED <<row, orphans>>
    /\ UNCHANGED <<lock, req, edits>>

Sweep(i) ==
    /\ up[i]
    /\ StaleRows # {}
    /\ ResetStaleLeases
    /\ UNCHANGED <<lock, req, up, faults, edits>>

-----------------------------------------------------------------------------
\* Owners and admins, and the clock.

Edit == edits < MaxEdits /\ edits' = edits + 1

CreateCredential(c) ==
    /\ row[c].phase = "unborn"
    /\ Edit
    /\ row' = [row EXCEPT ![c].phase = "live"]
    /\ UNCHANGED <<lock, req, up, orphans, faults>>

UpdateVisibility(c, v) ==
    /\ Live(c) /\ Unlocked(c)
    /\ Edit
    /\ row' = [row EXCEPT ![c] = SetVisible(@, v)]
    /\ UNCHANGED <<lock, req, up, orphans, faults>>

DeleteCredential(c) ==
    /\ Live(c) /\ Unlocked(c)
    /\ Edit
    /\ row' = [row EXCEPT ![c] = [InitRow[c] EXCEPT !.phase = "gone"]]
    /\ UNCHANGED <<lock, req, up, orphans, faults>>

\* A transaction is short: no tick passes in one.
Tick ==
    /\ \A c \in Creds : Unlocked(c)
    /\ \A r \in Reqs : Running(r) => req[r].age < MaxRun
    /\ row' = [c \in Creds |-> IF Live(c) THEN Older(row[c]) ELSE row[c]]
    /\ req' = [r \in Reqs |-> IF Running(r) THEN [req[r] EXCEPT !.age = @ + 1]
                              ELSE req[r]]
    /\ UNCHANGED <<lock, up, orphans, faults, edits>>

-----------------------------------------------------------------------------
Init ==
    /\ row = InitRow
    /\ lock = [c \in Creds |-> NoReq]
    /\ req = [r \in Reqs |-> Idle]
    /\ up = [i \in Instances |-> TRUE]
    /\ orphans = [c \in Creds |-> 0]
    /\ faults = 0
    /\ edits = 0

Select(r) == LockCandidates(r) \/ CommitSelect(r) \/ NoCandidate(r)

Settle(r) ==
    \/ FinishPlain(r) \/ UpstreamRateLimited(r) \/ UpstreamInvalid(r)
    \/ FallBack(r) \/ StreamEnds(r)

Close(r) == \E f \in Finalizer : RunFinalizer(r, f)

RequestFault(r) ==
    \/ \E done \in BOOLEAN : CommitFails(r, done)
    \/ ReleaseFails(r) \/ MarkFails(r)
    \/ \E f \in Finalizer : FinalizerFails(r, f)

RequestStep(r) ==
    \/ \E stream \in BOOLEAN : Start(r, stream)
    \/ Select(r) \/ Settle(r) \/ Close(r) \/ RequestFault(r)

InstanceStep(i) == Crash(i) \/ Restart(i) \/ Sweep(i)

EditStep(c) ==
    \/ CreateCredential(c) \/ DeleteCredential(c)
    \/ \E v \in CredentialVisibility : UpdateVisibility(c, v)

Next ==
    \/ \E r \in Reqs : RequestStep(r)
    \/ \E i \in Instances : InstanceStep(i)
    \/ \E c \in Creds : EditStep(c)
    \/ Tick

\* A request that has begun goes on: its thread is scheduled, row locks are
\* granted in the order they were asked for, an upstream call is taken to end.
\* Time passes, the sweep loop runs, a dead instance is restarted.  Nobody
\* has to send a request, and nothing has to fail.
Fairness ==
    /\ \A r \in Reqs : WF_vars(Select(r)) /\ SF_vars(Settle(r)) /\ SF_vars(Close(r))
    /\ \A i \in Instances : WF_vars(Restart(i)) /\ WF_vars(Sweep(i))
    /\ SF_vars(Tick)

Spec == Init /\ [][Next]_vars /\ Fairness

-----------------------------------------------------------------------------
\* Properties.

\* Every variable stays in its type: no row, request or instance reaches a
\* state the schema and the handlers do not have, in particular the auth-mode
\* loop of select_credential never runs past the end of its list.
TypeOK ==
    /\ row \in [Creds -> Row]
    /\ lock \in [Creds -> Reqs \cup {NoReq}]
    /\ req \in [Reqs -> Request]
    /\ up \in [Instances -> BOOLEAN]
    /\ orphans \in [Creds -> Nat]
    /\ faults \in 0 .. MaxFaults
    /\ edits \in 0 .. MaxEdits

\* concurrent_leases counts exactly the requests that will still settle a
\* lease on the credential, and the leases that leaked since the last sweep
\* that reset the row: no path decrements twice, none forgets to.  The clamp
\* at zero never hides a surplus decrement.
LeaseAccounting ==
    \A c \in Creds : row[c].phase # "gone" =>
        row[c].leases = Cardinality(Holders(c)) + orphans[c]

\* No interleaving of the router instances' selections, settlements, sweeps
\* and crashes lets more requests use a credential than max_concurrency.
NoOversubscription ==
    \A c \in Creds : Cardinality(Holders(c)) <= row[c].max

\* When a request starts to use a credential, the row still satisfies at that
\* moment everything select looked for, although other transactions ran since
\* it looked: the credential exists, rests in no cooldown, is not disabled, is
\* still visible to the requester, lists the model, and has not refused this
\* very request before.
Eligible(r, c) ==
    /\ Matches(r, c)
    /\ c \in Serves[r]

StartsOnlyOnEligible ==
    [][\A r \in Reqs : ~Running(r) /\ Running(r)' => Eligible(r, req'[r].cred)]_vars

\* Every request comes to an end: retries of execute_inference run out of
\* credentials even when cooled-down ones become selectable again, no lock is
\* waited for forever, and no finalizer is left pending.
EveryRequestEnds ==
    \A r \in Reqs : req[r].pc # "idle" ~> req[r].pc = "idle"

\* A credential all of whose leases leaked does not stay saturated: nothing
\* touches the row any more, its updated_at ages, and a sweep resets it.
AllLeaked(c) ==
    Live(c) /\ row[c].leases = row[c].max /\ Holders(c) = {}

OrphanSaturationHeals ==
    \A c \in Creds : AllLeaked(c) ~> ~AllLeaked(c)

\* The table, the lock protocol and the lease objects together implement the
\* abstract pool of slots.
occupied == [c \in Creds |-> Holders(c)]

unused == [c \in Creds |->
              InitRow[c].max - Cardinality(Holders(c)) - orphans[c]]

Slots == INSTANCE CredentialSlots WITH
             Max <- [c \in Creds |-> InitRow[c].max],
             held <- occupied, free <- unused

ImplementsSlots == Slots!SlotsSpec

\* A credential an upstream called invalid is out of service until somebody
\* refreshes or re-imports it.
DisabledIsFinal ==
    [][\A c \in Creds : Live(c) /\ row[c].state = "disabled"
           => ~Live(c)' \/ row'[c].state = "disabled"]_vars
=============================================================================
