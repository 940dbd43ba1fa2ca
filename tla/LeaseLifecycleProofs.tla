----------------------- MODULE LeaseLifecycleProofs -----------------------
(***************************************************************************)
(* Theorems about LeaseLifecycle, for every set of credentials, every      *)
(* finite set of request slots and every value of the bounds.              *)
(***************************************************************************)
EXTENDS LeaseLifecycle, FiniteSetTheorems, TLAPS

USE DEF NoTime

-----------------------------------------------------------------------------
\* What the statements of the repository do to a row.

\* Every statement of the repository turns a row into a row.
LEMMA RowTypes ==
    ASSUME NEW x \in Row
    PROVE  /\ ReleaseLease(x) \in Row /\ CoolDown(x) \in Row
           /\ Disable(x) \in Row /\ TakeLease(x) \in Row
           /\ ResetLeases(x) \in Row /\ Older(x) \in Row
           /\ \A v \in CredentialVisibility : SetVisible(x, v) \in Row
<1>1. x.leases \in Nat /\ LessOne(x.leases) \in Nat /\ x.leases + 1 \in Nat
    BY DEF Row, LessOne
<1>2. 0 \in 0 .. LeaseTtl
    BY TicksAssumption
<1>3. ReleaseLease(x) \in Row
    BY <1>1, <1>2 DEF Row, ReleaseLease
<1>4. CoolDown(x) \in Row
    <2>1. CooldownTicks \in 0 .. CooldownTicks \cup {NoTime}
        BY TicksAssumption
    <2>2. "cooldown" \in CredentialState
        BY DEF CredentialState
    <2> QED BY <1>1, <1>2, <2>1, <2>2 DEF Row, CoolDown
<1>5. Disable(x) \in Row
    BY <1>1, <1>2 DEF Row, Disable, CredentialState
<1>6. TakeLease(x) \in Row
    <2>1. NoTime \in 0 .. CooldownTicks \cup {NoTime}
        OBVIOUS
    <2>2. "active" \in CredentialState
        BY DEF CredentialState
    <2> QED BY <1>1, <1>2, <2>1, <2>2 DEF Row, TakeLease
<1>7. ResetLeases(x) \in Row
    BY <1>1, <1>2 DEF Row, ResetLeases
<1>8. Older(x) \in Row
    <2>1. (IF x.age < LeaseTtl THEN x.age + 1 ELSE x.age) \in 0 .. LeaseTtl
        BY TicksAssumption DEF Row
    <2>2. (IF x.cool > 0 THEN x.cool - 1 ELSE x.cool) \in 0 .. CooldownTicks \cup {NoTime}
        BY TicksAssumption DEF Row
    <2> QED BY <2>1, <2>2 DEF Row, Older
<1>9. \A v \in CredentialVisibility : SetVisible(x, v) \in Row
    BY <1>2 DEF Row, SetVisible
<1> QED BY <1>3, <1>4, <1>5, <1>6, <1>7, <1>8, <1>9

\* Every settling statement takes one lease off and makes the row young.
LEMMA SettledRow ==
    ASSUME NEW x \in Row,
           NEW y \in {ReleaseLease(x), CoolDown(x), Disable(x)}
    PROVE  /\ y \in Row
           /\ y.leases = LessOne(x.leases)
           /\ y.age = 0 /\ y.max = x.max /\ y.phase = x.phase
<1>1. y \in Row
    BY RowTypes
<1>2. CASE y = ReleaseLease(x)
    BY <1>1, <1>2 DEF Row, ReleaseLease
<1>3. CASE y = CoolDown(x)
    BY <1>1, <1>3 DEF Row, CoolDown
<1>4. CASE y = Disable(x)
    BY <1>1, <1>4 DEF Row, Disable
<1> QED BY <1>2, <1>3, <1>4

-----------------------------------------------------------------------------
\* Request records.

\* A request past LockCandidates has a credential, and release() is not called
\* before the request closes.
Chosen == {q \in Request :
              /\ q.pc \in {"committing", "executing", "closing"} => q.cred \in Creds
              /\ q.pc \in {"selecting", "committing", "executing"} => ~q.released}

\* A request that has not begun, and one that begins to select, are well formed.
LEMMA FreshRecords ==
    /\ Idle \in Chosen /\ Idle.pc = "idle"
    /\ \A stream \in BOOLEAN, E \in SUBSET Creds :
          Selecting(stream, E) \in Chosen /\ Selecting(stream, E).pc = "selecting"
<1>1. Len(AuthModes) \in Nat /\ 1 \in 1 .. Len(AuthModes) /\ 0 \in 0 .. MaxRun
    BY SlotsAssumption, BoundsAssumption
<1>2. Idle \in Chosen /\ Idle.pc = "idle"
    BY <1>1 DEF Idle, Request, Chosen
<1>3. ASSUME NEW stream \in BOOLEAN, NEW E \in SUBSET Creds
      PROVE  Selecting(stream, E) \in Chosen /\ Selecting(stream, E).pc = "selecting"
    BY <1>1 DEF Idle, Selecting, Request, Chosen
<1> QED BY <1>2, <1>3

\* The records a request in use of a credential can go to.
LEMMA NextRecords ==
    ASSUME NEW r \in Reqs, req[r] \in Chosen
    PROVE  /\ [req[r] EXCEPT !.pc = "executing"] \in Request
           /\ req[r].pc = "selecting" =>
                 \A c \in Creds : [req[r] EXCEPT !.pc = "committing", !.cred = c] \in Chosen
           /\ Running(r) \/ req[r].pc = "committing" => req[r].cred \in Creds
           /\ Running(r) => AfterRefusal(r) \in Chosen
           /\ Running(r) => \A F \in SUBSET Finalizer :
                 [req[r] EXCEPT !.pc = "closing", !.pending = F] \in Chosen
           /\ req[r].pc = "closing" => \A f \in Finalizer : AfterFinalizer(r, f) \in Chosen
<1>1. [req[r] EXCEPT !.pc = "executing"] \in Request
    BY DEF Chosen, Request
<1>2. req[r].pc = "selecting" =>
         \A c \in Creds : [req[r] EXCEPT !.pc = "committing", !.cred = c] \in Chosen
    BY DEF Chosen, Request
<1>3. Running(r) \/ req[r].pc = "committing" => req[r].cred \in Creds
    BY DEF Chosen, Running
<1>4. Running(r) => AfterRefusal(r) \in Chosen
    <2>1. req[r].excluded \in SUBSET Creds
        BY DEF Chosen, Request
    <2> QED BY <1>3, <2>1, FreshRecords DEF AfterRefusal
<1>5. Running(r) => \A F \in SUBSET Finalizer :
         [req[r] EXCEPT !.pc = "closing", !.pending = F] \in Chosen
    BY <1>3 DEF Chosen, Request
<1>6. req[r].pc = "closing" => \A f \in Finalizer : AfterFinalizer(r, f) \in Chosen
    BY FreshRecords DEF AfterFinalizer, Chosen, Request
<1> QED BY <1>1, <1>2, <1>3, <1>4, <1>5, <1>6

-----------------------------------------------------------------------------
\* Type correctness.

TypeInv == TypeOK /\ req \in [Reqs -> Chosen]

\* The types hold at the start.
LEMMA TypeInit == Init => TypeInv
<1>1. Idle \in Chosen /\ Idle \in Request
    BY FreshRecords DEF Chosen
<1> QED BY <1>1, TableAssumption, BoundsAssumption DEF Init, TypeOK, TypeInv

\* A step that changes one request and settles its lease, or nothing else.
LEMMA TypeOneRequest ==
    ASSUME TypeInv, NEW r \in Reqs, NEW new \in Chosen, Become(r, new),
           row' \in [Creds -> Row], lock' \in [Creds -> Reqs \cup {NoReq}],
           orphans' \in [Creds -> Nat], UNCHANGED <<up, edits>>,
           Fault \/ UNCHANGED faults
    PROVE  TypeInv'
<1>1. new \in Request
    BY DEF Chosen
<1>2. faults' \in 0 .. MaxFaults
    BY BoundsAssumption DEF Fault, TypeInv, TypeOK
<1> QED BY <1>1, <1>2 DEF Become, TypeInv, TypeOK

\* What is stored when a lease is settled is a row.
LEMMA TypeStore ==
    ASSUME TypeInv, NEW c \in Creds,
           NEW x \in {ReleaseLease(row[c]), CoolDown(row[c]), Disable(row[c])},
           Store(c, x)
    PROVE  row' \in [Creds -> Row]
<1>1. row \in [Creds -> Row] /\ row[c] \in Row
    BY DEF TypeInv, TypeOK
<1>2. x \in Row
    BY <1>1, SettledRow
<1> QED BY <1>1, <1>2 DEF Store

\* Every step keeps the types.
LEMMA TypeNext == TypeInv /\ [Next]_vars => TypeInv'
<1> SUFFICES ASSUME TypeInv, [Next]_vars PROVE TypeInv'
    OBVIOUS
<1>0. /\ row \in [Creds -> Row] /\ lock \in [Creds -> Reqs \cup {NoReq}]
      /\ req \in [Reqs -> Request] /\ req \in [Reqs -> Chosen]
      /\ up \in [Instances -> BOOLEAN] /\ orphans \in [Creds -> Nat]
      /\ faults \in 0 .. MaxFaults /\ edits \in 0 .. MaxEdits
    BY DEF TypeInv, TypeOK
<1>1. ASSUME NEW r \in Reqs, RequestStep(r) PROVE TypeInv'
    <2> DEFINE c == req[r].cred
    <2>0. /\ Running(r) \/ req[r].pc = "committing" => c \in Creds
          /\ Idle \in Chosen
          /\ \A stream \in BOOLEAN : Selecting(stream, {}) \in Chosen
        BY <1>0, FreshRecords, NextRecords
    <2>1. ASSUME NEW stream \in BOOLEAN, Start(r, stream) PROVE TypeInv'
        BY <1>0, <2>0, <2>1, TypeOneRequest DEF Start
    <2>2. CASE LockCandidates(r)
        <3>1. PICK d \in Creds : Become(r, [req[r] EXCEPT !.pc = "committing", !.cred = d])
            BY <2>2 DEF LockCandidates, LeastLeased, Candidates
        <3>2. [req[r] EXCEPT !.pc = "committing", !.cred = d] \in Chosen
            BY <1>0, <2>2, NextRecords DEF LockCandidates
        <3>3. lock' \in [Creds -> Reqs \cup {NoReq}]
            BY <1>0, <2>2 DEF LockCandidates
        <3> QED BY <1>0, <2>2, <3>1, <3>2, <3>3, TypeOneRequest DEF LockCandidates
    <2>3. CASE CommitSelect(r)
        <3>1. [req[r] EXCEPT !.pc = "executing"] \in Chosen
            <4>1. c \in Creds /\ req[r] \in Request /\ ~req[r].released
                BY <1>0, <2>0, <2>3 DEF CommitSelect, Chosen
            <4> QED BY <4>1 DEF Chosen, Request
        <3>2. row' \in [Creds -> Row]
            BY <1>0, <2>3, RowTypes DEF CommitSelect
        <3>3. lock' \in [Creds -> Reqs \cup {NoReq}]
            BY <1>0, <2>3 DEF CommitSelect, Free
        <3> QED BY <1>0, <2>3, <3>1, <3>2, <3>3, TypeOneRequest DEF CommitSelect
    <2>4. CASE NoCandidate(r)
        <3>1. CASE req[r].mode < Len(AuthModes)
            <4>1. Len(AuthModes) \in Nat /\ req[r].mode \in Nat
                BY <1>0, SlotsAssumption DEF Request
            <4>2. req[r].mode + 1 \in 1 .. Len(AuthModes)
                BY <1>0, <3>1, <4>1 DEF Request
            <4>3. [req[r] EXCEPT !.mode = @ + 1] \in Chosen
                <5>1. req[r] \in Chosen /\ req[r].pc = "selecting"
                    BY <1>0, <2>4 DEF NoCandidate
                <5> QED BY <4>2, <5>1 DEF Chosen, Request
            <4> QED BY <1>0, <2>4, <3>1, <4>3, TypeOneRequest DEF NoCandidate
        <3>2. CASE ~(req[r].mode < Len(AuthModes))
            BY <1>0, <2>0, <2>4, <3>2, TypeOneRequest DEF NoCandidate
        <3> QED BY <3>1, <3>2
    <2>5. CASE Settle(r)
        <3>1. Running(r)
            BY <2>5 DEF Settle, FinishPlain, UpstreamRateLimited, UpstreamInvalid,
                        FallBack, StreamEnds, Running
        <3>2. CASE FinishPlain(r)
            BY <1>0, <2>0, <3>1, <3>2, TypeOneRequest, TypeStore DEF FinishPlain
        <3>3. CASE UpstreamRateLimited(r)
            BY <1>0, <2>0, <3>1, <3>3, NextRecords, TypeOneRequest, TypeStore
               DEF UpstreamRateLimited
        <3>4. CASE UpstreamInvalid(r)
            BY <1>0, <2>0, <3>1, <3>4, NextRecords, TypeOneRequest, TypeStore
               DEF UpstreamInvalid
        <3>5. CASE FallBack(r)
            BY <1>0, <2>0, <3>1, <3>5, TypeOneRequest, TypeStore DEF FallBack
        <3>6. CASE StreamEnds(r)
            BY <1>0, <3>1, <3>6, NextRecords, TypeOneRequest DEF StreamEnds
        <3> QED BY <2>5, <3>2, <3>3, <3>4, <3>5, <3>6 DEF Settle
    <2>6. ASSUME NEW f \in Finalizer, RunFinalizer(r, f) PROVE TypeInv'
        <3>1. Running(r)
            BY <2>6 DEF RunFinalizer, Running
        <3>2. row' \in [Creds -> Row]
            BY <1>0, <2>0, <2>6, <3>1, TypeStore DEF RunFinalizer
        <3> QED BY <1>0, <2>6, <3>2, NextRecords, TypeOneRequest DEF RunFinalizer
    <2>7. CASE RequestFault(r)
        <3>0. c \in Creds /\ Orphan(c) => orphans' \in [Creds -> Nat]
            BY <1>0 DEF Orphan
        <3>1. ASSUME NEW done \in BOOLEAN, CommitFails(r, done) PROVE TypeInv'
            <4>1. lock' \in [Creds -> Reqs \cup {NoReq}]
                BY <1>0, <3>1 DEF CommitFails, Free
            <4>2. row' \in [Creds -> Row]
                BY <1>0, <3>1, RowTypes DEF CommitFails
            <4>3. orphans' \in [Creds -> Nat]
                BY <1>0, <2>0, <3>0, <3>1 DEF CommitFails
            <4> QED BY <1>0, <2>0, <3>1, <4>1, <4>2, <4>3, TypeOneRequest DEF CommitFails
        <3>2. CASE ReleaseFails(r)
            BY <1>0, <2>0, <3>0, <3>2, TypeOneRequest DEF ReleaseFails, Running
        <3>3. CASE MarkFails(r)
            <4>1. Running(r)
                BY <3>3 DEF MarkFails, Running
            <4> QED BY <1>0, <2>0, <3>3, <4>1, TypeOneRequest, TypeStore DEF MarkFails
        <3>4. ASSUME NEW f \in Finalizer, FinalizerFails(r, f) PROVE TypeInv'
            BY <1>0, <2>0, <3>0, <3>4, NextRecords, TypeOneRequest DEF FinalizerFails, Running
        <3> QED BY <2>7, <3>1, <3>2, <3>3, <3>4 DEF RequestFault
    <2> QED BY <1>1, <2>1, <2>2, <2>3, <2>4, <2>5, <2>6, <2>7
               DEF RequestStep, Select, Close
<1>2. ASSUME NEW i \in Instances, InstanceStep(i) PROVE TypeInv'
    <2>1. ResetStaleLeases => /\ row' \in [Creds -> Row]
                              /\ orphans' \in [Creds -> Nat]
        BY <1>0, RowTypes DEF ResetStaleLeases
    <2>2. Fault => faults' \in 0 .. MaxFaults
        BY <1>0, BoundsAssumption DEF Fault
    <2>3. CASE Crash(i)
        <3> DEFINE gone == {r \in Reqs : InstanceOf[r] = i}
        <3>1. req' \in [Reqs -> Request] /\ req' \in [Reqs -> Chosen]
            BY <1>0, <2>3, FreshRecords DEF Crash, Chosen
        <3>2. orphans' \in [Creds -> Nat]
            <4>1. \A c \in Creds : IsFiniteSet(Holders(c) \cap gone)
                BY SlotsAssumption, FS_Subset DEF Holders
            <4>2. \A c \in Creds : Cardinality(Holders(c) \cap gone) \in Nat
                BY <4>1, FS_CardinalityType
            <4> QED BY <1>0, <2>3, <4>2 DEF Crash
        <3>3. lock' \in [Creds -> Reqs \cup {NoReq}] /\ up' \in [Instances -> BOOLEAN]
            BY <1>0, <2>3 DEF Crash
        <3> QED BY <1>0, <2>2, <2>3, <3>1, <3>2, <3>3 DEF Crash, TypeInv, TypeOK
    <2>4. CASE Restart(i)
        BY <1>0, <2>1, <2>2, <2>4 DEF Restart, TypeInv, TypeOK
    <2>5. CASE Sweep(i)
        BY <1>0, <2>1, <2>5 DEF Sweep, TypeInv, TypeOK
    <2> QED BY <1>2, <2>3, <2>4, <2>5 DEF InstanceStep
<1>3. ASSUME NEW c \in Creds, EditStep(c) PROVE TypeInv'
    <2>1. edits' \in 0 .. MaxEdits
        BY <1>0, <1>3, BoundsAssumption
           DEF EditStep, CreateCredential, DeleteCredential, UpdateVisibility, Edit
    <2>2. row' \in [Creds -> Row]
        <3>1. [row[c] EXCEPT !.phase = "live"] \in Row
            BY <1>0 DEF Row, Phase
        <3>2. [InitRow[c] EXCEPT !.phase = "gone"] \in Row
            BY TableAssumption DEF Row, Phase
        <3>3. \A v \in CredentialVisibility : SetVisible(row[c], v) \in Row
            BY <1>0, RowTypes
        <3> QED BY <1>0, <1>3, <3>1, <3>2, <3>3
                DEF EditStep, CreateCredential, DeleteCredential, UpdateVisibility
    <2> QED BY <1>0, <1>3, <2>1, <2>2 DEF EditStep, CreateCredential,
               DeleteCredential, UpdateVisibility, TypeInv, TypeOK
<1>4. CASE Tick
    <2>1. row' \in [Creds -> Row]
        BY <1>0, <1>4, RowTypes DEF Tick
    <2>2. ASSUME NEW r \in Reqs, Running(r)
          PROVE  [req[r] EXCEPT !.age = @ + 1] \in Chosen
        <3>1. req[r].age + 1 \in 0 .. MaxRun
            BY <1>0, <1>4, <2>2, BoundsAssumption DEF Tick, Request
        <3>2. /\ req[r] \in Request /\ req[r] \in Chosen
              /\ req[r].cred \in Creds
            BY <1>0, <2>2, NextRecords
        <3>3. [req[r] EXCEPT !.age = @ + 1] \in Request
            BY <3>1, <3>2 DEF Request
        <3>4. /\ [req[r] EXCEPT !.age = @ + 1].pc = req[r].pc
              /\ [req[r] EXCEPT !.age = @ + 1].cred = req[r].cred
              /\ [req[r] EXCEPT !.age = @ + 1].released = req[r].released
            BY <3>2 DEF Request
        <3> QED BY <3>2, <3>3, <3>4 DEF Chosen
    <2>3. req' \in [Reqs -> Chosen]
        BY <1>0, <1>4, <2>2 DEF Tick
    <2>4. req' \in [Reqs -> Request]
        BY <2>3 DEF Chosen
    <2> QED BY <1>0, <1>4, <2>1, <2>3, <2>4 DEF Tick, TypeInv, TypeOK
<1>5. CASE UNCHANGED vars
    BY <1>0, <1>5 DEF vars, TypeInv, TypeOK
<1> QED BY <1>1, <1>2, <1>3, <1>4, <1>5 DEF Next

\* Type correctness: no step of any request, instance, owner or of the clock
\* leaves the types, for any number of credentials and requests.
THEOREM TypeCorrect == Spec => []TypeOK
<1>1. TypeInv => TypeOK
    BY DEF TypeInv
<1> QED BY <1>1, TypeInit, TypeNext, PTL DEF Spec

-----------------------------------------------------------------------------
\* Row locks.

\* A locked row belongs to an open selection and still satisfies its WHERE
\* clause; an open selection has the lock of the row it chose.
LockedRow(c) ==
    lock[c] # NoReq =>
        \E r \in Reqs : lock[c] = r /\ req[r].pc = "committing" /\ Matches(r, c)

ChosenRow(r) ==
    req[r].pc = "committing" => lock[req[r].cred] = r /\ req[r].cred \in Serves[r]

Locks == (\A c \in Creds : LockedRow(c)) /\ (\A r \in Reqs : ChosenRow(r))

\* A row that fits a request goes on fitting it while both stay as they are.
LEMMA MatchesStable ==
    ASSUME NEW r \in Reqs, NEW c \in Creds, Matches(r, c),
           row'[c] = row[c], req'[r].mode = req[r].mode,
           req'[r].excluded = req[r].excluded
    PROVE  Matches(r, c)'
BY DEF Matches, Live

\* One request moves on, gives its locks back if it had some, and the rows
\* that change are locked by nobody else.
LEMMA LocksOneRequest ==
    ASSUME TypeInv, Locks, NEW r \in Reqs, NEW new \in Chosen, Become(r, new),
           new.pc # "committing",
           lock' = Free(r) \/ (UNCHANGED lock /\ req[r].pc # "committing"),
           \A c \in Creds : row'[c] = row[c] \/ lock[c] \in {NoReq, r}
    PROVE  Locks'
<1>0. req \in [Reqs -> Chosen] /\ lock \in [Creds -> Reqs \cup {NoReq}]
    BY DEF TypeInv, TypeOK
<1>1. \A c \in Creds : lock'[c] # NoReq => lock'[c] = lock[c] /\ lock[c] # r
    BY <1>0 DEF Free, Locks, LockedRow
<1>2. \A q \in Reqs : req'[q] = IF q = r THEN new ELSE req[q]
    BY <1>0 DEF Become
<1>3. ASSUME NEW c \in Creds PROVE LockedRow(c)'
    <2>1. CASE lock'[c] # NoReq
        <3>1. /\ lock'[c] = lock[c] /\ lock[c] # r /\ row'[c] = row[c]
              /\ lock[c] # NoReq
            BY <1>0, <1>1, <2>1
        <3>2. PICK q \in Reqs : lock[c] = q /\ req[q].pc = "committing" /\ Matches(q, c)
            BY <3>1 DEF Locks, LockedRow
        <3>3. req'[q] = req[q]
            BY <1>2, <3>1, <3>2
        <3>4. Matches(q, c)'
            BY <3>1, <3>2, <3>3, MatchesStable
        <3> QED BY <3>1, <3>2, <3>3, <3>4 DEF LockedRow
    <2>2. CASE lock'[c] = NoReq
        BY <2>2 DEF LockedRow
    <2> QED BY <2>1, <2>2
<1>4. ASSUME NEW q \in Reqs PROVE ChosenRow(q)'
    <2>1. CASE req'[q].pc = "committing"
        <3>1. q # r /\ req'[q] = req[q] /\ req[q].cred \in Creds
            BY <1>0, <1>2, <2>1 DEF Chosen
        <3>2. lock[req[q].cred] = q /\ req[q].cred \in Serves[q] /\ q # NoReq
            BY <2>1, <3>1, SlotsAssumption DEF Locks, ChosenRow
        <3> QED BY <1>0, <3>1, <3>2 DEF Free, ChosenRow
    <2>2. CASE req'[q].pc # "committing"
        BY <2>2 DEF ChosenRow
    <2> QED BY <2>1, <2>2
<1> QED BY <1>3, <1>4 DEF Locks

\* No request moves and the rows that change are locked by nobody.
LEMMA LocksNoRequest ==
    ASSUME TypeInv, Locks, UNCHANGED lock,
           \A r \in Reqs : /\ req'[r].pc = req[r].pc /\ req'[r].mode = req[r].mode
                           /\ req'[r].excluded = req[r].excluded
                           /\ req'[r].cred = req[r].cred,
           \A c \in Creds : row'[c] = row[c] \/ lock[c] = NoReq
    PROVE  Locks'
<1>0. lock \in [Creds -> Reqs \cup {NoReq}]
    BY DEF TypeInv, TypeOK
<1>1. ASSUME NEW c \in Creds PROVE LockedRow(c)'
    <2>1. CASE lock[c] # NoReq
        <3>1. PICK q \in Reqs : lock[c] = q /\ req[q].pc = "committing" /\ Matches(q, c)
            BY <2>1 DEF Locks, LockedRow
        <3>2. Matches(q, c)'
            BY <2>1, <3>1, MatchesStable
        <3> QED BY <3>1, <3>2 DEF LockedRow
    <2>2. CASE lock[c] = NoReq
        BY <2>2 DEF LockedRow
    <2> QED BY <2>1, <2>2
<1>2. ASSUME NEW q \in Reqs PROVE ChosenRow(q)'
    BY DEF Locks, ChosenRow
<1> QED BY <1>1, <1>2 DEF Locks

\* Where the row of an update comes from.
LEMMA StoreLocal ==
    ASSUME TypeInv, NEW c \in Creds, NEW x, Store(c, x)
    PROVE  \A d \in Creds : d # c => row'[d] = row[d]
BY DEF Store, TypeInv, TypeOK

\* Every step keeps the meaning of the row locks: only their holder writes a row.
LEMMA LocksNext == TypeInv /\ Locks /\ [Next]_vars => Locks'
<1> SUFFICES ASSUME TypeInv, Locks, [Next]_vars PROVE Locks'
    OBVIOUS
<1>0. /\ row \in [Creds -> Row] /\ lock \in [Creds -> Reqs \cup {NoReq}]
      /\ req \in [Reqs -> Request] /\ req \in [Reqs -> Chosen]
    BY DEF TypeInv, TypeOK
<1>1. ASSUME NEW r \in Reqs, RequestStep(r) PROVE Locks'
    <2> DEFINE c == req[r].cred
    <2>0. /\ Running(r) \/ req[r].pc = "committing" => c \in Creds
          /\ Idle \in Chosen /\ Idle.pc = "idle"
          /\ \A stream \in BOOLEAN : /\ Selecting(stream, {}) \in Chosen
                                     /\ Selecting(stream, {}).pc = "selecting"
        BY <1>0, FreshRecords, NextRecords
    <2>r. /\ Running(r) => AfterRefusal(r).pc # "committing"
          /\ Running(r) => \A f \in Finalizer : AfterFinalizer(r, f).pc # "committing"
        <3>1. Running(r) => req[r].excluded \cup {c} \in SUBSET Creds
            BY <1>0, <2>0 DEF Request
        <3> QED BY <1>0, <2>0, <3>1, FreshRecords DEF AfterRefusal, AfterFinalizer, Running, Request
    <2>1. ASSUME NEW stream \in BOOLEAN, Start(r, stream) PROVE Locks'
        BY <1>0, <2>0, <2>1, LocksOneRequest DEF Start
    <2>2. CASE LockCandidates(r)
        <3>1. PICK d \in Creds :
                 /\ d \in Candidates(r) /\ d \in Serves[r]
                 /\ Become(r, [req[r] EXCEPT !.pc = "committing", !.cred = d])
            BY <2>2 DEF LockCandidates, LeastLeased, Candidates
        <3>2. /\ req'[r].pc = "committing" /\ req'[r].cred = d
              /\ req'[r].mode = req[r].mode /\ req'[r].excluded = req[r].excluded
              /\ \A q \in Reqs : q # r => req'[q] = req[q]
            BY <1>0, <3>1 DEF Become, Request
        <3>3. \A e \in Creds : lock'[e] = IF e \in Candidates(r) THEN r ELSE lock[e]
            BY <2>2 DEF LockCandidates
        <3>4. UNCHANGED row
            BY <2>2 DEF LockCandidates
        <3>5. \A e \in Creds : lock[e] # r
            BY <2>2, SlotsAssumption DEF Locks, LockedRow, LockCandidates
        <3>6. ASSUME NEW e \in Creds PROVE LockedRow(e)'
            <4>1. CASE e \in Candidates(r)
                <5>1. lock'[e] = r /\ Matches(r, e)
                    BY <3>3, <4>1 DEF Candidates
                <5>2. Matches(r, e)'
                    BY <3>2, <3>4, <5>1, MatchesStable
                <5> QED BY <3>2, <5>1, <5>2 DEF LockedRow
            <4>2. CASE e \notin Candidates(r) /\ lock[e] # NoReq
                <5>1. PICK q \in Reqs : lock[e] = q /\ req[q].pc = "committing" /\ Matches(q, e)
                    BY <4>2 DEF Locks, LockedRow
                <5>2. q # r /\ req'[q] = req[q] /\ lock'[e] = q
                    BY <3>2, <3>3, <3>5, <4>2, <5>1
                <5>3. Matches(q, e)'
                    BY <3>4, <5>1, <5>2, MatchesStable
                <5> QED BY <5>1, <5>2, <5>3 DEF LockedRow
            <4>3. CASE e \notin Candidates(r) /\ lock[e] = NoReq
                BY <3>3, <4>3 DEF LockedRow
            <4> QED BY <4>1, <4>2, <4>3
        <3>7. ASSUME NEW q \in Reqs PROVE ChosenRow(q)'
            <4>1. CASE q = r
                BY <3>1, <3>2, <3>3, <4>1 DEF ChosenRow
            <4>2. CASE q # r /\ req[q].pc = "committing"
                <5>1. req[q].cred \in Creds /\ req'[q] = req[q]
                    BY <1>0, <3>2, <4>2 DEF Chosen
                <5>2. lock[req[q].cred] = q /\ req[q].cred \in Serves[q]
                    BY <4>2, <5>1 DEF Locks, ChosenRow
                <5>3. req[q].cred \notin Candidates(r)
                    BY <5>2, SlotsAssumption DEF Candidates, Unlocked
                <5> QED BY <3>3, <5>1, <5>2, <5>3 DEF ChosenRow
            <4>3. CASE q # r /\ req[q].pc # "committing"
                BY <3>2, <4>3 DEF ChosenRow
            <4> QED BY <4>1, <4>2, <4>3
        <3> QED BY <3>6, <3>7 DEF Locks
    <2>3. CASE CommitSelect(r)
        <3>1. [req[r] EXCEPT !.pc = "executing"] \in Chosen
            <4>1. c \in Creds /\ req[r] \in Request /\ ~req[r].released
                BY <1>0, <2>0, <2>3 DEF CommitSelect, Chosen
            <4> QED BY <4>1 DEF Chosen, Request
        <3>2. \A d \in Creds : row'[d] = row[d] \/ lock[d] = r
            BY <1>0, <2>3 DEF CommitSelect, Locks, LockedRow, ChosenRow
        <3>3. [req[r] EXCEPT !.pc = "executing"].pc # "committing"
            BY <1>0 DEF Request
        <3>4. Become(r, [req[r] EXCEPT !.pc = "executing"]) /\ lock' = Free(r)
            BY <2>3 DEF CommitSelect
        <3>5. \A d \in Creds : row'[d] = row[d] \/ lock[d] \in {NoReq, r}
            BY <3>2
        <3> QED BY <3>1, <3>3, <3>4, <3>5, LocksOneRequest
    <2>4. CASE NoCandidate(r)
        <3>1. PICK new \in Chosen : Become(r, new) /\ new.pc # "committing"
            <4>1. req'[r] \in Chosen /\ req'[r].pc # "committing"
                BY <1>0, <2>0, <2>4, <1>1, TypeNext DEF NoCandidate, Become, TypeInv, Request
            <4> QED BY <1>0, <2>4, <4>1 DEF NoCandidate, Become
        <3> QED BY <2>4, <3>1, LocksOneRequest DEF NoCandidate
    <2>5. CASE Settle(r)
        <3>1. Running(r) /\ req[r].pc # "committing" /\ c \in Creds
            BY <2>0, <2>5 DEF Settle, FinishPlain, UpstreamRateLimited, UpstreamInvalid,
                        FallBack, StreamEnds, Running
        <3>2. CASE FinishPlain(r)
            BY <2>0, <3>1, <3>2, LocksOneRequest, StoreLocal DEF FinishPlain, Unlocked
        <3>3. CASE UpstreamRateLimited(r)
            BY <1>0, <2>0, <2>r, <3>1, <3>3, NextRecords, LocksOneRequest, StoreLocal
               DEF UpstreamRateLimited, Unlocked
        <3>4. CASE UpstreamInvalid(r)
            BY <1>0, <2>0, <2>r, <3>1, <3>4, NextRecords, LocksOneRequest, StoreLocal
               DEF UpstreamInvalid, Unlocked
        <3>5. CASE FallBack(r)
            BY <2>0, <3>1, <3>5, LocksOneRequest, StoreLocal DEF FallBack, Unlocked
        <3>6. CASE StreamEnds(r)
            <4>1. PICK F \in SUBSET Finalizer :
                     Become(r, [req[r] EXCEPT !.pc = "closing", !.pending = F])
                BY <3>6 DEF StreamEnds
            <4>2. [req[r] EXCEPT !.pc = "closing", !.pending = F].pc # "committing"
                BY <1>0 DEF Request
            <4> QED BY <1>0, <3>1, <3>6, <4>1, <4>2, NextRecords, LocksOneRequest
                    DEF StreamEnds
        <3> QED BY <2>5, <3>2, <3>3, <3>4, <3>5, <3>6 DEF Settle
    <2>6. ASSUME NEW f \in Finalizer, RunFinalizer(r, f) PROVE Locks'
        <3>1. Running(r) /\ req[r].pc # "committing" /\ c \in Creds
            BY <2>0, <2>6 DEF RunFinalizer, Running
        <3>2. \A d \in Creds : row'[d] = row[d] \/ lock[d] = NoReq
            BY <2>6, <3>1, StoreLocal DEF RunFinalizer, Unlocked
        <3> QED BY <1>0, <2>r, <2>6, <3>1, <3>2, NextRecords, LocksOneRequest
                DEF RunFinalizer
    <2>7. CASE RequestFault(r)
        <3>1. ASSUME NEW done \in BOOLEAN, CommitFails(r, done) PROVE Locks'
            <4>1. \A d \in Creds : row'[d] = row[d] \/ lock[d] = r
                BY <1>0, <3>1 DEF CommitFails, Locks, LockedRow, ChosenRow
            <4>2. Become(r, Idle) /\ lock' = Free(r)
                BY <3>1 DEF CommitFails
            <4>3. \A d \in Creds : row'[d] = row[d] \/ lock[d] \in {NoReq, r}
                BY <4>1
            <4> QED BY <2>0, <4>2, <4>3, LocksOneRequest
        <3>2. CASE ReleaseFails(r)
            BY <2>0, <3>2, LocksOneRequest DEF ReleaseFails
        <3>3. CASE MarkFails(r)
            <4>1. Running(r)
                BY <3>3 DEF MarkFails, Running
            <4> QED BY <2>0, <3>3, <4>1, LocksOneRequest, StoreLocal DEF MarkFails, Unlocked
        <3>4. ASSUME NEW f \in Finalizer, FinalizerFails(r, f) PROVE Locks'
            BY <1>0, <2>r, <3>4, NextRecords, LocksOneRequest DEF FinalizerFails, Running
        <3> QED BY <2>7, <3>1, <3>2, <3>3, <3>4 DEF RequestFault
    <2> QED BY <1>1, <2>1, <2>2, <2>3, <2>4, <2>5, <2>6, <2>7
               DEF RequestStep, Select, Close
<1>2. ASSUME NEW i \in Instances, InstanceStep(i) PROVE Locks'
    <2>1. CASE Crash(i)
        <3> DEFINE gone == {r \in Reqs : InstanceOf[r] = i}
        <3>1. UNCHANGED row
            BY <2>1 DEF Crash
        <3>2. \A e \in Creds : lock'[e] = IF lock[e] \in gone THEN NoReq ELSE lock[e]
            BY <2>1 DEF Crash
        <3>3. \A q \in Reqs : req'[q] = IF q \in gone THEN Idle ELSE req[q]
            BY <2>1 DEF Crash
        <3>4. ASSUME NEW e \in Creds PROVE LockedRow(e)'
            <4>1. CASE lock'[e] # NoReq
                <5>1. lock[e] # NoReq /\ lock'[e] = lock[e] /\ lock[e] \notin gone
                    BY <3>2, <4>1
                <5>2. PICK q \in Reqs : lock[e] = q /\ req[q].pc = "committing" /\ Matches(q, e)
                    BY <5>1 DEF Locks, LockedRow
                <5>3. req'[q] = req[q]
                    BY <3>3, <5>1, <5>2
                <5>4. Matches(q, e)'
                    BY <3>1, <5>2, <5>3, MatchesStable
                <5> QED BY <5>1, <5>2, <5>3, <5>4 DEF LockedRow
            <4>2. CASE lock'[e] = NoReq
                BY <4>2 DEF LockedRow
            <4> QED BY <4>1, <4>2
        <3>5. ASSUME NEW q \in Reqs PROVE ChosenRow(q)'
            <4>1. CASE req'[q].pc = "committing"
                <5>1. q \notin gone /\ req'[q] = req[q] /\ req[q].cred \in Creds
                    BY <1>0, <3>3, <4>1, FreshRecords DEF Chosen
                <5>2. lock[req[q].cred] = q /\ req[q].cred \in Serves[q]
                    BY <4>1, <5>1 DEF Locks, ChosenRow
                <5> QED BY <3>2, <5>1, <5>2 DEF ChosenRow
            <4>2. CASE req'[q].pc # "committing"
                BY <4>2 DEF ChosenRow
            <4> QED BY <4>1, <4>2
        <3> QED BY <3>4, <3>5 DEF Locks
    <2>2. ResetStaleLeases => \A c \in Creds : row'[c] = row[c] \/ lock[c] = NoReq
        BY DEF ResetStaleLeases, StaleRows, Unlocked
    <2>3. CASE Restart(i)
        BY <1>0, <2>2, <2>3, LocksNoRequest DEF Restart
    <2>4. CASE Sweep(i)
        BY <1>0, <2>2, <2>4, LocksNoRequest DEF Sweep
    <2> QED BY <1>2, <2>1, <2>3, <2>4 DEF InstanceStep
<1>3. ASSUME NEW c \in Creds, EditStep(c) PROVE Locks'
    <2>1. \A d \in Creds : d # c => row'[d] = row[d]
        BY <1>0, <1>3 DEF EditStep, CreateCredential, DeleteCredential, UpdateVisibility
    <2>2. lock[c] = NoReq
        BY <1>0, <1>3 DEF EditStep, CreateCredential, DeleteCredential, UpdateVisibility,
                          Unlocked, Locks, LockedRow, ChosenRow, Matches, Live
    <2>3. UNCHANGED <<lock, req>>
        BY <1>3 DEF EditStep, CreateCredential, DeleteCredential, UpdateVisibility
    <2> QED BY <2>1, <2>2, <2>3, LocksNoRequest
<1>4. CASE Tick
    <2>1. \A c \in Creds : lock[c] = NoReq
        BY <1>4 DEF Tick, Unlocked
    <2>2. \A r \in Reqs : /\ req'[r].pc = req[r].pc /\ req'[r].mode = req[r].mode
                          /\ req'[r].excluded = req[r].excluded
                          /\ req'[r].cred = req[r].cred
        BY <1>0, <1>4 DEF Tick, Request
    <2> QED BY <1>4, <2>1, <2>2, LocksNoRequest DEF Tick
<1>5. CASE UNCHANGED vars
    BY <1>5, LocksNoRequest DEF vars
<1> QED BY <1>1, <1>2, <1>3, <1>4, <1>5 DEF Next

-----------------------------------------------------------------------------
\* Counting.  The number of holders and orphans is what the row says, and it
\* stays within the limit because it was below it when a lease was taken.

CountOk(c) ==
    /\ row[c].max = InitRow[c].max
    /\ row[c].phase # "gone" => row[c].leases = Cardinality(Holders(c)) + orphans[c]
    /\ Cardinality(Holders(c)) + orphans[c] <= row[c].max

\* A request runs on a row that was created and was written after it: this is
\* why a sweep, which looks for old rows only, finds no row in use as long as
\* nothing runs for LeaseTtl.
YoungRow(r) ==
    Running(r) => LET c == req[r].cred IN
        /\ row[c].phase # "unborn"
        /\ Live(c) => row[c].age <= req[r].age

HoldingRecord(q, c) ==
    q.pc \in {"executing", "closing"} /\ ~q.released /\ q.cred = c

\* The holders of a credential are finitely many and can be counted.
LEMMA HoldersFinite ==
    ASSUME NEW c
    PROVE  /\ IsFiniteSet(Holders(c)) /\ Cardinality(Holders(c)) \in Nat
           /\ \A r : Cardinality(Holders(c) \cup {r}) =
                 IF r \in Holders(c) THEN Cardinality(Holders(c))
                 ELSE Cardinality(Holders(c)) + 1
           /\ \A r : Cardinality(Holders(c) \ {r}) =
                 IF r \in Holders(c) THEN Cardinality(Holders(c)) - 1
                 ELSE Cardinality(Holders(c))
<1>1. IsFiniteSet(Holders(c))
    BY SlotsAssumption, FS_Subset DEF Holders
<1> QED BY <1>1, FS_CardinalityType, FS_AddElement, FS_RemoveElement

\* A step of one request changes the holders of a credential by that request only.
LEMMA HoldersOneRequest ==
    ASSUME TypeInv, NEW r \in Reqs, NEW new, Become(r, new), NEW c \in Creds
    PROVE  Holders(c)' = IF HoldingRecord(new, c) THEN Holders(c) \cup {r}
                         ELSE Holders(c) \ {r}
<1>1. \A q \in Reqs : req'[q] = IF q = r THEN new ELSE req[q]
    BY DEF Become, TypeInv, TypeOK
<1> QED BY <1>1 DEF Holders, Holds, Running, HoldingRecord

\* The count stays exact where neither holders, orphans nor the lease count change.
LEMMA CountKept ==
    ASSUME TypeInv, NEW c \in Creds, CountOk(c), Holders(c)' = Holders(c),
           orphans'[c] = orphans[c], row'[c].max = row[c].max,
           row'[c].phase # "gone" =>
               row[c].phase # "gone" /\ row'[c].leases = row[c].leases
    PROVE  CountOk(c)'
BY DEF CountOk

\* The lease of r on c is settled by a statement on the row ...
LEMMA CountSettled ==
    ASSUME TypeInv, \A c \in Creds : CountOk(c),
           NEW r \in Reqs, NEW c \in Creds, Holds(r, c), YoungRow(r),
           NEW new, Become(r, new), \A d \in Creds : ~HoldingRecord(new, d),
           NEW x \in {ReleaseLease(row[c]), CoolDown(row[c]), Disable(row[c])},
           Store(c, x), UNCHANGED orphans
    PROVE  \A d \in Creds : CountOk(d)'
<1>0. row \in [Creds -> Row] /\ row[c] \in Row /\ orphans \in [Creds -> Nat]
    BY DEF TypeInv, TypeOK
<1>1. \A d \in Creds : Holders(d)' = Holders(d) \ {r}
    BY HoldersOneRequest
<1>2. CountOk(c)'
    <2>1. r \in Holders(c)
        BY DEF Holders
    <2>2. Cardinality(Holders(c)') = Cardinality(Holders(c)) - 1
        BY <1>1, <2>1, HoldersFinite
    <2>3. Cardinality(Holders(c)) \in Nat /\ Cardinality(Holders(c)) # 0
        BY <2>1, HoldersFinite, FS_EmptySet
    <2>4. /\ row'[c].max = row[c].max /\ row'[c].phase = row[c].phase
          /\ Live(c) => row'[c].leases = LessOne(row[c].leases)
          /\ ~Live(c) => row'[c].leases = row[c].leases
        BY <1>0, SettledRow DEF Store, Live
    <2>5. row[c].phase # "unborn"
        BY DEF YoungRow, Holds
    <2> QED BY <1>0, <2>2, <2>3, <2>4, <2>5 DEF CountOk, LessOne, Live, Row, Phase
<1>3. ASSUME NEW d \in Creds, d # c PROVE CountOk(d)'
    <2>1. r \notin Holders(d)
        BY <1>3 DEF Holders, Holds
    <2>2. Holders(d)' = Holders(d)
        BY <1>1, <2>1
    <2>3. row'[d] = row[d]
        BY <1>3, StoreLocal
    <2> QED BY <2>2, <2>3, CountKept
<1> QED BY <1>2, <1>3

\* ... or by nobody.
LEMMA CountOrphaned ==
    ASSUME TypeInv, \A c \in Creds : CountOk(c),
           NEW r \in Reqs, NEW c \in Creds, Holds(r, c),
           NEW new, Become(r, new), \A d \in Creds : ~HoldingRecord(new, d),
           UNCHANGED row, Orphan(c)
    PROVE  \A d \in Creds : CountOk(d)'
<1>0. row \in [Creds -> Row] /\ orphans \in [Creds -> Nat]
    BY DEF TypeInv, TypeOK
<1>1. \A d \in Creds : Holders(d)' = Holders(d) \ {r}
    BY HoldersOneRequest
<1>2. CountOk(c)'
    <2>1. r \in Holders(c)
        BY DEF Holders
    <2>2. Cardinality(Holders(c)') = Cardinality(Holders(c)) - 1
        BY <1>1, <2>1, HoldersFinite
    <2>3. Cardinality(Holders(c)) \in Nat /\ Cardinality(Holders(c)) # 0
        BY <2>1, HoldersFinite, FS_EmptySet
    <2>4. orphans'[c] = orphans[c] + 1 /\ row'[c] = row[c] /\ orphans[c] \in Nat
        BY <1>0 DEF Orphan
    <2> QED BY <2>2, <2>3, <2>4 DEF CountOk
<1>3. ASSUME NEW d \in Creds, d # c PROVE CountOk(d)'
    <2>1. r \notin Holders(d)
        BY <1>3 DEF Holders, Holds
    <2>2. Holders(d)' = Holders(d) /\ orphans'[d] = orphans[d]
        BY <1>0, <1>1, <1>3, <2>1 DEF Orphan
    <2> QED BY <2>2, CountKept
<1> QED BY <1>2, <1>3

\* No lease changes hands.
LEMMA CountQuiet ==
    ASSUME TypeInv, \A c \in Creds : CountOk(c),
           NEW r \in Reqs, NEW new, Become(r, new),
           \A d \in Creds : HoldingRecord(new, d) <=> Holds(r, d),
           UNCHANGED <<row, orphans>>
    PROVE  \A d \in Creds : CountOk(d)'
<1>1. ASSUME NEW d \in Creds PROVE CountOk(d)'
    <2>1. Holders(d)' = Holders(d)
        BY HoldersOneRequest DEF Holders
    <2> QED BY <2>1, CountKept
<1> QED BY <1>1

\* A selection commits: its row has a free lease.
LEMMA CountTaken ==
    ASSUME TypeInv, \A c \in Creds : CountOk(c),
           NEW r \in Reqs, NEW c \in Creds, Matches(r, c),
           row' = [row EXCEPT ![c] = TakeLease(@)],
           \A d \in Creds : d # c => Holders(d)' = Holders(d) /\ orphans'[d] = orphans[d],
           Cardinality(Holders(c)') + orphans'[c] = Cardinality(Holders(c)) + orphans[c] + 1
    PROVE  \A d \in Creds : CountOk(d)'
<1>0. row \in [Creds -> Row] /\ row[c] \in Row
    BY DEF TypeInv, TypeOK
<1>1. CountOk(c)'
    <2>1. /\ row'[c].leases = row[c].leases + 1
          /\ row'[c].max = row[c].max /\ row'[c].phase = row[c].phase
        BY <1>0 DEF TakeLease, Row
    <2>2. row[c].phase = "live" /\ row[c].leases < row[c].max
        BY DEF Matches, Live, HasFreeLease
    <2> QED BY <1>0, <2>1, <2>2 DEF CountOk, Row
<1>2. ASSUME NEW d \in Creds, d # c PROVE CountOk(d)'
    <2>1. row'[d] = row[d]
        BY <1>0, <1>2
    <2> QED BY <1>2, <2>1, CountKept
<1> QED BY <1>1, <1>2

\* A step of one request leaves every row younger than the requests that hold it.
LEMMA YoungOneRequest ==
    ASSUME TypeInv, \A q \in Reqs : YoungRow(q),
           NEW r \in Reqs, NEW new, Become(r, new),
           \/ new.pc \notin {"executing", "closing"}
           \/ Running(r) /\ new.cred = req[r].cred /\ new.age = req[r].age,
           \A d \in Creds : /\ row'[d].phase = row[d].phase
                            /\ row'[d].age = row[d].age \/ row'[d].age = 0
    PROVE  \A q \in Reqs : YoungRow(q)'
<1>0. req \in [Reqs -> Request] /\ req \in [Reqs -> Chosen]
    BY DEF TypeInv, TypeOK
<1>1. \A q \in Reqs : req'[q] = IF q = r THEN new ELSE req[q]
    BY <1>0 DEF Become
<1>2. ASSUME NEW q \in Reqs PROVE YoungRow(q)'
    <2>1. CASE Running(q)'
        <3>1. /\ Running(q) /\ req'[q].cred = req[q].cred /\ req'[q].age = req[q].age
            BY <1>1, <2>1 DEF Running
        <3>2. req[q].cred \in Creds /\ req[q].age \in Nat
            <4>1. req[q] \in Request /\ req[q] \in Chosen
                BY <1>0
            <4>2. req[q].age \in Nat
                BY <4>1, BoundsAssumption DEF Request
            <4> QED BY <3>1, <4>1, <4>2, NextRecords
        <3> QED BY <3>1, <3>2 DEF YoungRow, Live
    <2>2. CASE ~Running(q)'
        BY <2>2 DEF YoungRow
    <2> QED BY <2>1, <2>2
<1> QED BY <1>2

-----------------------------------------------------------------------------
\* The abstract pool of slots, under the refinement mapping.

SlotStep == [Slots!SlotsNext]_(Slots!svars)

\* Used slots of c, what `unused' is the complement of.
used(c) == Cardinality(Holders(c)) + orphans[c]

\* The used slots are numbers.
LEMMA UsedTypes ==
    ASSUME TypeInv, NEW c \in Creds
    PROVE  /\ Cardinality(Holders(c)) \in Nat /\ orphans[c] \in Nat
           /\ InitRow[c].max \in Nat
BY HoldersFinite, TableAssumption DEF TypeInv, TypeOK, Row

\* A step that changes the number of used slots of c by n.
LEMMA UnusedChange ==
    ASSUME TypeInv, TypeInv', NEW c \in Creds, NEW n \in {-1, 0, 1},
           used(c)' = used(c) + n,
           \A d \in Creds : d # c => used(d)' = used(d)
    PROVE  unused' = [unused EXCEPT ![c] = @ - n]
<1>1. ASSUME NEW d \in Creds
      PROVE  unused'[d] = IF d = c THEN unused[d] - n ELSE unused[d]
    <2>1. /\ Cardinality(Holders(d)) \in Nat /\ orphans[d] \in Nat
          /\ InitRow[d].max \in Nat
        BY UsedTypes
    <2>2. Cardinality(Holders(d)') \in Nat /\ orphans'[d] \in Nat
        <3>1. IsFiniteSet(Holders(d)')
            BY SlotsAssumption, FS_Subset DEF Holders
        <3> QED BY <3>1, FS_CardinalityType DEF TypeInv, TypeOK
    <2>3. unused[d] = InitRow[d].max - Cardinality(Holders(d)) - orphans[d]
        BY DEF unused
    <2>4. unused'[d] = InitRow[d].max - Cardinality(Holders(d)') - orphans'[d]
        BY DEF unused
    <2>5. Cardinality(Holders(d)') + orphans'[d] =
              Cardinality(Holders(d)) + orphans[d] + (IF d = c THEN n ELSE 0)
        BY <2>1 DEF used
    <2> QED BY <2>1, <2>2, <2>3, <2>4, <2>5
<1>2. /\ unused = [d \in Creds |-> unused[d]]
      /\ unused' = [d \in Creds |-> unused'[d]]
    BY DEF unused
<1> QED BY <1>1, <1>2

\* A step that changes neither holders nor orphans is a stutter of the slots.
LEMMA SlotQuiet ==
    ASSUME \A c \in Creds : Holders(c)' = Holders(c) /\ orphans'[c] = orphans[c]
    PROVE  SlotStep
<1>1. occupied' = occupied /\ unused' = unused
    BY DEF occupied, unused
<1> QED BY <1>1 DEF SlotStep, Slots!svars

\* A commit of a selection takes a free slot.
LEMMA SlotAcquire ==
    ASSUME TypeInv, TypeInv', NEW r \in Reqs, NEW c \in Creds,
           used(c) < InitRow[c].max,
           \A d \in Creds : /\ r \notin Holders(d)
                            /\ Holders(d)' = IF d = c THEN Holders(d) \cup {r}
                                             ELSE Holders(d) \ {r},
           UNCHANGED orphans
    PROVE  SlotStep
<1>1. \A d \in Creds : d # c => Holders(d)' = Holders(d)
    OBVIOUS
<1>2. used(c)' = used(c) + 1 /\ \A d \in Creds : d # c => used(d)' = used(d)
    <2>1. Cardinality(Holders(c)') = Cardinality(Holders(c)) + 1
        BY HoldersFinite
    <2>2. Cardinality(Holders(c)) \in Nat /\ orphans[c] \in Nat
        BY UsedTypes
    <2> QED BY <1>1, <2>1, <2>2 DEF used
<1>3. unused' = [unused EXCEPT ![c] = @ - 1]
    BY <1>2, UnusedChange
<1>4. unused[c] > 0
    BY UsedTypes DEF unused, used
<1>5. occupied' = [occupied EXCEPT ![c] = @ \cup {r}]
    BY <1>1 DEF occupied
<1>6. \A d \in Creds : r \notin occupied[d]
    BY DEF occupied
<1>7. Slots!Acquire(r, c)
    BY <1>3, <1>4, <1>5, <1>6 DEF Slots!Acquire
<1> QED BY <1>7 DEF SlotStep, Slots!SlotsNext

\* A settlement gives the slot of its request back.
LEMMA SlotRelease ==
    ASSUME TypeInv, TypeInv', NEW r \in Reqs, NEW c \in Creds, Holds(r, c),
           \A d \in Creds : Holders(d)' = Holders(d) \ {r}, UNCHANGED orphans
    PROVE  SlotStep
<1>1. r \in Holders(c) /\ \A d \in Creds : d # c => Holders(d)' = Holders(d)
    BY DEF Holders, Holds
<1>2. used(c)' = used(c) + (-1) /\ \A d \in Creds : d # c => used(d)' = used(d)
    <2>1. Cardinality(Holders(c)') = Cardinality(Holders(c)) - 1
        BY <1>1, HoldersFinite
    <2>2. Cardinality(Holders(c)) \in Nat /\ orphans[c] \in Nat
        BY UsedTypes
    <2> QED BY <1>1, <2>1, <2>2 DEF used
<1>3. unused' = [unused EXCEPT ![c] = @ - (-1)]
    BY <1>2, UnusedChange
<1>4. unused[c] \in Int
    BY UsedTypes DEF unused
<1>5. unused' = [unused EXCEPT ![c] = @ + 1]
    <2>1. unused[c] - (-1) = unused[c] + 1
        BY <1>4
    <2> QED BY <1>3, <2>1
<1>6. occupied' = [occupied EXCEPT ![c] = @ \ {r}] /\ r \in occupied[c]
    BY <1>1 DEF occupied
<1>7. Slots!Release(r, c)
    BY <1>5, <1>6 DEF Slots!Release
<1> QED BY <1>7 DEF SlotStep, Slots!SlotsNext

\* Requests that die lose their slots to the orphans.
LEMMA SlotLose ==
    ASSUME NEW S \in SUBSET Reqs,
           \A d \in Creds : Holders(d)' = Holders(d) \ S /\ used(d)' = used(d),
           TypeInv, TypeInv'
    PROVE  SlotStep
<1>1. occupied' = [c \in Creds |-> occupied[c] \ S]
    BY DEF occupied
<1>2. UNCHANGED unused
    <2>1. CASE Creds = {}
        BY <2>1 DEF unused
    <2>2. ASSUME NEW c \in Creds PROVE UNCHANGED unused
        <3>1. used(c)' = used(c) + 0
            BY UsedTypes DEF used
        <3>2. unused' = [unused EXCEPT ![c] = @ - 0]
            BY <3>1, UnusedChange
        <3>3. unused[c] \in Int
            BY UsedTypes DEF unused
        <3>4. unused[c] - 0 = unused[c] /\ unused = [d \in Creds |-> unused[d]]
            BY <3>3 DEF unused
        <3> QED BY <3>2, <3>4
    <2> QED BY <2>1, <2>2
<1>3. Slots!Lose(S)
    BY <1>1, <1>2 DEF Slots!Lose
<1> QED BY <1>3 DEF SlotStep, Slots!SlotsNext

\* A settlement that fails loses the slot of its request.
LEMMA SlotLoseOne ==
    ASSUME TypeInv, TypeInv', NEW r \in Reqs, NEW c \in Creds, Holds(r, c),
           \A d \in Creds : Holders(d)' = Holders(d) \ {r}, Orphan(c)
    PROVE  SlotStep
<1>1. r \in Holders(c) /\ \A d \in Creds : d # c => Holders(d)' = Holders(d)
    BY DEF Holders, Holds
<1>2. \A d \in Creds : orphans'[d] = IF d = c THEN orphans[d] + 1 ELSE orphans[d]
    BY DEF Orphan, TypeInv, TypeOK
<1>3. used(c)' = used(c)
    <2>1. Cardinality(Holders(c)') = Cardinality(Holders(c)) - 1
        BY <1>1, HoldersFinite
    <2>2. Cardinality(Holders(c)) \in Nat /\ orphans[c] \in Nat
        BY UsedTypes
    <2> QED BY <1>2, <2>1, <2>2 DEF used
<1>4. \A d \in Creds : d # c => used(d)' = used(d)
    BY <1>1, <1>2 DEF used
<1> QED BY <1>3, <1>4, SlotLose

\* A selection whose commit is reported as failed leaks a slot.
LEMMA SlotLeak ==
    ASSUME TypeInv, TypeInv', NEW c \in Creds, used(c) < InitRow[c].max,
           \A d \in Creds : Holders(d)' = Holders(d), Orphan(c)
    PROVE  SlotStep
<1>1. \A d \in Creds : orphans'[d] = IF d = c THEN orphans[d] + 1 ELSE orphans[d]
    BY DEF Orphan, TypeInv, TypeOK
<1>2. used(c)' = used(c) + 1 /\ \A d \in Creds : d # c => used(d)' = used(d)
    BY <1>1, UsedTypes DEF used
<1>3. unused' = [unused EXCEPT ![c] = @ - 1]
    BY <1>2, UnusedChange
<1>4. unused[c] > 0
    BY UsedTypes DEF unused, used
<1>5. occupied' = occupied
    BY DEF occupied
<1>6. Slots!Leak(c)
    BY <1>3, <1>4, <1>5 DEF Slots!Leak
<1> QED BY <1>6 DEF SlotStep, Slots!SlotsNext

\* A reset of rows that nobody holds gives their lost slots back.
LEMMA SlotHeal ==
    ASSUME TypeInv, NEW C \in SUBSET Creds, \A c \in C : Holders(c) = {},
           \A d \in Creds : /\ Holders(d)' = Holders(d)
                            /\ orphans'[d] = IF d \in C THEN 0 ELSE orphans[d]
    PROVE  SlotStep
<1>1. \A c \in C : occupied[c] = {}
    BY DEF occupied
<1>2. occupied' = occupied
    BY DEF occupied
<1>3. ASSUME NEW d \in Creds
      PROVE  unused'[d] = IF d \in C THEN InitRow[d].max ELSE unused[d]
    <2>1. CASE d \in C
        <3>1. Cardinality(Holders(d)') = 0 /\ orphans'[d] = 0
            BY <2>1, FS_EmptySet
        <3>2. unused'[d] = InitRow[d].max - Cardinality(Holders(d)') - orphans'[d]
            BY DEF unused
        <3> QED BY <2>1, <3>1, <3>2, UsedTypes
    <2>2. CASE d \notin C
        BY <2>2 DEF unused
    <2> QED BY <2>1, <2>2
<1>4. unused' = [d \in Creds |-> IF d \in C THEN [c \in Creds |-> InitRow[c].max][d]
                                 ELSE unused[d]]
    <2>1. unused' = [d \in Creds |-> unused'[d]]
        BY DEF unused
    <2> QED BY <1>3, <2>1
<1>5. Slots!Heal(C)
    BY <1>1, <1>2, <1>4 DEF Slots!Heal
<1> QED BY <1>5 DEF SlotStep, Slots!SlotsNext

-----------------------------------------------------------------------------
\* The inductive invariant.

IInv ==
    /\ TypeInv
    /\ Locks
    /\ \A c \in Creds : CountOk(c)
    /\ \A r \in Reqs : YoungRow(r)

\* The inductive invariant holds at the start: the table has no leases.
LEMMA InvInit == Init => IInv
<1> SUFFICES ASSUME Init PROVE IInv
    OBVIOUS
<1>1. TypeInv
    BY TypeInit
<1>2. \A r \in Reqs : ~Running(r) /\ req[r].pc = "idle"
    BY FreshRecords DEF Init, Running
<1>3. Locks
    BY <1>2 DEF Init, Locks, LockedRow, ChosenRow
<1>4. ASSUME NEW c \in Creds PROVE CountOk(c)
    <2>1. Holders(c) = {}
        BY <1>2 DEF Holders, Holds
    <2>2. Cardinality(Holders(c)) = 0
        BY <2>1, FS_EmptySet
    <2>3. row[c] = InitRow[c] /\ row[c] \in Row /\ row[c].leases = 0 /\ orphans[c] = 0
        BY TableAssumption DEF Init
    <2> QED BY <2>2, <2>3 DEF CountOk, Row
<1>5. \A r \in Reqs : YoungRow(r)
    BY <1>2 DEF YoungRow
<1> QED BY <1>1, <1>3, <1>4, <1>5 DEF IInv

\* What a step does: it keeps the counts, and it is a step of the pool of slots
\* or a stutter.
StepOk ==
    /\ \A d \in Creds : CountOk(d)'
    /\ \A q \in Reqs : YoungRow(q)'
    /\ SlotStep

\* A request that settles holds the lease until its new record.
LEMMA CountRequest ==
    ASSUME IInv, TypeInv', NEW r \in Reqs, RequestStep(r)
    PROVE  StepOk
<1> DEFINE c == req[r].cred
<1>0. /\ TypeInv /\ Locks /\ (\A d \in Creds : CountOk(d)) /\ (\A q \in Reqs : YoungRow(q))
      /\ row \in [Creds -> Row] /\ req \in [Reqs -> Request] /\ req \in [Reqs -> Chosen]
      /\ orphans \in [Creds -> Nat]
    BY DEF IInv, TypeInv, TypeOK
<1>1. /\ Running(r) \/ req[r].pc = "committing" => c \in Creds
      /\ \A d \in Creds : ~HoldingRecord(Idle, d)
      /\ \A stream \in BOOLEAN, E \in SUBSET Creds, d \in Creds :
            ~HoldingRecord(Selecting(stream, E), d)
      /\ Idle.pc \notin {"executing", "closing"}
      /\ \A stream \in BOOLEAN, E \in SUBSET Creds :
            Selecting(stream, E).pc \notin {"executing", "closing"}
    BY <1>0, NextRecords, FreshRecords DEF HoldingRecord
<1>2. ASSUME NEW x \in {ReleaseLease(row[c]), CoolDown(row[c]), Disable(row[c])},
             c \in Creds, Store(c, x)
      PROVE  \A d \in Creds : /\ row'[d].phase = row[d].phase
                              /\ row'[d].age = row[d].age \/ row'[d].age = 0
    <2>1. row[c] \in Row
        BY <1>0, <1>2
    <2>2. x.age = 0 /\ x.phase = row[c].phase
        BY <2>1, SettledRow
    <2> QED BY <1>0, <1>2, <2>2 DEF Store
<1>3. ASSUME NEW x \in {ReleaseLease(row[c]), CoolDown(row[c]), Disable(row[c])},
             NEW new, Store(c, x), Become(r, new), UNCHANGED orphans,
             c \in Creds, Holds(r, c), \A d \in Creds : ~HoldingRecord(new, d),
             \/ new.pc \notin {"executing", "closing"}
             \/ new.cred = c /\ new.age = req[r].age
      PROVE  StepOk
    <2>1. \A d \in Creds : CountOk(d)'
        BY <1>0, <1>3, CountSettled
    <2>2. \A q \in Reqs : YoungRow(q)'
        BY <1>0, <1>2, <1>3, YoungOneRequest DEF Holds
    <2>3. SlotStep
        <3>1. PICK e \in Creds : e = c
            BY <1>3
        <3>2. \A d \in Creds : Holders(d)' = Holders(d) \ {r}
            BY <1>0, <1>3, HoldersOneRequest
        <3> QED BY <1>0, <1>3, <3>1, <3>2, SlotRelease
    <2> QED BY <2>1, <2>2, <2>3 DEF StepOk
<1>4. ASSUME NEW new, Become(r, new), UNCHANGED row, Orphan(c),
             c \in Creds, Holds(r, c), \A d \in Creds : ~HoldingRecord(new, d),
             \/ new.pc \notin {"executing", "closing"}
             \/ new.cred = c /\ new.age = req[r].age
      PROVE  StepOk
    <2>1. \A d \in Creds : CountOk(d)'
        BY <1>0, <1>4, CountOrphaned
    <2>2. \A q \in Reqs : YoungRow(q)'
        BY <1>0, <1>4, YoungOneRequest DEF Holds
    <2>3. SlotStep
        <3>1. PICK e \in Creds : e = c
            BY <1>4
        <3>2. \A d \in Creds : Holders(d)' = Holders(d) \ {r}
            BY <1>0, <1>4, HoldersOneRequest
        <3> QED BY <1>0, <1>4, <3>1, <3>2, SlotLoseOne
    <2> QED BY <2>1, <2>2, <2>3 DEF StepOk
<1>5. ASSUME NEW new, Become(r, new), UNCHANGED <<row, orphans>>,
             \A d \in Creds : HoldingRecord(new, d) <=> Holds(r, d),
             \/ new.pc \notin {"executing", "closing"}
             \/ Running(r) /\ new.cred = c /\ new.age = req[r].age
      PROVE  StepOk
    <2>1. \A d \in Creds : CountOk(d)'
        BY <1>0, <1>5, CountQuiet
    <2>2. \A q \in Reqs : YoungRow(q)'
        BY <1>0, <1>5, YoungOneRequest
    <2>3. SlotStep
        <3>1. \A d \in Creds : Holders(d)' = Holders(d)
            BY <1>0, <1>5, HoldersOneRequest DEF Holders
        <3> QED BY <1>5, <3>1, SlotQuiet
    <2> QED BY <2>1, <2>2, <2>3 DEF StepOk
<1>6. req[r].pc = "executing" => Running(r) /\ Holds(r, c) /\ c \in Creds
    BY <1>0, <1>1 DEF Running, Holds, Chosen
<1>7. ASSUME NEW stream \in BOOLEAN, Start(r, stream)
      PROVE  StepOk
    BY <1>1, <1>5, <1>7 DEF Start, Holds, Running
<1>8. CASE LockCandidates(r)
    <2>1. PICK d \in Creds : Become(r, [req[r] EXCEPT !.pc = "committing", !.cred = d])
        BY <1>8 DEF LockCandidates, LeastLeased, Candidates
    <2>2. [req[r] EXCEPT !.pc = "committing", !.cred = d].pc = "committing"
        BY <1>0 DEF Request
    <2> QED BY <1>5, <1>8, <2>1, <2>2 DEF LockCandidates, HoldingRecord, Holds, Running
<1>9. CASE NoCandidate(r)
    <2>1. CASE req[r].mode < Len(AuthModes)
        <3>1. [req[r] EXCEPT !.mode = @ + 1].pc = "selecting"
            BY <1>0, <1>9 DEF Request, NoCandidate
        <3> QED BY <1>5, <1>9, <2>1, <3>1 DEF NoCandidate, HoldingRecord, Holds, Running
    <2>2. CASE ~(req[r].mode < Len(AuthModes))
        BY <1>1, <1>5, <1>9, <2>2 DEF NoCandidate, Holds, Running
    <2> QED BY <2>1, <2>2
<1>10. c \in Creds /\ req[r].pc = "committing" =>
          /\ Matches(r, c)
          /\ \A d \in Creds : ~Holds(r, d) /\ r \notin Holders(d)
    <2>1. c \in Creds /\ req[r].pc = "committing" => Matches(r, c)
        <3> SUFFICES ASSUME c \in Creds, req[r].pc = "committing" PROVE Matches(r, c)
            OBVIOUS
        <3>1. ChosenRow(r) /\ LockedRow(c)
            BY <1>0 DEF Locks
        <3>2. lock[c] = r /\ r # NoReq
            BY <3>1, SlotsAssumption DEF ChosenRow
        <3> QED BY <3>1, <3>2 DEF LockedRow
    <2> QED BY <2>1 DEF Holds, Running, Holders
<1>11. CASE CommitSelect(r)
    <2>0. req[r].pc = "committing" /\ c \in Creds
        BY <1>1, <1>11 DEF CommitSelect
    <2> DEFINE new == [req[r] EXCEPT !.pc = "executing"]
    <2>1. PICK e \in Creds : e = req[r].cred
        BY <2>0
    <2>2. /\ new.pc = "executing" /\ new.cred = e /\ ~new.released
          /\ new.age = req[r].age
        BY <1>0, <2>0, <2>1 DEF Request, Chosen
    <2>3. /\ row' = [row EXCEPT ![e] = TakeLease(@)] /\ Become(r, new)
          /\ UNCHANGED orphans /\ Matches(r, e)
        BY <1>10, <1>11, <2>0, <2>1 DEF CommitSelect
    <2>4. \A d \in Creds : /\ r \notin Holders(d)
                           /\ Holders(d)' = IF d = e THEN Holders(d) \cup {r}
                                            ELSE Holders(d) \ {r}
        BY <1>0, <1>10, <2>0, <2>2, <2>3, HoldersOneRequest DEF HoldingRecord
    <2>5. \A d \in Creds : d # e => Holders(d)' = Holders(d) /\ orphans'[d] = orphans[d]
        BY <2>3, <2>4
    <2>6. Cardinality(Holders(e)') + orphans'[e] = Cardinality(Holders(e)) + orphans[e] + 1
        <3>1. Cardinality(Holders(e)') = Cardinality(Holders(e)) + 1
            BY <2>4, HoldersFinite
        <3>2. Cardinality(Holders(e)) \in Nat /\ orphans[e] \in Nat /\ orphans'[e] = orphans[e]
            BY <1>0, <2>3, HoldersFinite
        <3> QED BY <3>1, <3>2
    <2>7. \A d \in Creds : CountOk(d)'
        BY <1>0, <2>3, <2>5, <2>6, CountTaken
    <2>8. ASSUME NEW q \in Reqs PROVE YoungRow(q)'
        <3>1. req'[q] = IF q = r THEN new ELSE req[q]
            BY <1>0, <2>3 DEF Become
        <3>2. \A d \in Creds : /\ row'[d].phase = row[d].phase
                               /\ row'[d].age = IF d = e THEN 0 ELSE row[d].age
            BY <1>0, <2>3 DEF TakeLease, Row
        <3>3. req[q].age \in Nat /\ (Running(q) => req[q].cred \in Creds)
            <4>1. req[q] \in Request /\ req[q] \in Chosen
                BY <1>0
            <4>2. req[q].age \in Nat
                BY <4>1, BoundsAssumption DEF Request
            <4> QED BY <4>1, <4>2, NextRecords
        <3>4. CASE q = r
            <4>1. row[e].phase = "live"
                BY <2>3 DEF Matches, Live
            <4> QED BY <2>2, <3>1, <3>2, <3>3, <3>4, <4>1 DEF YoungRow, Live
        <3>5. CASE q # r
            BY <1>0, <3>1, <3>2, <3>3, <3>5 DEF YoungRow, Live, Running
        <3> QED BY <3>4, <3>5
    <2>9. SlotStep
        <3>1. used(e) < InitRow[e].max
            BY <1>0, <2>3, UsedTypes
               DEF CountOk, Matches, Live, HasFreeLease, used, Row
        <3> QED BY <1>0, <2>3, <2>4, <3>1, SlotAcquire
    <2> QED BY <2>7, <2>8, <2>9 DEF StepOk
<1>12. CASE Settle(r)
    <2>1. req[r].pc = "executing"
        BY <1>12 DEF Settle, FinishPlain, UpstreamRateLimited, UpstreamInvalid,
                    FallBack, StreamEnds
    <2>2. /\ AfterRefusal(r).pc \notin {"executing", "closing"}
          /\ \A d \in Creds : ~HoldingRecord(AfterRefusal(r), d)
        <3>1. req[r].excluded \cup {c} \in SUBSET Creds
            BY <1>0, <1>6, <2>1 DEF Request
        <3> QED BY <1>1, <3>1 DEF AfterRefusal
    <2>3. CASE FinishPlain(r)
        BY <1>1, <1>3, <1>6, <2>1, <2>3 DEF FinishPlain
    <2>4. CASE UpstreamRateLimited(r)
        BY <1>3, <1>6, <2>1, <2>2, <2>4 DEF UpstreamRateLimited
    <2>5. CASE UpstreamInvalid(r)
        BY <1>3, <1>6, <2>1, <2>2, <2>5 DEF UpstreamInvalid
    <2>6. CASE FallBack(r)
        BY <1>1, <1>3, <1>6, <2>1, <2>6 DEF FallBack
    <2>7. CASE StreamEnds(r)
        <3>1. PICK F \in SUBSET Finalizer :
                 Become(r, [req[r] EXCEPT !.pc = "closing", !.pending = F])
            BY <2>7 DEF StreamEnds
        <3> DEFINE new == [req[r] EXCEPT !.pc = "closing", !.pending = F]
        <3>2. new.pc = "closing" /\ new.cred = c /\ new.age = req[r].age
              /\ new.released = req[r].released
            BY <1>0 DEF Request
        <3>3. \A d \in Creds : HoldingRecord(new, d) <=> Holds(r, d)
            BY <2>1, <3>2 DEF HoldingRecord, Holds, Running
        <3> QED BY <1>5, <1>6, <2>1, <2>7, <3>1, <3>2, <3>3 DEF StreamEnds
    <2> QED BY <1>12, <2>3, <2>4, <2>5, <2>6, <2>7 DEF Settle
<1>13. ASSUME NEW f \in Finalizer, req[r].pc = "closing"
       PROVE  /\ \A d \in Creds : ~HoldingRecord(AfterFinalizer(r, f), d)
              /\ \/ AfterFinalizer(r, f).pc \notin {"executing", "closing"}
                 \/ /\ AfterFinalizer(r, f).cred = c
                    /\ AfterFinalizer(r, f).age = req[r].age
    BY <1>0, <1>1, <1>13 DEF AfterFinalizer, HoldingRecord, Request
<1>14. ASSUME NEW f \in Finalizer, RunFinalizer(r, f)
       PROVE  StepOk
    <2>1. Running(r) /\ c \in Creds /\ req[r].pc = "closing"
        BY <1>1, <1>14 DEF RunFinalizer, Running
    <2>2. CASE req[r].released
        <3>1. \A d \in Creds : ~Holds(r, d)
            BY <2>2 DEF Holds
        <3> QED BY <1>5, <1>13, <1>14, <2>1, <2>2, <3>1 DEF RunFinalizer
    <2>3. CASE ~req[r].released
        <3>1. Holds(r, c)
            BY <2>1, <2>3 DEF Holds
        <3> QED BY <1>3, <1>13, <1>14, <2>1, <2>3, <3>1 DEF RunFinalizer
    <2> QED BY <2>2, <2>3
<1>15. CASE RequestFault(r)
    <2>1. ASSUME NEW done \in BOOLEAN, CommitFails(r, done)
          PROVE  StepOk
        <3>1. c \in Creds /\ req[r].pc = "committing"
            BY <1>1, <2>1 DEF CommitFails
        <3>2. CASE ~done
            BY <1>1, <1>5, <1>10, <2>1, <3>1, <3>2 DEF CommitFails
        <3>3. CASE done
            <4>1. PICK e \in Creds : e = req[r].cred
                BY <3>1
            <4>2. /\ row' = [row EXCEPT ![e] = TakeLease(@)] /\ Become(r, Idle)
                  /\ Orphan(e) /\ Matches(r, e)
                BY <1>10, <2>1, <3>1, <3>3, <4>1 DEF CommitFails
            <4>3. \A d \in Creds : Holders(d)' = Holders(d)
                BY <1>0, <1>1, <1>10, <3>1, <4>2, HoldersOneRequest
            <4>4. \A d \in Creds : orphans'[d] = IF d = e THEN orphans[d] + 1 ELSE orphans[d]
                BY <1>0, <4>2 DEF Orphan
            <4>5. Cardinality(Holders(e)') + orphans'[e] = Cardinality(Holders(e)) + orphans[e] + 1
                <5>1. Cardinality(Holders(e)) \in Nat /\ orphans[e] \in Nat
                    BY <1>0, HoldersFinite
                <5> QED BY <4>3, <4>4, <5>1
            <4>6. \A d \in Creds : d # e => Holders(d)' = Holders(d) /\ orphans'[d] = orphans[d]
                BY <4>3, <4>4
            <4>7. \A d \in Creds : CountOk(d)'
                BY <1>0, <4>2, <4>5, <4>6, CountTaken
            <4>8. \A d \in Creds : /\ row'[d].phase = row[d].phase
                                   /\ row'[d].age = row[d].age \/ row'[d].age = 0
                BY <1>0, <4>2 DEF TakeLease, Row
            <4>9. \A q \in Reqs : YoungRow(q)'
                BY <1>0, <1>1, <4>2, <4>8, YoungOneRequest
            <4>10. SlotStep
                <5>1. used(e) < InitRow[e].max
                    BY <1>0, <4>2, UsedTypes
                       DEF CountOk, Matches, Live, HasFreeLease, used, Row
                <5> QED BY <1>0, <4>2, <4>3, <5>1, SlotLeak
            <4> QED BY <4>7, <4>9, <4>10 DEF StepOk
        <3> QED BY <3>2, <3>3
    <2>2. CASE ReleaseFails(r)
        BY <1>1, <1>4, <1>6, <2>2 DEF ReleaseFails
    <2>3. CASE MarkFails(r)
        BY <1>1, <1>3, <1>6, <2>3 DEF MarkFails
    <2>4. ASSUME NEW f \in Finalizer, FinalizerFails(r, f)
          PROVE  StepOk
        <3>1. c \in Creds /\ Holds(r, c) /\ req[r].pc = "closing"
            BY <1>1, <2>4 DEF FinalizerFails, Holds, Running
        <3> QED BY <1>4, <1>13, <2>4, <3>1 DEF FinalizerFails
    <2> QED BY <1>15, <2>1, <2>2, <2>3, <2>4 DEF RequestFault
<1> QED BY <1>7, <1>8, <1>9, <1>11, <1>12, <1>14, <1>15 DEF RequestStep, Select, Close

\* No row that a sweep finds stale is in use.
LEMMA StaleUnused ==
    ASSUME IInv, MaxRun < LeaseTtl, NEW c \in Creds, Stale(row[c])
    PROVE  Holders(c) = {}
<1> SUFFICES ASSUME NEW r \in Reqs, Holds(r, c) PROVE FALSE
    BY DEF Holders
<1>1. req[r].age \in 0 .. MaxRun
    BY DEF IInv, TypeInv, TypeOK, Request
<1>2. row[c].age <= req[r].age
    BY DEF IInv, YoungRow, Holds, Stale, Live
<1>3. row[c].age = LeaseTtl
    BY DEF Stale
<1> QED BY <1>1, <1>2, <1>3, BoundsAssumption, TicksAssumption

\* A sweep resets only rows without holders, since those with some are young.
LEMMA CountReset ==
    ASSUME IInv, MaxRun < LeaseTtl, ResetStaleLeases, UNCHANGED req
    PROVE  StepOk
<1>0. /\ \A d \in Creds : CountOk(d)
      /\ \A q \in Reqs : YoungRow(q)
      /\ TypeInv /\ row \in [Creds -> Row] /\ req \in [Reqs -> Chosen]
      /\ req \in [Reqs -> Request] /\ orphans \in [Creds -> Nat]
    BY DEF IInv, TypeInv, TypeOK
<1>1. \A d : Holders(d)' = Holders(d)
    BY DEF Holders, Holds, Running
<1>2. ASSUME NEW d \in Creds PROVE CountOk(d)'
    <2>1. CASE d \in StaleRows
        <3>1. Holders(d) = {} /\ Cardinality(Holders(d)) = 0
            BY <2>1, StaleUnused, FS_EmptySet DEF StaleRows
        <3>2. row'[d].leases = 0 /\ orphans'[d] = 0 /\ row'[d].max = row[d].max
            BY <1>0, <2>1 DEF ResetStaleLeases, ResetLeases, Row
        <3>3. row[d].max = InitRow[d].max /\ row[d].max \in Nat
            BY <1>0 DEF CountOk, Row
        <3>4. Cardinality(Holders(d)') = 0 /\ row'[d].max \in Nat /\ row'[d].max >= 0
            BY <1>1, <3>1, <3>2, <3>3
        <3> QED BY <3>2, <3>3, <3>4 DEF CountOk
    <2>2. CASE d \notin StaleRows
        <3>1. row'[d] = row[d] /\ orphans'[d] = orphans[d]
            BY <2>2 DEF ResetStaleLeases
        <3> QED BY <1>0, <1>1, <3>1, CountKept
    <2> QED BY <2>1, <2>2
<1>3. ASSUME NEW q \in Reqs PROVE YoungRow(q)'
    <2>1. \A d \in Creds : /\ row'[d].phase = row[d].phase
                           /\ row'[d].age = row[d].age \/ row'[d].age = 0
        BY <1>0 DEF ResetStaleLeases, ResetLeases, Row
    <2>2. req[q] \in Request /\ req[q] \in Chosen
        BY <1>0
    <2>3. req[q].age \in Nat /\ (Running(q) => req[q].cred \in Creds)
        <3>1. req[q].age \in Nat
            BY <2>2, BoundsAssumption DEF Request
        <3> QED BY <2>2, <3>1, NextRecords
    <2> QED BY <1>0, <2>1, <2>3 DEF YoungRow, Live, Running
<1>4. SlotStep
    <2>1. StaleRows \in SUBSET Creds /\ \A c \in StaleRows : Holders(c) = {}
        BY StaleUnused DEF StaleRows
    <2>2. \A d \in Creds : orphans'[d] = IF d \in StaleRows THEN 0 ELSE orphans[d]
        BY DEF ResetStaleLeases
    <2> QED BY <1>0, <1>1, <2>1, <2>2, SlotHeal
<1> QED BY <1>2, <1>3, <1>4 DEF StepOk

\* A crash turns the leases of the instance's requests into orphans.
LEMMA CountCrash ==
    ASSUME IInv, TypeInv', NEW i \in Instances, Crash(i)
    PROVE  StepOk
<1> DEFINE gone == {r \in Reqs : InstanceOf[r] = i}
<1>0. /\ \A d \in Creds : CountOk(d)
      /\ \A q \in Reqs : YoungRow(q)
      /\ row \in [Creds -> Row] /\ orphans \in [Creds -> Nat] /\ UNCHANGED row
    BY DEF IInv, TypeInv, TypeOK, Crash
<1>1. \A q \in Reqs : req'[q] = IF q \in gone THEN Idle ELSE req[q]
    BY DEF Crash
<1>2. ASSUME NEW d \in Creds
      PROVE  CountOk(d)' /\ used(d)' = used(d) /\ Holders(d)' = Holders(d) \ gone
    <2>1. Holders(d)' = Holders(d) \ gone
        BY <1>1, FreshRecords DEF Holders, Holds, Running
    <2>2. Cardinality(Holders(d) \ gone)
              = Cardinality(Holders(d)) - Cardinality(Holders(d) \cap gone)
        BY HoldersFinite, FS_Difference
    <2>3. orphans'[d] = orphans[d] + Cardinality(Holders(d) \cap gone)
        BY DEF Crash
    <2>4. /\ Cardinality(Holders(d)) \in Nat /\ orphans[d] \in Nat
          /\ Cardinality(Holders(d) \cap gone) \in Nat
        <3>1. IsFiniteSet(Holders(d) \cap gone)
            BY HoldersFinite, FS_Intersection
        <3> QED BY <1>0, <3>1, HoldersFinite, FS_CardinalityType
    <2>5. Cardinality(Holders(d)') + orphans'[d] = Cardinality(Holders(d)) + orphans[d]
        BY <2>1, <2>2, <2>3, <2>4
    <2> QED BY <1>0, <2>1, <2>5 DEF CountOk, used
<1>3. ASSUME NEW q \in Reqs PROVE YoungRow(q)'
    BY <1>0, <1>1, FreshRecords DEF YoungRow, Live, Running
<1>4. SlotStep
    BY <1>2, SlotLose DEF IInv
<1> QED BY <1>2, <1>3, <1>4 DEF StepOk

\* Owners and administrators change neither lease counts nor holders.
LEMMA CountEdit ==
    ASSUME IInv, NEW c \in Creds, EditStep(c)
    PROVE  StepOk
<1>0. /\ \A d \in Creds : CountOk(d)
      /\ \A q \in Reqs : YoungRow(q)
      /\ TypeInv /\ row \in [Creds -> Row] /\ req \in [Reqs -> Chosen]
      /\ req \in [Reqs -> Request] /\ orphans \in [Creds -> Nat]
    BY DEF IInv, TypeInv, TypeOK
<1>1. UNCHANGED <<req, orphans>>
    BY DEF EditStep, CreateCredential, DeleteCredential, UpdateVisibility
<1>2. \A d : Holders(d)' = Holders(d)
    BY <1>1 DEF Holders, Holds, Running
<1>3. \A d \in Creds : d # c => row'[d] = row[d]
    BY <1>0 DEF EditStep, CreateCredential, DeleteCredential, UpdateVisibility
<1>4. /\ row'[c].max = InitRow[c].max
      /\ \/ row[c].phase = "unborn" /\ row'[c].phase = "live"
            /\ row'[c].leases = row[c].leases
         \/ row'[c].phase = "gone"
         \/ /\ row'[c].phase = row[c].phase /\ row'[c].leases = row[c].leases
            /\ row'[c].age = 0 /\ row[c].phase = "live"
    <2>1. row[c] \in Row /\ InitRow[c] \in Row /\ row[c].max = InitRow[c].max
        BY <1>0, TableAssumption DEF CountOk
    <2>2. CASE CreateCredential(c)
        BY <1>0, <2>1, <2>2 DEF CreateCredential, Row
    <2>3. CASE DeleteCredential(c)
        BY <1>0, <2>1, <2>3 DEF DeleteCredential, Row
    <2>4. ASSUME NEW v \in CredentialVisibility, UpdateVisibility(c, v)
          PROVE  /\ row'[c].max = row[c].max /\ row'[c].phase = row[c].phase
                 /\ row'[c].leases = row[c].leases /\ row'[c].age = 0
                 /\ row[c].phase = "live"
        BY <1>0, <2>1, <2>4 DEF UpdateVisibility, SetVisible, Row, Live
    <2> QED BY <2>1, <2>2, <2>3, <2>4 DEF EditStep
<1>5. ASSUME NEW d \in Creds PROVE CountOk(d)'
    <2>1. CASE d # c
        BY <1>0, <1>1, <1>2, <1>3, <2>1, CountKept
    <2>2. CASE d = c
        BY <1>0, <1>1, <1>2, <1>4, <2>2 DEF CountOk
    <2> QED BY <2>1, <2>2
<1>6. ASSUME NEW q \in Reqs PROVE YoungRow(q)'
    <2>1. req[q] \in Request /\ req[q] \in Chosen
        BY <1>0
    <2>2. req[q].age \in Nat /\ (Running(q) => req[q].cred \in Creds)
        <3>1. req[q].age \in Nat
            BY <2>1, BoundsAssumption DEF Request
        <3> QED BY <2>1, <3>1, NextRecords
    <2> QED BY <1>0, <1>1, <1>3, <1>4, <2>2 DEF YoungRow, Live, Running
<1>7. SlotStep
    BY <1>1, <1>2, SlotQuiet
<1> QED BY <1>5, <1>6, <1>7 DEF StepOk

\* The clock makes rows and requests older together.
LEMMA CountTick ==
    ASSUME IInv, Tick
    PROVE  StepOk
<1>0. /\ \A d \in Creds : CountOk(d)
      /\ \A q \in Reqs : YoungRow(q)
      /\ TypeInv /\ row \in [Creds -> Row] /\ req \in [Reqs -> Chosen]
      /\ req \in [Reqs -> Request]
    BY DEF IInv, TypeInv, TypeOK
<1>1. \A r \in Reqs : /\ req'[r].pc = req[r].pc /\ req'[r].cred = req[r].cred
                      /\ req'[r].released = req[r].released
                      /\ Running(r) => req'[r].age = req[r].age + 1
    BY <1>0 DEF Tick, Request
<1>2. \A d : Holders(d)' = Holders(d)
    BY <1>1 DEF Holders, Holds, Running
<1>3. \A d \in Creds : /\ row'[d].phase = row[d].phase /\ row'[d].max = row[d].max
                       /\ row'[d].leases = row[d].leases
                       /\ row'[d].age <= row[d].age + 1
    <2>1. ASSUME NEW d \in Creds
          PROVE  /\ row'[d].phase = row[d].phase /\ row'[d].max = row[d].max
                 /\ row'[d].leases = row[d].leases
                 /\ row'[d].age = row[d].age \/ row'[d].age = row[d].age + 1
        BY <1>0 DEF Tick, Older, Row
    <2>2. \A d \in Creds : row[d].age \in Nat
        BY <1>0, TicksAssumption DEF Row
    <2> QED BY <2>1, <2>2
<1>4. ASSUME NEW d \in Creds PROVE CountOk(d)'
    BY <1>0, <1>2, <1>3, CountKept DEF Tick
<1>5. ASSUME NEW q \in Reqs PROVE YoungRow(q)'
    <2>1. req[q] \in Request /\ req[q] \in Chosen
        BY <1>0
    <2>2. req[q].age \in Nat /\ (Running(q) => req[q].cred \in Creds)
        <3>1. req[q].age \in Nat
            BY <2>1, BoundsAssumption DEF Request
        <3> QED BY <2>1, <3>1, NextRecords
    <2>3. \A d \in Creds : row[d].age \in Nat /\ row'[d].age \in Nat
        <3>1. \A d \in Creds : row[d] \in Row /\ row'[d] \in Row
            BY <1>0, RowTypes DEF Tick
        <3> QED BY <3>1, TicksAssumption DEF Row
    <2> QED BY <1>0, <1>1, <1>3, <2>2, <2>3 DEF YoungRow, Live, Running
<1>6. SlotStep
    BY <1>2, SlotQuiet DEF Tick
<1> QED BY <1>4, <1>5, <1>6 DEF StepOk

\* Every step keeps the inductive invariant and is a step of the slots.
LEMMA InvNext ==
    ASSUME MaxRun < LeaseTtl
    PROVE  IInv /\ [Next]_vars => IInv' /\ SlotStep
<1> SUFFICES ASSUME IInv, [Next]_vars PROVE IInv' /\ SlotStep
    OBVIOUS
<1>1. TypeInv' /\ Locks'
    BY TypeNext, LocksNext DEF IInv
<1>2. ASSUME NEW r \in Reqs, RequestStep(r) PROVE IInv' /\ SlotStep
    BY <1>1, <1>2, CountRequest DEF IInv, StepOk
<1>3. ASSUME NEW i \in Instances, InstanceStep(i) PROVE IInv' /\ SlotStep
    <2>1. CASE Crash(i)
        BY <1>1, <2>1, CountCrash DEF IInv, StepOk
    <2>2. CASE ResetStaleLeases /\ UNCHANGED req
        BY <1>1, <2>2, CountReset DEF IInv, StepOk
    <2>3. CASE UNCHANGED <<row, req, orphans>>
        <3>1. \A d \in Creds : Holders(d)' = Holders(d) /\ orphans'[d] = orphans[d]
            BY <2>3 DEF Holders, Holds, Running
        <3> QED BY <1>1, <2>3, <3>1, SlotQuiet
                DEF IInv, CountOk, YoungRow, Running, Live
    <2> QED BY <1>3, <2>1, <2>2, <2>3 DEF InstanceStep, Restart, Sweep
<1>4. ASSUME NEW c \in Creds, EditStep(c) PROVE IInv' /\ SlotStep
    BY <1>1, <1>4, CountEdit DEF IInv, StepOk
<1>5. CASE Tick
    BY <1>1, <1>5, CountTick DEF IInv, StepOk
<1>6. CASE UNCHANGED vars
    <2>1. \A d \in Creds : Holders(d)' = Holders(d) /\ orphans'[d] = orphans[d]
        BY <1>6 DEF vars, Holders, Holds, Running
    <2> QED BY <1>1, <1>6, <2>1, SlotQuiet
            DEF vars, IInv, CountOk, YoungRow, Running, Live
<1> QED BY <1>2, <1>3, <1>4, <1>5, <1>6 DEF Next

\* The inductive invariant holds in every reachable state, while no request runs as
\* long as a lease may be left alone.
THEOREM Invariance ==
    ASSUME MaxRun < LeaseTtl
    PROVE  Spec => []IInv
BY InvInit, InvNext, PTL DEF Spec

\* Lease accounting, for any number of requests, instances and credentials,
\* provided no request runs for as long as a lease may be left alone.
THEOREM LeasesAccounted ==
    ASSUME MaxRun < LeaseTtl
    PROVE  Spec => []LeaseAccounting
<1>1. IInv => LeaseAccounting
    BY DEF IInv, CountOk, LeaseAccounting
<1> QED BY <1>1, Invariance, PTL

\* No oversubscription, under the same proviso.
THEOREM NeverOversubscribed ==
    ASSUME MaxRun < LeaseTtl
    PROVE  Spec => []NoOversubscription
<1>1. ASSUME IInv, NEW c \in Creds PROVE Cardinality(Holders(c)) <= row[c].max
    <2>1. /\ Cardinality(Holders(c)) \in Nat /\ orphans[c] \in Nat /\ row[c].max \in Nat
          /\ Cardinality(Holders(c)) + orphans[c] <= row[c].max
        BY <1>1, HoldersFinite DEF IInv, CountOk, TypeInv, TypeOK, Row
    <2> QED BY <2>1
<1>2. IInv => NoOversubscription
    BY <1>1 DEF NoOversubscription
<1> QED BY <1>2, Invariance, PTL

\* The pool of slots is implemented: every step of a request, an instance, an
\* owner or the clock takes, gives back, loses or heals slots as CredentialSlots
\* allows, or touches none.
LEMMA SlotsStart == Init => Slots!SlotsInit
<1> SUFFICES ASSUME Init PROVE Slots!SlotsInit
    OBVIOUS
<1>1. \A r \in Reqs : ~Running(r)
    BY FreshRecords DEF Init, Running
<1>2. \A c \in Creds : Holders(c) = {} /\ orphans[c] = 0
    BY <1>1 DEF Init, Holders, Holds
<1>3. occupied = [c \in Creds |-> {}]
    BY <1>2 DEF occupied
<1>4. ASSUME NEW c \in Creds
      PROVE  InitRow[c].max - Cardinality(Holders(c)) - orphans[c] = InitRow[c].max
    <2>1. InitRow[c].max \in Nat
        BY TableAssumption DEF Row
    <2>2. Cardinality(Holders(c)) = 0
        BY <1>2, FS_EmptySet
    <2> QED BY <1>2, <2>1, <2>2
<1>5. unused = [c \in Creds |-> InitRow[c].max]
    BY <1>4 DEF unused
<1> QED BY <1>3, <1>5 DEF Slots!SlotsInit

\* The table with its row locks implements the pool of slots (credentials.py: select,
\* release, the marks and the sweep), under the same condition.
THEOREM SlotsImplemented ==
    ASSUME MaxRun < LeaseTtl
    PROVE  Spec => ImplementsSlots
<1>1. IInv /\ [Next]_vars => [Slots!SlotsNext]_(Slots!svars)
    BY InvNext DEF SlotStep
<1> QED BY <1>1, SlotsStart, Invariance, PTL DEF Spec, ImplementsSlots, Slots!SlotsSpec

-----------------------------------------------------------------------------
\* Only CommitSelect puts a request on a credential, and the row it does it to
\* is locked.

\* A request that starts is on a credential that is eligible in that step.
LEMMA StartStep ==
    ASSUME TypeInv, Locks, [Next]_vars, NEW r \in Reqs, ~Running(r), Running(r)'
    PROVE  Eligible(r, req'[r].cred)
<1>0. /\ req \in [Reqs -> Request] /\ req \in [Reqs -> Chosen]
    BY DEF TypeInv, TypeOK
<1>1. req'[r] # req[r]
    BY DEF Running
<1>2. ASSUME NEW q \in Reqs, RequestStep(q) PROVE RequestStep(r)
    <2>1. \A p \in Reqs : p # q => req'[p] = req[p]
        BY <1>0, <1>2 DEF RequestStep, Start, Select, LockCandidates, CommitSelect,
           NoCandidate, Settle, FinishPlain, UpstreamRateLimited, UpstreamInvalid,
           FallBack, StreamEnds, Close, RunFinalizer, RequestFault, CommitFails,
           ReleaseFails, MarkFails, FinalizerFails, Become
    <2> QED BY <1>1, <1>2, <2>1
<1>3. ASSUME RequestStep(r) PROVE CommitSelect(r)
    <2>1. ASSUME NEW new, Become(r, new), new.pc \notin {"executing", "closing"}
          PROVE  FALSE
        BY <1>0, <2>1 DEF Become, Running
    <2>2. ASSUME NEW stream \in BOOLEAN, Start(r, stream) PROVE FALSE
        BY <2>1, <2>2, FreshRecords DEF Start
    <2>3. CASE LockCandidates(r)
        <3>1. PICK c : Become(r, [req[r] EXCEPT !.pc = "committing", !.cred = c])
            BY <2>3 DEF LockCandidates
        <3>2. [req[r] EXCEPT !.pc = "committing", !.cred = c].pc = "committing"
            BY <1>0 DEF Request
        <3> QED BY <2>1, <3>1, <3>2
    <2>4. CASE NoCandidate(r)
        <3>1. [req[r] EXCEPT !.mode = @ + 1].pc = "selecting"
            BY <1>0, <2>4 DEF Request, NoCandidate
        <3> QED BY <2>1, <2>4, <3>1, FreshRecords DEF NoCandidate
    <2>5. ~Settle(r)
        BY DEF Settle, FinishPlain, UpstreamRateLimited, UpstreamInvalid, FallBack,
               StreamEnds, Running
    <2>6. ~Close(r)
        BY DEF Close, RunFinalizer, Running
    <2>7. CASE RequestFault(r)
        <3>1. \E done \in BOOLEAN : CommitFails(r, done)
            BY <2>7 DEF RequestFault, ReleaseFails, MarkFails, FinalizerFails, Running
        <3>2. Become(r, Idle)
            BY <3>1 DEF CommitFails
        <3> QED BY <2>1, <3>2, FreshRecords
    <2> QED BY <1>3, <2>2, <2>3, <2>4, <2>5, <2>6, <2>7 DEF RequestStep, Select
<1>4. CASE CommitSelect(r)
    <2>1. req'[r].cred = req[r].cred /\ req[r].cred \in Creds
        BY <1>0, <1>4 DEF CommitSelect, Become, Request, Chosen
    <2>2. ChosenRow(r) /\ LockedRow(req[r].cred)
        BY <2>1 DEF Locks
    <2>3. lock[req[r].cred] = r /\ r # NoReq /\ req[r].cred \in Serves[r]
        BY <1>4, <2>2, SlotsAssumption DEF ChosenRow, CommitSelect
    <2>4. Matches(r, req[r].cred)
        BY <2>2, <2>3 DEF LockedRow
    <2> QED BY <2>1, <2>3, <2>4 DEF Eligible
<1>5. ASSUME NEW i \in Instances, InstanceStep(i) PROVE FALSE
    BY <1>1, <1>5, FreshRecords DEF InstanceStep, Crash, Restart, Sweep, Running
<1>6. ASSUME NEW c \in Creds, EditStep(c) PROVE FALSE
    BY <1>1, <1>6 DEF EditStep, CreateCredential, DeleteCredential, UpdateVisibility
<1>7. CASE Tick
    BY <1>0, <1>7 DEF Tick, Request, Running
<1>8. CASE UNCHANGED vars
    BY <1>1, <1>8 DEF vars
<1> QED BY <1>2, <1>3, <1>4, <1>5, <1>6, <1>7, <1>8 DEF Next

\* A request only ever starts on a credential that is eligible for it at that
\* moment.  No proviso on the running time: the row lock alone guarantees it.
THEOREM StartsEligible == Spec => StartsOnlyOnEligible
<1>1. TypeInv /\ Locks /\ [Next]_vars =>
         [\A r \in Reqs : ~Running(r) /\ Running(r)' => Eligible(r, req'[r].cred)]_vars
    BY StartStep
<1>2. Init => TypeInv /\ Locks
    BY InvInit DEF IInv
<1>3. TypeInv /\ Locks /\ [Next]_vars => TypeInv' /\ Locks'
    BY TypeNext, LocksNext
<1> QED BY <1>1, <1>2, <1>3, PTL DEF Spec, StartsOnlyOnEligible
=============================================================================
