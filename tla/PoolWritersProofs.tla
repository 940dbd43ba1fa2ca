------------------------- MODULE PoolWritersProofs -------------------------
(***************************************************************************)
(* What survives the writers that do not play by the rules: the types,     *)
(* that requests start on eligible rows, and that the lease counts are too *)
(* low only by what was decremented without a lease.  The steps that       *)
(* LeaseLifecycle has as well are covered by its lemmas.                   *)
(***************************************************************************)
EXTENDS PoolWriters, LeaseLifecycleProofs

-----------------------------------------------------------------------------
(* Types.                                                                  *)

\* A writer that has read a credential knows which, and has found differences
\* in the columns it may write only.
WriterLike(w) == writer[w].pc \in {"read", "loaded"} => writer[w].cred \in Creds

PoolShape ==
    /\ bridge \in [Bridges -> BridgeRequest]
    /\ writer \in [Writers -> WriteRequest]
    /\ stolen \in [Creds -> Nat]
    /\ \A w \in Writers : WriterLike(w)

\* The steps that LeaseLifecycle does not have.
Foreign ==
    \/ \E b \in Bridges : BridgeRefused(b)
    \/ \E w \in Writers : Flush(w)
    \/ \E r \in Reqs : MarkAckLost(r)

\* Every step is one of LeaseLifecycle, as far as its variables are concerned, or
\* one of these.
LEMMA LeaseOrForeign == [PoolNext]_pvars => [Next]_vars \/ Foreign
BY DEF PoolNext, LeaseStep, PoolTick, BridgeStep, BridgeStart, BridgeDone, WriterStep,
       Read, Load, Foreign, Next, pvars, vars

\* The copy a handler works on, and what it makes of the row, are rows.
LEMMA CopiesAreRows ==
    ASSUME NEW x \in Row
    PROVE  /\ [x EXCEPT !.age = 0] \in Row
           /\ \A y \in Edited(x) : y \in Row
           /\ [Older(x) EXCEPT !.age = 0] \in Row
<1>1. 0 \in 0 .. LeaseTtl
    BY TicksAssumption
<1>2. \A y \in Row : [y EXCEPT !.age = 0] \in Row
    BY <1>1 DEF Row
<1>3. [x EXCEPT !.state = "active", !.cool = NoTime] \in Row
    BY DEF Row, CredentialState
<1>4. \A n \in Limits : [x EXCEPT !.max = n] \in Row
    BY WritersAssumption DEF Row
<1>5. Older(x) \in Row
    BY RowTypes
<1> QED BY <1>2, <1>3, <1>4, <1>5 DEF Edited

\* A stale write mixes the columns of two rows, and is young.
LEMMA WrittenRow ==
    ASSUME NEW x \in Row, NEW y \in Row, NEW D \in SUBSET Columns
    PROVE  /\ Written(x, y, D) \in Row
           /\ Written(x, y, D).phase = x.phase /\ Written(x, y, D).age = 0
<1> DEFINE mix == [f \in DOMAIN x |-> IF f \in D THEN y[f] ELSE x[f]]
<1>1. DOMAIN x = {"phase", "state", "cool", "leases", "max", "vis", "age"}
    BY DEF Row
<1>2. "phase" \notin D /\ "age" \notin D
    BY DEF Columns
<1>3. /\ mix["phase"] = x.phase /\ mix["age"] = x.age
      /\ mix["state"] \in {x.state, y.state} /\ mix["cool"] \in {x.cool, y.cool}
      /\ mix["leases"] \in {x.leases, y.leases} /\ mix["max"] \in {x.max, y.max}
      /\ mix["vis"] \in {x.vis, y.vis}
    BY <1>1, <1>2
<1>4. mix = [phase |-> mix["phase"], state |-> mix["state"], cool |-> mix["cool"],
             leases |-> mix["leases"], max |-> mix["max"], vis |-> mix["vis"],
             age |-> mix["age"]]
    BY <1>1
<1>5. mix \in Row
    <2> HIDE DEF mix
    <2> QED BY <1>3, <1>4 DEF Row
<1>6. Written(x, y, D) = [mix EXCEPT !.age = 0]
    BY DEF Written
<1>7. mix.phase = x.phase
    BY <1>3
<1> HIDE DEF mix
<1>8. [mix EXCEPT !.age = 0].phase = mix.phase /\ [mix EXCEPT !.age = 0].age = 0
    BY <1>5 DEF Row
<1> QED BY <1>5, <1>6, <1>7, <1>8, CopiesAreRows

\* Each of the foreign steps stores one young row that nobody has locked, and counts
\* what it takes off; one of them lets a request go on as well.
LEMMA ForeignStores ==
    ASSUME TypeInv, PoolShape, Foreign
    PROVE  \E c \in Creds, x \in Row, n \in Nat :
              /\ Unlocked(c) /\ Store(c, x) /\ Steal(c, n)
              /\ x.phase = row[c].phase /\ x.age = 0
              /\ Live(c) => row[c].leases <= x.leases + n
              /\ UNCHANGED <<lock, up, orphans, edits>>
              /\ \/ UNCHANGED <<req, faults>>
                 \/ \E r \in Reqs :
                       /\ req[r].pc = "executing" /\ Fault
                       /\ Become(r, [req[r] EXCEPT !.pc = "closing", !.pending = {"generator"}])
<1>0. row \in [Creds -> Row] /\ req \in [Reqs -> Chosen]
    BY DEF TypeInv, TypeOK
<1>1. ASSUME NEW c \in Creds
      PROVE  /\ row[c] \in Row
             /\ row[c].leases - LessOne(row[c].leases) \in Nat
             /\ row[c].leases <= LessOne(row[c].leases) + (row[c].leases - LessOne(row[c].leases))
    BY <1>0 DEF Row, LessOne
<1>2. ASSUME NEW b \in Bridges, BridgeRefused(b), NEW c \in Creds, c = bridge[b].cred
      PROVE  \E x \in Row, n \in Nat :
                /\ Unlocked(c) /\ Store(c, x) /\ Steal(c, n)
                /\ x.phase = row[c].phase /\ x.age = 0
                /\ Live(c) => row[c].leases <= x.leases + n
    <2>1. PICK x \in {CoolDown(row[c]), Disable(row[c])} : Store(c, x)
        BY <1>2 DEF BridgeRefused
    <2>2. x \in Row /\ x.leases = LessOne(row[c].leases) /\ x.age = 0 /\ x.phase = row[c].phase
        BY <1>1, SettledRow
    <2> DEFINE n == IF Live(c) THEN row[c].leases - LessOne(row[c].leases) ELSE 0
    <2>3. Unlocked(c) /\ Steal(c, n)
        BY <1>2 DEF BridgeRefused
    <2>4. n \in Nat /\ (Live(c) => row[c].leases <= x.leases + n)
        BY <1>1, <2>2
    <2> QED BY <2>1, <2>2, <2>3, <2>4
<1>3. ASSUME NEW r \in Reqs, MarkAckLost(r), NEW c \in Creds, c = req[r].cred
      PROVE  \E x \in Row, n \in Nat :
                /\ Unlocked(c) /\ Store(c, x) /\ Steal(c, n)
                /\ x.phase = row[c].phase /\ x.age = 0
                /\ Live(c) => row[c].leases <= x.leases + n
    <2>1. PICK x \in {CoolDown(row[c]), Disable(row[c])} : Store(c, x)
        BY <1>3 DEF MarkAckLost
    <2>2. x \in Row /\ x.leases = LessOne(row[c].leases) /\ x.age = 0 /\ x.phase = row[c].phase
        BY <1>1, SettledRow
    <2> DEFINE n == IF Live(c) THEN row[c].leases - LessOne(row[c].leases) ELSE 0
    <2>3. Unlocked(c) /\ Steal(c, n)
        BY <1>3 DEF MarkAckLost
    <2>4. n \in Nat /\ (Live(c) => row[c].leases <= x.leases + n)
        BY <1>1, <2>2
    <2> QED BY <2>1, <2>2, <2>3, <2>4
<1>4. ASSUME NEW w \in Writers, Flush(w), NEW c \in Creds, c = writer[w].cred
      PROVE  \E x \in Row, n \in Nat :
                /\ Unlocked(c) /\ Store(c, x) /\ Steal(c, n)
                /\ x.phase = row[c].phase /\ x.age = 0
                /\ Live(c) => row[c].leases <= x.leases + n
    <2> DEFINE x == Written(row[c], writer[w].copy, writer[w].dirty)
               n == IF Live(c) /\ x.leases < row[c].leases THEN row[c].leases - x.leases ELSE 0
    <2>1. writer[w].copy \in Row /\ writer[w].dirty \in SUBSET Columns
        BY DEF PoolShape, WriteRequest
    <2>2. x \in Row /\ x.phase = row[c].phase /\ x.age = 0
        BY <1>1, <2>1, WrittenRow
    <2>3. Unlocked(c) /\ Store(c, x) /\ Steal(c, n)
        BY <1>4 DEF Flush
    <2> HIDE DEF x
    <2>4. x.leases \in Nat /\ row[c].leases \in Nat
        BY <1>1, <2>2 DEF Row
    <2>5. n \in Nat /\ (Live(c) => row[c].leases <= x.leases + n)
        BY <2>4
    <2> QED BY <2>2, <2>3, <2>5
<1>5. ASSUME NEW b \in Bridges, BridgeRefused(b)
      PROVE  bridge[b].cred \in Creds /\ UNCHANGED <<lock, up, orphans, edits, req, faults>>
    <2>1. bridge[b] \in BridgeRequest /\ bridge[b].pc = "calling"
        BY <1>5 DEF BridgeRefused, PoolShape
    <2>2. bridge[b].cred \in Creds
        BY <2>1 DEF BridgeRequest, Unserved, Served
    <2> QED BY <1>5, <2>2 DEF BridgeRefused
<1>6. ASSUME NEW w \in Writers, Flush(w)
      PROVE  writer[w].cred \in Creds /\ UNCHANGED <<lock, up, orphans, edits, req, faults>>
    BY <1>6 DEF Flush, PoolShape, WriterLike
<1>7. ASSUME NEW r \in Reqs, MarkAckLost(r)
      PROVE  /\ req[r].cred \in Creds /\ UNCHANGED <<lock, up, orphans, edits>>
             /\ req[r].pc = "executing" /\ Fault
             /\ Become(r, [req[r] EXCEPT !.pc = "closing", !.pending = {"generator"}])
    BY <1>0, <1>7 DEF MarkAckLost, Chosen
<1>8. CASE \E b \in Bridges : BridgeRefused(b)
    BY <1>2, <1>5, <1>8
<1>9. CASE \E w \in Writers : Flush(w)
    BY <1>4, <1>6, <1>9
<1>10. CASE \E r \in Reqs : MarkAckLost(r)
    <2>1. PICK r \in Reqs : MarkAckLost(r)
        BY <1>10
    <2>2. PICK c \in Creds : c = req[r].cred
        BY <1>7, <2>1
    <2>3. PICK x \in Row, n \in Nat :
                /\ Unlocked(c) /\ Store(c, x) /\ Steal(c, n)
                /\ x.phase = row[c].phase /\ x.age = 0
                /\ Live(c) => row[c].leases <= x.leases + n
        BY <1>3, <2>1, <2>2
    <2> QED BY <1>7, <2>1, <2>3
<1> QED BY <1>8, <1>9, <1>10 DEF Foreign

\* The record of the request whose mark was not acknowledged.
LEMMA ClosingRecord ==
    ASSUME TypeInv, NEW r \in Reqs, req[r].pc = "executing"
    PROVE  LET new == [req[r] EXCEPT !.pc = "closing", !.pending = {"generator"}] IN
           /\ new \in Chosen /\ new.pc = "closing"
           /\ new.cred = req[r].cred /\ new.age = req[r].age /\ new.released = req[r].released
           /\ Running(r)
<1>1. req[r] \in Chosen /\ req[r] \in Request
    BY DEF TypeInv, TypeOK
<1>2. Running(r) /\ {"generator"} \in SUBSET Finalizer
    BY DEF Running, Finalizer
<1>3. [req[r] EXCEPT !.pc = "closing", !.pending = {"generator"}] \in Chosen
    BY <1>1, <1>2, NextRecords
<1> QED BY <1>1, <1>2, <1>3 DEF Request

\* The table keeps its types and the locks their meaning.
LEMMA PoolTypeStep == TypeInv /\ PoolShape /\ [PoolNext]_pvars => TypeInv'
<1> SUFFICES ASSUME TypeInv, PoolShape, [PoolNext]_pvars PROVE TypeInv'
    OBVIOUS
<1>1. CASE Foreign
    <2>1. PICK c \in Creds, x \in Row :
              /\ Store(c, x) /\ UNCHANGED <<lock, up, orphans, edits>>
              /\ \/ UNCHANGED <<req, faults>>
                 \/ \E r \in Reqs :
                       /\ req[r].pc = "executing" /\ Fault
                       /\ Become(r, [req[r] EXCEPT !.pc = "closing", !.pending = {"generator"}])
        BY <1>1, ForeignStores
    <2>2. row' \in [Creds -> Row]
        BY <2>1 DEF Store, TypeInv, TypeOK
    <2>3. CASE UNCHANGED <<req, faults>>
        BY <2>1, <2>2, <2>3 DEF TypeInv, TypeOK
    <2>4. ASSUME NEW r \in Reqs, req[r].pc = "executing", Fault,
                 Become(r, [req[r] EXCEPT !.pc = "closing", !.pending = {"generator"}])
          PROVE  TypeInv'
        <3>1. lock' \in [Creds -> Reqs \cup {NoReq}] /\ orphans' \in [Creds -> Nat]
            BY <2>1 DEF TypeInv, TypeOK
        <3> QED BY <2>1, <2>2, <2>4, <3>1, ClosingRecord, TypeOneRequest
    <2> QED BY <2>1, <2>3, <2>4
<1> QED BY <1>1, LeaseOrForeign, TypeNext

\* The writers that take no lease respect the row locks as well.
LEMMA PoolLocksStep == TypeInv /\ PoolShape /\ Locks /\ [PoolNext]_pvars => Locks'
<1> SUFFICES ASSUME TypeInv, PoolShape, Locks, [PoolNext]_pvars PROVE Locks'
    OBVIOUS
<1>1. CASE Foreign
    <2>1. PICK c \in Creds, x \in Row :
              /\ Unlocked(c) /\ Store(c, x) /\ UNCHANGED lock
              /\ \/ UNCHANGED <<req, faults>>
                 \/ \E r \in Reqs :
                       /\ req[r].pc = "executing" /\ Fault
                       /\ Become(r, [req[r] EXCEPT !.pc = "closing", !.pending = {"generator"}])
        BY <1>1, ForeignStores
    <2>2. \A d \in Creds : row'[d] = row[d] \/ lock[d] = NoReq
        BY <2>1, StoreLocal DEF Unlocked
    <2>3. CASE UNCHANGED <<req, faults>>
        BY <2>1, <2>2, <2>3, LocksNoRequest
    <2>4. ASSUME NEW r \in Reqs, req[r].pc = "executing",
                 Become(r, [req[r] EXCEPT !.pc = "closing", !.pending = {"generator"}])
          PROVE  Locks'
        BY <2>1, <2>2, <2>4, ClosingRecord, LocksOneRequest
    <2> QED BY <2>1, <2>3, <2>4
<1> QED BY <1>1, LeaseOrForeign, LocksNext

\* The writers, the bridge requests and the count of what was taken keep their shape.
LEMMA PoolShapeStart == PoolInit => PoolShape
<1> SUFFICES ASSUME PoolInit PROVE PoolShape
    OBVIOUS
<1>1. NoCopy \in Row
    BY TicksAssumption DEF NoCopy, Row, Phase, CredentialState, CredentialVisibility
<1>2. NewWriter \in WriteRequest /\ NewWriter.pc = "new"
    BY <1>1 DEF NewWriter, WriteRequest
<1>3. Unserved \in BridgeRequest
    BY DEF BridgeRequest
<1> QED BY <1>2, <1>3 DEF PoolInit, PoolShape, WriterLike

\* One writer goes on.
LEMMA OneWriter ==
    ASSUME PoolShape, NEW w \in Writers, NEW new \in WriteRequest,
           new.pc \in {"read", "loaded"} => new.cred \in Creds,
           writer' = [writer EXCEPT ![w] = new]
    PROVE  writer' \in [Writers -> WriteRequest] /\ \A v \in Writers : WriterLike(v)'
BY DEF PoolShape, WriterLike

\* Every step keeps the shape of handlers, bridges and what was stolen.
LEMMA PoolShapeStep == TypeInv /\ PoolShape /\ [PoolNext]_pvars => PoolShape'
<1> SUFFICES ASSUME TypeInv, PoolShape, [PoolNext]_pvars PROVE PoolShape'
    OBVIOUS
<1>0. /\ row \in [Creds -> Row] /\ writer \in [Writers -> WriteRequest]
      /\ bridge \in [Bridges -> BridgeRequest] /\ stolen \in [Creds -> Nat]
      /\ \A w \in Writers : WriterLike(w)
    BY DEF TypeInv, TypeOK, PoolShape
<1>1. ASSUME UNCHANGED bridge, UNCHANGED stolen,
             writer' \in [Writers -> WriteRequest], \A w \in Writers : WriterLike(w)'
      PROVE  PoolShape'
    BY <1>0, <1>1 DEF PoolShape
<1>2. ASSUME UNCHANGED writer, bridge' \in [Bridges -> BridgeRequest], stolen' \in [Creds -> Nat]
      PROVE  PoolShape'
    BY <1>0, <1>2 DEF PoolShape, WriterLike
<1>3. [NewWriter EXCEPT !.pc = "done"] \in WriteRequest
      /\ [NewWriter EXCEPT !.pc = "done"].pc = "done"
    <2>1. NoCopy \in Row
        BY TicksAssumption DEF NoCopy, Row, Phase, CredentialState, CredentialVisibility
    <2> QED BY <2>1 DEF NewWriter, WriteRequest
<1>4. Foreign => stolen' \in [Creds -> Nat]
    <2> SUFFICES ASSUME Foreign PROVE stolen' \in [Creds -> Nat]
        OBVIOUS
    <2>1. PICK c \in Creds, n \in Nat : Steal(c, n)
        BY ForeignStores
    <2> QED BY <1>0, <2>1 DEF Steal
<1>5. CASE LeaseStep
    BY <1>0, <1>2, <1>5 DEF LeaseStep, OthersRest
<1>6. CASE PoolTick
    <2>1. ASSUME NEW w \in Writers
          PROVE  [writer[w] EXCEPT !.copy = [Older(writer[w].copy) EXCEPT !.age = 0]]
                     \in WriteRequest
        <3>1. writer[w] \in WriteRequest /\ writer[w].copy \in Row
            BY <1>0 DEF WriteRequest
        <3>2. [Older(writer[w].copy) EXCEPT !.age = 0] \in Row
            BY <3>1, CopiesAreRows
        <3> QED BY <3>1, <3>2 DEF WriteRequest
    <2>2. \A w \in Writers :
             writer'[w] = [writer[w] EXCEPT !.copy = [Older(writer[w].copy) EXCEPT !.age = 0]]
        <3> SUFFICES ASSUME NEW w \in Writers
                     PROVE  writer'[w] = [writer[w] EXCEPT !.copy =
                                             [Older(writer[w].copy) EXCEPT !.age = 0]]
            OBVIOUS
        <3>1. writer'[w] = [writer[w] EXCEPT !.copy = Older(@), !.copy.age = 0]
            BY <1>6 DEF PoolTick
        <3>2. "copy" \in DOMAIN writer[w]
            BY <1>0 DEF WriteRequest
        <3>3. [[writer[w] EXCEPT !.copy = Older(writer[w].copy)] EXCEPT !.copy.age = 0]
                 = [writer[w] EXCEPT !.copy = [Older(writer[w].copy) EXCEPT !.age = 0]]
            BY <3>2
        <3> QED BY <3>1, <3>3
    <2>3. \A w \in Writers : writer'[w].pc = writer[w].pc /\ writer'[w].cred = writer[w].cred
        <3> SUFFICES ASSUME NEW w \in Writers
                     PROVE  writer'[w].pc = writer[w].pc /\ writer'[w].cred = writer[w].cred
            OBVIOUS
        <3>1. writer[w] \in WriteRequest
            BY <1>0
        <3> QED BY <2>2, <3>1 DEF WriteRequest
    <2>4. writer' \in [Writers -> WriteRequest]
        BY <1>6, <2>1, <2>2 DEF PoolTick
    <2> QED BY <1>0, <1>1, <1>6, <2>3, <2>4 DEF PoolTick, WriterLike
<1>7. ASSUME NEW b \in Bridges, BridgeStep(b) PROVE PoolShape'
    <2>1. \A c \in Creds : Calling(c) \in BridgeRequest
        BY DEF Calling, BridgeRequest
    <2>2. Served \in BridgeRequest
        BY DEF BridgeRequest
    <2>3. bridge' \in [Bridges -> BridgeRequest]
        BY <1>0, <1>7, <2>1, <2>2 DEF BridgeStep, BridgeStart, BridgeDone, BridgeRefused
    <2>4. stolen' \in [Creds -> Nat]
        BY <1>0, <1>4, <1>7 DEF BridgeStep, BridgeStart, BridgeDone, Foreign
    <2> QED BY <1>2, <1>7, <2>3, <2>4 DEF BridgeStep, BridgeStart, BridgeDone, BridgeRefused
<1>8. ASSUME NEW w \in Writers, WriterStep(w) PROVE PoolShape'
    <2>1. ASSUME NEW c \in Creds, Read(w, c) PROVE PoolShape'
        <3> DEFINE new == [pc |-> "read", cred |-> c, dirty |-> {},
                           copy |-> [row[c] EXCEPT !.age = 0]]
        <3>1. new \in WriteRequest
            BY <1>0, CopiesAreRows DEF WriteRequest
        <3> QED BY <1>1, <2>1, <3>1, OneWriter DEF Read
    <2>2. CASE Load(w)
        <3>1. writer[w] \in WriteRequest /\ writer[w].copy \in Row /\ writer[w].cred \in Creds
            BY <1>0, <2>2 DEF Load, WriteRequest, WriterLike
        <3>2. CASE ~Live(writer[w].cred)
            BY <1>1, <1>3, <2>2, <3>2, OneWriter DEF Load
        <3>3. CASE Live(writer[w].cred)
            <4>1. PICK new \in Edited(writer[w].copy) :
                     writer' = [writer EXCEPT ![w].pc = "loaded", ![w].copy = new,
                                  ![w].dirty = {f \in Columns : new[f] # row[writer[w].cred][f]}]
                BY <2>2, <3>3 DEF Load
            <4>2. new \in Row
                BY <3>1, <4>1, CopiesAreRows
            <4> DEFINE D == {f \in Columns : new[f] # row[writer[w].cred][f]}
                       rec == [writer[w] EXCEPT !.pc = "loaded", !.copy = new, !.dirty = D]
            <4>3. D \in SUBSET Columns
                OBVIOUS
            <4>4. writer' = [writer EXCEPT ![w] = rec]
                BY <1>0, <4>1
            <4> HIDE DEF D
            <4>5. rec \in WriteRequest /\ rec.cred = writer[w].cred
                BY <3>1, <4>2, <4>3 DEF WriteRequest
            <4> QED BY <1>1, <2>2, <3>1, <4>4, <4>5, OneWriter DEF Load
        <3> QED BY <3>2, <3>3
    <2>3. CASE Flush(w)
        <3>1. writer' \in [Writers -> WriteRequest] /\ \A v \in Writers : WriterLike(v)'
            BY <1>3, <2>3, OneWriter DEF Flush
        <3>2. stolen' \in [Creds -> Nat]
            BY <1>4, <2>3 DEF Foreign
        <3> QED BY <1>0, <2>3, <3>1, <3>2 DEF Flush, PoolShape
    <2> QED BY <1>8, <2>1, <2>2, <2>3 DEF WriterStep
<1>9. ASSUME NEW r \in Reqs, MarkAckLost(r) PROVE PoolShape'
    BY <1>0, <1>2, <1>4, <1>9 DEF MarkAckLost, Foreign
<1>10. CASE UNCHANGED pvars
    BY <1>0, <1>2, <1>10 DEF pvars
<1> QED BY <1>5, <1>6, <1>7, <1>8, <1>9, <1>10 DEF PoolNext

\* Types, locks and shape hold in every reachable state.
LEMMA PoolShapeAlways == PoolSpec => [](TypeInv /\ Locks /\ PoolShape)
<1>1. PoolInit => TypeInv /\ Locks /\ PoolShape
    BY InvInit, PoolShapeStart DEF PoolInit, IInv
<1>2. TypeInv /\ Locks /\ PoolShape /\ [PoolNext]_pvars => (TypeInv /\ Locks /\ PoolShape)'
    BY PoolTypeStep, PoolLocksStep, PoolShapeStep
<1> QED BY <1>1, <1>2, PTL DEF PoolSpec

\* Every mixture of columns that stale writes leave is a row, whatever the handlers
\* read and whenever they write it back (update_credential, _apply_domain).
THEOREM PoolTypeCorrect == PoolSpec => []PoolTypeOK
<1>1. TypeInv /\ PoolShape => PoolTypeOK
    BY DEF TypeInv, PoolShape, PoolTypeOK
<1> QED BY <1>1, PoolShapeAlways, PTL

-----------------------------------------------------------------------------
(* Starts.                                                                 *)

\* Bridges, stale writes and lost acknowledgements included, a request starts on a
\* credential that is eligible for it at that moment: they wait for the row lock.
THEOREM PoolStartsEligible == PoolSpec => StartsOnlyOnEligible
<1>1. ASSUME TypeInv, PoolShape, Foreign, NEW r \in Reqs, ~Running(r) PROVE ~Running(r)'
    <2>1. \/ UNCHANGED req
          \/ \E q \in Reqs :
                /\ req[q].pc = "executing"
                /\ Become(q, [req[q] EXCEPT !.pc = "closing", !.pending = {"generator"}])
        BY <1>1, ForeignStores
    <2>2. CASE UNCHANGED req
        BY <1>1, <2>2 DEF Running
    <2>3. ASSUME NEW q \in Reqs, req[q].pc = "executing",
                 Become(q, [req[q] EXCEPT !.pc = "closing", !.pending = {"generator"}])
          PROVE  ~Running(r)'
        <3>1. r # q
            BY <1>1, <2>3 DEF Running
        <3>2. req'[r] = req[r]
            BY <1>1, <2>3, <3>1 DEF Become, TypeInv, TypeOK
        <3> QED BY <1>1, <3>2 DEF Running
    <2> QED BY <2>1, <2>2, <2>3
<1>2. TypeInv /\ Locks /\ PoolShape /\ [PoolNext]_pvars =>
         [\A r \in Reqs : ~Running(r) /\ Running(r)' => Eligible(r, req'[r].cred)]_vars
    BY <1>1, LeaseOrForeign, StartStep
<1> QED BY <1>2, PoolShapeAlways, PTL DEF PoolSpec, StartsOnlyOnEligible

-----------------------------------------------------------------------------
(* The undercount.                                                         *)

\* The holders of a lease are on the row, or were taken off without a lease.
UnderOk(c) ==
    row[c].phase # "gone" => Cardinality(Holders(c)) <= row[c].leases + stolen[c]

\* The counts stay, and no row that a sweep would reset is in use.
UnderInv == (\A c \in Creds : UnderOk(c)) /\ (\A r \in Reqs : YoungRow(r))

UnderStep == (\A c \in Creds : UnderOk(c)') /\ (\A r \in Reqs : YoungRow(r)')

\* The numbers that the undercount compares are numbers.
LEMMA UnderNumbers ==
    ASSUME TypeInv, PoolShape, NEW c \in Creds
    PROVE  row[c].leases \in Nat /\ stolen[c] \in Nat /\ Cardinality(Holders(c)) \in Nat
BY HoldersFinite DEF TypeInv, TypeOK, PoolShape, Row

\* No more holders, and no fewer leases than before.
LEMMA UnderKept ==
    ASSUME TypeInv, TypeInv', PoolShape, PoolShape', NEW c \in Creds, UnderOk(c),
           Holders(c)' \subseteq Holders(c),
           row'[c].phase # "gone" =>
               /\ row[c].phase # "gone"
               /\ row[c].leases + stolen[c] <= row'[c].leases + stolen'[c]
    PROVE  UnderOk(c)'
<1>1. Cardinality(Holders(c)') <= Cardinality(Holders(c)) /\ Cardinality(Holders(c)') \in Nat
    <2>1. IsFiniteSet(Holders(c))
        BY HoldersFinite
    <2>2. IsFiniteSet(Holders(c)') /\ Cardinality(Holders(c)') <= Cardinality(Holders(c))
        BY <2>1, FS_Subset
    <2> QED BY <2>2, FS_CardinalityType
<1>2. /\ row[c].leases \in Nat /\ stolen[c] \in Nat /\ Cardinality(Holders(c)) \in Nat
    BY UnderNumbers
<1>3. row'[c].leases \in Nat /\ stolen'[c] \in Nat
    BY DEF TypeInv, TypeOK, PoolShape, Row
<1> QED BY <1>1, <1>2, <1>3 DEF UnderOk

\* The same for all credentials, where neither rows nor counts change.
LEMMA UnderQuiet ==
    ASSUME TypeInv, TypeInv', PoolShape, PoolShape', \A c \in Creds : UnderOk(c),
           UNCHANGED stolen, NEW c \in Creds, Holders(c)' \subseteq Holders(c),
           row'[c] = row[c]
    PROVE  UnderOk(c)'
<1>1. row[c].leases \in Nat /\ stolen[c] \in Nat
    BY UnderNumbers
<1> QED BY <1>1, UnderKept

\* A holder settles its lease.
LEMMA UnderSettled ==
    ASSUME TypeInv, TypeInv', PoolShape, PoolShape', \A c \in Creds : UnderOk(c),
           UNCHANGED stolen,
           NEW r \in Reqs, NEW c \in Creds, Holds(r, c),
           NEW new, Become(r, new), \A d \in Creds : ~HoldingRecord(new, d),
           NEW x \in {ReleaseLease(row[c]), CoolDown(row[c]), Disable(row[c])},
           Store(c, x)
    PROVE  \A d \in Creds : UnderOk(d)'
<1>0. row \in [Creds -> Row] /\ row[c] \in Row
    BY DEF TypeInv, TypeOK
<1>1. \A d \in Creds : Holders(d)' = Holders(d) \ {r}
    BY HoldersOneRequest
<1>2. ASSUME NEW d \in Creds, d # c PROVE UnderOk(d)'
    <2>1. row'[d] = row[d] /\ Holders(d)' \subseteq Holders(d)
        BY <1>1, <1>2, StoreLocal
    <2> QED BY <2>1, UnderQuiet
<1>3. UnderOk(c)'
    <2>1. r \in Holders(c)
        BY DEF Holders
    <2>2. Cardinality(Holders(c)') = Cardinality(Holders(c)) - 1
        BY <1>1, <2>1, HoldersFinite
    <2>3. /\ row'[c].phase = row[c].phase
          /\ row'[c].leases \in {row[c].leases, LessOne(row[c].leases)}
        BY <1>0, SettledRow DEF Store
    <2>4. row[c].leases \in Nat /\ stolen[c] \in Nat /\ Cardinality(Holders(c)) \in Nat
        BY UnderNumbers
    <2>5. row'[c].leases >= row[c].leases - 1 /\ row'[c].leases \in Nat
        BY <2>3, <2>4 DEF LessOne
    <2> QED BY <2>2, <2>3, <2>4, <2>5 DEF UnderOk
<1> QED BY <1>2, <1>3

\* Settling keeps rows young; so does every step that goes on with one request.
LEMMA UnderRequest ==
    ASSUME TypeInv, TypeInv', PoolShape, PoolShape', Locks, UnderInv, UNCHANGED stolen,
           NEW r \in Reqs, RequestStep(r)
    PROVE  UnderStep
<1> DEFINE c == req[r].cred
<1>0. /\ (\A d \in Creds : UnderOk(d)) /\ (\A q \in Reqs : YoungRow(q))
      /\ row \in [Creds -> Row] /\ req \in [Reqs -> Request] /\ req \in [Reqs -> Chosen]
    BY DEF UnderInv, TypeInv, TypeOK
<1>1. /\ Running(r) \/ req[r].pc = "committing" => c \in Creds
      /\ \A d \in Creds : ~HoldingRecord(Idle, d)
      /\ \A stream \in BOOLEAN, E \in SUBSET Creds, d \in Creds :
            ~HoldingRecord(Selecting(stream, E), d)
      /\ Idle.pc \notin {"executing", "closing"}
      /\ \A stream \in BOOLEAN, E \in SUBSET Creds :
            Selecting(stream, E).pc \notin {"executing", "closing"}
    BY <1>0, NextRecords, FreshRecords DEF HoldingRecord
<1>2. ASSUME NEW x \in {ReleaseLease(row[c]), CoolDown(row[c]), Disable(row[c])},
             c \in Creds, Store(c, x)
      PROVE  \A d \in Creds : /\ row'[d].phase = row[d].phase
                              /\ row'[d].age = row[d].age \/ row'[d].age = 0
    <2>1. row[c] \in Row
        BY <1>0, <1>2
    <2>2. x.age = 0 /\ x.phase = row[c].phase
        BY <2>1, SettledRow
    <2> QED BY <1>0, <1>2, <2>2 DEF Store
<1>3. ASSUME NEW x \in {ReleaseLease(row[c]), CoolDown(row[c]), Disable(row[c])},
             NEW new, Store(c, x), Become(r, new),
             c \in Creds, Holds(r, c), \A d \in Creds : ~HoldingRecord(new, d),
             \/ new.pc \notin {"executing", "closing"}
             \/ new.cred = c /\ new.age = req[r].age
      PROVE  UnderStep
    <2>1. \A d \in Creds : UnderOk(d)'
        BY <1>0, <1>3, UnderSettled
    <2>2. \A q \in Reqs : YoungRow(q)'
        BY <1>0, <1>2, <1>3, YoungOneRequest DEF Holds
    <2> QED BY <2>1, <2>2 DEF UnderStep
<1>4. ASSUME NEW new, Become(r, new), UNCHANGED row,
             \A d \in Creds : HoldingRecord(new, d) => Holds(r, d),
             \/ new.pc \notin {"executing", "closing"}
             \/ Running(r) /\ new.cred = c /\ new.age = req[r].age
      PROVE  UnderStep
    <2>1. ASSUME NEW d \in Creds PROVE UnderOk(d)'
        <3>1. Holders(d)' \subseteq Holders(d)
            BY <1>4, HoldersOneRequest DEF Holders
        <3> QED BY <1>0, <1>4, <3>1, UnderQuiet
    <2>2. \A q \in Reqs : YoungRow(q)'
        BY <1>0, <1>4, YoungOneRequest
    <2> QED BY <2>1, <2>2 DEF UnderStep
<1>5. req[r].pc = "executing" => Running(r) /\ Holds(r, c) /\ c \in Creds
    BY <1>0, <1>1 DEF Running, Holds, Chosen
<1>6. ASSUME NEW stream \in BOOLEAN, Start(r, stream) PROVE UnderStep
    BY <1>1, <1>4, <1>6 DEF Start
<1>7. CASE LockCandidates(r)
    <2>1. PICK d \in Creds : Become(r, [req[r] EXCEPT !.pc = "committing", !.cred = d])
        BY <1>7 DEF LockCandidates, LeastLeased, Candidates
    <2>2. [req[r] EXCEPT !.pc = "committing", !.cred = d].pc = "committing"
        BY <1>0 DEF Request
    <2> QED BY <1>4, <1>7, <2>1, <2>2 DEF LockCandidates, HoldingRecord
<1>8. CASE NoCandidate(r)
    <2>1. CASE req[r].mode < Len(AuthModes)
        <3>1. [req[r] EXCEPT !.mode = @ + 1].pc = "selecting"
            BY <1>0, <1>8 DEF Request, NoCandidate
        <3> QED BY <1>4, <1>8, <2>1, <3>1 DEF NoCandidate, HoldingRecord
    <2>2. CASE ~(req[r].mode < Len(AuthModes))
        BY <1>1, <1>4, <1>8, <2>2 DEF NoCandidate
    <2> QED BY <2>1, <2>2
<1>9. ASSUME NEW e \in Creds, e = c, req[r].pc = "committing",
             row' = [row EXCEPT ![e] = TakeLease(@)], NEW new, Become(r, new),
             \A d \in Creds : d # e => ~HoldingRecord(new, d)
      PROVE  \A d \in Creds : UnderOk(d)'
    <2>1. \A d \in Creds : r \notin Holders(d)
        BY <1>9 DEF Holders, Holds, Running
    <2>2. /\ row'[e].leases = row[e].leases + 1 /\ row'[e].phase = row[e].phase
          /\ \A d \in Creds : d # e => row'[d] = row[d]
        BY <1>0, <1>9 DEF TakeLease, Row
    <2>3. ASSUME NEW d \in Creds, d # e PROVE UnderOk(d)'
        <3>1. Holders(d)' \subseteq Holders(d)
            BY <1>9, <2>3, HoldersOneRequest
        <3> QED BY <1>0, <2>2, <2>3, <3>1, UnderQuiet
    <2>4. Cardinality(Holders(e)') <= Cardinality(Holders(e)) + 1
        <3>1. Holders(e)' = Holders(e) \cup {r} \/ Holders(e)' = Holders(e) \ {r}
            BY <1>9, HoldersOneRequest
        <3>2. /\ Cardinality(Holders(e) \cup {r}) = Cardinality(Holders(e)) + 1
              /\ Cardinality(Holders(e) \ {r}) = Cardinality(Holders(e))
              /\ Cardinality(Holders(e)) \in Nat
            BY <2>1, HoldersFinite
        <3>3. Cardinality(Holders(e)') \in {Cardinality(Holders(e)) + 1, Cardinality(Holders(e))}
            BY <3>1, <3>2
        <3> QED BY <3>2, <3>3
    <2>5. UnderOk(e)'
        <3>1. row[e].leases \in Nat /\ stolen[e] \in Nat /\ Cardinality(Holders(e)) \in Nat
            BY UnderNumbers
        <3>2. Cardinality(Holders(e)') \in Nat
            <4>1. Holders(e)' \subseteq Reqs
                BY DEF Holders
            <4>2. IsFiniteSet(Holders(e)')
                BY <4>1, FS_Subset, SlotsAssumption
            <4> QED BY <4>2, FS_CardinalityType
        <3> QED BY <1>0, <2>2, <2>4, <3>1, <3>2 DEF UnderOk
    <2> QED BY <2>3, <2>5
<1>10. CASE CommitSelect(r)
    <2>1. req[r].pc = "committing" /\ c \in Creds
        BY <1>1, <1>10 DEF CommitSelect
    <2> DEFINE new == [req[r] EXCEPT !.pc = "executing"]
    <2>2. PICK e \in Creds : e = req[r].cred
        BY <2>1
    <2>3. new.pc = "executing" /\ new.cred = e /\ new.age = req[r].age
        BY <1>0, <2>1, <2>2 DEF Request, Chosen
    <2>4. row' = [row EXCEPT ![e] = TakeLease(@)] /\ Become(r, new)
        BY <1>10, <2>2 DEF CommitSelect
    <2>5. \A d \in Creds : UnderOk(d)'
        <3>1. \A d \in Creds : d # e => ~HoldingRecord(new, d)
            BY <2>3 DEF HoldingRecord
        <3> HIDE DEF new
        <3> QED BY <1>9, <2>1, <2>2, <2>4, <3>1
    <2>6. row[e].phase = "live"
        <3>1. ChosenRow(r) /\ LockedRow(e)
            BY DEF Locks
        <3>2. lock[e] = r /\ r # NoReq
            BY <2>1, <2>2, <3>1, SlotsAssumption DEF ChosenRow
        <3> QED BY <3>1, <3>2 DEF LockedRow, Matches, Live
    <2>7. ASSUME NEW q \in Reqs PROVE YoungRow(q)'
        <3>1. req'[q] = IF q = r THEN new ELSE req[q]
            BY <1>0, <2>4 DEF Become
        <3>2. \A d \in Creds : /\ row'[d].phase = row[d].phase
                               /\ row'[d].age = IF d = e THEN 0 ELSE row[d].age
            BY <1>0, <2>4 DEF TakeLease, Row
        <3>3. req[q].age \in Nat /\ (Running(q) => req[q].cred \in Creds)
            <4>1. req[q] \in Request /\ req[q] \in Chosen
                BY <1>0
            <4>2. req[q].age \in Nat
                BY <4>1, BoundsAssumption DEF Request
            <4> QED BY <4>1, <4>2, NextRecords
        <3>4. CASE q = r
            BY <2>3, <2>6, <3>1, <3>2, <3>3, <3>4 DEF YoungRow, Live
        <3>5. CASE q # r
            BY <1>0, <3>1, <3>2, <3>3, <3>5 DEF YoungRow, Live, Running
        <3> QED BY <3>4, <3>5
    <2> QED BY <2>5, <2>7 DEF UnderStep
<1>11. CASE Settle(r)
    <2>1. req[r].pc = "executing"
        BY <1>11 DEF Settle, FinishPlain, UpstreamRateLimited, UpstreamInvalid,
                    FallBack, StreamEnds
    <2>2. /\ AfterRefusal(r).pc \notin {"executing", "closing"}
          /\ \A d \in Creds : ~HoldingRecord(AfterRefusal(r), d)
        <3>1. req[r].excluded \cup {c} \in SUBSET Creds
            BY <1>0, <1>5, <2>1 DEF Request
        <3> QED BY <1>1, <3>1 DEF AfterRefusal
    <2>3. CASE FinishPlain(r)
        BY <1>1, <1>3, <1>5, <2>1, <2>3 DEF FinishPlain
    <2>4. CASE UpstreamRateLimited(r)
        BY <1>3, <1>5, <2>1, <2>2, <2>4 DEF UpstreamRateLimited
    <2>5. CASE UpstreamInvalid(r)
        BY <1>3, <1>5, <2>1, <2>2, <2>5 DEF UpstreamInvalid
    <2>6. CASE FallBack(r)
        BY <1>1, <1>3, <1>5, <2>1, <2>6 DEF FallBack
    <2>7. CASE StreamEnds(r)
        <3>1. PICK F \in SUBSET Finalizer :
                 Become(r, [req[r] EXCEPT !.pc = "closing", !.pending = F])
            BY <2>7 DEF StreamEnds
        <3> DEFINE new == [req[r] EXCEPT !.pc = "closing", !.pending = F]
        <3>2. new.pc = "closing" /\ new.cred = c /\ new.age = req[r].age
              /\ new.released = req[r].released
            BY <1>0 DEF Request
        <3>3. \A d \in Creds : HoldingRecord(new, d) => Holds(r, d)
            BY <2>1, <3>2 DEF HoldingRecord, Holds, Running
        <3> QED BY <1>4, <1>5, <2>1, <2>7, <3>1, <3>2, <3>3 DEF StreamEnds
    <2> QED BY <1>11, <2>3, <2>4, <2>5, <2>6, <2>7 DEF Settle
<1>12. ASSUME NEW f \in Finalizer, req[r].pc = "closing"
       PROVE  /\ \A d \in Creds : ~HoldingRecord(AfterFinalizer(r, f), d)
              /\ \/ AfterFinalizer(r, f).pc \notin {"executing", "closing"}
                 \/ /\ AfterFinalizer(r, f).cred = c
                    /\ AfterFinalizer(r, f).age = req[r].age
    BY <1>0, <1>1, <1>12 DEF AfterFinalizer, HoldingRecord, Request
<1>13. ASSUME NEW f \in Finalizer, RunFinalizer(r, f) PROVE UnderStep
    <2>1. Running(r) /\ c \in Creds /\ req[r].pc = "closing"
        BY <1>1, <1>13 DEF RunFinalizer, Running
    <2>2. CASE req[r].released
        BY <1>4, <1>12, <1>13, <2>1, <2>2 DEF RunFinalizer
    <2>3. CASE ~req[r].released
        <3>1. Holds(r, c)
            BY <2>1, <2>3 DEF Holds
        <3> QED BY <1>3, <1>12, <1>13, <2>1, <2>3, <3>1 DEF RunFinalizer
    <2> QED BY <2>2, <2>3
<1>14. CASE RequestFault(r)
    <2>1. ASSUME NEW done \in BOOLEAN, CommitFails(r, done) PROVE UnderStep
        <3>1. c \in Creds /\ req[r].pc = "committing"
            BY <1>1, <2>1 DEF CommitFails
        <3>2. CASE ~done
            BY <1>1, <1>4, <2>1, <3>2 DEF CommitFails
        <3>3. CASE done
            <4>1. PICK e \in Creds : e = req[r].cred
                BY <3>1
            <4>2. row' = [row EXCEPT ![e] = TakeLease(@)] /\ Become(r, Idle)
                BY <2>1, <3>3, <4>1 DEF CommitFails
            <4>3. \A d \in Creds : UnderOk(d)'
                BY <1>1, <1>9, <3>1, <4>1, <4>2
            <4>4. \A d \in Creds : /\ row'[d].phase = row[d].phase
                                   /\ row'[d].age = row[d].age \/ row'[d].age = 0
                BY <1>0, <4>2 DEF TakeLease, Row
            <4>5. \A q \in Reqs : YoungRow(q)'
                BY <1>0, <1>1, <4>2, <4>4, YoungOneRequest
            <4> QED BY <4>3, <4>5 DEF UnderStep
        <3> QED BY <3>2, <3>3
    <2>2. CASE ReleaseFails(r)
        BY <1>1, <1>4, <2>2 DEF ReleaseFails
    <2>3. CASE MarkFails(r)
        BY <1>1, <1>3, <1>5, <2>3 DEF MarkFails
    <2>4. ASSUME NEW f \in Finalizer, FinalizerFails(r, f) PROVE UnderStep
        <3>1. Running(r) /\ req[r].pc = "closing"
            BY <2>4 DEF FinalizerFails, Running
        <3> QED BY <1>4, <1>12, <2>4, <3>1 DEF FinalizerFails
    <2> QED BY <1>14, <2>1, <2>2, <2>3, <2>4 DEF RequestFault
<1> QED BY <1>6, <1>7, <1>8, <1>10, <1>11, <1>13, <1>14 DEF RequestStep, Select, Close

\* The age of a request, and the credential of a running one.
LEMMA RunningTypes ==
    ASSUME TypeInv, NEW q \in Reqs
    PROVE  req[q].age \in 0 .. MaxRun /\ req[q].age \in Nat
           /\ (Running(q) => req[q].cred \in Creds)
<1>1. req[q] \in Request /\ req[q] \in Chosen
    BY DEF TypeInv, TypeOK
<1>2. req[q].age \in 0 .. MaxRun
    BY <1>1 DEF Request
<1>3. req[q].age \in Nat
    BY <1>2, BoundsAssumption
<1> QED BY <1>1, <1>2, <1>3, NextRecords

\* Rows stay young where requests rest and rows are only written.
LEMMA YoungNoRequest ==
    ASSUME TypeInv, \A q \in Reqs : YoungRow(q), UNCHANGED req,
           \A d \in Creds : /\ row'[d].phase = row[d].phase
                            /\ row'[d].age = row[d].age \/ row'[d].age = 0
    PROVE  \A q \in Reqs : YoungRow(q)'
BY RunningTypes DEF YoungRow, Live, Running

\* A sweep resets no row that is in use, so it takes no lease from anybody.
LEMMA UnderReset ==
    ASSUME TypeInv, TypeInv', PoolShape, PoolShape', UnderInv, UNCHANGED <<req, stolen>>,
           MaxRun < LeaseTtl, ResetStaleLeases
    PROVE  UnderStep
<1>0. /\ (\A d \in Creds : UnderOk(d)) /\ (\A q \in Reqs : YoungRow(q))
      /\ row \in [Creds -> Row]
    BY DEF UnderInv, TypeInv, TypeOK
<1>1. \A d : Holders(d)' = Holders(d)
    BY DEF Holders, Holds, Running
<1>2. ASSUME NEW d \in StaleRows PROVE Holders(d) = {}
    <2> SUFFICES ASSUME NEW r \in Reqs, Holds(r, d) PROVE FALSE
        BY DEF Holders
    <2>1. req[r].age \in 0 .. MaxRun /\ YoungRow(r)
        BY <1>0, RunningTypes
    <2>2. Live(d) /\ row[d].age = LeaseTtl
        BY <1>2 DEF StaleRows, Stale, Live
    <2>3. row[d].age <= req[r].age
        BY <2>1, <2>2 DEF YoungRow, Holds
    <2> QED BY <2>1, <2>2, <2>3, BoundsAssumption, TicksAssumption
<1>3. ASSUME NEW d \in Creds PROVE UnderOk(d)'
    <2>1. CASE d \in StaleRows
        <3>1. Cardinality(Holders(d)') = 0
            BY <1>1, <1>2, <2>1, FS_EmptySet
        <3>2. row'[d].leases \in Nat /\ stolen'[d] \in Nat
            BY DEF TypeInv, TypeOK, PoolShape, Row
        <3> QED BY <3>1, <3>2 DEF UnderOk
    <2>2. CASE d \notin StaleRows
        <3>1. row'[d] = row[d] /\ Holders(d)' \subseteq Holders(d)
            BY <1>1, <2>2 DEF ResetStaleLeases
        <3> QED BY <1>0, <3>1, UnderQuiet
    <2> QED BY <2>1, <2>2
<1>4. \A q \in Reqs : YoungRow(q)'
    <2>1. \A d \in Creds : /\ row'[d].phase = row[d].phase
                           /\ row'[d].age = row[d].age \/ row'[d].age = 0
        BY <1>0 DEF ResetStaleLeases, ResetLeases, Row
    <2> QED BY <1>0, <2>1, YoungNoRequest
<1> QED BY <1>3, <1>4 DEF UnderStep

\* A crash takes holders away, and leaves the rows as they are.
LEMMA UnderInstance ==
    ASSUME TypeInv, TypeInv', PoolShape, PoolShape', UnderInv, UNCHANGED stolen,
           MaxRun < LeaseTtl, NEW i \in Instances, InstanceStep(i)
    PROVE  UnderStep
<1>0. /\ (\A d \in Creds : UnderOk(d)) /\ (\A q \in Reqs : YoungRow(q))
    BY DEF UnderInv
<1>1. CASE Crash(i)
    <2> DEFINE gone == {r \in Reqs : InstanceOf[r] = i}
    <2>1. (\A q \in Reqs : req'[q] = IF q \in gone THEN Idle ELSE req[q]) /\ UNCHANGED row
        BY <1>1 DEF Crash
    <2>2. ASSUME NEW d \in Creds PROVE UnderOk(d)'
        <3>1. Holders(d)' \subseteq Holders(d)
            BY <2>1, FreshRecords DEF Holders, Holds, Running
        <3> QED BY <1>0, <2>1, <3>1, UnderQuiet
    <2>3. ASSUME NEW q \in Reqs PROVE YoungRow(q)'
        BY <1>0, <2>1, FreshRecords DEF YoungRow, Live, Running
    <2> QED BY <2>2, <2>3 DEF UnderStep
<1>2. CASE ResetStaleLeases /\ UNCHANGED req
    BY <1>2, UnderReset
<1>3. CASE UNCHANGED <<row, req>>
    <2>1. ASSUME NEW d \in Creds PROVE UnderOk(d)'
        <3>1. Holders(d)' \subseteq Holders(d)
            BY <1>3 DEF Holders, Holds, Running
        <3> QED BY <1>0, <1>3, <3>1, UnderQuiet
    <2>2. \A q \in Reqs : YoungRow(q)'
        BY <1>0, <1>3, YoungNoRequest
    <2> QED BY <2>1, <2>2 DEF UnderStep
<1> QED BY <1>1, <1>2, <1>3 DEF InstanceStep, Restart, Sweep

\* Creating, deleting and sharing a credential leave its count alone.
LEMMA UnderEdit ==
    ASSUME TypeInv, TypeInv', PoolShape, PoolShape', UnderInv, UNCHANGED stolen,
           NEW c \in Creds, EditStep(c)
    PROVE  UnderStep
<1>0. /\ (\A d \in Creds : UnderOk(d)) /\ (\A q \in Reqs : YoungRow(q))
      /\ row \in [Creds -> Row]
    BY DEF UnderInv, TypeInv, TypeOK
<1>1. UNCHANGED req
    BY DEF EditStep, CreateCredential, DeleteCredential, UpdateVisibility
<1>2. \A d : Holders(d)' = Holders(d)
    BY <1>1 DEF Holders, Holds, Running
<1>3. \A d \in Creds : d # c => row'[d] = row[d]
    BY <1>0 DEF EditStep, CreateCredential, DeleteCredential, UpdateVisibility
<1>4. \/ /\ row[c].phase = "unborn" /\ row'[c].phase = "live"
         /\ row'[c].leases = row[c].leases
      \/ row'[c].phase = "gone" /\ row[c].phase = "live"
      \/ /\ row'[c].phase = row[c].phase /\ row'[c].leases = row[c].leases
         /\ row'[c].age = 0 /\ row[c].phase = "live"
    <2>1. row[c] \in Row /\ InitRow[c] \in Row
        BY <1>0, TableAssumption
    <2>2. CASE CreateCredential(c)
        BY <1>0, <2>1, <2>2 DEF CreateCredential, Row
    <2>3. CASE DeleteCredential(c)
        BY <1>0, <2>1, <2>3 DEF DeleteCredential, Row, Live
    <2>4. ASSUME NEW v \in CredentialVisibility, UpdateVisibility(c, v)
          PROVE  /\ row'[c].phase = row[c].phase /\ row'[c].leases = row[c].leases
                 /\ row'[c].age = 0 /\ row[c].phase = "live"
        BY <1>0, <2>1, <2>4 DEF UpdateVisibility, SetVisible, Row, Live
    <2> QED BY <2>2, <2>3, <2>4 DEF EditStep
<1>5. ASSUME NEW d \in Creds PROVE UnderOk(d)'
    <2>1. Holders(d)' \subseteq Holders(d)
        BY <1>2
    <2>2. CASE d # c
        BY <1>0, <1>3, <2>1, <2>2, UnderQuiet
    <2>3. CASE d = c /\ row'[c].phase = "gone"
        BY <2>3 DEF UnderOk
    <2>4. CASE d = c /\ row'[c].phase # "gone"
        <3>1. row[c].phase # "gone" /\ row'[c].leases = row[c].leases
            BY <1>4, <2>4
        <3>2. row[c].leases \in Nat /\ stolen[c] \in Nat
            BY UnderNumbers
        <3>3. row[c].leases + stolen[c] <= row'[c].leases + stolen'[c]
            BY <3>1, <3>2
        <3> QED BY <1>0, <2>1, <2>4, <3>1, <3>3, UnderKept
    <2> QED BY <2>2, <2>3, <2>4
<1>6. ASSUME NEW q \in Reqs PROVE YoungRow(q)'
    <2>1. req[q].age \in Nat /\ (Running(q) => req[q].cred \in Creds)
        BY RunningTypes
    <2> QED BY <1>0, <1>1, <1>3, <1>4, <2>1 DEF YoungRow, Live, Running
<1> QED BY <1>5, <1>6 DEF UnderStep

\* The clock changes no count.
LEMMA UnderTick ==
    ASSUME TypeInv, TypeInv', PoolShape, PoolShape', UnderInv, UNCHANGED stolen, Tick
    PROVE  UnderStep
<1>0. /\ (\A d \in Creds : UnderOk(d)) /\ (\A q \in Reqs : YoungRow(q))
      /\ row \in [Creds -> Row] /\ req \in [Reqs -> Request]
    BY DEF UnderInv, TypeInv, TypeOK
<1>1. \A r \in Reqs : /\ req'[r].pc = req[r].pc /\ req'[r].cred = req[r].cred
                      /\ req'[r].released = req[r].released
                      /\ Running(r) => req'[r].age = req[r].age + 1
    BY <1>0 DEF Tick, Request
<1>2. \A d : Holders(d)' = Holders(d)
    BY <1>1 DEF Holders, Holds, Running
<1>3. ASSUME NEW d \in Creds
      PROVE  /\ row'[d].phase = row[d].phase /\ row'[d].leases = row[d].leases
             /\ row'[d].age = row[d].age \/ row'[d].age = row[d].age + 1
             /\ row[d].age \in Nat
    <2>1. /\ row'[d].phase = row[d].phase /\ row'[d].leases = row[d].leases
          /\ row'[d].age = row[d].age \/ row'[d].age = row[d].age + 1
        BY <1>0 DEF Tick, Older, Row
    <2>2. row[d].age \in Nat
        BY <1>0, TicksAssumption DEF Row
    <2> QED BY <2>1, <2>2
<1>4. ASSUME NEW d \in Creds PROVE UnderOk(d)'
    <2>1. Holders(d)' \subseteq Holders(d)
        BY <1>2
    <2>2. row[d].leases \in Nat /\ stolen[d] \in Nat
        BY UnderNumbers
    <2>3. row[d].leases + stolen[d] <= row'[d].leases + stolen'[d]
        BY <1>3, <2>2
    <2>4. row'[d].phase = row[d].phase
        BY <1>3
    <2> QED BY <1>0, <2>1, <2>3, <2>4, UnderKept
<1>5. ASSUME NEW q \in Reqs PROVE YoungRow(q)'
    <2>1. req[q].age \in Nat /\ (Running(q) => req[q].cred \in Creds)
        BY RunningTypes
    <2> QED BY <1>0, <1>1, <1>3, <2>1 DEF YoungRow, Live, Running
<1> QED BY <1>4, <1>5 DEF UnderStep

\* What a foreign step takes off a row it has counted.
LEMMA UnderForeign ==
    ASSUME TypeInv, TypeInv', PoolShape, PoolShape', UnderInv, Foreign
    PROVE  UnderStep
<1>0. /\ (\A d \in Creds : UnderOk(d)) /\ (\A q \in Reqs : YoungRow(q))
      /\ row \in [Creds -> Row] /\ stolen \in [Creds -> Nat]
    BY DEF UnderInv, TypeInv, TypeOK, PoolShape
<1>1. PICK c \in Creds, x \in Row, n \in Nat :
              /\ Store(c, x) /\ Steal(c, n) /\ x.phase = row[c].phase /\ x.age = 0
              /\ Live(c) => row[c].leases <= x.leases + n
              /\ \/ UNCHANGED req
                 \/ \E r \in Reqs :
                       /\ req[r].pc = "executing"
                       /\ Become(r, [req[r] EXCEPT !.pc = "closing", !.pending = {"generator"}])
    BY ForeignStores
<1>2. \A d \in Creds : /\ row'[d].phase = row[d].phase
                       /\ row'[d].age = row[d].age \/ row'[d].age = 0
    BY <1>0, <1>1 DEF Store
<1>3. ASSUME \A d \in Creds : Holders(d)' \subseteq Holders(d), NEW d \in Creds
      PROVE  UnderOk(d)'
    <2>1. row[d].leases \in Nat /\ stolen[d] \in Nat /\ row'[d].leases \in Nat
        BY DEF TypeInv, TypeOK, PoolShape, Row
    <2>2. stolen'[d] = IF d = c THEN stolen[d] + n ELSE stolen[d]
        BY <1>0, <1>1 DEF Steal
    <2>3. row'[d] = row[d] \/ (d = c /\ row[d].leases <= row'[d].leases + n)
        BY <1>0, <1>1 DEF Store
    <2>4. row[d].leases + stolen[d] <= row'[d].leases + stolen'[d]
        <3>1. n \in Nat
            BY <1>1
        <3>2. CASE row'[d] = row[d]
            <4>1. row'[d].leases = row[d].leases
                BY <3>2
            <4>2. stolen[d] <= stolen'[d] /\ stolen'[d] \in Nat
                BY <2>1, <2>2, <3>1
            <4> QED BY <2>1, <4>1, <4>2
        <3>3. CASE d = c /\ row[d].leases <= row'[d].leases + n
            BY <2>1, <2>2, <3>1, <3>3
        <3> QED BY <2>3, <3>2, <3>3
    <2> QED BY <1>0, <1>2, <1>3, <2>4, UnderKept
<1>4. CASE UNCHANGED req
    <2>1. \A d \in Creds : Holders(d)' \subseteq Holders(d)
        BY <1>4 DEF Holders, Holds, Running
    <2>2. \A q \in Reqs : YoungRow(q)'
        BY <1>0, <1>2, <1>4, YoungNoRequest
    <2> QED BY <1>3, <2>1, <2>2 DEF UnderStep
<1>5. ASSUME NEW r \in Reqs, req[r].pc = "executing",
             Become(r, [req[r] EXCEPT !.pc = "closing", !.pending = {"generator"}])
      PROVE  UnderStep
    <2> DEFINE new == [req[r] EXCEPT !.pc = "closing", !.pending = {"generator"}]
    <2>1. /\ new.pc = "closing" /\ new.cred = req[r].cred /\ new.age = req[r].age
          /\ new.released = req[r].released /\ Running(r)
        BY <1>5, ClosingRecord
    <2>2. Become(r, new)
        BY <1>5
    <2> HIDE DEF new
    <2>3. ASSUME NEW d \in Creds PROVE Holders(d)' \subseteq Holders(d)
        <3>1. HoldingRecord(new, d) => r \in Holders(d)
            BY <2>1 DEF HoldingRecord, Holders, Holds
        <3> QED BY <2>2, <3>1, HoldersOneRequest
    <2>4. \A q \in Reqs : YoungRow(q)'
        BY <1>0, <1>2, <2>1, <2>2, YoungOneRequest
    <2> QED BY <1>3, <2>3, <2>4 DEF UnderStep
<1> QED BY <1>1, <1>4, <1>5

\* Every step keeps the bound of the undercount.
LEMMA UnderNext ==
    ASSUME MaxRun < LeaseTtl
    PROVE  TypeInv /\ Locks /\ PoolShape /\ UnderInv /\ [PoolNext]_pvars => UnderInv'
<1> SUFFICES ASSUME TypeInv, Locks, PoolShape, UnderInv, [PoolNext]_pvars PROVE UnderInv'
    OBVIOUS
<1>0. TypeInv' /\ PoolShape'
    BY PoolTypeStep, PoolShapeStep
<1>1. UnderStep => UnderInv'
    BY DEF UnderStep, UnderInv
<1>2. ASSUME UNCHANGED <<row, req, stolen>> PROVE UnderStep
    <2>1. ASSUME NEW d \in Creds PROVE UnderOk(d)'
        <3>1. Holders(d)' = Holders(d)
            BY <1>2 DEF Holders, Holds, Running
        <3> QED BY <1>2, <3>1 DEF UnderOk, UnderInv
    <2>2. ASSUME NEW q \in Reqs PROVE YoungRow(q)'
        BY <1>2 DEF UnderInv, YoungRow, Live, Running
    <2> QED BY <2>1, <2>2 DEF UnderStep
<1>3. CASE LeaseStep
    <2>1. UNCHANGED stolen
        BY <1>3 DEF LeaseStep, OthersRest
    <2> QED BY <1>0, <1>1, <1>3, <2>1, UnderRequest, UnderInstance, UnderEdit DEF LeaseStep
<1>4. CASE PoolTick
    BY <1>0, <1>1, <1>4, UnderTick DEF PoolTick
<1>5. CASE Foreign
    BY <1>0, <1>1, <1>5, UnderForeign
<1>6. ASSUME NEW b \in Bridges, BridgeStep(b) PROVE UnderStep \/ Foreign
    BY <1>2, <1>6 DEF BridgeStep, BridgeStart, BridgeDone, Foreign, vars
<1>7. ASSUME NEW w \in Writers, WriterStep(w) PROVE UnderStep \/ Foreign
    BY <1>2, <1>7 DEF WriterStep, Read, Load, Foreign, vars
<1>8. CASE UNCHANGED pvars
    BY <1>1, <1>2, <1>8 DEF pvars, vars
<1>9. (\E r \in Reqs : MarkAckLost(r)) => Foreign
    BY DEF Foreign
<1> QED BY <1>1, <1>3, <1>4, <1>5, <1>6, <1>7, <1>8, <1>9 DEF PoolNext

\* Only bridge marks, stale writes and lost acknowledgements make concurrent_leases
\* lower than the number of requests that use the credential; _CredentialLease, the
\* sweep and crashes never do, as long as no request runs for as long as
\* credential_lease_ttl_seconds.
THEOREM UndercountExplainedAlways ==
    ASSUME MaxRun < LeaseTtl
    PROVE  PoolSpec => []UndercountExplained
<1>1. PoolInit => TypeInv /\ Locks /\ PoolShape /\ UnderInv
    <2> SUFFICES ASSUME PoolInit PROVE TypeInv /\ Locks /\ PoolShape /\ UnderInv
        OBVIOUS
    <2>1. TypeInv /\ Locks /\ PoolShape /\ \A r \in Reqs : ~Running(r)
        BY InvInit, PoolShapeStart, FreshRecords DEF PoolInit, Init, IInv, Running
    <2>2. ASSUME NEW c \in Creds PROVE UnderOk(c)
        <3>1. Cardinality(Holders(c)) = 0
            <4>1. Holders(c) = {}
                BY <2>1 DEF Holders, Holds
            <4> QED BY <4>1, FS_EmptySet
        <3>2. row[c].leases \in Nat /\ stolen[c] \in Nat
            BY <2>1, UnderNumbers
        <3> QED BY <3>1, <3>2 DEF UnderOk
    <2> QED BY <2>1, <2>2 DEF UnderInv, YoungRow
<1>2. TypeInv /\ Locks /\ PoolShape /\ UnderInv /\ [PoolNext]_pvars
          => (TypeInv /\ Locks /\ PoolShape /\ UnderInv)'
    BY PoolTypeStep, PoolLocksStep, PoolShapeStep, UnderNext
<1>3. UnderInv => UndercountExplained
    BY DEF UnderInv, UnderOk, UndercountExplained, Live
<1> QED BY <1>1, <1>2, <1>3, PTL DEF PoolSpec
=============================================================================
