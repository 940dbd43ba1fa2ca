---------------------------- MODULE PoolWriters ----------------------------
(***************************************************************************)
(* The writers of provider_credentials that do not play by the rules of    *)
(* LeaseLifecycle, next to the requests that do:                           *)
(*   - the bridge endpoints, which call an upstream on a credential without *)
(*     a lease, and still decrement concurrent_leases when it refuses;     *)
(*   - the endpoints that read a credential, work on the copy (refresh it, *)
(*     wait for its quota, import new tokens, change its limit) and write  *)
(*     the whole copy back;                                                *)
(*   - a mark that took effect and reports an error.                       *)
(***************************************************************************)
EXTENDS LeaseLifecycle

CONSTANTS
    Bridges,   \* bridge requests, each served once (bounds them)
    Writers,   \* read-modify-write requests, each served once
    Limits     \* the values an admin gives max_concurrency

ASSUME WritersAssumption == Limits \subseteq Nat \ {0}

VARIABLES
    bridge,    \* what each bridge request is doing
    writer,    \* what each read-modify-write request is doing
    stolen     \* history: decrements nobody held a lease for

pvars == <<vars, bridge, writer, stolen>>

-----------------------------------------------------------------------------
Calling(c) == [pc |-> "calling", cred |-> c]
Unserved == [pc |-> "new", cred |-> NoCred]
Served == [pc |-> "done", cred |-> NoCred]

BridgeRequest == [pc : {"calling"}, cred : Creds] \cup {Unserved, Served}

\* `copy' is the credential object of the handler, `dirty' the columns in
\* which the copy differed from the row when update_credential loaded it.
Columns == {"state", "cool", "leases", "max", "vis"}

NoCopy == [phase |-> "unborn", state |-> "active", cool |-> NoTime, leases |-> 0,
           max |-> 1, vis |-> "private", age |-> 0]

WriteRequest == [pc    : {"new", "read", "loaded", "done"},
                 cred  : Creds \cup {NoCred},
                 copy  : Row,
                 dirty : SUBSET Columns]

NewWriter == [pc |-> "new", cred |-> NoCred, copy |-> NoCopy, dirty |-> {}]

\* A step that takes n leases from c without having held one.
Steal(c, n) == stolen' = [stolen EXCEPT ![c] = @ + n]

-----------------------------------------------------------------------------
\* Bridge requests.

BridgeStart(b, c) ==
    /\ bridge[b] = Unserved
    /\ Live(c) /\ row[c].state = "active"
    /\ bridge' = [bridge EXCEPT ![b] = Calling(c)]
    /\ UNCHANGED <<vars, writer, stolen>>

BridgeDone(b) ==
    /\ bridge[b].pc = "calling"
    /\ bridge' = [bridge EXCEPT ![b] = Served]
    /\ UNCHANGED <<vars, writer, stolen>>

\* mark_cooldown or mark_disabled of the pool, called directly.
BridgeRefused(b) ==
    LET c == bridge[b].cred IN
    /\ bridge[b].pc = "calling"
    /\ Unlocked(c)
    /\ \E refused \in {CoolDown(row[c]), Disable(row[c])} : Store(c, refused)
    /\ Steal(c, IF Live(c) THEN row[c].leases - LessOne(row[c].leases) ELSE 0)
    /\ bridge' = [bridge EXCEPT ![b] = Served]
    /\ UNCHANGED <<lock, req, up, orphans, faults, edits, writer>>

BridgeStep(b) ==
    \/ \E c \in Creds : BridgeStart(b, c)
    \/ BridgeDone(b)
    \/ BridgeRefused(b)

-----------------------------------------------------------------------------
\* Read-modify-write requests.

Read(w, c) ==
    /\ writer[w].pc = "new"
    /\ Live(c)
    /\ writer' = [writer EXCEPT ![w] = [pc |-> "read", cred |-> c, dirty |-> {},
                                        copy |-> [row[c] EXCEPT !.age = 0]]]
    /\ UNCHANGED <<vars, bridge, stolen>>

\* What the endpoints make of the copy: refresh-quota leaves these columns
\* alone, refresh and import revive the credential, PATCH sets the limit.
Edited(copy) ==
    {copy, [copy EXCEPT !.state = "active", !.cool = NoTime]}
        \cup {[copy EXCEPT !.max = n] : n \in Limits}

\* session.get and _apply_domain: an attribute set to the value it has is not
\* written.
Load(w) ==
    LET c == writer[w].cred IN
    /\ writer[w].pc = "read"
    /\ IF Live(c)
       THEN \E new \in Edited(writer[w].copy) :
                writer' = [writer EXCEPT ![w].pc = "loaded", ![w].copy = new,
                               ![w].dirty = {f \in Columns : new[f] # row[c][f]}]
       ELSE writer' = [writer EXCEPT ![w] = [NewWriter EXCEPT !.pc = "done"]]
    /\ UNCHANGED <<vars, bridge, stolen>>

Written(old, copy, dirty) ==
    [[f \in DOMAIN old |-> IF f \in dirty THEN copy[f] ELSE old[f]]
        EXCEPT !.age = 0]

\* The UPDATE waits for the row lock, and finds the row or not.
Flush(w) ==
    LET c == writer[w].cred
        new == Written(row[c], writer[w].copy, writer[w].dirty)
    IN
    /\ writer[w].pc = "loaded"
    /\ Unlocked(c)
    /\ Store(c, new)
    /\ Steal(c, IF Live(c) /\ new.leases < row[c].leases
                THEN row[c].leases - new.leases ELSE 0)
    /\ writer' = [writer EXCEPT ![w] = [NewWriter EXCEPT !.pc = "done"]]
    /\ UNCHANGED <<lock, req, up, orphans, faults, edits, bridge>>

WriterStep(w) == (\E c \in Creds : Read(w, c)) \/ Load(w) \/ Flush(w)

-----------------------------------------------------------------------------
\* mark_cooldown or mark_disabled commits and then fails: the except clause of
\* the lease calls release, a second decrement.
MarkAckLost(r) ==
    LET c == req[r].cred IN
    /\ req[r].pc = "executing"
    /\ Unlocked(c)
    /\ Fault
    /\ \E refused \in {CoolDown(row[c]), Disable(row[c])} : Store(c, refused)
    /\ Steal(c, IF Live(c) THEN row[c].leases - LessOne(row[c].leases) ELSE 0)
    /\ Become(r, [req[r] EXCEPT !.pc = "closing", !.pending = {"generator"}])
    /\ UNCHANGED <<lock, up, orphans, edits, bridge, writer>>

-----------------------------------------------------------------------------
\* A copy holds timestamps, which come nearer as the clock advances.
PoolTick ==
    /\ Tick
    /\ writer' = [w \in Writers |-> [writer[w] EXCEPT !.copy = Older(@), !.copy.age = 0]]
    /\ UNCHANGED <<bridge, stolen>>

PoolInit ==
    /\ Init
    /\ bridge = [b \in Bridges |-> Unserved]
    /\ writer = [w \in Writers |-> NewWriter]
    /\ stolen = [c \in Creds |-> 0]

OthersRest == UNCHANGED <<bridge, writer, stolen>>

LeaseStep ==
    /\ \/ \E r \in Reqs : RequestStep(r)
       \/ \E i \in Instances : InstanceStep(i)
       \/ \E c \in Creds : EditStep(c)
    /\ OthersRest

PoolNext ==
    \/ LeaseStep
    \/ PoolTick
    \/ \E b \in Bridges : BridgeStep(b)
    \/ \E w \in Writers : WriterStep(w)
    \/ \E r \in Reqs : MarkAckLost(r)

\* As in LeaseLifecycle; nobody has to finish a bridge call or a write.
PoolFairness ==
    /\ \A r \in Reqs :
          /\ WF_pvars(Select(r) /\ OthersRest)
          /\ SF_pvars(Settle(r) /\ OthersRest)
          /\ SF_pvars(Close(r) /\ OthersRest)
    /\ \A i \in Instances :
          WF_pvars(Restart(i) /\ OthersRest) /\ WF_pvars(Sweep(i) /\ OthersRest)
    /\ SF_pvars(PoolTick)

PoolSpec == PoolInit /\ [][PoolNext]_pvars /\ PoolFairness

-----------------------------------------------------------------------------
\* Properties.

\* The rows keep their type under every mixture of columns that stale writes
\* can leave, and so do the requests that make them.
PoolTypeOK ==
    /\ TypeOK
    /\ bridge \in [Bridges -> BridgeRequest]
    /\ writer \in [Writers -> WriteRequest]
    /\ stolen \in [Creds -> Nat]

\* Bridge marks, stale writes and lost acknowledgements are the only ways in
\* which concurrent_leases gets lower than the number of requests that use the
\* credential: everything else, sweeps included, preserves the count.
UndercountExplained ==
    \A c \in Creds : Live(c) =>
        Cardinality(Holders(c)) <= row[c].leases + stolen[c]

\* Whatever these writers left in concurrent_leases, a credential nobody uses
\* is not charged for ever: its count falls to zero, unless somebody uses it
\* again or it is deleted.
Charged(c) == Live(c) /\ row[c].leases > 0 /\ Holders(c) = {}

DriftHeals == \A c \in Creds : Charged(c) ~> ~Charged(c)

\* A private credential becomes visible to others only when its owner shares
\* it (UpdateVisibility is the one step that counts an edit on a live row).
SharedOnlyByPromotion ==
    [][\A c \in Creds :
          Live(c) /\ row[c].vis = "private" /\ Live(c)' /\ row'[c].vis # "private"
              => edits' # edits]_pvars
=============================================================================
