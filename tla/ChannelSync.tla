---------------------------- MODULE ChannelSync ----------------------------
(***************************************************************************)
(* The mirror of the credentials in New API: every endpoint that imports,  *)
(* shares or unshares a credential pushes one channel for it, and an admin *)
(* can push all of them.  A push is a lookup by name and then an update or *)
(* an add.  The handlers never await, so an instance runs one at a time;   *)
(* those of different instances interleave between the HTTP calls.         *)
(*                                                                         *)
(* New API is external: a list of channels with their names, of which the  *)
(* search returns any match or misses it, and whose requests may be        *)
(* processed after the client has given up.                                *)
(***************************************************************************)
EXTENDS Integers, FiniteSets

CONSTANTS
    Creds,      \* credentials of providers New API has a channel type for
    Instances,  \* router processes
    NoCred,     \* "no credential"
    NameOf,     \* [Creds -> names]: of provider, owner and account; of a
                \* credential without owner it is the pusher's, left out here
    MaxOps,     \* bound: operations of owners and admins
    MaxTurns,   \* bound: changes of state that traffic causes
    MaxFaults   \* bound: failing HTTP calls, searches that miss, crashes

ASSUME MirrorAssumption ==
    /\ IsFiniteSet(Creds) /\ NoCred \notin Creds
    /\ IsFiniteSet(Instances) /\ Instances # {}

VARIABLES
    cred,       \* the rows of the credentials
    channels,   \* the channels of New API
    late,       \* requests given up that New API may still process
    task,       \* what the handler of each instance is doing
    ops, turns, faults,
    promoted,   \* history: credentials somebody has put into the pool
    calm        \* history: nothing has disturbed the last push of everything

vars == <<cred, channels, late, task, ops, turns, faults, promoted, calm>>

-----------------------------------------------------------------------------
Credential == [phase  : {"unborn", "live", "gone"},
               active : BOOLEAN,     \* state = "active"
               shared : BOOLEAN]     \* visibility = "enterprise_pool"

NoChannel == 0

Push == [cred : Creds \cup {NoCred}, shared : BOOLEAN, found : Nat]

NoPush == [cred |-> NoCred, shared |-> FALSE, found |-> NoChannel]

Channel == [id : Nat \ {NoChannel}, cred : Creds, shared : BOOLEAN]

\* `todo': credentials as the push of everything read them.
Todo == [cred : Creds, active : BOOLEAN, shared : BOOLEAN]

Resting == [pc |-> "rest", push |-> NoPush, todo |-> {}]

Task == [pc   : {"rest", "read", "find", "put", "next"},
         push : Push,
         todo : SUBSET Todo]

Pushing(pc, c, shared, todo) ==
    [pc |-> pc, todo |-> todo,
     push |-> [cred |-> c, shared |-> shared, found |-> NoChannel]]

Live(c) == cred[c].phase = "live"

Named(n) == {ch \in channels : NameOf[ch.cred] = n}

\* Mutant: the channel done is kept.
AfterPushKeeps(i) ==
    IF task[i].todo = {} THEN Resting ELSE [task[i] EXCEPT !.pc = "next"]

\* One channel done; a push of everything goes on with the next.
AfterPush(i) ==
    IF task[i].todo = {} THEN Resting
    ELSE [pc |-> "next", push |-> NoPush, todo |-> task[i].todo]

Step(i, new) == task' = [task EXCEPT ![i] = new]

Op == ops < MaxOps /\ ops' = ops + 1 /\ calm' = FALSE

Fault == faults < MaxFaults /\ faults' = faults + 1 /\ calm' = FALSE

-----------------------------------------------------------------------------
\* Operations of owners and admins.

\* An import of Codex or a first import of Claude Max: private, and pushed.
Import(i, c) ==
    /\ task[i].pc = "rest" /\ cred[c].phase = "unborn"
    /\ Op
    /\ cred' = [cred EXCEPT ![c] = [phase |-> "live", active |-> TRUE, shared |-> FALSE]]
    /\ Step(i, Pushing("read", c, FALSE, {}))
    /\ UNCHANGED <<channels, late, turns, faults, promoted>>

\* POST /admin/credentials: any visibility, and no push.
CreateByAdmin(i, c, shared) ==
    /\ task[i].pc = "rest" /\ cred[c].phase = "unborn"
    /\ Op
    /\ cred' = [cred EXCEPT ![c] = [phase |-> "live", active |-> TRUE, shared |-> shared]]
    /\ promoted' = IF shared THEN promoted \cup {c} ELSE promoted
    /\ UNCHANGED <<channels, late, task, turns, faults>>

\* A further import of Claude Max revives the credential, keeps its
\* visibility, and pushes it as a private one.
Reimport(i, c) ==
    /\ task[i].pc = "rest" /\ Live(c)
    /\ Op
    /\ cred' = [cred EXCEPT ![c].active = TRUE]
    /\ Step(i, Pushing("read", c, FALSE, {}))
    /\ UNCHANGED <<channels, late, turns, faults, promoted>>

\* share, unshare, promote, demote.
SetShared(i, c, shared) ==
    /\ task[i].pc = "rest" /\ Live(c)
    /\ Op
    /\ cred' = [cred EXCEPT ![c].shared = shared]
    /\ promoted' = IF shared THEN promoted \cup {c} ELSE promoted
    /\ Step(i, Pushing("read", c, shared, {}))
    /\ UNCHANGED <<channels, late, turns, faults>>

\* Nothing is said to New API.
Delete(i, c) ==
    /\ task[i].pc = "rest" /\ Live(c)
    /\ Op
    /\ cred' = [cred EXCEPT ![c] = [phase |-> "gone", active |-> FALSE, shared |-> FALSE]]
    /\ UNCHANGED <<channels, late, task, turns, faults, promoted>>

\* Mutant: the push of everything shares what it pushes.
SnapshotAllShared ==
    {[cred |-> c, active |-> cred[c].active, shared |-> TRUE] :
        c \in {d \in Creds : Live(d)}}

Snapshot ==
    {[cred |-> c, active |-> cred[c].active, shared |-> cred[c].shared] :
        c \in {d \in Creds : Live(d)}}

PushAll(i) ==
    /\ task[i].pc = "rest"
    /\ ops < MaxOps /\ ops' = ops + 1
    /\ Snapshot # {}
    /\ Step(i, [pc |-> "next", push |-> NoPush, todo |-> Snapshot])
    /\ calm' = (late = {} /\ \A j \in Instances : task[j].pc = "rest")
    /\ UNCHANGED <<cred, channels, late, turns, faults, promoted>>

\* Requests cool a credential down, disable it or use it again.
Turn(c) ==
    /\ Live(c)
    /\ turns < MaxTurns /\ turns' = turns + 1
    /\ calm' = FALSE
    /\ cred' = [cred EXCEPT ![c].active = ~@]
    /\ UNCHANGED <<channels, late, task, ops, faults, promoted>>

-----------------------------------------------------------------------------
\* The push.

\* sync_newapi_credential reads the row again; a credential that is not
\* active is skipped.
ReadAgain(i) ==
    /\ task[i].pc = "read"
    /\ LET c == task[i].push.cred IN
       Step(i, IF Live(c) /\ cred[c].active THEN [task[i] EXCEPT !.pc = "find"]
               ELSE Resting)
    /\ UNCHANGED <<cred, channels, late, ops, turns, faults, promoted, calm>>

NextOfAll(i) ==
    /\ task[i].pc = "next"
    /\ \E s \in task[i].todo :
          LET rest == task[i].todo \ {s} IN
          Step(i, CASE s.active -> Pushing("find", s.cred, s.shared, rest)
                    [] ~s.active /\ rest = {} -> Resting
                    [] OTHER -> [task[i] EXCEPT !.todo = rest])
    /\ UNCHANGED <<cred, channels, late, ops, turns, faults, promoted, calm>>

Find(i) ==
    /\ task[i].pc = "find"
    /\ LET N == Named(NameOf[task[i].push.cred]) IN
       \E id \in IF N = {} THEN {NoChannel} ELSE {ch.id : ch \in N} :
           Step(i, [task[i] EXCEPT !.pc = "put", !.push.found = id])
    /\ UNCHANGED <<cred, channels, late, ops, turns, faults, promoted, calm>>

\* Mutant: an update leaves the group of the channel as it is.
ProcessedKeepsGroup(p) ==
    IF p.found = NoChannel
    THEN channels \cup {[id |-> Cardinality(channels) + 1,
                         cred |-> p.cred, shared |-> p.shared]}
    ELSE {IF ch.id = p.found THEN [ch EXCEPT !.cred = p.cred] ELSE ch : ch \in channels}

\* Mutant: the channel is added whether it was found or not.
ProcessedAdds(p) ==
    channels \cup {[id |-> Cardinality(channels) + 1,
                    cred |-> p.cred, shared |-> p.shared]}

\* What New API makes of a request to add or to update a channel.
Processed(p) ==
    IF p.found = NoChannel
    THEN channels \cup {[id |-> Cardinality(channels) + 1,
                         cred |-> p.cred, shared |-> p.shared]}
    ELSE {IF ch.id = p.found THEN [id |-> ch.id, cred |-> p.cred, shared |-> p.shared]
          ELSE ch : ch \in channels}

Put(i) ==
    /\ task[i].pc = "put"
    /\ channels' = Processed(task[i].push)
    /\ Step(i, AfterPush(i))
    /\ UNCHANGED <<cred, late, ops, turns, faults, promoted, calm>>

-----------------------------------------------------------------------------
\* Failures.  They are logged; a push of everything goes on.

FindFails(i) ==
    /\ task[i].pc = "find"
    /\ Fault
    /\ Step(i, AfterPush(i))
    /\ UNCHANGED <<cred, channels, late, ops, turns, promoted>>

\* The search answers 200 without the channel, although there may be one: no
\* items, or a page of matches that does not reach it.  It is then added.
FindMisses(i) ==
    /\ task[i].pc = "find"
    /\ faults < MaxFaults /\ faults' = faults + 1
    /\ Step(i, [task[i] EXCEPT !.pc = "put", !.push.found = NoChannel])
    /\ UNCHANGED <<cred, channels, late, ops, turns, promoted, calm>>

\* The request was refused, or is still under way when the client gives up.
PutFails(i, lost) ==
    /\ task[i].pc = "put"
    /\ Fault
    /\ late' = IF lost THEN late ELSE late \cup {task[i].push}
    /\ Step(i, AfterPush(i))
    /\ UNCHANGED <<cred, channels, ops, turns, promoted>>

ProcessLate(p) ==
    /\ channels' = Processed(p)
    /\ late' = late \ {p}
    /\ UNCHANGED <<cred, task, ops, turns, faults, promoted, calm>>

Crash(i) ==
    /\ task[i].pc # "rest"
    /\ Fault
    /\ late' = IF task[i].pc = "put" THEN late \cup {task[i].push} ELSE late
    /\ Step(i, Resting)
    /\ UNCHANGED <<cred, channels, ops, turns, promoted>>

-----------------------------------------------------------------------------
Init ==
    /\ cred = [c \in Creds |-> [phase |-> "unborn", active |-> FALSE, shared |-> FALSE]]
    /\ channels = {} /\ late = {}
    /\ task = [i \in Instances |-> Resting]
    /\ ops = 0 /\ turns = 0 /\ faults = 0
    /\ promoted = {}
    /\ calm = FALSE

Operation(i) ==
    \/ \E c \in Creds : Import(i, c) \/ Reimport(i, c) \/ Delete(i, c)
    \/ \E c \in Creds, shared \in BOOLEAN :
           CreateByAdmin(i, c, shared) \/ SetShared(i, c, shared)
    \/ PushAll(i)

PushStep(i) == ReadAgain(i) \/ NextOfAll(i) \/ Find(i) \/ Put(i)

Failure(i) ==
    \/ FindFails(i) \/ FindMisses(i) \/ Crash(i)
    \/ \E lost \in BOOLEAN : PutFails(i, lost)

Next ==
    \/ \E i \in Instances : Operation(i) \/ PushStep(i) \/ Failure(i)
    \/ \E c \in Creds : Turn(c)
    \/ \E p \in late : ProcessLate(p)

Spec == Init /\ [][Next]_vars

-----------------------------------------------------------------------------
\* Properties.

\* Rows, channels and handlers stay in their types; a handler that has a
\* channel to push has exactly one, and channel ids are not given twice.
TypeOK ==
    /\ cred \in [Creds -> Credential]
    /\ channels \subseteq Channel
    /\ \A x, y \in channels : x.id = y.id => x = y
    /\ late \subseteq Push
    /\ task \in [Instances -> Task]
    /\ \A i \in Instances :
           task[i].push # NoPush <=> task[i].pc \in {"read", "find", "put"}
    /\ promoted \subseteq Creds
    /\ calm \in BOOLEAN

\* New API offers a credential to the enterprise group only if its owner or
\* an admin has put it into the pool at some time: whatever the handlers
\* interleave with, no push mixes the group of one credential with the
\* address of another, although both may share a name.
ExposedOnlyIfPromoted ==
    \A ch \in channels : ch.shared => ch.cred \in promoted

\* Lookup and add are two calls, so instances may add a channel twice; but
\* only as often as they overlap, a search misses the channel, or a request
\* is processed late.
DuplicatesBounded ==
    \A c \in Creds :
        Cardinality(Named(NameOf[c])) <= Cardinality(Instances) + faults

\* A push of everything repairs whatever went wrong before: once it has
\* ended and nothing but searches that miss came between, every active credential whose name no
\* other one has is mirrored by a channel with the right group.
Alone(c) == \A d \in Creds : Live(d) /\ NameOf[d] = NameOf[c] => d = c

Mirrored(c) ==
    \E ch \in channels : ch.cred = c /\ ch.shared = cred[c].shared

PushAllRepairs ==
    calm /\ (\A i \in Instances : task[i].pc = "rest")
        => \A c \in Creds : Live(c) /\ cred[c].active /\ Alone(c) => Mirrored(c)

\* Unsharing withdraws the channel from the enterprise group: with no
\* failure, once the handlers are done, no private credential is offered.
UnshareWithdraws ==
    faults = 0 /\ (\A i \in Instances : task[i].pc = "rest")
        => \A c \in Creds : Live(c) /\ ~cred[c].shared
               => \A ch \in channels : ch.cred = c => ~ch.shared
=============================================================================
