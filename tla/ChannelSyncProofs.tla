-------------------------- MODULE ChannelSyncProofs --------------------------
(***************************************************************************)
(* The mirror of the credentials: types, who is exposed, what a push of    *)
(* everything repairs, and how many channels a name can have; for any      *)
(* credentials, instances and bounds, and any names.                       *)
(***************************************************************************)
EXTENDS ChannelSync, FiniteSetTheorems, TLAPS

-----------------------------------------------------------------------------
(* Types                                                                   *)

\* What the handler of an instance may be doing.
Busy == {"read", "find", "put"}

TaskLike(t) ==
    /\ t \in Task
    /\ t.push # NoPush <=> t.pc \in Busy
    /\ t.pc \in Busy => t.push.cred \in Creds
    /\ t.pc = "rest" => t.todo = {}

CredOK == /\ cred \in [Creds -> Credential]
          /\ promoted \subseteq Creds /\ calm \in BOOLEAN /\ faults \in Nat

\* Ids are counted up: the number of channels is above all of them or the last.
ChannelsOK ==
    /\ channels \subseteq Channel /\ IsFiniteSet(channels)
    /\ \A x, y \in channels : x.id = y.id => x = y
    /\ \A x \in channels : x.id <= Cardinality(channels)

LateOK == late \subseteq Push /\ \A p \in late : p.cred \in Creds

\* A search that finds a channel, none, or none although there is one.
LooksUp(i) == Find(i) \/ FindMisses(i)

TaskOK == task \in [Instances -> Task] /\ \A i \in Instances : TaskLike(task[i])

Shape == CredOK /\ ChannelsOK /\ LateOK /\ TaskOK

\* The shape has the types in it.
LEMMA ShapeTypes == Shape => TypeOK
BY DEF Shape, CredOK, ChannelsOK, LateOK, TaskOK, TaskLike, Busy, TypeOK

\* Nothing is there at the start.
LEMMA ShapeStart == Init => Shape
<1> SUFFICES ASSUME Init PROVE Shape
  OBVIOUS
<1>1. Resting \in Task /\ TaskLike(Resting)
  BY DEF Resting, Task, Push, NoPush, NoChannel, TaskLike, Busy
<1>2. CredOK /\ LateOK /\ TaskOK
  BY <1>1 DEF Init, CredOK, LateOK, TaskOK, Credential
<1>3. ChannelsOK
  BY FS_EmptySet DEF Init, ChannelsOK
<1> QED
  BY <1>2, <1>3 DEF Shape

\* The handler of one instance goes on; the others do not.
LEMMA StepTyped ==
    ASSUME TaskOK, NEW i \in Instances, NEW new, TaskLike(new), Step(i, new)
    PROVE  /\ TaskOK'
           /\ task'[i] = new
           /\ \A j \in Instances \ {i} : task'[j] = task[j]
BY DEF TaskOK, TaskLike, Step

\* The tasks a handler can go on with.
LEMMA TasksLike ==
    ASSUME Shape, NEW i \in Instances
    PROVE  /\ TaskLike(Resting) /\ TaskLike(AfterPush(i))
           /\ \A pc \in Busy, c \in Creds, shared \in BOOLEAN, todo \in SUBSET Todo :
                  TaskLike(Pushing(pc, c, shared, todo))
           /\ task[i].pc \in Busy => \A pc \in Busy : TaskLike([task[i] EXCEPT !.pc = pc])
<1> USE DEF Resting, Task, Push, NoPush, NoChannel, TaskLike, Busy
<1>1. task[i] \in Task /\ TaskLike(task[i])
  BY DEF Shape, TaskOK
<1>2. TaskLike(Resting)
  OBVIOUS
<1>3. TaskLike(AfterPush(i))
  BY <1>1, <1>2 DEF AfterPush
<1>4. \A pc \in Busy, c \in Creds, shared \in BOOLEAN, todo \in SUBSET Todo :
          TaskLike(Pushing(pc, c, shared, todo))
  BY MirrorAssumption DEF Pushing
<1>5. task[i].pc \in Busy => \A pc \in Busy : TaskLike([task[i] EXCEPT !.pc = pc])
  BY <1>1
<1> QED
  BY <1>2, <1>3, <1>4, <1>5

\* A request that is processed keeps the channels apart.
LEMMA ProcessedOK ==
    ASSUME ChannelsOK, NEW p \in Push, p.cred \in Creds
    PROVE  /\ Processed(p) \subseteq Channel /\ IsFiniteSet(Processed(p))
           /\ \A x, y \in Processed(p) : x.id = y.id => x = y
           /\ \A x \in Processed(p) : x.id <= Cardinality(Processed(p))
<1> DEFINE N == Cardinality(channels)
           new == [id |-> N + 1, cred |-> p.cred, shared |-> p.shared]
           F(x) == IF x.id = p.found THEN [id |-> x.id, cred |-> p.cred, shared |-> p.shared]
                   ELSE x
<1>1. N \in Nat /\ p.shared \in BOOLEAN
  BY FS_CardinalityType DEF ChannelsOK, Push
<1>2. CASE p.found = NoChannel
  <2>1. Processed(p) = channels \cup {new}
    BY <1>2 DEF Processed
  <2>2. new \in Channel /\ new.id = N + 1
    BY <1>1 DEF Channel, NoChannel
  <2>3. \A x \in channels : x.id \in Nat /\ x.id <= N
    BY DEF ChannelsOK, Channel
  <2>4. new \notin channels
    <3> HIDE DEF new, N
    <3>1. N + 1 > N
      BY <1>1
    <3> QED
      BY <1>1, <2>2, <2>3, <3>1
  <2>5. IsFiniteSet(Processed(p)) /\ Cardinality(Processed(p)) = N + 1
    <3> HIDE DEF new
    <3>1. IsFiniteSet(channels)
      BY DEF ChannelsOK
    <3> QED
      BY <2>1, <2>4, <3>1, FS_AddElement
  <2> HIDE DEF new, N
  <2>6. \A x, y \in Processed(p) : x.id = y.id => x = y
    BY <1>1, <2>1, <2>2, <2>3 DEF ChannelsOK
  <2>7. \A x \in Processed(p) : x.id <= N + 1
    BY <1>1, <2>1, <2>2, <2>3
  <2> QED
    BY <2>1, <2>2, <2>5, <2>6, <2>7 DEF ChannelsOK
<1>3. CASE p.found # NoChannel
  <2>1. Processed(p) = {F(x) : x \in channels}
    BY <1>3 DEF Processed
  <2>2. \A x \in channels : F(x) \in Channel /\ F(x).id = x.id
    BY <1>1 DEF ChannelsOK, Channel
  <2> DEFINE f == [x \in channels |-> F(x)]
  <2> HIDE DEF F
  <2>3. f \in Surjection(channels, Processed(p))
    BY <2>1 DEF Surjection
  <2>4. f \in Injection(channels, Processed(p))
    <3>1. f \in [channels -> Processed(p)]
      BY <2>1
    <3>2. \A x, y \in channels : F(x) = F(y) => x = y
      BY <2>2 DEF ChannelsOK
    <3> QED
      BY <3>1, <3>2 DEF Injection, IsInjective
  <2> HIDE DEF f
  <2>5. IsFiniteSet(Processed(p))
    BY <2>3, FS_Surjection DEF ChannelsOK
  <2>6. N <= Cardinality(Processed(p))
    BY <2>4, <2>5, FS_Injection
  <2>7. Cardinality(Processed(p)) \in Nat
    BY <2>5, FS_CardinalityType
  <2>8. \A x \in channels : x.id \in Nat /\ x.id <= N
    BY DEF ChannelsOK, Channel
  <2> HIDE DEF N
  <2>9. \A x \in Processed(p) : x.id <= Cardinality(Processed(p))
    BY <1>1, <2>1, <2>2, <2>6, <2>7, <2>8
  <2>10. \A x, y \in Processed(p) : x.id = y.id => x = y
    BY <2>1, <2>2 DEF ChannelsOK
  <2> QED
    BY <2>1, <2>2, <2>5, <2>9, <2>10
<1> QED
  BY <1>2, <1>3

\* Every action keeps the shape.
LEMMA ShapeStep == Shape /\ [Next]_vars => Shape'
<1> SUFFICES ASSUME Shape, [Next]_vars PROVE Shape'
  OBVIOUS
<1> USE DEF Shape
<1>1. ASSUME NEW i \in Instances, NEW c \in Creds, Import(i, c) PROVE Shape'
  <2>1. CredOK'
    BY <1>1 DEF Import, Op, CredOK, Credential
  <2>2. TaskOK'
    BY <1>1, StepTyped, TasksLike DEF Import, Busy
  <2> QED
    BY <1>1, <2>1, <2>2 DEF Import, ChannelsOK, LateOK
<1>2. ASSUME NEW i \in Instances, NEW c \in Creds, Reimport(i, c) PROVE Shape'
  <2>1. CredOK'
    BY <1>2 DEF Reimport, Op, CredOK, Credential
  <2>2. TaskOK'
    BY <1>2, StepTyped, TasksLike DEF Reimport, Busy
  <2> QED
    BY <1>2, <2>1, <2>2 DEF Reimport, ChannelsOK, LateOK
<1>3. ASSUME NEW i \in Instances, NEW c \in Creds, Delete(i, c) PROVE Shape'
  <2>1. CredOK'
    BY <1>3 DEF Delete, Op, CredOK, Credential
  <2> QED
    BY <1>3, <2>1 DEF Delete, ChannelsOK, LateOK, TaskOK
<1>4. ASSUME NEW i \in Instances, NEW c \in Creds, NEW shared \in BOOLEAN,
             CreateByAdmin(i, c, shared)
      PROVE  Shape'
  <2>1. CredOK'
    BY <1>4 DEF CreateByAdmin, Op, CredOK, Credential
  <2> QED
    BY <1>4, <2>1 DEF CreateByAdmin, ChannelsOK, LateOK, TaskOK
<1>5. ASSUME NEW i \in Instances, NEW c \in Creds, NEW shared \in BOOLEAN,
             SetShared(i, c, shared)
      PROVE  Shape'
  <2>1. CredOK'
    BY <1>5 DEF SetShared, Op, CredOK, Credential
  <2>2. TaskOK'
    BY <1>5, StepTyped, TasksLike DEF SetShared, Busy
  <2> QED
    BY <1>5, <2>1, <2>2 DEF SetShared, ChannelsOK, LateOK
<1>6. ASSUME NEW i \in Instances, PushAll(i) PROVE Shape'
  <2>1. Snapshot \in SUBSET Todo
    BY DEF Snapshot, Todo, CredOK, Credential
  <2>2. TaskLike([pc |-> "next", push |-> NoPush, todo |-> Snapshot])
    BY <2>1 DEF TaskLike, Task, Push, NoPush, NoChannel, Busy
  <2>3. TaskOK'
    BY <1>6, <2>2, StepTyped DEF PushAll
  <2>4. CredOK'
    BY <1>6 DEF PushAll, CredOK
  <2> QED
    BY <1>6, <2>3, <2>4 DEF PushAll, ChannelsOK, LateOK
<1>7. ASSUME NEW c \in Creds, Turn(c) PROVE Shape'
  <2>1. CredOK'
    BY <1>7 DEF Turn, CredOK, Credential
  <2> QED
    BY <1>7, <2>1 DEF Turn, ChannelsOK, LateOK, TaskOK
<1>8. ASSUME NEW i \in Instances, ReadAgain(i) PROVE Shape'
  <2>1. TaskOK'
    BY <1>8, StepTyped, TasksLike DEF ReadAgain, Busy
  <2> QED
    BY <1>8, <2>1 DEF ReadAgain, CredOK, ChannelsOK, LateOK
<1>9. ASSUME NEW i \in Instances, NextOfAll(i) PROVE Shape'
  <2>1. task[i] \in Task /\ TaskLike(task[i]) /\ task[i].pc = "next"
    BY <1>9 DEF TaskOK, NextOfAll
  <2>2. PICK s \in task[i].todo :
           Step(i, CASE s.active -> Pushing("find", s.cred, s.shared, task[i].todo \ {s})
                     [] ~s.active /\ task[i].todo \ {s} = {} -> Resting
                     [] OTHER -> [task[i] EXCEPT !.todo = task[i].todo \ {s}])
    BY <1>9 DEF NextOfAll
  <2>3. s.cred \in Creds /\ s.shared \in BOOLEAN /\ task[i].todo \ {s} \in SUBSET Todo
    BY <2>1 DEF Task, Todo
  <2>4. TaskLike(Pushing("find", s.cred, s.shared, task[i].todo \ {s})) /\ TaskLike(Resting)
    BY <2>3, TasksLike DEF Busy
  <2>5. TaskLike([task[i] EXCEPT !.todo = task[i].todo \ {s}])
    BY <2>1 DEF TaskLike, Task, Busy
  <2>6. TaskOK'
    BY <2>2, <2>4, <2>5, StepTyped
  <2> QED
    BY <1>9, <2>6 DEF NextOfAll, CredOK, ChannelsOK, LateOK
<1>10. ASSUME NEW i \in Instances, LooksUp(i) PROVE Shape'
  <2>1. task[i] \in Task /\ TaskLike(task[i]) /\ task[i].pc = "find"
    BY <1>10 DEF TaskOK, LooksUp, Find, FindMisses
  <2>2. PICK id \in Nat : Step(i, [task[i] EXCEPT !.pc = "put", !.push.found = id])
    <3>1. Find(i) => \E id \in Nat : Step(i, [task[i] EXCEPT !.pc = "put", !.push.found = id])
      BY DEF Find, Named, NoChannel, ChannelsOK, Channel
    <3>2. FindMisses(i) =>
              \E id \in Nat : Step(i, [task[i] EXCEPT !.pc = "put", !.push.found = id])
      BY DEF FindMisses, NoChannel
    <3> QED
      BY <1>10, <3>1, <3>2 DEF LooksUp
  <2>3. TaskLike([task[i] EXCEPT !.pc = "put", !.push.found = id])
    BY <2>1, MirrorAssumption DEF TaskLike, Task, Push, NoPush, Busy
  <2>4. TaskOK'
    BY <2>2, <2>3, StepTyped
  <2>5. CredOK'
    <3>1. UNCHANGED <<cred, promoted, calm>>
      BY <1>10 DEF LooksUp, Find, FindMisses
    <3>2. faults' = faults \/ faults' = faults + 1
      BY <1>10 DEF LooksUp, Find, FindMisses
    <3>3. faults' \in Nat
      BY <3>2 DEF CredOK
    <3> QED
      BY <3>1, <3>3 DEF CredOK
  <2> QED
    BY <1>10, <2>4, <2>5 DEF LooksUp, Find, FindMisses, ChannelsOK, LateOK
<1>11. ASSUME NEW i \in Instances, Put(i) PROVE Shape'
  <2>1. task[i].push \in Push /\ task[i].push.cred \in Creds
    BY <1>11 DEF TaskOK, TaskLike, Task, Put, Busy
  <2>2. TaskOK'
    BY <1>11, StepTyped, TasksLike DEF Put
  <2>3. ChannelsOK'
    BY <1>11, <2>1, ProcessedOK DEF Put, ChannelsOK
  <2> QED
    BY <1>11, <2>2, <2>3 DEF Put, CredOK, LateOK
<1>12. ASSUME NEW i \in Instances, FindFails(i) PROVE Shape'
  <2>1. TaskOK'
    BY <1>12, StepTyped, TasksLike DEF FindFails
  <2>2. CredOK'
    <3>1. faults' = faults + 1 /\ calm' = FALSE /\ cred' = cred /\ promoted' = promoted
      BY <1>12 DEF FindFails, Fault
    <3>2. faults' \in Nat
      BY <3>1 DEF CredOK
    <3>3. calm' \in BOOLEAN
      BY <3>1
    <3> QED
      BY <3>1, <3>2, <3>3 DEF CredOK
  <2> QED
    BY <1>12, <2>1, <2>2 DEF FindFails, ChannelsOK, LateOK
<1>13. ASSUME NEW i \in Instances, NEW lost \in BOOLEAN, PutFails(i, lost) PROVE Shape'
  <2>1. task[i].push \in Push /\ task[i].push.cred \in Creds
    BY <1>13 DEF TaskOK, TaskLike, Task, PutFails, Busy
  <2>2. TaskOK'
    BY <1>13, StepTyped, TasksLike DEF PutFails
  <2>3. LateOK'
    BY <1>13, <2>1 DEF PutFails, LateOK
  <2>4. CredOK'
    <3>1. faults' = faults + 1 /\ calm' = FALSE /\ cred' = cred /\ promoted' = promoted
      BY <1>13 DEF PutFails, Fault
    <3>2. faults' \in Nat
      BY <3>1 DEF CredOK
    <3>3. calm' \in BOOLEAN
      BY <3>1
    <3> QED
      BY <3>1, <3>2, <3>3 DEF CredOK
  <2> QED
    BY <1>13, <2>2, <2>3, <2>4 DEF PutFails, ChannelsOK
<1>14. ASSUME NEW p \in late, ProcessLate(p) PROVE Shape'
  <2>1. p \in Push /\ p.cred \in Creds
    BY DEF LateOK
  <2>2. ChannelsOK'
    BY <1>14, <2>1, ProcessedOK DEF ProcessLate, ChannelsOK
  <2> QED
    BY <1>14, <2>2 DEF ProcessLate, CredOK, LateOK, TaskOK
<1>15. ASSUME NEW i \in Instances, Crash(i) PROVE Shape'
  <2>1. task[i].pc = "put" => task[i].push \in Push /\ task[i].push.cred \in Creds
    BY DEF TaskOK, TaskLike, Task, Busy
  <2>2. TaskOK'
    BY <1>15, StepTyped, TasksLike DEF Crash
  <2>3. LateOK'
    BY <1>15, <2>1 DEF Crash, LateOK
  <2>4. CredOK'
    <3>1. faults' = faults + 1 /\ calm' = FALSE /\ cred' = cred /\ promoted' = promoted
      BY <1>15 DEF Crash, Fault
    <3>2. faults' \in Nat
      BY <3>1 DEF CredOK
    <3>3. calm' \in BOOLEAN
      BY <3>1
    <3> QED
      BY <3>1, <3>2, <3>3 DEF CredOK
  <2> QED
    BY <1>15, <2>2, <2>3, <2>4 DEF Crash, ChannelsOK
<1>16. CASE UNCHANGED vars
  BY <1>16 DEF vars, CredOK, ChannelsOK, LateOK, TaskOK
<1> QED
  BY <1>1, <1>2, <1>3, <1>4, <1>5, <1>6, <1>7, <1>8, <1>9, <1>10, <1>11, <1>12, <1>13,
     <1>14, <1>15, <1>16 DEF Next, Operation, PushStep, Failure, LooksUp

\* Rows, channels and handlers keep their types, and no two channels have one id,
\* whatever pushes, failures and late requests interleave.
THEOREM MirrorTypeCorrect == Spec => []TypeOK
BY ShapeStart, ShapeStep, ShapeTypes, PTL DEF Spec

-----------------------------------------------------------------------------
(* Exposure                                                                *)

\* What says that a credential is shared says it of one that was promoted: rows,
\* pushes, what a push of everything has read, late requests, channels.
PushOfPromoted(p) == p.shared => p.cred \in promoted

TaskOfPromoted(t) ==
    PushOfPromoted(t.push) /\ \A s \in t.todo : s.shared => s.cred \in promoted

RowsOfPromoted == \A c \in Creds : cred[c].shared => c \in promoted
TasksOfPromoted == \A i \in Instances : TaskOfPromoted(task[i])
LateOfPromoted == \A p \in late : PushOfPromoted(p)

ExposureInv ==
    RowsOfPromoted /\ TasksOfPromoted /\ LateOfPromoted /\ ExposedOnlyIfPromoted

\* The tasks a handler can go on with are as good.
LEMMA TasksPromoted ==
    ASSUME Shape, ExposureInv, NEW i \in Instances
    PROVE  /\ TaskOfPromoted(Resting) /\ TaskOfPromoted(AfterPush(i))
           /\ \A pc, c, shared, todo :
                  (shared => c \in promoted) /\ (\A s \in todo : s.shared => s.cred \in promoted)
                      => TaskOfPromoted(Pushing(pc, c, shared, todo))
           /\ \A pc : TaskOfPromoted([task[i] EXCEPT !.pc = pc])
<1> USE DEF TaskOfPromoted, PushOfPromoted, Resting, NoPush
<1>1. task[i] \in Task /\ TaskOfPromoted(task[i])
  BY DEF Shape, TaskOK, ExposureInv, TasksOfPromoted
<1>2. TaskOfPromoted(Resting)
  OBVIOUS
<1>3. TaskOfPromoted(AfterPush(i))
  BY <1>1, <1>2 DEF AfterPush
<1>4. \A pc, c, shared, todo :
          (shared => c \in promoted) /\ (\A s \in todo : s.shared => s.cred \in promoted)
              => TaskOfPromoted(Pushing(pc, c, shared, todo))
  BY DEF Pushing
<1>5. \A pc : TaskOfPromoted([task[i] EXCEPT !.pc = pc])
  BY <1>1 DEF Task
<1> QED
  BY <1>2, <1>3, <1>4, <1>5

\* A handler goes on while promotions grow.
LEMMA StepPromoted ==
    ASSUME Shape, ExposureInv, promoted \subseteq promoted',
           NEW i \in Instances, NEW new, Step(i, new),
           new.push.shared => new.push.cred \in promoted',
           \A s \in new.todo : s.shared => s.cred \in promoted'
    PROVE  TasksOfPromoted'
<1>1. task'[i] = new /\ \A j \in Instances \ {i} : task'[j] = task[j]
  BY DEF Shape, TaskOK, Step
<1> QED
  BY <1>1 DEF ExposureInv, TasksOfPromoted, TaskOfPromoted, PushOfPromoted

\* A request that is processed leaves or writes the group and the credential of
\* one push together.
LEMMA ProcessedPromoted ==
    ASSUME ExposedOnlyIfPromoted, NEW p, PushOfPromoted(p), promoted' = promoted,
           channels' = Processed(p)
    PROVE  ExposedOnlyIfPromoted'
BY DEF ExposedOnlyIfPromoted, PushOfPromoted, Processed

\* Every action keeps it.
LEMMA ExposureStep == Shape /\ ExposureInv /\ [Next]_vars => ExposureInv'
<1> SUFFICES ASSUME Shape, ExposureInv, [Next]_vars PROVE ExposureInv'
  OBVIOUS
<1> USE DEF ExposureInv
<1>1. ASSUME NEW i \in Instances, NEW new, Step(i, new), TaskOfPromoted(new),
             UNCHANGED promoted
      PROVE  TasksOfPromoted'
  BY <1>1, StepPromoted DEF TaskOfPromoted, PushOfPromoted
<1>2. ASSUME UNCHANGED <<channels, promoted>> PROVE ExposedOnlyIfPromoted'
  BY <1>2 DEF ExposedOnlyIfPromoted
<1>3. ASSUME UNCHANGED <<late, promoted>> PROVE LateOfPromoted'
  BY <1>3 DEF LateOfPromoted, PushOfPromoted
<1>4. ASSUME UNCHANGED <<cred, promoted>> PROVE RowsOfPromoted'
  BY <1>4 DEF RowsOfPromoted
<1>5. ASSUME NEW i \in Instances, NEW c \in Creds, Import(i, c) PROVE ExposureInv'
  <2>1. RowsOfPromoted'
    BY <1>5 DEF Import, RowsOfPromoted, Shape, CredOK
  <2>2. TasksOfPromoted'
    BY <1>1, <1>5, TasksPromoted DEF Import
  <2> QED
    BY <1>2, <1>3, <1>5, <2>1, <2>2 DEF Import
<1>6. ASSUME NEW i \in Instances, NEW c \in Creds, Reimport(i, c) PROVE ExposureInv'
  <2>1. RowsOfPromoted'
    BY <1>6 DEF Reimport, RowsOfPromoted, Shape, CredOK, Credential
  <2>2. TasksOfPromoted'
    BY <1>1, <1>6, TasksPromoted DEF Reimport
  <2> QED
    BY <1>2, <1>3, <1>6, <2>1, <2>2 DEF Reimport
<1>7. ASSUME NEW i \in Instances, NEW c \in Creds, Delete(i, c) PROVE ExposureInv'
  <2>1. RowsOfPromoted'
    BY <1>7 DEF Delete, RowsOfPromoted, Shape, CredOK
  <2> QED
    BY <1>2, <1>3, <1>7, <2>1 DEF Delete, TasksOfPromoted, TaskOfPromoted, PushOfPromoted
<1>8. ASSUME NEW c \in Creds, NEW shared \in BOOLEAN, cred'[c].shared = shared,
             \A d \in Creds \ {c} : cred'[d] = cred[d],
             promoted' = IF shared THEN promoted \cup {c} ELSE promoted,
             UNCHANGED <<channels, late>>
      PROVE  /\ RowsOfPromoted' /\ LateOfPromoted' /\ ExposedOnlyIfPromoted'
             /\ promoted \subseteq promoted' /\ (shared => c \in promoted')
  <2>1. promoted \subseteq promoted' /\ (shared => c \in promoted')
    BY <1>8
  <2>2. RowsOfPromoted'
    BY <1>8, <2>1 DEF RowsOfPromoted
  <2>3. LateOfPromoted' /\ ExposedOnlyIfPromoted'
    BY <1>8, <2>1 DEF LateOfPromoted, PushOfPromoted, ExposedOnlyIfPromoted
  <2> QED
    BY <2>1, <2>2, <2>3
<1>9. ASSUME NEW i \in Instances, NEW c \in Creds, NEW shared \in BOOLEAN,
             CreateByAdmin(i, c, shared)
      PROVE  ExposureInv'
  <2>1. cred'[c].shared = shared /\ \A d \in Creds \ {c} : cred'[d] = cred[d]
    BY <1>9 DEF CreateByAdmin, Shape, CredOK
  <2>2. /\ RowsOfPromoted' /\ LateOfPromoted' /\ ExposedOnlyIfPromoted'
        /\ promoted \subseteq promoted'
    BY <1>8, <1>9, <2>1 DEF CreateByAdmin
  <2>3. TasksOfPromoted'
    BY <1>9, <2>2 DEF CreateByAdmin, TasksOfPromoted, TaskOfPromoted, PushOfPromoted
  <2> QED
    BY <2>2, <2>3
<1>10. ASSUME NEW i \in Instances, NEW c \in Creds, NEW shared \in BOOLEAN,
              SetShared(i, c, shared)
       PROVE  ExposureInv'
  <2>1. cred'[c].shared = shared /\ \A d \in Creds \ {c} : cred'[d] = cred[d]
    BY <1>10 DEF SetShared, Shape, CredOK, Credential
  <2>2. /\ RowsOfPromoted' /\ LateOfPromoted' /\ ExposedOnlyIfPromoted'
        /\ promoted \subseteq promoted' /\ (shared => c \in promoted')
    BY <1>8, <1>10, <2>1 DEF SetShared
  <2>3. TasksOfPromoted'
    BY <1>10, <2>2, StepPromoted DEF SetShared, Pushing
  <2> QED
    BY <2>2, <2>3
<1>11. ASSUME NEW i \in Instances, PushAll(i) PROVE ExposureInv'
  <2>1. TaskOfPromoted([pc |-> "next", push |-> NoPush, todo |-> Snapshot])
    BY DEF TaskOfPromoted, PushOfPromoted, NoPush, Snapshot, RowsOfPromoted
  <2>2. TasksOfPromoted'
    BY <1>1, <1>11, <2>1 DEF PushAll
  <2> QED
    BY <1>2, <1>3, <1>4, <1>11, <2>2 DEF PushAll
<1>12. ASSUME NEW c \in Creds, Turn(c) PROVE ExposureInv'
  <2>1. \A d \in Creds : cred'[d].shared = cred[d].shared
    BY <1>12 DEF Turn, Shape, CredOK, Credential
  <2> QED
    BY <1>2, <1>3, <1>12, <2>1
       DEF Turn, RowsOfPromoted, TasksOfPromoted, TaskOfPromoted, PushOfPromoted
<1>13. ASSUME NEW i \in Instances, ReadAgain(i) PROVE ExposureInv'
  <2>1. TasksOfPromoted'
    BY <1>1, <1>13, TasksPromoted DEF ReadAgain
  <2> QED
    BY <1>2, <1>3, <1>4, <1>13, <2>1 DEF ReadAgain
<1>14. ASSUME NEW i \in Instances, NextOfAll(i) PROVE ExposureInv'
  <2>1. task[i] \in Task /\ TaskOfPromoted(task[i])
    BY DEF Shape, TaskOK, TasksOfPromoted
  <2>2. PICK s \in task[i].todo :
           Step(i, CASE s.active -> Pushing("find", s.cred, s.shared, task[i].todo \ {s})
                     [] ~s.active /\ task[i].todo \ {s} = {} -> Resting
                     [] OTHER -> [task[i] EXCEPT !.todo = task[i].todo \ {s}])
    BY <1>14 DEF NextOfAll
  <2>3. TaskOfPromoted(Pushing("find", s.cred, s.shared, task[i].todo \ {s}))
    BY <2>1 DEF TaskOfPromoted, PushOfPromoted, Pushing
  <2>4. TaskOfPromoted([task[i] EXCEPT !.todo = task[i].todo \ {s}])
    BY <2>1 DEF TaskOfPromoted, PushOfPromoted, Task
  <2>5. TasksOfPromoted'
    BY <1>1, <1>14, <2>2, <2>3, <2>4, TasksPromoted DEF NextOfAll
  <2> QED
    BY <1>2, <1>3, <1>4, <1>14, <2>5 DEF NextOfAll
<1>15. ASSUME NEW i \in Instances, LooksUp(i) PROVE ExposureInv'
  <2>1. task[i] \in Task /\ TaskOfPromoted(task[i])
    BY DEF Shape, TaskOK, TasksOfPromoted
  <2>2. PICK id : Step(i, [task[i] EXCEPT !.pc = "put", !.push.found = id])
    BY <1>15 DEF LooksUp, Find, FindMisses
  <2>3. TaskOfPromoted([task[i] EXCEPT !.pc = "put", !.push.found = id])
    BY <2>1 DEF TaskOfPromoted, PushOfPromoted, Task, Push
  <2>4. TasksOfPromoted'
    BY <1>1, <1>15, <2>2, <2>3 DEF LooksUp, Find, FindMisses
  <2> QED
    BY <1>2, <1>3, <1>4, <1>15, <2>4 DEF LooksUp, Find, FindMisses
<1>16. ASSUME NEW i \in Instances, Put(i) PROVE ExposureInv'
  <2>1. TasksOfPromoted'
    BY <1>1, <1>16, TasksPromoted DEF Put
  <2>2. ExposedOnlyIfPromoted'
    BY <1>16, ProcessedPromoted DEF Put, TasksOfPromoted, TaskOfPromoted
  <2> QED
    BY <1>3, <1>4, <1>16, <2>1, <2>2 DEF Put
<1>17. ASSUME NEW i \in Instances, FindFails(i) PROVE ExposureInv'
  <2>1. TasksOfPromoted'
    BY <1>1, <1>17, TasksPromoted DEF FindFails
  <2> QED
    BY <1>2, <1>3, <1>4, <1>17, <2>1 DEF FindFails
<1>18. ASSUME NEW i \in Instances, NEW lost \in BOOLEAN, PutFails(i, lost)
       PROVE  ExposureInv'
  <2>1. TasksOfPromoted'
    BY <1>1, <1>18, TasksPromoted DEF PutFails
  <2>2. LateOfPromoted'
    BY <1>18 DEF PutFails, LateOfPromoted, TasksOfPromoted, TaskOfPromoted, PushOfPromoted
  <2> QED
    BY <1>2, <1>4, <1>18, <2>1, <2>2 DEF PutFails
<1>19. ASSUME NEW p \in late, ProcessLate(p) PROVE ExposureInv'
  <2>1. ExposedOnlyIfPromoted'
    BY <1>19, ProcessedPromoted DEF ProcessLate, LateOfPromoted
  <2> QED
    BY <1>4, <1>19, <2>1 DEF ProcessLate, LateOfPromoted, TasksOfPromoted, TaskOfPromoted,
                             PushOfPromoted
<1>20. ASSUME NEW i \in Instances, Crash(i) PROVE ExposureInv'
  <2>1. TasksOfPromoted'
    BY <1>1, <1>20, TasksPromoted DEF Crash
  <2>2. LateOfPromoted'
    BY <1>20 DEF Crash, LateOfPromoted, TasksOfPromoted, TaskOfPromoted, PushOfPromoted
  <2> QED
    BY <1>2, <1>4, <1>20, <2>1, <2>2 DEF Crash
<1>21. CASE UNCHANGED vars
  BY <1>2, <1>3, <1>4, <1>21 DEF vars, TasksOfPromoted, TaskOfPromoted, PushOfPromoted
<1> QED
  BY <1>5, <1>6, <1>7, <1>9, <1>10, <1>11, <1>12, <1>13, <1>14, <1>15, <1>16, <1>17, <1>18,
     <1>19, <1>20, <1>21 DEF Next, Operation, PushStep, Failure, LooksUp

\* New API offers to the enterprise group only what somebody has put into the pool
\* (newapi.py writes the key and the group of one credential in one request).
THEOREM ExposedOnlyIfPromotedAlways == Spec => []ExposedOnlyIfPromoted
<1>1. Init => ExposureInv
  BY DEF Init, ExposureInv, RowsOfPromoted, TasksOfPromoted, TaskOfPromoted, PushOfPromoted,
         LateOfPromoted, ExposedOnlyIfPromoted, Resting, NoPush
<1>2. ExposureInv => ExposedOnlyIfPromoted
  BY DEF ExposureInv
<1> QED
  BY <1>1, <1>2, ShapeStart, ShapeStep, ExposureStep, PTL DEF Spec

-----------------------------------------------------------------------------
(* Updates                                                                 *)

\* An update is of a channel of the name it is for, although others may have
\* updated it since the lookup.
Aimed(p) ==
    p.found # NoChannel =>
        \E ch \in channels : ch.id = p.found /\ NameOf[ch.cred] = NameOf[p.cred]

AimInv == /\ \A i \in Instances : task[i].pc = "put" => Aimed(task[i].push)
          /\ \A p \in late : Aimed(p)

\* A channel keeps its name and its id.
LEMMA NamesKept ==
    ASSUME ChannelsOK, NEW p \in Push, Aimed(p), NEW ch \in channels
    PROVE  \E new \in Processed(p) : new.id = ch.id /\ NameOf[new.cred] = NameOf[ch.cred]
<1>1. CASE p.found = NoChannel \/ ch.id # p.found
  BY <1>1 DEF Processed
<1>2. CASE p.found # NoChannel /\ ch.id = p.found
  <2>1. NameOf[ch.cred] = NameOf[p.cred]
    BY <1>2 DEF Aimed, ChannelsOK
  <2>2. [id |-> ch.id, cred |-> p.cred, shared |-> p.shared] \in Processed(p)
    BY <1>2 DEF Processed
  <2> QED
    BY <2>1, <2>2
<1> QED
  BY <1>1, <1>2

\* Which steps make a handler ready to write, requests late, and channels.
LEMMA Moves ==
    ASSUME Shape, [Next]_vars
    PROVE  /\ \A j \in Instances : task'[j] = task[j] \/ task'[j].pc # "put" \/ LooksUp(j)
           /\ \A p \in late' :
                  p \in late \/ \E i \in Instances : task[i].pc = "put" /\ p = task[i].push
           /\ \/ channels' = channels
              \/ \E i \in Instances : Put(i)
              \/ \E p \in late : ProcessLate(p)
<1> DEFINE Calmly == \A j \in Instances : task'[j] = task[j] \/ task'[j].pc # "put"
<1>1. ASSUME NEW i \in Instances, NEW new, new.pc # "put", Step(i, new) PROVE Calmly
  BY <1>1 DEF Shape, TaskOK, Step
<1>2. \A i \in Instances : Resting.pc # "put" /\ AfterPush(i).pc # "put"
  BY DEF Resting, AfterPush
<1>3. \A c, shared, todo, pc : Pushing(pc, c, shared, todo).pc = pc
  BY DEF Pushing
<1>4. ASSUME NEW i \in Instances, ReadAgain(i) PROVE Calmly
  <2>1. [task[i] EXCEPT !.pc = "find"].pc = "find"
    BY DEF Shape, TaskOK, Task
  <2> QED
    BY <1>1, <1>2, <1>4, <2>1 DEF ReadAgain
<1>5. ASSUME NEW i \in Instances, NextOfAll(i) PROVE Calmly
  <2>1. PICK s \in task[i].todo :
           Step(i, CASE s.active -> Pushing("find", s.cred, s.shared, task[i].todo \ {s})
                     [] ~s.active /\ task[i].todo \ {s} = {} -> Resting
                     [] OTHER -> [task[i] EXCEPT !.todo = task[i].todo \ {s}])
    BY <1>5 DEF NextOfAll
  <2>2. [task[i] EXCEPT !.todo = task[i].todo \ {s}].pc # "put"
    BY <1>5 DEF NextOfAll, Shape, TaskOK, Task
  <2>3. PICK new : Step(i, new) /\ new.pc # "put"
    <3>1. CASE s.active
      BY <1>3, <2>1, <3>1
    <3>2. CASE ~s.active /\ task[i].todo \ {s} = {}
      BY <1>2, <2>1, <3>2
    <3>3. CASE ~s.active /\ task[i].todo \ {s} # {}
      BY <2>1, <2>2, <3>3
    <3> QED
      BY <3>1, <3>2, <3>3
  <2> QED
    BY <1>1, <2>3
<1>6. ASSUME NEW i \in Instances, PushAll(i) PROVE Calmly
  BY <1>1, <1>6 DEF PushAll
<1>7. ASSUME NEW i \in Instances, NEW c \in Creds, Import(i, c) \/ Reimport(i, c) PROVE Calmly
  <2>1. Step(i, Pushing("read", c, FALSE, {}))
    <3>1. Import(i, c) => Step(i, Pushing("read", c, FALSE, {}))
      BY DEF Import
    <3>2. Reimport(i, c) => Step(i, Pushing("read", c, FALSE, {}))
      BY DEF Reimport
    <3> QED
      BY <1>7, <3>1, <3>2
  <2>2. Pushing("read", c, FALSE, {}).pc # "put"
    BY DEF Pushing
  <2> QED
    BY <1>1, <2>1, <2>2
<1>8. ASSUME NEW i \in Instances, NEW c \in Creds, NEW shared \in BOOLEAN, SetShared(i, c, shared)
      PROVE  Calmly
  BY <1>1, <1>3, <1>8 DEF SetShared
<1>9. ASSUME NEW i \in Instances, Put(i) \/ Failure(i), ~FindMisses(i) PROVE Calmly
  BY <1>1, <1>2, <1>9 DEF Put, Failure, FindFails, PutFails, Crash
<1>10. ASSUME NEW i \in Instances, LooksUp(i)
       PROVE  \A j \in Instances : task'[j] = task[j] \/ task'[j].pc # "put" \/ LooksUp(j)
  <2>1. PICK new : Step(i, new)
    BY <1>10 DEF LooksUp, Find, FindMisses
  <2> QED
    BY <1>10, <2>1 DEF Shape, TaskOK, Step
<1>11. ASSUME UNCHANGED task PROVE Calmly
  BY <1>11
<1>12. \/ UNCHANGED task
       \/ \E i \in Instances, c \in Creds : Import(i, c) \/ Reimport(i, c)
       \/ \E i \in Instances, c \in Creds, shared \in BOOLEAN : SetShared(i, c, shared)
       \/ \E i \in Instances : \/ PushAll(i) \/ ReadAgain(i) \/ NextOfAll(i) \/ Find(i)
                               \/ Put(i) \/ Failure(i)
  BY DEF Next, vars, Operation, PushStep, Delete, CreateByAdmin, Turn, ProcessLate
<1> HIDE DEF Calmly
<1>13. Calmly \/ \E i \in Instances : LooksUp(i)
  BY <1>4, <1>5, <1>6, <1>7, <1>8, <1>9, <1>11, <1>12 DEF LooksUp
<1>14. \A j \in Instances : task'[j] = task[j] \/ task'[j].pc # "put" \/ LooksUp(j)
  BY <1>10, <1>13 DEF Calmly
<1>15. \A p \in late' : p \in late \/ \E i \in Instances : task[i].pc = "put" /\ p = task[i].push
  BY DEF Next, vars, Operation, PushStep, Failure, Import, Reimport, Delete, CreateByAdmin,
     SetShared, PushAll, Turn, ReadAgain, NextOfAll, Find, Put, FindFails, FindMisses,
     PutFails, Crash, ProcessLate
<1>16. \/ channels' = channels
       \/ \E i \in Instances : Put(i)
       \/ \E p \in late : ProcessLate(p)
  BY DEF Next, vars, Operation, PushStep, Failure, Import, Reimport, Delete, CreateByAdmin,
     SetShared, PushAll, Turn, ReadAgain, NextOfAll, Find, FindFails, FindMisses, PutFails,
     Crash
<1> QED
  BY <1>14, <1>15, <1>16

\* Every action keeps the aim.
LEMMA AimStep == Shape /\ AimInv /\ [Next]_vars => AimInv'
<1> SUFFICES ASSUME Shape, AimInv, [Next]_vars PROVE AimInv'
  OBVIOUS
<1>1. \A ch \in channels : \E new \in channels' :
          new.id = ch.id /\ NameOf[new.cred] = NameOf[ch.cred]
  <2>1. CASE channels' = channels
    BY <2>1
  <2>2. ASSUME NEW i \in Instances, Put(i)
        PROVE  \A ch \in channels : \E new \in channels' :
                   new.id = ch.id /\ NameOf[new.cred] = NameOf[ch.cred]
    <3>1. task[i].push \in Push /\ Aimed(task[i].push) /\ channels' = Processed(task[i].push)
      BY <2>2 DEF Put, AimInv, Shape, TaskOK, Task
    <3> QED
      BY <3>1, NamesKept DEF Shape
  <2>3. ASSUME NEW p \in late, ProcessLate(p)
        PROVE  \A ch \in channels : \E new \in channels' :
                   new.id = ch.id /\ NameOf[new.cred] = NameOf[ch.cred]
    <3>1. p \in Push /\ Aimed(p) /\ channels' = Processed(p)
      BY <2>3 DEF ProcessLate, AimInv, Shape, LateOK
    <3> QED
      BY <3>1, NamesKept DEF Shape
  <2> QED
    BY <2>1, <2>2, <2>3, Moves
<1>2. \A p : Aimed(p) => (p.found # NoChannel =>
          \E ch \in channels' : ch.id = p.found /\ NameOf[ch.cred] = NameOf[p.cred])
  BY <1>1 DEF Aimed
<1>3. ASSUME NEW j \in Instances, task'[j].pc = "put" PROVE Aimed(task[j].push)'
  <2>1. CASE task'[j] = task[j]
    BY <1>2, <1>3, <2>1 DEF AimInv, Aimed
  <2>2. CASE LooksUp(j)
    <3>1. task[j] \in Task /\ channels' = channels
      BY <2>2 DEF LooksUp, Find, FindMisses, Shape, TaskOK
    <3>2. PICK id : /\ id = NoChannel \/ \E ch \in Named(NameOf[task[j].push.cred]) : ch.id = id
                    /\ Step(j, [task[j] EXCEPT !.pc = "put", !.push.found = id])
      BY <2>2 DEF LooksUp, Find, FindMisses
    <3>3. task'[j].push.found = id /\ task'[j].push.cred = task[j].push.cred
      BY <3>1, <3>2 DEF Step, Shape, TaskOK, Task, Push
    <3> QED
      BY <3>1, <3>2, <3>3 DEF Aimed, Named
  <2> QED
    BY <1>3, <2>1, <2>2, Moves
<1>4. ASSUME NEW p \in late' PROVE Aimed(p)'
  <2>1. Aimed(p)
    BY <1>4, Moves DEF AimInv
  <2> QED
    BY <1>2, <2>1 DEF Aimed
<1> QED
  BY <1>3, <1>4 DEF AimInv

\* At the start there is nothing to aim at, nor anybody who aims.
LEMMA AimStart == Init => AimInv
BY DEF Init, AimInv, Resting

-----------------------------------------------------------------------------
(* Repair                                                                  *)

Writing(i) == task[i].pc \in {"find", "put"}

\* A credential has its channel, is about to be pushed, or is still to be read.
Covered(c) ==
    \/ Mirrored(c)
    \/ \E i \in Instances : Writing(i) /\ task[i].push.cred = c
    \/ \E i \in Instances : \E s \in task[i].todo : s.cred = c

\* While a push of everything is undisturbed: it is alone, what it has read is still
\* so, and it forgets no credential.
CalmAlone ==
    /\ late = {}
    /\ \A i \in Instances : task[i].pc # "read"
    /\ \A i, j \in Instances : task[i].pc # "rest" /\ task[j].pc # "rest" => i = j

CalmTrue ==
    /\ \A i \in Instances : Writing(i) =>
           Live(task[i].push.cred) /\ task[i].push.shared = cred[task[i].push.cred].shared
    /\ \A i \in Instances : \A s \in task[i].todo :
           /\ Live(s.cred)
           /\ s.active = cred[s.cred].active /\ s.shared = cred[s.cred].shared

CalmCovers == \A c \in Creds : Live(c) /\ cred[c].active /\ Alone(c) => Covered(c)

CalmInv == calm => CalmAlone /\ CalmTrue /\ CalmCovers

\* It begins so.
LEMMA CalmBegins ==
    ASSUME Shape, NEW i \in Instances, PushAll(i), calm'
    PROVE  CalmAlone' /\ CalmTrue' /\ CalmCovers'
<1>1. /\ late = {} /\ UNCHANGED <<late, cred>>
      /\ \A j \in Instances : task[j].pc = "rest"
  BY DEF PushAll
<1>2. /\ task'[i] = [pc |-> "next", push |-> NoPush, todo |-> Snapshot]
      /\ \A j \in Instances \ {i} : task'[j] = task[j] /\ task[j].pc = "rest" /\ task[j].todo = {}
  BY <1>1 DEF PushAll, Step, Shape, TaskOK, TaskLike
<1>3. task'[i].pc = "next" /\ task'[i].todo = Snapshot
  BY <1>2
<1>4. CalmAlone'
  BY <1>1, <1>2, <1>3 DEF CalmAlone
<1>5. CalmTrue'
  <2>1. \A j \in Instances : ~Writing(j)'
    BY <1>1, <1>2, <1>3 DEF Writing
  <2>2. ASSUME NEW j \in Instances, NEW s \in task'[j].todo
        PROVE  /\ Live(s.cred)
               /\ s.active = cred[s.cred].active /\ s.shared = cred[s.cred].shared
    <3>1. s \in Snapshot
      BY <1>2, <1>3, <2>2
    <3> QED
      BY <3>1 DEF Snapshot
  <2>3. \A s : (Live(s.cred)' <=> Live(s.cred)) /\ cred'[s.cred] = cred[s.cred]
    BY <1>1 DEF Live
  <2>4. \A j \in Instances : \A s \in task'[j].todo :
           /\ Live(s.cred)'
           /\ s.active = cred'[s.cred].active /\ s.shared = cred'[s.cred].shared
    BY <2>2, <2>3
  <2> QED
    BY <2>1, <2>4 DEF CalmTrue
<1>6. CalmCovers'
  <2>1. ASSUME NEW c \in Creds, Live(c) PROVE \E s \in Snapshot : s.cred = c
    <3> DEFINE mine == [cred |-> c, active |-> cred[c].active, shared |-> cred[c].shared]
    <3>1. c \in {d \in Creds : Live(d)}
      BY <2>1
    <3>2. mine \in Snapshot
      BY <3>1 DEF Snapshot
    <3>3. mine.cred = c
      OBVIOUS
    <3> QED
      BY <3>2, <3>3
  <2> QED
    BY <1>1, <1>3, <2>1 DEF CalmCovers, Covered, Live
<1> QED
  BY <1>4, <1>5, <1>6

\* One handler goes on: what is then to be shown.
LEMMA CalmGoesOn ==
    ASSUME Shape, CalmAlone, CalmTrue, NEW i \in Instances, task[i].pc # "rest",
           UNCHANGED <<cred, late>>, NEW new, Step(i, new), new.pc # "read",
           new.pc \in {"find", "put"} =>
               Live(new.push.cred) /\ new.push.shared = cred[new.push.cred].shared,
           new.todo \subseteq task[i].todo,
           \A c \in Creds : Covered(c) /\ Live(c) /\ cred[c].active /\ Alone(c) =>
               \/ Mirrored(c)'
               \/ new.pc \in {"find", "put"} /\ new.push.cred = c
               \/ \E s \in new.todo : s.cred = c,
           CalmCovers
    PROVE  CalmAlone' /\ CalmTrue' /\ CalmCovers'
<1>1. task'[i] = new /\ \A j \in Instances \ {i} : task'[j] = task[j]
  BY DEF Step, Shape, TaskOK
<1>2. CalmAlone'
  BY <1>1 DEF CalmAlone
<1>3. CalmTrue'
  BY <1>1 DEF CalmTrue, Writing, Live
<1>4. \A c \in Creds : (Live(c)' <=> Live(c)) /\ (Alone(c)' <=> Alone(c))
  BY DEF Live, Alone
<1>5. CalmCovers'
  <2> SUFFICES ASSUME NEW c \in Creds, Live(c), cred[c].active, Alone(c) PROVE Covered(c)'
    BY <1>4 DEF CalmCovers
  <2>1. \/ Mirrored(c)'
        \/ new.pc \in {"find", "put"} /\ new.push.cred = c
        \/ \E s \in new.todo : s.cred = c
    BY DEF CalmCovers
  <2> QED
    BY <1>1, <2>1 DEF Covered, Writing
<1> QED
  BY <1>2, <1>3, <1>5

\* Whoever is not the handler has nothing to do.
LEMMA CalmOne ==
    ASSUME Shape, CalmAlone, NEW i \in Instances, task[i].pc # "rest", NEW c \in Creds, Covered(c)
    PROVE  \/ Mirrored(c)
           \/ Writing(i) /\ task[i].push.cred = c
           \/ \E s \in task[i].todo : s.cred = c
<1>1. \A j \in Instances \ {i} : task[j].pc = "rest" /\ task[j].todo = {} /\ ~Writing(j)
  BY DEF CalmAlone, Writing, Shape, TaskOK, TaskLike
<1> QED
  BY <1>1 DEF Covered

\* A channel that is written is the one of its credential.
LEMMA CalmWritten ==
    ASSUME Shape, AimInv, CalmAlone, CalmTrue, NEW i \in Instances, task[i].pc = "put",
           channels' = Processed(task[i].push), UNCHANGED cred
    PROVE  /\ \A c \in Creds : c = task[i].push.cred => Mirrored(c)'
           /\ \A c \in Creds : Mirrored(c) /\ Alone(c) => Mirrored(c)'
<1>0. PICK p \in Push : p = task[i].push
  BY DEF Shape, TaskOK, Task
<1> DEFINE new(id) == [id |-> id, cred |-> p.cred, shared |-> p.shared]
<1>1. /\ p.cred \in Creds /\ Live(p.cred) /\ p.shared = cred[p.cred].shared
      /\ Aimed(p) /\ channels' = Processed(p)
  BY <1>0 DEF Shape, TaskOK, TaskLike, Busy, CalmTrue, Writing, AimInv
<1>2. CASE p.found = NoChannel
  <2>1. channels' = channels \cup {new(Cardinality(channels) + 1)}
    BY <1>1, <1>2 DEF Processed
  <2>2. \A c \in Creds : c = p.cred => Mirrored(c)'
    <3> DEFINE ch == new(Cardinality(channels) + 1)
    <3>1. ch \in channels' /\ ch.cred = p.cred /\ ch.shared = cred'[p.cred].shared
      BY <1>1, <2>1
    <3> QED
      BY <3>1 DEF Mirrored
  <2>3. \A c \in Creds : Mirrored(c) => Mirrored(c)'
    BY <2>1 DEF Mirrored
  <2> QED
    BY <1>0, <2>2, <2>3
<1>3. CASE p.found # NoChannel
  <2>1. channels' = {IF ch.id = p.found THEN new(ch.id) ELSE ch : ch \in channels}
    BY <1>1, <1>3 DEF Processed
  <2>2. PICK old \in channels : old.id = p.found /\ NameOf[old.cred] = NameOf[p.cred]
    BY <1>1, <1>3 DEF Aimed
  <2>3. new(old.id) \in channels'
    BY <2>1, <2>2
  <2>4. \A c \in Creds : c = p.cred => Mirrored(c)'
    <3>1. /\ new(old.id) \in channels' /\ new(old.id).cred = p.cred
          /\ new(old.id).shared = cred'[p.cred].shared
      BY <1>1, <2>3
    <3> QED
      BY <3>1 DEF Mirrored
  <2>5. ASSUME NEW c \in Creds, Mirrored(c), Alone(c) PROVE Mirrored(c)'
    <3>1. PICK ch \in channels : ch.cred = c /\ ch.shared = cred[c].shared
      BY <2>5 DEF Mirrored
    <3>2. CASE ch.id # p.found
      BY <2>1, <3>1, <3>2 DEF Mirrored
    <3>3. CASE ch.id = p.found
      <4>1. ch = old
        BY <2>2, <3>3 DEF Shape, ChannelsOK
      <4>2. p.cred = c
        BY <1>1, <2>2, <2>5, <3>1, <4>1 DEF Alone
      <4> QED
        BY <2>4, <4>2
    <3> QED
      BY <3>2, <3>3
  <2> QED
    BY <1>0, <2>4, <2>5
<1> QED
  BY <1>2, <1>3

\* Every action keeps it.
LEMMA CalmStep == Shape /\ AimInv /\ CalmInv /\ [Next]_vars => CalmInv'
<1> SUFFICES ASSUME Shape, AimInv, CalmInv, [Next]_vars, calm'
             PROVE  CalmAlone' /\ CalmTrue' /\ CalmCovers'
  BY DEF CalmInv
<1>1. \/ \E i \in Instances : \/ PushAll(i) \/ ReadAgain(i) \/ NextOfAll(i)
                              \/ LooksUp(i) \/ Put(i)
      \/ \E p \in late : ProcessLate(p)
      \/ UNCHANGED vars
  BY DEF Next, Operation, PushStep, Failure, Op, Fault, Import, Reimport, Delete,
     CreateByAdmin, SetShared, Turn, FindFails, PutFails, Crash, LooksUp
<1>2. ASSUME NEW i \in Instances, PushAll(i) PROVE CalmAlone' /\ CalmTrue' /\ CalmCovers'
  BY <1>2, CalmBegins
<1>3. ASSUME calm PROVE CalmAlone /\ CalmTrue /\ CalmCovers
  BY <1>3 DEF CalmInv
<1>4. ASSUME NEW i \in Instances, ReadAgain(i) PROVE FALSE
  BY <1>3, <1>4 DEF ReadAgain, CalmAlone
<1>5. ASSUME NEW p \in late, ProcessLate(p) PROVE FALSE
  BY <1>3, <1>5 DEF ProcessLate, CalmAlone
<1>6. ASSUME NEW i \in Instances, NextOfAll(i) PROVE CalmAlone' /\ CalmTrue' /\ CalmCovers'
  <2>1. /\ CalmAlone /\ CalmTrue /\ CalmCovers /\ task[i].pc = "next"
        /\ UNCHANGED <<cred, channels, late>> /\ task[i] \in Task
    BY <1>3, <1>6 DEF NextOfAll, Shape, TaskOK
  <2>2. PICK s \in task[i].todo :
           Step(i, CASE s.active -> Pushing("find", s.cred, s.shared, task[i].todo \ {s})
                     [] ~s.active /\ task[i].todo \ {s} = {} -> Resting
                     [] OTHER -> [task[i] EXCEPT !.todo = task[i].todo \ {s}])
    BY <1>6 DEF NextOfAll
  <2>3. /\ Live(s.cred)
        /\ s.active = cred[s.cred].active /\ s.shared = cred[s.cred].shared
    BY <2>1 DEF CalmTrue
  <2>4. ASSUME NEW c \in Creds, Covered(c), cred[c].active
        PROVE  Mirrored(c)' \/ (c = s.cred /\ s.active) \/ \E r \in task[i].todo \ {s} : r.cred = c
    <3>1. Mirrored(c) => Mirrored(c)'
      BY <2>1 DEF Mirrored
    <3>2. Mirrored(c) \/ \E r \in task[i].todo : r.cred = c
      BY <2>1, <2>4, CalmOne DEF Writing
    <3>3. s.cred = c => s.active
      BY <2>3, <2>4
    <3>4. CASE s.cred = c
      BY <3>3, <3>4
    <3>5. CASE s.cred # c
      <4>1. ASSUME NEW q \in task[i].todo, q.cred = c PROVE q \in task[i].todo \ {s}
        <5>1. q # s
          BY ONLY <3>5, <4>1
        <5> QED
          BY ONLY <5>1, q \in task[i].todo
      <4> QED
        BY <3>1, <3>2, <4>1
    <3> QED
      BY <3>4, <3>5
  <2>5. CASE s.active
    <3> DEFINE new == Pushing("find", s.cred, s.shared, task[i].todo \ {s})
    <3>1. Step(i, new)
      BY <2>2, <2>5
    <3>2. /\ new.pc = "find" /\ new.push.cred = s.cred /\ new.push.shared = s.shared
          /\ new.todo = task[i].todo \ {s}
      BY DEF Pushing
    <3> HIDE DEF new
    <3> QED
      BY <2>1, <2>3, <2>4, <3>1, <3>2, CalmGoesOn
  <2>6. CASE ~s.active
    <3>1. PICK new : /\ Step(i, new) /\ new.pc \in {"rest", "next"}
                     /\ new.todo = task[i].todo \ {s}
      <4>1. CASE task[i].todo \ {s} = {}
        BY <2>2, <2>6, <4>1 DEF Resting
      <4>2. CASE task[i].todo \ {s} # {}
        <5>1. /\ [task[i] EXCEPT !.todo = task[i].todo \ {s}].pc = "next"
              /\ [task[i] EXCEPT !.todo = task[i].todo \ {s}].todo = task[i].todo \ {s}
          BY <2>1 DEF Task
        <5> QED
          BY <2>2, <2>6, <4>2, <5>1
      <4> QED
        BY <4>1, <4>2
    <3> QED
      BY <2>1, <2>4, <2>6, <3>1, CalmGoesOn
  <2> QED
    BY <2>5, <2>6
<1>7. ASSUME NEW i \in Instances, LooksUp(i) PROVE CalmAlone' /\ CalmTrue' /\ CalmCovers'
  <2>1. /\ CalmAlone /\ CalmTrue /\ CalmCovers /\ task[i].pc = "find"
        /\ UNCHANGED <<cred, channels, late>> /\ task[i] \in Task
    BY <1>3, <1>7 DEF LooksUp, Find, FindMisses, Shape, TaskOK
  <2>2. PICK id : Step(i, [task[i] EXCEPT !.pc = "put", !.push.found = id])
    BY <1>7 DEF LooksUp, Find, FindMisses
  <2> DEFINE new == [task[i] EXCEPT !.pc = "put", !.push.found = id]
  <2>3. /\ Step(i, new) /\ new.pc = "put" /\ new.push.cred = task[i].push.cred
        /\ new.push.shared = task[i].push.shared /\ new.todo = task[i].todo
    BY <2>1, <2>2 DEF Task, Push
  <2> HIDE DEF new
  <2>4. /\ Writing(i) /\ Live(new.push.cred)
        /\ new.push.shared = cred[new.push.cred].shared
    BY <2>1, <2>3 DEF Writing, CalmTrue
  <2>5. ASSUME NEW c \in Creds, Covered(c)
        PROVE  Mirrored(c)' \/ new.push.cred = c \/ \E s \in new.todo : s.cred = c
    <3>1. Mirrored(c) => Mirrored(c)'
      BY <2>1 DEF Mirrored
    <3> QED
      BY <2>1, <2>3, <2>5, <3>1, CalmOne
  <2> QED
    BY <2>1, <2>3, <2>4, <2>5, CalmGoesOn
<1>8. ASSUME NEW i \in Instances, Put(i) PROVE CalmAlone' /\ CalmTrue' /\ CalmCovers'
  <2>1. /\ CalmAlone /\ CalmTrue /\ CalmCovers /\ task[i].pc = "put"
        /\ UNCHANGED <<cred, late>> /\ channels' = Processed(task[i].push)
    BY <1>3, <1>8 DEF Put
  <2>2. PICK new : Step(i, new) /\ new.pc \in {"rest", "next"} /\ new.todo = task[i].todo
    BY <1>8 DEF Put, AfterPush, Resting
  <2>3. ASSUME NEW c \in Creds, Covered(c), Alone(c)
        PROVE  Mirrored(c)' \/ \E s \in new.todo : s.cred = c
    <3>1. CASE Mirrored(c)
      BY <2>1, <2>3, <3>1, CalmWritten
    <3>2. CASE task[i].push.cred = c
      BY <2>1, <3>2, CalmWritten
    <3>3. CASE \E s \in task[i].todo : s.cred = c
      BY <2>2, <3>3
    <3> QED
      BY <2>1, <2>3, <3>1, <3>2, <3>3, CalmOne
  <2> QED
    BY <2>1, <2>2, <2>3, CalmGoesOn
<1>9. ASSUME UNCHANGED vars PROVE CalmAlone' /\ CalmTrue' /\ CalmCovers'
  <2>1. CalmAlone /\ CalmTrue /\ CalmCovers
    BY <1>3, <1>9 DEF vars
  <2> QED
    BY <1>9, <2>1 DEF vars, CalmAlone, CalmTrue, CalmCovers, Covered, Writing, Mirrored, Live,
                      Alone
<1> QED
  BY <1>1, <1>2, <1>4, <1>5, <1>6, <1>7, <1>8, <1>9

\* A push of everything that nothing disturbs leaves every active credential with a
\* name of its own mirrored, whatever had gone wrong before (sync_all_newapi_channels).
THEOREM PushAllRepairsAlways == Spec => []PushAllRepairs
<1>1. Init => CalmInv
  BY DEF Init, CalmInv
<1>2. Shape /\ CalmInv => PushAllRepairs
  <2> SUFFICES ASSUME Shape, CalmInv, calm, \A i \in Instances : task[i].pc = "rest",
                      NEW c \in Creds, Live(c), cred[c].active, Alone(c)
               PROVE  Mirrored(c)
    BY DEF PushAllRepairs
  <2>1. \A i \in Instances : ~Writing(i) /\ task[i].todo = {}
    BY DEF Writing, Shape, TaskOK, TaskLike
  <2> QED
    BY <2>1 DEF CalmInv, CalmCovers, Covered
<1> QED
  BY <1>1, <1>2, ShapeStart, ShapeStep, AimStart, AimStep, CalmStep, PTL DEF Spec

-----------------------------------------------------------------------------
(* Duplicates                                                              *)

\* A request that adds a channel of the name n.
Adds(p, n) == p.found = NoChannel /\ NameOf[p.cred] = n

\* The handlers that are about to add one, and the requests that may still do.
Adders(n) == {i \in Instances : task[i].pc = "put" /\ Adds(task[i].push, n)}

LateAdds(n) == {p \in late : Adds(p, n)}

\* Whoever is about to add a channel counts as if it were there.
BoundedFor(n) ==
    Cardinality(Named(n)) + Cardinality(Adders(n)) + Cardinality(LateAdds(n))
        <= Cardinality(Instances) + faults

LateBounded == IsFiniteSet(late) /\ Cardinality(late) <= faults

FewInv == LateBounded /\ \A c \in Creds : BoundedFor(NameOf[c])

\* Subsets of finite sets.
LEMMA Fewer ==
    ASSUME NEW S, IsFiniteSet(S), NEW T, T \subseteq S
    PROVE  /\ IsFiniteSet(T) /\ Cardinality(T) \in Nat /\ Cardinality(S) \in Nat
           /\ Cardinality(T) <= Cardinality(S)
BY FS_Subset, FS_CardinalityType

\* One element more than a finite set has.
LEMMA OneMore ==
    ASSUME NEW S, IsFiniteSet(S), NEW x, NEW T, T \subseteq S \cup {x}
    PROVE  /\ IsFiniteSet(T) /\ Cardinality(T) \in Nat
           /\ Cardinality(T) <= Cardinality(S) + 1
<1>1. /\ IsFiniteSet(S \cup {x}) /\ Cardinality(S) \in Nat
      /\ Cardinality(S \cup {x}) <= Cardinality(S) + 1
  <2>1. Cardinality(S) \in Nat
    BY FS_CardinalityType
  <2>2. /\ IsFiniteSet(S \cup {x})
        /\ Cardinality(S \cup {x}) = IF x \in S THEN Cardinality(S) ELSE Cardinality(S) + 1
    BY FS_AddElement
  <2> QED
    BY <2>1, <2>2
<1>2. /\ IsFiniteSet(T) /\ Cardinality(T) \in Nat /\ Cardinality(S \cup {x}) \in Nat
      /\ Cardinality(T) <= Cardinality(S \cup {x})
  BY <1>1, Fewer
<1> QED
  BY <1>1, <1>2

\* One element fewer than a finite set has.
LEMMA OneLess ==
    ASSUME NEW S, IsFiniteSet(S), NEW x \in S, NEW T, T \subseteq S \ {x}
    PROVE  /\ IsFiniteSet(T) /\ Cardinality(T) \in Nat
           /\ Cardinality(T) <= Cardinality(S) - 1
<1>1. IsFiniteSet(S \ {x}) /\ Cardinality(S \ {x}) = Cardinality(S) - 1
  BY FS_RemoveElement
<1> QED
  BY <1>1, Fewer

\* The counts are numbers, and two of them are bounded whatever happens.
LEMMA Counts ==
    ASSUME Shape, LateBounded, NEW n
    PROVE  /\ IsFiniteSet(Named(n)) /\ Cardinality(Named(n)) \in Nat
           /\ IsFiniteSet(Adders(n)) /\ Cardinality(Adders(n)) \in Nat
           /\ IsFiniteSet(LateAdds(n)) /\ Cardinality(LateAdds(n)) \in Nat
           /\ Cardinality(Adders(n)) <= Cardinality(Instances)
           /\ Cardinality(LateAdds(n)) <= Cardinality(late)
           /\ Cardinality(Instances) \in Nat /\ Cardinality(late) \in Nat /\ faults \in Nat
<1>1. IsFiniteSet(channels) /\ IsFiniteSet(late) /\ faults \in Nat
  BY DEF Shape, ChannelsOK, LateBounded, CredOK
<1>2. Named(n) \subseteq channels /\ Adders(n) \subseteq Instances /\ LateAdds(n) \subseteq late
  BY DEF Named, Adders, LateAdds
<1> QED
  BY <1>1, <1>2, Fewer, MirrorAssumption

\* A request that is processed adds a channel to no other name than its own, and
\* none if it found one.
LEMMA NamedGrows ==
    ASSUME ChannelsOK, NEW p \in Push, Aimed(p), channels' = Processed(p), NEW n
    PROVE  /\ Cardinality(Named(n)') <= Cardinality(Named(n)) + 1
           /\ ~Adds(p, n) => Cardinality(Named(n)') <= Cardinality(Named(n))
<1>1. IsFiniteSet(Named(n)) /\ Cardinality(Named(n)) \in Nat
  BY Fewer DEF ChannelsOK, Named
<1>2. CASE p.found = NoChannel
  <2> DEFINE new == [id |-> Cardinality(channels) + 1, cred |-> p.cred, shared |-> p.shared]
  <2>1. channels' = channels \cup {new}
    BY <1>2 DEF Processed
  <2>2. Named(n)' \subseteq Named(n) \cup {new}
    BY <2>1 DEF Named
  <2>3. ~Adds(p, n) => Named(n)' = Named(n)
    <3>1. ~Adds(p, n) => NameOf[new.cred] # n
      BY <1>2 DEF Adds
    <3> HIDE DEF new
    <3> QED
      BY <2>1, <3>1 DEF Named
  <2> HIDE DEF new
  <2>4. Cardinality(Named(n)') <= Cardinality(Named(n)) + 1
    BY <1>1, <2>2, OneMore
  <2> QED
    BY <1>1, <2>3, <2>4
<1>3. CASE p.found # NoChannel
  <2> DEFINE F(x) == IF x.id = p.found
                     THEN [id |-> x.id, cred |-> p.cred, shared |-> p.shared] ELSE x
             f == [x \in Named(n) |-> F(x)]
  <2>1. channels' = {F(x) : x \in channels}
    BY <1>3 DEF Processed
  <2>2. \A x \in channels : NameOf[F(x).cred] = NameOf[x.cred]
    <3> SUFFICES ASSUME NEW x \in channels, x.id = p.found
                 PROVE  NameOf[p.cred] = NameOf[x.cred]
      OBVIOUS
    <3> QED
      BY <1>3 DEF Aimed, ChannelsOK
  <2> HIDE DEF F
  <2>3. \A y \in Named(n)' : \E x \in Named(n) : F(x) = y
    BY <2>1, <2>2 DEF Named
  <2>4. \A x \in Named(n) : F(x) \in Named(n)'
    BY <2>1, <2>2 DEF Named
  <2>5. f \in Surjection(Named(n), Named(n)')
    BY <2>3, <2>4 DEF Surjection
  <2> HIDE DEF f
  <2>6. IsFiniteSet(Named(n)') /\ Cardinality(Named(n)') <= Cardinality(Named(n))
    BY <1>1, <2>5, FS_Surjection
  <2>7. Cardinality(Named(n)') \in Nat
    BY <2>6, FS_CardinalityType
  <2> QED
    BY <1>1, <2>6, <2>7
<1> QED
  BY <1>2, <1>3

\* What the steps do to the requests given up and to the failures counted.
LEMMA Kinds ==
    ASSUME [Next]_vars
    PROVE  \/ UNCHANGED <<channels, late, faults>>
           \/ \E i \in Instances : Put(i)
           \/ \E i \in Instances : Failure(i)
           \/ \E p \in late : ProcessLate(p)
BY DEF Next, vars, Operation, PushStep, Import, Reimport, Delete, CreateByAdmin, SetShared,
       PushAll, Turn, ReadAgain, NextOfAll, Find

\* A handler that fails may leave its request behind.
LEMMA OneFailure ==
    ASSUME NEW i \in Instances, Failure(i)
    PROVE  /\ faults' = faults + 1 /\ channels' = channels
           /\ late' \subseteq late \cup {task[i].push}
BY DEF Failure, FindFails, FindMisses, PutFails, Crash, Fault

\* Unless a handler looks a channel up, no more of them are about to add one.
LEMMA NoMoreAdders ==
    ASSUME Shape, [Next]_vars, \A j \in Instances : ~LooksUp(j), NEW n
    PROVE  Adders(n)' \subseteq Adders(n)
<1>1. \A j \in Instances : task'[j] = task[j] \/ task'[j].pc # "put"
  BY Moves
<1> QED
  BY <1>1 DEF Adders, Adds

\* A lookup that finds nothing: then there is nothing yet.
LEMMA FewAfterFind ==
    ASSUME Shape, LateBounded, NEW i \in Instances, Find(i), NEW n, BoundedFor(n)
    PROVE  BoundedFor(n)'
<1>1. UNCHANGED <<channels, late, faults>> /\ task[i] \in Task
  BY DEF Find, Shape, TaskOK
<1>2. Named(n)' = Named(n) /\ LateAdds(n)' = LateAdds(n)
  BY <1>1 DEF Named, LateAdds, Adds
<1>3. PICK id : /\ id \in IF Named(NameOf[task[i].push.cred]) = {} THEN {NoChannel}
                          ELSE {ch.id : ch \in Named(NameOf[task[i].push.cred])}
                /\ Step(i, [task[i] EXCEPT !.pc = "put", !.push.found = id])
  BY DEF Find
<1>4. /\ task'[i].push.found = id /\ task'[i].push.cred = task[i].push.cred
      /\ \A j \in Instances \ {i} : task'[j] = task[j]
  BY <1>1, <1>3 DEF Step, Shape, TaskOK, Task, Push
<1>5. CASE Named(n) = {}
  <2>1. Cardinality(Named(n)) = 0
    BY <1>5, FS_EmptySet
  <2>2. Adders(n)' \subseteq Instances
    BY DEF Adders
  <2>3. Cardinality(Adders(n)') \in Nat /\ Cardinality(Adders(n)') <= Cardinality(Instances)
    BY <2>2, Fewer, MirrorAssumption
  <2> QED
    BY <1>1, <1>2, <2>1, <2>3, Counts DEF BoundedFor, LateBounded
<1>6. CASE Named(n) # {}
  <2>1. NameOf[task[i].push.cred] = n => id # NoChannel
    BY <1>3, <1>6 DEF Named, Shape, ChannelsOK, Channel
  <2>2. Adders(n)' \subseteq Adders(n)
    BY <1>4, <2>1 DEF Adders, Adds
  <2>3. Cardinality(Adders(n)') \in Nat /\ Cardinality(Adders(n)') <= Cardinality(Adders(n))
    BY <2>2, Counts, Fewer
  <2> QED
    BY <1>1, <1>2, <2>3, Counts DEF BoundedFor
<1> QED
  BY <1>5, <1>6

\* A search that misses what there is: one more, and a failure more.
LEMMA FewAfterMiss ==
    ASSUME Shape, LateBounded, NEW i \in Instances, FindMisses(i), NEW n, BoundedFor(n)
    PROVE  BoundedFor(n)'
<1>1. UNCHANGED <<channels, late>> /\ faults' = faults + 1
  BY DEF FindMisses
<1>2. Named(n)' = Named(n) /\ LateAdds(n)' = LateAdds(n)
  BY <1>1 DEF Named, LateAdds, Adds
<1>3. \A j \in Instances \ {i} : task'[j] = task[j]
  BY DEF FindMisses, Step, Shape, TaskOK
<1>4. Adders(n)' \subseteq Adders(n) \cup {i}
  BY <1>3 DEF Adders, Adds
<1>5. /\ Cardinality(Adders(n)') \in Nat
      /\ Cardinality(Adders(n)') <= Cardinality(Adders(n)) + 1
  BY <1>4, Counts, OneMore
<1> QED
  BY <1>1, <1>2, <1>5, Counts DEF BoundedFor

\* A write turns a handler that was about to add into a channel.
LEMMA FewAfterPut ==
    ASSUME Shape, AimInv, LateBounded, NEW i \in Instances, Put(i), NEW n, BoundedFor(n)
    PROVE  BoundedFor(n)'
<1> DEFINE p == task[i].push
<1>1. /\ p \in Push /\ Aimed(p) /\ channels' = Processed(p)
      /\ UNCHANGED <<late, faults>> /\ task[i].pc = "put"
  BY DEF Put, AimInv, Shape, TaskOK, Task
<1>2. LateAdds(n)' = LateAdds(n)
  BY <1>1 DEF LateAdds, Adds
<1>3. task'[i].pc # "put" /\ \A j \in Instances \ {i} : task'[j] = task[j]
  BY DEF Put, Step, AfterPush, Resting, Shape, TaskOK
<1>4. Adders(n)' \subseteq Adders(n) \ {i}
  BY <1>3 DEF Adders, Adds
<1>5. Adds(p, n) => i \in Adders(n)
  BY <1>1 DEF Adders
<1> HIDE DEF p
<1>6. /\ Cardinality(Named(n)') <= Cardinality(Named(n)) + 1
      /\ ~Adds(p, n) => Cardinality(Named(n)') <= Cardinality(Named(n))
  BY <1>1, NamedGrows DEF Shape
<1>7. Cardinality(Named(n)') \in Nat
  <2>1. IsFiniteSet(channels') /\ Named(n)' \subseteq channels'
    BY ShapeStep, i \in Instances, Put(i) DEF Shape, ChannelsOK, Named, Next, PushStep
  <2> QED
    BY <2>1, Fewer
<1>8. /\ Cardinality(Adders(n)') \in Nat /\ Cardinality(Adders(n)') <= Cardinality(Adders(n))
  BY <1>4, Counts, Fewer
<1>9. CASE Adds(p, n)
  <2>1. Cardinality(Adders(n)') <= Cardinality(Adders(n)) - 1
    BY <1>4, <1>5, <1>9, Counts, OneLess
  <2> QED
    BY <1>1, <1>2, <1>6, <1>7, <1>8, <2>1, Counts DEF BoundedFor
<1>10. CASE ~Adds(p, n)
  BY <1>1, <1>2, <1>6, <1>7, <1>8, <1>10, Counts DEF BoundedFor
<1> QED
  BY <1>9, <1>10

\* A late request is processed once.
LEMMA FewAfterLate ==
    ASSUME Shape, AimInv, LateBounded, NEW p \in late, ProcessLate(p), NEW n, BoundedFor(n)
    PROVE  BoundedFor(n)'
<1>1. /\ p \in Push /\ Aimed(p) /\ channels' = Processed(p)
      /\ late' = late \ {p} /\ UNCHANGED <<task, faults>>
  BY DEF ProcessLate, AimInv, Shape, LateOK
<1>2. Adders(n)' = Adders(n)
  BY <1>1 DEF Adders, Adds
<1>3. LateAdds(n)' \subseteq LateAdds(n) \ {p}
  BY <1>1 DEF LateAdds, Adds
<1>4. Adds(p, n) => p \in LateAdds(n)
  BY DEF LateAdds
<1>5. /\ Cardinality(Named(n)') <= Cardinality(Named(n)) + 1
      /\ ~Adds(p, n) => Cardinality(Named(n)') <= Cardinality(Named(n))
  BY <1>1, NamedGrows DEF Shape
<1>6. Cardinality(Named(n)') \in Nat
  <2>1. IsFiniteSet(channels') /\ Named(n)' \subseteq channels'
    BY ShapeStep, ProcessLate(p) DEF Shape, ChannelsOK, Named, Next
  <2> QED
    BY <2>1, Fewer
<1>7. Cardinality(LateAdds(n)') \in Nat /\ Cardinality(LateAdds(n)') <= Cardinality(LateAdds(n))
  BY <1>3, Counts, Fewer
<1>8. CASE Adds(p, n)
  <2>1. Cardinality(LateAdds(n)') <= Cardinality(LateAdds(n)) - 1
    BY <1>3, <1>4, <1>8, Counts, OneLess
  <2> QED
    BY <1>1, <1>2, <1>5, <1>6, <1>7, <2>1, Counts DEF BoundedFor
<1>9. CASE ~Adds(p, n)
  BY <1>1, <1>2, <1>5, <1>6, <1>7, <1>9, Counts DEF BoundedFor
<1> QED
  BY <1>8, <1>9

\* Every action keeps the bound.
LEMMA FewStep == Shape /\ AimInv /\ FewInv /\ [Next]_vars => FewInv'
<1> SUFFICES ASSUME Shape, AimInv, FewInv, [Next]_vars PROVE FewInv'
  OBVIOUS
<1>1. LateBounded /\ faults \in Nat /\ Cardinality(late) \in Nat
  BY FS_CardinalityType DEF FewInv, LateBounded, Shape, CredOK
<1>2. LateBounded'
  <2>1. CASE late' \subseteq late /\ faults' = faults
    BY <1>1, <2>1, Fewer DEF LateBounded
  <2>2. ASSUME NEW i \in Instances, Failure(i) PROVE LateBounded'
    <3>1. faults' = faults + 1 /\ late' \subseteq late \cup {task[i].push}
      BY <2>2, OneFailure
    <3>2. /\ IsFiniteSet(late') /\ Cardinality(late') \in Nat
          /\ Cardinality(late') <= Cardinality(late) + 1
      BY <1>1, <3>1, OneMore DEF LateBounded
    <3>3. Cardinality(late) <= faults
      BY <1>1 DEF LateBounded
    <3>4. Cardinality(late') <= faults'
      BY <1>1, <3>1, <3>2, <3>3
    <3> QED
      BY <3>2, <3>4 DEF LateBounded
  <2>3. \A i \in Instances : Put(i) => UNCHANGED <<late, faults>>
    BY DEF Put
  <2>4. \A p \in late : ProcessLate(p) => late' \subseteq late /\ faults' = faults
    BY DEF ProcessLate
  <2> QED
    BY <2>1, <2>2, <2>3, <2>4, Kinds
<1>3. ASSUME NEW n, BoundedFor(n) PROVE BoundedFor(n)'
  <2>1. CASE \E i \in Instances : Find(i)
    BY <1>1, <1>3, <2>1, FewAfterFind
  <2>2. CASE \E i \in Instances : Put(i)
    BY <1>1, <1>3, <2>2, FewAfterPut
  <2>3. CASE \E p \in late : ProcessLate(p)
    BY <1>1, <1>3, <2>3, FewAfterLate
  <2>4. CASE \E i \in Instances : FindMisses(i)
    BY <1>1, <1>3, <2>4, FewAfterMiss
  <2>5. ASSUME \A j \in Instances : ~LooksUp(j)
        PROVE  /\ Cardinality(Adders(n)') \in Nat
               /\ Cardinality(Adders(n)') <= Cardinality(Adders(n))
    BY <1>1, <2>5, NoMoreAdders, Counts, Fewer
  <2>6. ASSUME \A j \in Instances : ~LooksUp(j), UNCHANGED <<channels, late, faults>>
        PROVE  BoundedFor(n)'
    <3>1. Named(n)' = Named(n) /\ LateAdds(n)' = LateAdds(n)
      BY <2>6 DEF Named, LateAdds, Adds
    <3> QED
      BY <1>1, <1>3, <2>5, <2>6, <3>1, Counts DEF BoundedFor
  <2>7. ASSUME \A j \in Instances : ~LooksUp(j), NEW i \in Instances, Failure(i)
        PROVE  BoundedFor(n)'
    <3>1. /\ faults' = faults + 1 /\ channels' = channels
          /\ late' \subseteq late \cup {task[i].push}
      BY <2>7, OneFailure
    <3>2. Named(n)' = Named(n) /\ LateAdds(n)' \subseteq LateAdds(n) \cup {task[i].push}
      BY <3>1 DEF Named, LateAdds, Adds
    <3>3. /\ Cardinality(LateAdds(n)') \in Nat
          /\ Cardinality(LateAdds(n)') <= Cardinality(LateAdds(n)) + 1
      BY <1>1, <3>2, Counts, OneMore
    <3> QED
      BY <1>1, <1>3, <2>5, <2>7, <3>1, <3>2, <3>3, Counts DEF BoundedFor
  <2> QED
    BY <2>1, <2>2, <2>3, <2>4, <2>6, <2>7, Kinds DEF LooksUp
<1>4. \A c \in Creds : BoundedFor(NameOf[c])'
  BY <1>3 DEF FewInv
<1> QED
  BY <1>2, <1>4 DEF FewInv

\* Lookup and add are two calls, and a request given up may still be processed: a
\* name has at most as many channels as there are instances, failures and misses
\* (sync_newapi_credential, _find_channel).
THEOREM DuplicatesBoundedAlways == Spec => []DuplicatesBounded
<1>1. Init => FewInv
  <2> SUFFICES ASSUME Init PROVE FewInv
    OBVIOUS
  <2>1. channels = {} /\ late = {} /\ faults = 0 /\ \A i \in Instances : task[i].pc # "put"
    BY DEF Init, Resting
  <2>2. \A n : Named(n) = {} /\ Adders(n) = {} /\ LateAdds(n) = {}
    BY <2>1 DEF Named, Adders, LateAdds
  <2>3. Cardinality(Instances) \in Nat
    BY FS_CardinalityType, MirrorAssumption
  <2>4. LateBounded
    BY <2>1, FS_EmptySet DEF LateBounded
  <2>5. ASSUME NEW n PROVE BoundedFor(n)
    <3>1. /\ Cardinality(Named(n)) = 0 /\ Cardinality(Adders(n)) = 0
          /\ Cardinality(LateAdds(n)) = 0
      BY <2>2, FS_EmptySet
    <3> QED
      BY <2>1, <2>3, <3>1 DEF BoundedFor
  <2> QED
    BY <2>4, <2>5 DEF FewInv
<1>2. Shape /\ FewInv => DuplicatesBounded
  <2> SUFFICES ASSUME Shape, FewInv, NEW c \in Creds
               PROVE  Cardinality(Named(NameOf[c])) <= Cardinality(Instances) + faults
    BY DEF DuplicatesBounded
  <2> QED
    BY Counts DEF FewInv, BoundedFor
<1> QED
  BY <1>1, <1>2, ShapeStart, ShapeStep, AimStart, AimStep, FewStep, PTL DEF Spec
=============================================================================
