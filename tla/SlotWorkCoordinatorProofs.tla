---------------------- MODULE SlotWorkCoordinatorProofs ----------------------
(* Type correctness, ownership of work, the life of an intent, the order   *)
(* of user work and the truth of failure reports, for every team, mailbox, *)
(* set of tasks and bound.                                                 *)
EXTENDS SlotWorkCoordinator, WorkQueueProofs

State == LiveState \cup TerminalState

(* The coordinator's operations with every argument a caller could pass:   *)
(* every request session.rs builds, every runtime constraint, and every    *)
(* list of distinct messages as the unread ones.  The proofs are about     *)
(* these, so that they serve every caller of the coordinator.              *)
MailboxViews == {q \in Seq(Messages) : IsInjective(q)}

AnyEnqueueing(a) ==
  \/ \E s, caller \in Slots, rq \in EnqueueRequest :
       AcquireEnqueue(a, s, rq[1], rq[2], caller)
  \/ \E m \in Messages \cup {NoMsg} : CommitEnqueue(a, m)
  \/ AbortEnqueue(a)

AnyExecuting(a) ==
  \/ \E s \in Slots : \E unread \in MailboxViews : ReconcileMailbox(a, s, unread)
  \/ \E s \in Slots : ClaimBatch(a, s)
  \/ \E s \in Slots : \E S \in SUBSET SignalIds : CompleteSignals(a, s, S)
  \/ \E op \in DOMAIN batches : MarkStarted(a, op)
  \/ \E op \in DOMAIN batches : RetryStart(a, op)
  \/ \E op \in DOMAIN batches, st \in TerminalState : TerminalizeBatch(a, op, st)

AnyControlling(a) ==
  \/ BeginCancel(a)
  \/ CancelRun(a)
  \/ \E s \in Slots : PauseSlot(a, s)
  \/ \E s \in Slots, c \in RuntimeConstraint : SetRuntimeConstraint(a, s, c)
  \/ \E s \in Slots : RemoveSlot(a, s)
  \/ Stop(a)

AnyNext == \E a \in Actors : \/ AnyEnqueueing(a)
                             \/ AnyExecuting(a)
                             \/ AnyControlling(a)
                             \/ PublishNext(a)

(* The steps of the specification are among them.                          *)
LEMMA NextIsAny == [Next]_vars => [AnyNext]_vars
<1>1. \A u \in UnreadLists : u \in MailboxViews
  <2> TAKE u \in UnreadLists
  <2>1. PICK S \in SUBSET Messages : u \in Enumerations(S)
    BY DEF UnreadLists
  <2>2. IsFiniteSet(S)
    BY <2>1, CoordinatorAssumption, FS_Subset
  <2> QED BY <2>1, <2>2, EnumerationProps DEF MailboxViews
<1>2. Requests \subseteq EnqueueRequest /\ Constraints \subseteq RuntimeConstraint
  BY CoordinatorAssumption
<1>3. ASSUME NEW a \in Actors
      PROVE  /\ Enqueueing(a) => AnyEnqueueing(a)
             /\ Executing(a) => AnyExecuting(a)
             /\ Controlling(a) => AnyControlling(a)
  <2>1. Enqueueing(a) => AnyEnqueueing(a)
    BY <1>2 DEF Enqueueing, AnyEnqueueing
  <2>2. Executing(a) => AnyExecuting(a)
    BY <1>1, Zenon DEF Executing, AnyExecuting
  <2>3. Controlling(a) => AnyControlling(a)
    BY <1>2 DEF Controlling, AnyControlling
  <2> QED BY <2>1, <2>2, <2>3
<1> QED BY <1>3 DEF Next, AnyNext

(* Moving intents changes nothing but the state of those that move.        *)
LEMMA MovedType ==
  ASSUME NEW ins \in Seq(WorkIntent), NEW S, NEW st \in State
  PROVE  /\ Moved(ins, S, st) \in Seq(WorkIntent)
         /\ Len(Moved(ins, S, st)) = Len(ins)
         /\ DOMAIN Moved(ins, S, st) = DOMAIN ins
<1> DEFINE mov == Moved(ins, S, st)
           n == Len(ins)
<1>1. n \in Nat /\ DOMAIN ins = 1 .. n /\ \A i \in 1 .. n : ins[i] \in WorkIntent
  BY LenProperties
<1>2. /\ mov = [i \in 1 .. n |-> mov[i]]
      /\ \A i \in 1 .. n : mov[i] = IF i \in S THEN [ins[i] EXCEPT !.state = st]
                                               ELSE ins[i]
  BY <1>1 DEF Moved
<1> HIDE DEF mov, n
<1>3. \A i \in 1 .. n : mov[i] \in WorkIntent
  BY <1>1, <1>2 DEF WorkIntent, State
<1>4. mov \in [1 .. n -> WorkIntent]
  BY <1>2, <1>3
<1>5. mov \in Seq(WorkIntent)
  BY <1>1, <1>4
<1>6. DOMAIN mov = 1 .. n /\ Len(mov) = n
  BY <1>1, <1>4, <1>5
<1> QED BY <1>1, <1>5, <1>6 DEF mov, n

(* Moving intents to a state changes their state and nothing else.          *)
LEMMA MovedFields ==
  ASSUME NEW ins \in Seq(WorkIntent), NEW S, NEW st \in State,
         NEW i \in DOMAIN ins
  PROVE  /\ Moved(ins, S, st)[i].slot = ins[i].slot
         /\ Moved(ins, S, st)[i].source = ins[i].source
         /\ Moved(ins, S, st)[i].msg = ins[i].msg
         /\ Moved(ins, S, st)[i].run = ins[i].run
         /\ Moved(ins, S, st)[i].state = IF i \in S THEN st ELSE ins[i].state
<1>1. ins[i] \in WorkIntent
  BY LenProperties
<1> QED BY <1>1 DEF Moved, WorkIntent

(* Publishing leaves well-typed calls behind.                              *)
LEMMA PublishType ==
  ASSUME TypeOK, NEW a \in Actors, NEW R \in SUBSET (RunIds \cup {NoRun}), Publish(a, R)
  PROVE  todo' \in [Actors -> Seq(Call)]
<1>1. IsFiniteSet(R)
  <2>1. IsFiniteSet(0 .. MaxRuns) /\ RunIds \cup {NoRun} = 0 .. MaxRuns
    BY MaxRunsAssumption, FS_Interval DEF RunIds, NoRun
  <2> QED BY <2>1, FS_Subset
<1>2. PICK order \in Enumerations(R) :
        todo' = [todo EXCEPT ![a] =
                   [k \in DOMAIN order |->
                      RunSummary(intents', leases', order[k])]]
  BY DEF Publish
<1>3. order \in Seq(R)
  BY <1>1, <1>2, EnumerationProps
<1> DEFINE n == Len(order)
           e == [k \in DOMAIN order |-> RunSummary(intents', leases', order[k])]
<1>4. n \in Nat /\ DOMAIN order = 1 .. n /\ \A k \in 1 .. n : order[k] \in RunIds \cup {NoRun}
  BY <1>3, LenProperties
<1>5. \A r \in RunIds \cup {NoRun} : RunSummary(intents', leases', r) \in Call
  BY DEF RunSummary, Call
<1>6. e \in [1 .. n -> Call]
  BY <1>4, <1>5
<1>7. e \in Seq(Call)
  BY <1>4, <1>6
<1> QED BY <1>2, <1>7 DEF TypeOK

(* The elements of the two logs are intents and batches.                   *)
LEMMA LogTypes ==
  ASSUME TypeOK
  PROVE  /\ Len(intents) \in Nat /\ Ids = 1 .. Len(intents)
         /\ \A i \in Ids : intents[i] \in WorkIntent
         /\ Len(batches) \in Nat /\ DOMAIN batches = 1 .. Len(batches)
         /\ \A op \in DOMAIN batches : batches[op] \in WorkBatch
<1>1. intents \in Seq(WorkIntent) /\ batches \in Seq(WorkBatch)
  BY DEF TypeOK
<1>2. /\ Len(intents) \in Nat /\ Ids = 1 .. Len(intents)
      /\ \A i \in Ids : intents[i] \in WorkIntent
  BY <1>1, LenProperties DEF Ids
<1>3. /\ Len(batches) \in Nat /\ DOMAIN batches = 1 .. Len(batches)
      /\ \A op \in DOMAIN batches : batches[op] \in WorkBatch
  BY <1>1, LenProperties
<1> QED BY <1>2, <1>3

(* The runs of known intents are runs.                                     *)
LEMMA RunsOfType ==
  ASSUME TypeOK, NEW S \in SUBSET Ids
  PROVE  RunsOf(S) \in SUBSET RunIds
<1>1. \A i \in Ids : intents[i].run \in RunIds \cup {NoRun}
  BY LogTypes DEF WorkIntent
<1> QED BY <1>1 DEF RunsOf

(* The intents of the batches handed out are known.                        *)
LEMMA BatchIdsKnown ==
  ASSUME TypeOK, WorkOwnedOnce, NEW op \in DOMAIN batches
  PROVE  BatchIds(op) \in SUBSET Ids
BY DEF WorkOwnedOnce, BatchesWellFormed

(* What a slot executes are known intents.                                  *)
LEMMA ActiveIdsKnown ==
  ASSUME TypeOK, WorkOwnedOnce, NEW s \in Slots
  PROVE  ActiveIds(s) \in SUBSET Ids
BY BatchIdsKnown DEF WorkOwnedOnce, BatchHoldsExecuting, ActiveIds

(* What a slot has queued are known intents.                                *)
LEMMA QueuedIdsKnown ==
  ASSUME TypeOK, WorkOwnedOnce, NEW s \in Slots
  PROVE  QueuedIds(s) \in SUBSET Ids
BY DEF WorkOwnedOnce, QueueHoldsWaiting, QueuedIds

(* The run a lease is bound to exists.                                     *)
LEMMA BoundRunType ==
  ASSUME TypeOK, WorkOwnedOnce, NEW binding \in Bindings, NEW caller \in Slots,
         binding = "UserVisible" /\ ~IsActive(run) => runs < MaxRuns
  PROVE  BoundRun(binding, caller) \in RunIds \cup {NoRun}
<1>1. CASE binding = "UserVisible"
  <2>1. runs + 1 \in RunIds \/ IsActive(run)
    BY <1>1, MaxRunsAssumption DEF TypeOK, RunIds
  <2> QED BY <1>1, <2>1 DEF BoundRun, BindUserEnqueue, TypeOK, TeamRunRecord
<1>2. CASE binding = "InheritRunningBatch" /\ active[caller] = 0
  BY <1>2 DEF BoundRun
<1>3. CASE binding = "InheritRunningBatch" /\ active[caller] # 0
  <2> DEFINE op    == active[caller]
             ids   == batches[op].ids
             bound == {k \in DOMAIN ids : intents[ids[k]].run # NoRun}
  <2>1. op \in DOMAIN batches
    BY <1>3 DEF WorkOwnedOnce, BatchHoldsExecuting
  <2>2. \A k \in DOMAIN ids : ids[k] \in Ids
    BY <2>1, BatchIdsKnown DEF BatchIds, Range
  <2>3. \A i \in Ids : intents[i].run \in RunIds \cup {NoRun}
    BY LogTypes DEF WorkIntent
  <2>4. ids \in Seq(Nat)
    BY <2>1, LogTypes DEF WorkBatch
  <2>5. CASE bound = {}
    BY <1>3, <2>5 DEF BoundRun, FirstRun
  <2>6. CASE bound # {}
    <3> DEFINE k0 == CHOOSE k \in bound : \A j \in bound : k <= j
    <3>1. \E k \in bound : \A j \in bound : k <= j
      <4>1. bound \in SUBSET Nat
        BY <2>4, LenProperties
      <4> QED BY <2>6, <4>1, LeastOfNats
    <3>2. k0 \in bound
      BY <3>1
    <3>3. BoundRun(binding, caller) = intents[ids[k0]].run
      BY <1>3, <2>6 DEF BoundRun, FirstRun
    <3> QED BY <2>2, <2>3, <3>2, <3>3
  <2> QED BY <2>5, <2>6
<1>4. CASE binding = "ActiveRunOrBackground"
  BY <1>4 DEF BoundRun, CurrentActiveRunId, TypeOK, TeamRunRecord
<1>5. CASE binding = "Background"
  BY <1>5 DEF BoundRun
<1> QED BY <1>1, <1>2, <1>3, <1>4, <1>5 DEF Bindings

------------------------------------------------------------------------------
(* Types.                                                                  *)

(* The coordinator starts well typed.                                       *)
LEMMA TypeInit == Init => TypeOK
BY MaxRunsAssumption
   DEF Init, TypeOK, RuntimeConstraint, TeamRunRecord, NoRunRecord, RunStatus,
       RunIds, NoRun

(* acquire_enqueue, commit_enqueue and abort_enqueue keep the types.        *)
LEMMA TypeEnqueueing ==
  ASSUME TypeOK, WorkOwnedOnce, NEW a \in Actors, AnyEnqueueing(a)
  PROVE  TypeOK'
<1>1. ASSUME NEW s \in Slots, NEW caller \in Slots, NEW rq \in EnqueueRequest,
             AcquireEnqueue(a, s, rq[1], rq[2], caller)
      PROVE  TypeOK'
  <2>1. rq[1] \in WorkSource /\ rq[2] \in Bindings
    BY CoordinatorAssumption
       DEF EnqueueRequest, WorkSource, Bindings, ForegroundSources,
           ControlSources, BackgroundSources
  <2> DEFINE source == rq[1]
             binding == rq[2]
  <2>2. BoundRun(binding, caller) \in RunIds \cup {NoRun}
    BY <1>1, <2>1, BoundRunType DEF AcquireEnqueue
  <2>3. leases' \subseteq EnqueueLease
    BY <1>1, <2>1, <2>2 DEF AcquireEnqueue, TypeOK, EnqueueLease
  <2>4. run' \in TeamRunRecord /\ runs' \in RunIds \cup {0}
    <3>1. CASE binding = "UserVisible" /\ ~IsActive(run)
      <4>1. runs + 1 \in RunIds
        BY <1>1, <3>1, MaxRunsAssumption DEF AcquireEnqueue, TypeOK, RunIds
      <4> QED
        BY <1>1, <3>1, <4>1
        DEF AcquireEnqueue, BindUserEnqueue, TypeOK, TeamRunRecord, RunStatus,
            ActiveStatus
    <3>2. CASE ~(binding = "UserVisible" /\ ~IsActive(run))
      BY <1>1, <3>2 DEF AcquireEnqueue, BindUserEnqueue, TypeOK
    <3> QED BY <3>1, <3>2
  <2> QED BY <1>1, <2>3, <2>4 DEF AcquireEnqueue, TypeOK, slotVars
<1>2. ASSUME NEW m \in Messages \cup {NoMsg}, CommitEnqueue(a, m)
      PROVE  TypeOK'
  <2>1. PICK l \in leases :
          /\ leases' = leases \ {l}
          /\ intents' = Append(intents, [slot |-> l.slot, source |-> l.source,
                                         msg |-> m, run |-> l.run,
                                         state |-> "Queued"])
          /\ paused' = IF ResumesPausedSlot(l.source)
                       THEN [paused EXCEPT ![l.slot] = FALSE] ELSE paused
          /\ queue' = [queue EXCEPT ![l.slot][PriorityOf(l.source)] =
                         Append(@, Len(intents) + 1)]
          /\ Publish(a, {l.run} \ {NoRun})
          /\ UNCHANGED <<active, batches, constraint, removed, run, runs>>
    BY <1>2 DEF CommitEnqueue
  <2>2. l \in EnqueueLease
    BY <2>1 DEF TypeOK
  <2>3. intents' \in Seq(WorkIntent)
    BY <2>1, <2>2, AppendProperties
    DEF TypeOK, EnqueueLease, WorkIntent, LiveState
  <2>4. queue' \in [Slots -> [Priorities -> Seq(Nat)]]
    <3>1. PriorityOf(l.source) \in Priorities
      BY <2>2 DEF EnqueueLease, WorkSource, PriorityOf, Priorities
    <3>2. Len(intents) + 1 \in Nat
      BY LenProperties DEF TypeOK
    <3>3. Append(queue[l.slot][PriorityOf(l.source)], Len(intents) + 1)
            \in Seq(Nat)
      BY <2>2, <3>1, <3>2, AppendProperties DEF TypeOK, EnqueueLease
    <3> QED BY <2>1, <2>2, <3>1, <3>3 DEF TypeOK, EnqueueLease
  <2>5. todo' \in [Actors -> Seq(Call)]
    <3>1. {l.run} \ {NoRun} \in SUBSET RunIds
      BY <2>2 DEF EnqueueLease
    <3> QED BY <2>1, <3>1, PublishType
  <2>6. paused' \in [Slots -> BOOLEAN] /\ leases' \subseteq EnqueueLease
    BY <2>1, <2>2 DEF TypeOK, EnqueueLease
  <2> QED BY <2>1, <2>3, <2>4, <2>5, <2>6 DEF TypeOK
<1>3. ASSUME AbortEnqueue(a)
      PROVE  TypeOK'
  <2>1. PICK l \in leases :
          LET empties == /\ l.run # NoRun
                         /\ \A i \in Ids : intents[i].run # l.run
                         /\ \A k \in leases \ {l} : k.run # l.run
          IN  /\ leases' = leases \ {l}
              /\ todo' = [todo EXCEPT ![a] =
                    (IF empties THEN <<CallAbout("abort", l.run)>> ELSE <<>>)
                    \o (IF l.run = NoRun THEN <<>>
                        ELSE <<RunSummary(intents, leases', l.run)>>)]
              /\ UNCHANGED <<intents, queue, slotVars, run, runs>>
    BY <1>3 DEF AbortEnqueue
  <2>2. l \in EnqueueLease
    BY <2>1 DEF TypeOK
  <2>3. CallAbout("abort", l.run) \in Call
    BY <2>2 DEF EnqueueLease, CallAbout, Call
  <2>4. RunSummary(intents, leases', l.run) \in Call
    BY <2>2 DEF EnqueueLease, RunSummary, Call
  <2>5. \A x, y \in Seq(Call) : x \o y \in Seq(Call)
    BY ConcatProperties
  <2>6. todo' \in [Actors -> Seq(Call)]
    BY <2>1, <2>3, <2>4, <2>5 DEF TypeOK
  <2> QED BY <2>1, <2>6 DEF TypeOK, slotVars
<1> QED BY <1>1, <1>2, <1>3 DEF AnyEnqueueing

(* What reconcile_mailbox adds: n + 1, ..., n + k to a queue and as many   *)
(* waiting recovery intents to the log.                                    *)
LEMMA FreshType ==
  ASSUME NEW s \in Slots, NEW fresh \in Seq(Messages), NEW n \in Nat
  PROVE  LET new == [k \in DOMAIN fresh |->
                       [slot |-> s, source |-> "RecoveryDrain",
                        msg |-> fresh[k], run |-> NoRun, state |-> "Queued"]]
             ids == [k \in DOMAIN fresh |-> n + k]
         IN  /\ new \in Seq(WorkIntent)
             /\ Len(new) = Len(fresh)
             /\ ids \in Seq(Nat)
             /\ IsInjective(ids)
             /\ Range(ids) = (n + 1) .. (n + Len(fresh))
<1> DEFINE m   == Len(fresh)
           R(k) == [slot |-> s, source |-> "RecoveryDrain",
                    msg |-> fresh[k], run |-> NoRun, state |-> "Queued"]
           new == [k \in DOMAIN fresh |-> R(k)]
           ids == [k \in DOMAIN fresh |-> n + k]
<1>1. m \in Nat /\ DOMAIN fresh = 1 .. m /\ \A k \in 1 .. m : fresh[k] \in Messages
  BY LenProperties
<1>2. \A k \in 1 .. m : R(k) \in WorkIntent
  BY <1>1 DEF WorkIntent, WorkSource, BackgroundSources, LiveState
<1> HIDE DEF m, R
<1>3. new \in [1 .. m -> WorkIntent] /\ ids \in [1 .. m -> Nat]
  BY <1>1, <1>2
<1>4. new \in Seq(WorkIntent) /\ Len(new) = m /\ ids \in Seq(Nat)
  BY <1>1, <1>3
<1>5. IsInjective(ids)
  BY <1>1 DEF IsInjective
<1>6. Range(ids) = (n + 1) .. (n + m)
  <2>1. ASSUME NEW x \in (n + 1) .. (n + m)
        PROVE  x \in Range(ids)
    <3>1. x - n \in 1 .. m /\ x = n + (x - n)
      BY <1>1
    <3>2. x = ids[x - n]
      BY <1>1, <3>1
    <3> QED BY <1>1, <3>1, <3>2 DEF Range
  <2>2. ASSUME NEW x \in Range(ids)
        PROVE  x \in (n + 1) .. (n + m)
    <3>1. PICK k \in 1 .. m : x = n + k
      BY <1>1 DEF Range
    <3> QED BY <1>1, <3>1
  <2> QED BY <2>1, <2>2
<1> QED BY <1>4, <1>5, <1>6 DEF m, R

(* reconcile_mailbox keeps the types.                                       *)
LEMMA TypeReconcile ==
  ASSUME TypeOK, WorkOwnedOnce, NEW a \in Actors, NEW s \in Slots,
         NEW unread \in MailboxViews, ReconcileMailbox(a, s, unread)
  PROVE  TypeOK'
<1> DEFINE stale == {i \in QueuedIds(s) : /\ intents[i].msg # NoMsg
                                          /\ intents[i].msg \notin Range(unread)}
           kept  == Moved(intents, stale, "Completed")
           owned == {kept[i].msg : i \in LiveOf(s) \ stale}
           fresh == Without(unread, owned)
           n     == Len(intents)
           new   == [k \in DOMAIN fresh |->
                       [slot |-> s, source |-> "RecoveryDrain",
                        msg |-> fresh[k], run |-> NoRun, state |-> "Queued"]]
           ids   == [k \in DOMAIN fresh |-> n + k]
<1>1. /\ intents' = kept \o new
      /\ queue' = [queue EXCEPT ![s] =
                     [p \in Priorities |->
                        IF p = Background THEN Without(@[p], stale) \o ids
                                          ELSE Without(@[p], stale)]]
      /\ UNCHANGED <<slotVars, leases, run, runs, todo>>
  BY DEF ReconcileMailbox
<1>2. kept \in Seq(WorkIntent)
  BY MovedType DEF TypeOK, State, TerminalState
<1>3. fresh \in Seq(Messages)
  BY WithoutProperties DEF MailboxViews
<1>4. n \in Nat
  BY LenProperties DEF TypeOK
<1> HIDE DEF stale, kept, owned, fresh, n
<1>5. new \in Seq(WorkIntent) /\ ids \in Seq(Nat)
  BY <1>3, <1>4, FreshType
<1> HIDE DEF new, ids
<1>6. intents' \in Seq(WorkIntent)
  BY <1>1, <1>2, <1>5, ConcatProperties
<1>7. \A p \in Priorities : /\ Without(queue[s][p], stale) \in Seq(Nat)
                            /\ Without(queue[s][p], stale) \o ids \in Seq(Nat)
  <2> TAKE p \in Priorities
  <2>1. queue[s][p] \in Seq(Nat)
    BY DEF TypeOK
  <2>2. Without(queue[s][p], stale) \in Seq(Nat)
    BY <2>1, WithoutProperties
  <2> QED BY <1>5, <2>2, ConcatProperties
<1>8. queue' \in [Slots -> [Priorities -> Seq(Nat)]]
  BY <1>1, <1>7 DEF TypeOK
<1> QED BY <1>1, <1>6, <1>8 DEF TypeOK, slotVars

(* A claim by next keeps the types.                                         *)
LEMMA TypeClaim ==
  ASSUME TypeOK, WorkOwnedOnce, NEW a \in Actors, NEW s \in Slots,
         ClaimBatch(a, s)
  PROVE  TypeOK'
<1>1. PICK p \in Priorities :
        LET ids == Without(queue[s][p], SignalIds)
        IN  /\ batches' = Append(batches, [slot |-> s, ids |-> ids,
                                           priority |-> p])
            /\ intents' = Moved(intents, Range(ids), "Starting")
            /\ queue' = [queue EXCEPT ![s] = RemoveQueued(@, Range(ids))]
            /\ active' = [active EXCEPT ![s] = Len(batches) + 1]
            /\ UNCHANGED <<paused, constraint, removed, leases, run, runs>>
            /\ Publish(a, RunsOf(Range(ids)))
  BY DEF ClaimBatch
<1> DEFINE ids == Without(queue[s][p], SignalIds)
<1>2. queue[s][p] \in Seq(Nat)
  BY DEF TypeOK
<1>3. ids \in Seq(Nat) /\ Range(ids) \in SUBSET Range(queue[s][p])
  BY <1>2, WithoutProperties
<1>4. Range(ids) \in SUBSET Ids
  BY <1>3 DEF WorkOwnedOnce, QueueHoldsWaiting
<1> HIDE DEF ids
<1>5. intents' \in Seq(WorkIntent)
  BY <1>1, MovedType DEF TypeOK, State, LiveState, ids
<1>6. batches' \in Seq(WorkBatch)
  BY <1>1, <1>3, AppendProperties DEF TypeOK, WorkBatch, ids
<1>7. queue' \in [Slots -> [Priorities -> Seq(Nat)]]
  <2>1. \A r \in Priorities : Without(queue[s][r], Range(ids)) \in Seq(Nat)
    <3> TAKE r \in Priorities
    <3>1. queue[s][r] \in Seq(Nat)
      BY DEF TypeOK
    <3> QED BY <3>1, WithoutProperties
  <2> QED BY <1>1, <2>1 DEF TypeOK, RemoveQueued, ids
<1>8. active' \in [Slots -> Nat]
  BY <1>1, LogTypes DEF TypeOK
<1>9. todo' \in [Actors -> Seq(Call)]
  BY <1>1, <1>4, RunsOfType, PublishType DEF ids
<1> QED BY <1>1, <1>5, <1>6, <1>7, <1>8, <1>9 DEF TypeOK

(* Every call of a slot's event loop keeps the types.                       *)
LEMMA TypeExecuting ==
  ASSUME TypeOK, WorkOwnedOnce, NEW a \in Actors, AnyExecuting(a)
  PROVE  TypeOK'
<1>1. ASSUME NEW s \in Slots, NEW S \in SUBSET SignalIds,
             CompleteSignals(a, s, S)
      PROVE  TypeOK'
  <2>1. S \in SUBSET Ids
    BY DEF SignalIds
  <2>2. intents' \in Seq(WorkIntent)
    BY <1>1, MovedType DEF CompleteSignals, TypeOK, State, TerminalState
  <2>3. \A p \in Priorities : Without(queue[s][p], S) \in Seq(Nat)
    <3> TAKE p \in Priorities
    <3>1. queue[s][p] \in Seq(Nat)
      BY DEF TypeOK
    <3> QED BY <3>1, WithoutProperties
  <2>4. queue' \in [Slots -> [Priorities -> Seq(Nat)]]
    BY <1>1, <2>3 DEF CompleteSignals, TypeOK, RemoveQueued
  <2>5. todo' \in [Actors -> Seq(Call)]
    BY <1>1, <2>1, RunsOfType, PublishType DEF CompleteSignals
  <2> QED BY <1>1, <2>2, <2>4, <2>5 DEF CompleteSignals, TypeOK, slotVars
<1>2. ASSUME NEW op \in DOMAIN batches, NEW st \in State,
             intents' = Moved(intents, BatchIds(op), st),
             Publish(a, RunsOf(BatchIds(op)))
      PROVE  intents' \in Seq(WorkIntent) /\ todo' \in [Actors -> Seq(Call)]
  <2>1. intents' \in Seq(WorkIntent)
    BY <1>2, MovedType DEF TypeOK
  <2>2. todo' \in [Actors -> Seq(Call)]
    BY <1>2, BatchIdsKnown, RunsOfType, PublishType
  <2> QED BY <2>1, <2>2
<1>3. ASSUME NEW op \in DOMAIN batches, MarkStarted(a, op)
      PROVE  TypeOK'
  <2>1. intents' \in Seq(WorkIntent) /\ todo' \in [Actors -> Seq(Call)]
    BY <1>2, <1>3 DEF MarkStarted, State, LiveState
  <2> QED BY <1>3, <2>1 DEF MarkStarted, TypeOK, slotVars
<1>4. ASSUME NEW op \in DOMAIN batches, RetryStart(a, op)
      PROVE  TypeOK'
  <2>1. intents' \in Seq(WorkIntent) /\ todo' \in [Actors -> Seq(Call)]
    BY <1>2, <1>4 DEF RetryStart, State, LiveState
  <2> DEFINE b == batches[op]
  <2>2. b.slot \in Slots /\ b.ids \in Seq(Nat) /\ b.priority \in Priorities
    BY <1>4, LogTypes DEF WorkBatch
  <2>3. b.ids \o queue[b.slot][b.priority] \in Seq(Nat)
    BY <2>2, ConcatProperties DEF TypeOK
  <2>4. active' \in [Slots -> Nat]
    BY <1>4 DEF RetryStart, TypeOK
  <2>5. queue' \in [Slots -> [Priorities -> Seq(Nat)]]
    BY <1>4, <2>2, <2>3 DEF RetryStart, TypeOK
  <2> QED BY <1>4, <2>1, <2>4, <2>5 DEF RetryStart, TypeOK
<1>5. ASSUME NEW op \in DOMAIN batches, NEW st \in TerminalState,
             TerminalizeBatch(a, op, st)
      PROVE  TypeOK'
  <2>1. intents' \in Seq(WorkIntent) /\ todo' \in [Actors -> Seq(Call)]
    BY <1>2, <1>5 DEF TerminalizeBatch, State
  <2>2. active' \in [Slots -> Nat]
    BY <1>5 DEF TerminalizeBatch, TypeOK
  <2> QED BY <1>5, <2>1, <2>2 DEF TerminalizeBatch, TypeOK
<1> QED BY <1>1, <1>3, <1>4, <1>5, TypeReconcile, TypeClaim DEF AnyExecuting

(* cancel_run keeps the types.                                              *)
LEMMA TypeCancelRun ==
  ASSUME TypeOK, WorkOwnedOnce, NEW a \in Actors, CancelRun(a)
  PROVE  TypeOK'
<1> DEFINE r     == Head(todo[a]).run
           hit   == {s \in Slots : \E i \in ActiveIds(s) : intents[i].run = r}
           taken == UNION {ActiveIds(s) : s \in hit}
           ofRun == {i \in Ids : intents[i].run = r}
           Back(s, p) == IF s \in hit
                         THEN Without(batches[active[s]].ids,
                                      {i \in Ids : PriorityOfIntent(i) # p})
                         ELSE <<>>
           done  == (taken \cap ofRun)
                    \cup {i \in ofRun : intents[i].state = "Queued"}
<1>1. /\ todo[a] # <<>>
      /\ intents' = Moved(Moved(intents, taken \ ofRun, "Queued"),
                          done, "Cancelled")
      /\ active' = [s \in Slots |-> IF s \in hit THEN 0 ELSE active[s]]
      /\ queue' = [s \in Slots |-> [p \in Priorities |->
                     Without(Back(s, p) \o queue[s][p], done)]]
      /\ leases' = {l \in leases : l.run # r}
      /\ UNCHANGED <<batches, paused, constraint, removed, run, runs>>
      /\ Publish(a, {r})
  BY DEF CancelRun
<1>2. intents' \in Seq(WorkIntent)
  <2>1. Moved(intents, taken \ ofRun, "Queued") \in Seq(WorkIntent)
    BY MovedType DEF TypeOK, State, LiveState
  <2> QED BY <1>1, <2>1, MovedType DEF State, TerminalState
<1>3. \A s \in Slots, p \in Priorities :
        Without(Back(s, p) \o queue[s][p], done) \in Seq(Nat)
  <2> SUFFICES ASSUME NEW s \in Slots, NEW p \in Priorities
               PROVE  Without(Back(s, p) \o queue[s][p], done) \in Seq(Nat)
    OBVIOUS
  <2>1. Back(s, p) \in Seq(Nat)
    <3>1. CASE s \in hit
      <4>1. active[s] \in DOMAIN batches
        BY <3>1 DEF ActiveIds, WorkOwnedOnce, BatchHoldsExecuting
      <4>2. batches[active[s]].ids \in Seq(Nat)
        BY <4>1, LogTypes DEF WorkBatch
      <4> QED BY <3>1, <4>2, WithoutProperties
    <3>2. CASE s \notin hit
      BY <3>2
    <3> QED BY <3>1, <3>2
  <2>2. queue[s][p] \in Seq(Nat)
    BY DEF TypeOK
  <2> HIDE DEF Back, done
  <2>3. Back(s, p) \o queue[s][p] \in Seq(Nat)
    BY <2>1, <2>2, ConcatProperties
  <2> QED BY <2>3, WithoutProperties
<1> HIDE DEF hit, taken, ofRun, Back, done, r
<1>4. r \in RunIds \cup {NoRun}
  <2>1. todo[a] \in Seq(Call) /\ todo[a] # <<>>
    BY <1>1 DEF TypeOK
  <2>2. Head(todo[a]) \in Call
    BY <2>1, HeadTailProperties
  <2> QED BY <2>2 DEF Call, r
<1>5. queue' \in [Slots -> [Priorities -> Seq(Nat)]]
  BY <1>1, <1>3
<1>6. active' \in [Slots -> Nat]
  BY <1>1 DEF TypeOK
<1>7. todo' \in [Actors -> Seq(Call)]
  <2>1. {r} \in SUBSET (RunIds \cup {NoRun})
    BY <1>4
  <2> QED BY <1>1, <2>1, PublishType
<1> QED BY <1>1, <1>2, <1>5, <1>6, <1>7 DEF TypeOK

(* set_runtime_constraint keeps the types.                                  *)
LEMMA TypeConstraint ==
  ASSUME TypeOK, WorkOwnedOnce, NEW a \in Actors, NEW s \in Slots,
         NEW c \in RuntimeConstraint, SetRuntimeConstraint(a, s, c)
  PROVE  TypeOK'
<1> DEFINE ends == c \in {"Failed", "SessionStopped"}
           live == IF ends THEN LiveOf(s) ELSE {}
           kept == IF c = "Failed" THEN {i \in live : intents[i].run = NoRun}
                                   ELSE {}
           At(p) == {i \in kept : PriorityOfIntent(i) = p}
           st   == IF c = "Failed" THEN "Failed" ELSE "Cancelled"
<1>1. /\ constraint' = [constraint EXCEPT ![s] = c]
      /\ intents' = Moved(Moved(intents, kept, "Queued"), live \ kept, st)
      /\ active' = IF ends THEN [active EXCEPT ![s] = 0] ELSE active
      /\ UNCHANGED <<batches, paused, removed, leases, run, runs>>
      /\ Publish(a, RunsOf(live \ kept))
  BY DEF SetRuntimeConstraint
<1>2. PICK f \in Enumerations(At(Foreground)), t \in Enumerations(At(Control)),
           b \in Enumerations(At(Background)) :
        queue' = IF ~ends THEN queue
                 ELSE [queue EXCEPT ![s] =
                         [p \in Priorities |-> CASE p = Foreground -> f
                                                 [] p = Control    -> t
                                                 [] p = Background -> b]]
  BY DEF SetRuntimeConstraint
<1>3. live \in SUBSET Ids /\ \A p : At(p) \in SUBSET Ids
  BY DEF LiveOf
<1>4. f \in Seq(Nat) /\ t \in Seq(Nat) /\ b \in Seq(Nat)
  <2>1. IsFiniteSet(Ids) /\ Ids \in SUBSET Nat
    BY LogTypes, FS_Interval
  <2>2. \A p : IsFiniteSet(At(p)) /\ At(p) \in SUBSET Nat
    BY <1>3, <2>1, FS_Subset
  <2> HIDE DEF At
  <2> QED BY <1>2, <2>2, EnumerationProps
<1> HIDE DEF live, kept, At
<1>5. intents' \in Seq(WorkIntent)
  <2>1. Moved(intents, kept, "Queued") \in Seq(WorkIntent)
    BY MovedType DEF TypeOK, State, LiveState
  <2> QED BY <1>1, <2>1, MovedType DEF State, TerminalState
<1>6. queue' \in [Slots -> [Priorities -> Seq(Nat)]]
  <2> DEFINE q == [p \in Priorities |-> CASE p = Foreground -> f
                                          [] p = Control    -> t
                                          [] p = Background -> b]
  <2>1. q \in [Priorities -> Seq(Nat)]
    BY <1>4 DEF Priorities, Foreground, Control, Background
  <2> HIDE DEF q
  <2>2. queue' = IF ~ends THEN queue ELSE [queue EXCEPT ![s] = q]
    BY <1>2 DEF q
  <2> QED BY <2>1, <2>2 DEF TypeOK
<1>7. todo' \in [Actors -> Seq(Call)]
  BY <1>1, <1>3, RunsOfType, PublishType
<1>8. active' \in [Slots -> Nat] /\ constraint' \in [Slots -> RuntimeConstraint]
  BY <1>1, CoordinatorAssumption DEF TypeOK
<1> QED BY <1>1, <1>5, <1>6, <1>7, <1>8 DEF TypeOK

(* Cancellation, pausing, constraints, removal and stop keep the types.     *)
LEMMA TypeControlling ==
  ASSUME TypeOK, WorkOwnedOnce, NEW a \in Actors, AnyControlling(a)
  PROVE  TypeOK'
<1>0. EmptyQueues \in [Priorities -> Seq(Nat)]
  BY DEF EmptyQueues
<1>1. ASSUME BeginCancel(a)
      PROVE  TypeOK'
  <2>1. CallAbout("cancel", run.id) \in Call
    BY DEF TypeOK, TeamRunRecord, CallAbout, Call
  <2>2. run' \in TeamRunRecord
    BY <1>1 DEF BeginCancel, BeginCancelOf, TypeOK, TeamRunRecord, RunStatus,
                ActiveStatus
  <2>3. todo' \in [Actors -> Seq(Call)]
    BY <1>1, <2>1 DEF BeginCancel, TypeOK
  <2> QED BY <1>1, <2>2, <2>3 DEF BeginCancel, TypeOK, slotVars
<1>2. ASSUME NEW s \in Slots, PauseSlot(a, s)
      PROVE  TypeOK'
  BY <1>2 DEF PauseSlot, TypeOK
<1>3. ASSUME NEW s \in Slots, RemoveSlot(a, s)
      PROVE  TypeOK'
  <2> DEFINE gone == ActiveIds(s) \cup QueuedIds(s) \cup LiveOf(s)
  <2>1. gone \in SUBSET Ids
    BY ActiveIdsKnown, QueuedIdsKnown DEF LiveOf
  <2> HIDE DEF gone
  <2>2. intents' = Moved(intents, gone, "Cancelled") /\ Publish(a, RunsOf(gone))
    BY <1>3 DEF RemoveSlot, gone
  <2>3. intents' \in Seq(WorkIntent)
    BY <2>2, MovedType DEF TypeOK, State, TerminalState
  <2>4. todo' \in [Actors -> Seq(Call)]
    BY <2>1, <2>2, RunsOfType, PublishType
  <2>5. /\ queue' \in [Slots -> [Priorities -> Seq(Nat)]]
        /\ active' \in [Slots -> Nat]
        /\ removed' \in [Slots -> BOOLEAN]
    BY <1>0, <1>3 DEF RemoveSlot, TypeOK
  <2> QED BY <1>3, <2>3, <2>4, <2>5 DEF RemoveSlot, TypeOK
<1>4. ASSUME Stop(a)
      PROVE  TypeOK'
  <2>1. intents' \in Seq(WorkIntent)
    BY <1>4, MovedType DEF Stop, TypeOK, State, TerminalState
  <2>2. RunsOf(Ids) \cup ({l.run : l \in leases} \ {NoRun}) \in SUBSET RunIds
    BY RunsOfType DEF TypeOK, EnqueueLease
  <2>3. todo' \in [Actors -> Seq(Call)]
    BY <1>4, <2>2, PublishType DEF Stop
  <2>4. /\ queue' \in [Slots -> [Priorities -> Seq(Nat)]]
        /\ active' \in [Slots -> Nat]
        /\ constraint' \in [Slots -> RuntimeConstraint]
        /\ leases' \subseteq EnqueueLease
    BY <1>0, <1>4 DEF Stop, RuntimeConstraint
  <2> QED BY <1>4, <2>1, <2>3, <2>4 DEF Stop, TypeOK
<1> QED BY <1>1, <1>2, <1>3, <1>4, TypeCancelRun, TypeConstraint DEF AnyControlling

(* Applying a summary or aborting a binding keeps the types.                *)
LEMMA TypePublishNext ==
  ASSUME TypeOK, NEW a \in Actors, PublishNext(a)
  PROVE  TypeOK'
<1>1. todo[a] \in Seq(Call) /\ todo[a] # <<>>
  BY DEF TypeOK, PublishNext
<1>2. Head(todo[a]) \in Call /\ Tail(todo[a]) \in Seq(Call)
  BY <1>1, HeadTailProperties
<1>3. todo' \in [Actors -> Seq(Call)]
  BY <1>2 DEF PublishNext, TypeOK
<1>4. run' \in TeamRunRecord
  <2>1. CASE run' = ApplyWorkSummary(run, Head(todo[a]))
    <3>1. StatusAfter(run, Head(todo[a])) \in RunStatus
      BY <1>2 DEF TypeOK, TeamRunRecord, StatusAfter, RunStatus, ActiveStatus,
                  Call
    <3> QED BY <2>1, <3>1 DEF ApplyWorkSummary, TypeOK, TeamRunRecord
  <2>2. CASE run' = AbortBinding(run, Head(todo[a]).run)
    BY <2>2 DEF AbortBinding, NoRunRecord, TypeOK, TeamRunRecord, RunStatus
  <2> QED BY <2>1, <2>2 DEF PublishNext
<1> QED BY <1>3, <1>4 DEF PublishNext, TypeOK, slotVars

------------------------------------------------------------------------------
(* Ownership, restated with sets: a queue holds exactly what waits at its  *)
(* slot and priority, an active batch exactly what executes at its slot.   *)

PlacedIn(ins, S, s, p) == {i \in DOMAIN ins : /\ i \in S
                                              /\ ins[i].slot = s
                                              /\ PriorityOf(ins[i].source) = p}

WaitingIn(ins, s, p) == {i \in DOMAIN ins : /\ ins[i].slot = s
                                            /\ PriorityOf(ins[i].source) = p
                                            /\ ins[i].state = "Queued"}

InBatchIn(ins, s) == {i \in DOMAIN ins : /\ ins[i].slot = s
                                         /\ ins[i].state \in {"Starting", "Running"}}

Waiting(s, p) == WaitingIn(intents, s, p)

InBatch(s) == InBatchIn(intents, s)

QueuesExact ==
  \A s \in Slots, p \in Priorities : /\ IsInjective(queue[s][p])
                                     /\ Range(queue[s][p]) = Waiting(s, p)

ActiveExact ==
  \A s \in Slots : /\ active[s] # 0 => /\ active[s] \in DOMAIN batches
                                       /\ batches[active[s]].slot = s
                   /\ ActiveIds(s) = InBatch(s)

(* Every intent has a slot and a priority.                                 *)
LEMMA IntentPlace ==
  ASSUME TypeOK, NEW i \in Ids
  PROVE  intents[i].slot \in Slots /\ PriorityOfIntent(i) \in Priorities
<1>1. intents[i].slot \in Slots /\ intents[i].source \in WorkSource
  BY LogTypes DEF WorkIntent
<1> QED BY <1>1 DEF PriorityOfIntent, PriorityOf, WorkSource, Priorities

(* Ownership in the set form the proofs use follows from WorkOwnedOnce ...  *)
LEMMA OwnedIsExact ==
  ASSUME TypeOK, WorkOwnedOnce
  PROVE  QueuesExact /\ ActiveExact /\ BatchesWellFormed
<1>1. QueuesExact
  BY DEF WorkOwnedOnce, QueueHoldsWaiting, QueuesDistinct, WaitingIsQueued,
         QueuesExact, Waiting, WaitingIn, Ids, PriorityOfIntent
<1>2. ActiveExact
  <2> SUFFICES ASSUME NEW s \in Slots
               PROVE  /\ active[s] # 0 => /\ active[s] \in DOMAIN batches
                                          /\ batches[active[s]].slot = s
                      /\ ActiveIds(s) = InBatch(s)
    BY DEF ActiveExact
  <2>1. active[s] # 0 => /\ active[s] \in DOMAIN batches
                         /\ batches[active[s]].slot = s
    BY DEF WorkOwnedOnce, BatchHoldsExecuting
  <2>2. ASSUME NEW i \in ActiveIds(s)
        PROVE  i \in InBatch(s)
    BY <2>1, <2>2 DEF ActiveIds, WorkOwnedOnce, BatchHoldsExecuting,
                      BatchesWellFormed, InBatch, InBatchIn, Ids
  <2>3. ASSUME NEW i \in InBatch(s)
        PROVE  i \in ActiveIds(s)
    BY <2>3 DEF WorkOwnedOnce, ExecutingIsInBatch, InBatch, InBatchIn, Ids
  <2> QED BY <2>1, <2>2, <2>3
<1> QED BY <1>1, <1>2 DEF WorkOwnedOnce

(* ... and implies it.                                                      *)
LEMMA ExactIsOwned ==
  ASSUME TypeOK', QueuesExact', ActiveExact', BatchesWellFormed'
  PROVE  WorkOwnedOnce'
<1>0. \A i \in Ids' : /\ intents'[i].slot \in Slots
                      /\ PriorityOfIntent(i)' \in Priorities
  <2> TAKE i \in Ids'
  <2>1. intents'[i] \in WorkIntent
    <3>1. intents' \in Seq(WorkIntent)
      BY DEF TypeOK
    <3> QED BY <3>1, LenProperties DEF Ids
  <2>2. intents'[i].slot \in Slots /\ intents'[i].source \in WorkSource
    BY <2>1 DEF WorkIntent
  <2> QED BY <2>2 DEF PriorityOfIntent, PriorityOf, WorkSource, Priorities
<1>1. QueueHoldsWaiting' /\ QueuesDistinct'
  BY DEF QueueHoldsWaiting, QueuesDistinct, QueuesExact, Waiting, WaitingIn, Ids, PriorityOfIntent
<1>2. WaitingIsQueued'
  BY <1>0 DEF WaitingIsQueued, QueuesExact, Waiting, WaitingIn, Ids, PriorityOfIntent
<1>3. BatchHoldsExecuting'
  BY DEF BatchHoldsExecuting, ActiveExact, ActiveIds, InBatch, InBatchIn
<1>4. ExecutingIsInBatch'
  BY <1>0 DEF ExecutingIsInBatch, ActiveExact, InBatch, InBatchIn, Ids
<1> QED BY <1>1, <1>2, <1>3, <1>4 DEF WorkOwnedOnce

(* A step that keeps what intents are keeps the batches well formed.       *)
LEMMA BatchesKept ==
  ASSUME BatchesWellFormed, batches' = batches, Ids \in SUBSET Ids',
         \A i \in Ids : /\ intents'[i].slot = intents[i].slot
                        /\ intents'[i].source = intents[i].source
                        /\ intents'[i].msg = intents[i].msg
  PROVE  BatchesWellFormed'
BY DEF BatchesWellFormed, BatchIds, PriorityOfIntent

(* A step that touches neither intents nor queues nor batches.             *)
LEMMA OwnedUnchanged ==
  ASSUME WorkOwnedOnce, UNCHANGED <<intents, queue, active, batches>>
  PROVE  WorkOwnedOnce'
BY DEF WorkOwnedOnce, QueueHoldsWaiting, QueuesDistinct, WaitingIsQueued,
       BatchesWellFormed, BatchHoldsExecuting, ExecutingIsInBatch, Ids,
       PriorityOfIntent, BatchIds, ActiveIds

(* Nothing is owned wrongly at the start.                                   *)
LEMMA OwnedInit == Init => WorkOwnedOnce
<1> SUFFICES ASSUME Init PROVE WorkOwnedOnce
  OBVIOUS
<1>1. Ids = {} /\ DOMAIN batches = {}
  BY DEF Init, Ids
<1>2. \A s \in Slots, p \in Priorities : queue[s][p] = <<>> /\ active[s] = 0
  BY DEF Init
<1>3. Range(<<>>) = {} /\ IsInjective(<<>>)
  BY DEF Range, IsInjective
<1> QED BY <1>1, <1>2, <1>3
        DEF WorkOwnedOnce, QueueHoldsWaiting, QueuesDistinct, WaitingIsQueued,
            BatchesWellFormed, BatchHoldsExecuting, ExecutingIsInBatch, Init

(* What moving intents does to those sets.                                 *)
LEMMA MovedSets ==
  ASSUME NEW ins \in Seq(WorkIntent), NEW S, NEW st \in State, NEW s, NEW p
  PROVE  LET mov == Moved(ins, S, st)
         IN  /\ mov \in Seq(WorkIntent)
             /\ DOMAIN mov = DOMAIN ins
             /\ WaitingIn(mov, s, p) =
                  IF st = "Queued"
                  THEN WaitingIn(ins, s, p) \cup PlacedIn(ins, S, s, p)
                  ELSE WaitingIn(ins, s, p) \ S
             /\ InBatchIn(mov, s) =
                  IF st \in {"Starting", "Running"}
                  THEN InBatchIn(ins, s)
                       \cup {i \in DOMAIN ins : i \in S /\ ins[i].slot = s}
                  ELSE InBatchIn(ins, s) \ S
<1> DEFINE mov == Moved(ins, S, st)
<1>1. /\ mov \in Seq(WorkIntent)
      /\ DOMAIN mov = DOMAIN ins
      /\ \A i \in DOMAIN ins :
           /\ mov[i].slot = ins[i].slot
           /\ mov[i].source = ins[i].source
           /\ mov[i].state = IF i \in S THEN st ELSE ins[i].state
  BY MovedType, MovedFields
<1> HIDE DEF mov
<1>2. WaitingIn(mov, s, p) = IF st = "Queued"
                             THEN WaitingIn(ins, s, p) \cup PlacedIn(ins, S, s, p)
                             ELSE WaitingIn(ins, s, p) \ S
  BY <1>1 DEF WaitingIn, PlacedIn
<1>3. InBatchIn(mov, s) =
        IF st \in {"Starting", "Running"}
        THEN InBatchIn(ins, s)
             \cup {i \in DOMAIN ins : i \in S /\ ins[i].slot = s}
        ELSE InBatchIn(ins, s) \ S
  BY <1>1 DEF InBatchIn
<1> QED BY <1>1, <1>2, <1>3 DEF mov

(* What a step that only moves intents S to a state does to the two places. *)
LEMMA MovedStep ==
  ASSUME TypeOK, NEW S, NEW st \in State, intents' = Moved(intents, S, st)
  PROVE  /\ Ids' = Ids
         /\ \A s, p : Waiting(s, p)' =
                         IF st = "Queued"
                         THEN Waiting(s, p) \cup PlacedIn(intents, S, s, p)
                         ELSE Waiting(s, p) \ S
         /\ \A s : InBatch(s)' =
                      IF st \in {"Starting", "Running"}
                      THEN InBatch(s) \cup {i \in Ids : /\ i \in S
                                                        /\ intents[i].slot = s}
                      ELSE InBatch(s) \ S
<1>1. intents \in Seq(WorkIntent)
  BY DEF TypeOK
<1>2. ASSUME NEW s, NEW p
      PROVE  /\ Ids' = Ids
             /\ Waiting(s, p)' =
                  IF st = "Queued"
                  THEN Waiting(s, p) \cup PlacedIn(intents, S, s, p)
                  ELSE Waiting(s, p) \ S
             /\ InBatch(s)' =
                  IF st \in {"Starting", "Running"}
                  THEN InBatch(s) \cup {i \in Ids : /\ i \in S
                                                    /\ intents[i].slot = s}
                  ELSE InBatch(s) \ S
  BY <1>1, MovedSets, SMTT(30) DEF Waiting, InBatch, Ids
<1> QED BY <1>2

(* Batches stay well formed when intents only change state.                 *)
LEMMA MovedBatches ==
  ASSUME TypeOK, BatchesWellFormed, batches' = batches, NEW S, NEW st \in State,
         intents' = Moved(intents, S, st)
  PROVE  BatchesWellFormed'
<1>1. /\ DOMAIN intents' = DOMAIN intents
      /\ \A i \in DOMAIN intents : /\ intents'[i].slot = intents[i].slot
                                   /\ intents'[i].source = intents[i].source
                                   /\ intents'[i].msg = intents[i].msg
  <2>1. intents \in Seq(WorkIntent)
    BY DEF TypeOK
  <2> QED BY <2>1, MovedType, MovedFields
<1> QED BY <1>1, BatchesKept DEF Ids

(* The batch is_current_batch accepts is all that executes at its slot.    *)
LEMMA CurrentBatch ==
  ASSUME TypeOK, WorkOwnedOnce, NEW op \in DOMAIN batches, IsCurrentBatch(op)
  PROVE  LET b == batches[op]
         IN  /\ b.slot \in Slots /\ b.priority \in Priorities
             /\ b.ids \in Seq(Nat) /\ IsInjective(b.ids)
             /\ op # 0 /\ active[b.slot] = op
             /\ BatchIds(op) = InBatch(b.slot)
             /\ BatchIds(op) = Range(b.ids)
             /\ \A s, p : PlacedIn(intents, BatchIds(op), s, p) =
                            IF s = b.slot /\ p = b.priority THEN BatchIds(op)
                                                            ELSE {}
<1> DEFINE b == batches[op]
<1>1. b.slot \in Slots /\ b.priority \in Priorities /\ b.ids \in Seq(Nat) /\ op # 0
  BY LogTypes DEF WorkBatch
<1>2. active[b.slot] = op
  BY DEF IsCurrentBatch
<1>3. /\ IsInjective(b.ids)
      /\ \A i \in BatchIds(op) : /\ i \in DOMAIN intents
                                 /\ intents[i].slot = b.slot
                                 /\ PriorityOf(intents[i].source) = b.priority
  BY DEF WorkOwnedOnce, BatchesWellFormed, PriorityOfIntent, Ids
<1>4. BatchIds(op) = InBatch(b.slot)
  BY <1>1, <1>2, OwnedIsExact DEF ActiveExact, ActiveIds
<1>5. \A s, p : PlacedIn(intents, BatchIds(op), s, p) =
                  IF s = b.slot /\ p = b.priority THEN BatchIds(op) ELSE {}
  BY <1>3 DEF PlacedIn
<1> QED BY <1>1, <1>2, <1>3, <1>4, <1>5 DEF BatchIds

(* What waits does not execute, and slots and priorities share nothing.    *)
LEMMA PlacesDisjoint ==
  ASSUME NEW s, NEW p, NEW r
  PROVE  /\ Waiting(s, p) \ InBatch(r) = Waiting(s, p)
         /\ InBatch(r) \cap Waiting(s, p) = {}
         /\ InBatch(s) \ InBatch(r) = IF s = r THEN {} ELSE InBatch(s)
BY DEF Waiting, WaitingIn, InBatch, InBatchIn

(* mark_started keeps ownership exact.                                      *)
LEMMA OwnedMarkStarted ==
  ASSUME TypeOK, TypeOK', WorkOwnedOnce, NEW a \in Actors,
         NEW op \in DOMAIN batches, MarkStarted(a, op)
  PROVE  WorkOwnedOnce'
<1>1. /\ intents' = Moved(intents, BatchIds(op), "Running")
      /\ UNCHANGED <<queue, active, batches>>
      /\ IsCurrentBatch(op)
  BY DEF MarkStarted, slotVars
<1>2. QueuesExact /\ ActiveExact /\ BatchesWellFormed
  BY OwnedIsExact
<1>3. "Running" \in State /\ intents \in Seq(WorkIntent)
  BY DEF State, LiveState, TypeOK
<1>4. \A s, p : Waiting(s, p)' = Waiting(s, p) \ BatchIds(op)
  BY <1>1, <1>3, MovedStep
<1>5. \A s : InBatch(s)' = InBatch(s) \cup {i \in Ids : /\ i \in BatchIds(op)
                                                        /\ intents[i].slot = s}
  BY <1>1, <1>3, MovedStep
<1>6. BatchIds(op) = InBatch(batches[op].slot)
  BY <1>1, CurrentBatch
<1>7. QueuesExact'
  <2>1. \A s, p : Waiting(s, p)' = Waiting(s, p)
    <3> TAKE s, p
    <3>1. Waiting(s, p) \ InBatch(batches[op].slot) = Waiting(s, p)
      BY PlacesDisjoint
    <3> QED BY <1>4, <1>6, <3>1
  <2> QED BY <1>1, <1>2, <2>1 DEF QueuesExact
<1>8. \A s : InBatch(s)' = InBatch(s)
  <2> TAKE s
  <2>1. {i \in Ids : i \in InBatch(batches[op].slot) /\ intents[i].slot = s}
          \subseteq InBatch(s)
    BY DEF InBatch, InBatchIn, Ids
  <2>2. InBatch(s)' = InBatch(s) \cup {i \in Ids : /\ i \in BatchIds(op)
                                                   /\ intents[i].slot = s}
    BY <1>5
  <2> QED BY <1>6, <2>1, <2>2
<1>9. ActiveExact'
  BY <1>1, <1>2, <1>8 DEF ActiveExact, ActiveIds, BatchIds
<1>10. BatchesWellFormed'
  BY <1>1, <1>2, <1>3, MovedBatches
<1> QED BY <1>7, <1>9, <1>10, ExactIsOwned

(* complete_batch, fail_batch and cancel_batch keep ownership exact.        *)
LEMMA OwnedTerminalize ==
  ASSUME TypeOK, TypeOK', WorkOwnedOnce, NEW a \in Actors,
         NEW op \in DOMAIN batches, NEW st \in TerminalState,
         TerminalizeBatch(a, op, st)
  PROVE  WorkOwnedOnce'
<1> DEFINE z == batches[op].slot
<1>1. /\ intents' = Moved(intents, BatchIds(op), st)
      /\ active' = [active EXCEPT ![z] = 0]
      /\ UNCHANGED <<queue, batches>>
      /\ IsCurrentBatch(op)
  BY DEF TerminalizeBatch
<1>2. QueuesExact /\ ActiveExact /\ BatchesWellFormed
  BY OwnedIsExact
<1>3. st \in State /\ st \notin LiveState /\ intents \in Seq(WorkIntent)
  BY DEF State, LiveState, TerminalState, TypeOK
<1>4. \A s, p : Waiting(s, p)' = Waiting(s, p) \ BatchIds(op)
  BY <1>1, <1>3, MovedStep DEF LiveState
<1>5. \A s : InBatch(s)' = InBatch(s) \ BatchIds(op)
  BY <1>1, <1>3, MovedStep DEF LiveState
<1>6. BatchIds(op) = InBatch(z) /\ z \in Slots /\ active[z] = op
  BY <1>1, CurrentBatch
<1> HIDE DEF z
<1>7. QueuesExact'
  <2>1. \A s, p : Waiting(s, p)' = Waiting(s, p)
    <3> TAKE s, p
    <3>1. Waiting(s, p) \ InBatch(z) = Waiting(s, p)
      BY PlacesDisjoint
    <3> QED BY <1>4, <1>6, <3>1
  <2> QED BY <1>1, <1>2, <2>1 DEF QueuesExact
<1>8. \A s : InBatch(s)' = IF s = z THEN {} ELSE InBatch(s)
  <2> TAKE s
  <2>1. InBatch(s) \ InBatch(z) = IF s = z THEN {} ELSE InBatch(s)
    BY PlacesDisjoint
  <2> QED BY <1>5, <1>6, <2>1
<1>9. \A s \in Slots : active'[s] = IF s = z THEN 0 ELSE active[s]
  BY <1>1 DEF TypeOK
<1>10. ActiveExact'
  BY <1>1, <1>2, <1>8, <1>9 DEF ActiveExact, ActiveIds, BatchIds
<1>11. BatchesWellFormed'
  BY <1>1, <1>2, <1>3, MovedBatches
<1> QED BY <1>7, <1>10, <1>11, ExactIsOwned

(* retry_start moves the whole batch back to its queue.                     *)
LEMMA OwnedRetryStart ==
  ASSUME TypeOK, TypeOK', WorkOwnedOnce, NEW a \in Actors,
         NEW op \in DOMAIN batches, RetryStart(a, op)
  PROVE  WorkOwnedOnce'
<1> DEFINE b == batches[op]
           z == b.slot
           y == b.priority
<1>1. /\ intents' = Moved(intents, BatchIds(op), "Queued")
      /\ active' = [active EXCEPT ![z] = 0]
      /\ queue' = [queue EXCEPT ![z][y] = b.ids \o @]
      /\ UNCHANGED batches
      /\ IsCurrentBatch(op)
  BY DEF RetryStart
<1>2. QueuesExact /\ ActiveExact /\ BatchesWellFormed
  BY OwnedIsExact
<1>3. "Queued" \in State /\ intents \in Seq(WorkIntent)
  BY DEF State, LiveState, TypeOK
<1>4. /\ z \in Slots /\ y \in Priorities
      /\ b.ids \in Seq(Nat) /\ IsInjective(b.ids)
      /\ active[z] = op
      /\ BatchIds(op) = InBatch(z) /\ BatchIds(op) = Range(b.ids)
      /\ \A s, p : PlacedIn(intents, BatchIds(op), s, p) =
                     IF s = z /\ p = y THEN BatchIds(op) ELSE {}
  BY <1>1, CurrentBatch
<1>5. \A s, p : Waiting(s, p)' = IF s = z /\ p = y
                                 THEN Waiting(s, p) \cup BatchIds(op)
                                 ELSE Waiting(s, p)
  <2>1. \A s, p : Waiting(s, p)' =
                    Waiting(s, p) \cup PlacedIn(intents, BatchIds(op), s, p)
    BY <1>1, <1>3, MovedStep
  <2> QED BY <1>4, <2>1
<1>6. \A s : InBatch(s)' = InBatch(s) \ BatchIds(op)
  BY <1>1, <1>3, MovedStep
<1> HIDE DEF b, z, y
<1>7. \A s \in Slots, p \in Priorities :
        queue'[s][p] = IF s = z /\ p = y THEN b.ids \o queue[s][p]
                                         ELSE queue[s][p]
  BY <1>1, <1>4 DEF TypeOK
<1>8. QueuesExact'
  <2>1. queue[z][y] \in Seq(Nat)
    BY <1>4 DEF TypeOK
  <2>2. IsInjective(queue[z][y]) /\ Range(queue[z][y]) = Waiting(z, y)
    BY <1>2, <1>4 DEF QueuesExact
  <2>3. Range(b.ids) \cap Range(queue[z][y]) = {}
    <3>1. InBatch(z) \cap Waiting(z, y) = {}
      BY PlacesDisjoint
    <3> QED BY <1>4, <2>2, <3>1
  <2>4. /\ IsInjective(b.ids \o queue[z][y])
        /\ Range(b.ids \o queue[z][y]) = BatchIds(op) \cup Waiting(z, y)
    BY <1>4, <2>1, <2>2, <2>3, ConcatProps
  <2> QED BY <1>2, <1>5, <1>7, <2>4 DEF QueuesExact
<1>9. \A s : InBatch(s)' = IF s = z THEN {} ELSE InBatch(s)
  <2> TAKE s
  <2>1. InBatch(s) \ InBatch(z) = IF s = z THEN {} ELSE InBatch(s)
    BY PlacesDisjoint
  <2> QED BY <1>4, <1>6, <2>1
<1>10. \A s \in Slots : active'[s] = IF s = z THEN 0 ELSE active[s]
  BY <1>1 DEF TypeOK
<1>11. ActiveExact'
  BY <1>1, <1>2, <1>9, <1>10 DEF ActiveExact, ActiveIds, BatchIds
<1>12. BatchesWellFormed'
  BY <1>1, <1>2, <1>3, MovedBatches
<1> QED BY <1>8, <1>11, <1>12, ExactIsOwned

(* complete_signals takes what it settles out of the queues.                *)
LEMMA OwnedCompleteSignals ==
  ASSUME TypeOK, TypeOK', WorkOwnedOnce, NEW a \in Actors, NEW z \in Slots,
         NEW S \in SUBSET SignalIds, CompleteSignals(a, z, S)
  PROVE  WorkOwnedOnce'
<1>1. /\ intents' = Moved(intents, S, "Completed")
      /\ queue' = [queue EXCEPT ![z] = RemoveQueued(@, S)]
      /\ UNCHANGED <<active, batches>>
      /\ \A i \in S : /\ i \in Ids /\ intents[i].slot = z
                      /\ intents[i].state = "Queued"
  BY DEF CompleteSignals, slotVars, SignalIds
<1>2. QueuesExact /\ ActiveExact /\ BatchesWellFormed
  BY OwnedIsExact
<1>3. "Completed" \in State
  BY DEF State, TerminalState
<1>4. /\ \A s, p : Waiting(s, p)' = Waiting(s, p) \ S
      /\ \A s : InBatch(s)' = InBatch(s) \ S
  BY <1>1, <1>3, MovedStep
<1>5. \A s \in Slots, p \in Priorities :
        queue'[s][p] = IF s = z THEN Without(queue[s][p], S) ELSE queue[s][p]
  BY <1>1 DEF TypeOK, RemoveQueued
<1>6. \A s : InBatch(s)' = InBatch(s)
  <2> TAKE s
  <2>1. InBatch(s) \ S = InBatch(s)
    BY <1>1 DEF InBatch, InBatchIn, Ids
  <2> QED BY <1>4, <2>1
<1>7. QueuesExact'
  <2> SUFFICES ASSUME NEW s \in Slots, NEW p \in Priorities
               PROVE  /\ IsInjective(queue'[s][p])
                      /\ Range(queue'[s][p]) = Waiting(s, p)'
    BY DEF QueuesExact
  <2>1. queue[s][p] \in Seq(Nat)
    BY DEF TypeOK
  <2>2. IsInjective(queue[s][p]) /\ Range(queue[s][p]) = Waiting(s, p)
    BY <1>2 DEF QueuesExact
  <2>3. CASE s = z
    <3>1. /\ IsInjective(Without(queue[s][p], S))
          /\ Range(Without(queue[s][p], S)) = Waiting(s, p) \ S
      BY <2>1, <2>2, WithoutProperties
    <3> QED BY <1>4, <1>5, <2>3, <3>1
  <2>4. CASE s # z
    <3>1. Waiting(s, p) \ S = Waiting(s, p)
      BY <1>1, <2>4 DEF Waiting, WaitingIn
    <3> QED BY <1>4, <1>5, <2>2, <2>4, <3>1
  <2> QED BY <2>3, <2>4
<1>8. ActiveExact'
  BY <1>1, <1>2, <1>6 DEF ActiveExact, ActiveIds, BatchIds
<1>9. BatchesWellFormed'
  BY <1>1, <1>2, <1>3, MovedBatches
<1> QED BY <1>7, <1>8, <1>9, ExactIsOwned

(* RemoveSlot and Stop: everything the slots of Z own is finished.         *)
LEMMA OwnedEmptied ==
  ASSUME TypeOK, TypeOK', WorkOwnedOnce, NEW Z \in SUBSET Slots,
         NEW S \in SUBSET Ids, NEW st \in TerminalState,
         \A i \in Ids : intents[i].slot \in Z /\ IsLive(i) => i \in S,
         \A i \in S : intents[i].slot \in Z,
         intents' = Moved(intents, S, st),
         queue' = [s \in Slots |-> IF s \in Z THEN EmptyQueues ELSE queue[s]],
         active' = [s \in Slots |-> IF s \in Z THEN 0 ELSE active[s]],
         batches' = batches
  PROVE  WorkOwnedOnce'
<1>1. QueuesExact /\ ActiveExact /\ BatchesWellFormed
  BY OwnedIsExact
<1>2. st \in State /\ st \notin LiveState
  BY DEF State, TerminalState, LiveState
<1>3. /\ \A s, p : Waiting(s, p)' = Waiting(s, p) \ S
      /\ \A s : InBatch(s)' = InBatch(s) \ S
  BY <1>2, MovedStep DEF LiveState
<1>4. \A s \in Slots, p \in Priorities :
        Waiting(s, p)' = IF s \in Z THEN {} ELSE Waiting(s, p)
  <2> TAKE s \in Slots, p \in Priorities
  <2>1. Waiting(s, p) \ S = IF s \in Z THEN {} ELSE Waiting(s, p)
    BY DEF Waiting, WaitingIn, Ids, IsLive, LiveState
  <2> QED BY <1>3, <2>1
<1>5. \A s \in Slots : InBatch(s)' = IF s \in Z THEN {} ELSE InBatch(s)
  <2> TAKE s \in Slots
  <2>1. InBatch(s) \ S = IF s \in Z THEN {} ELSE InBatch(s)
    BY DEF InBatch, InBatchIn, Ids, IsLive, LiveState
  <2> QED BY <1>3, <2>1
<1>6. QueuesExact'
  <2>1. IsInjective(<<>>) /\ Range(<<>>) = {}
    BY DEF IsInjective, Range
  <2>2. \A s \in Slots, p \in Priorities :
          queue'[s][p] = IF s \in Z THEN <<>> ELSE queue[s][p]
    BY DEF EmptyQueues
  <2> SUFFICES ASSUME NEW s \in Slots, NEW p \in Priorities
               PROVE  /\ IsInjective(queue'[s][p])
                      /\ Range(queue'[s][p]) = Waiting(s, p)'
    BY DEF QueuesExact
  <2>3. IsInjective(queue[s][p]) /\ Range(queue[s][p]) = Waiting(s, p)
    BY <1>1 DEF QueuesExact
  <2> QED BY <1>4, <2>1, <2>2, <2>3
<1>7. ActiveExact'
  <2>1. \A s \in Slots : active'[s] = IF s \in Z THEN 0 ELSE active[s]
    OBVIOUS
  <2> QED BY <1>1, <1>5, <2>1 DEF ActiveExact, ActiveIds, BatchIds
<1>8. BatchesWellFormed'
  BY <1>1, <1>2, MovedBatches
<1> QED BY <1>6, <1>7, <1>8, ExactIsOwned

(* remove_slot leaves the slot without any live work.                       *)
LEMMA OwnedRemoveSlot ==
  ASSUME TypeOK, TypeOK', WorkOwnedOnce, NEW a \in Actors, NEW z \in Slots,
         RemoveSlot(a, z)
  PROVE  WorkOwnedOnce'
<1> DEFINE gone == ActiveIds(z) \cup QueuedIds(z) \cup LiveOf(z)
<1>1. /\ intents' = Moved(intents, gone, "Cancelled")
      /\ queue' = [s \in Slots |-> IF s \in {z} THEN EmptyQueues ELSE queue[s]]
      /\ active' = [s \in Slots |-> IF s \in {z} THEN 0 ELSE active[s]]
      /\ batches' = batches
  BY DEF RemoveSlot, TypeOK
<1>2. gone \in SUBSET Ids /\ \A i \in gone : intents[i].slot \in {z}
  <2>1. ActiveIds(z) = InBatch(z)
    BY OwnedIsExact DEF ActiveExact
  <2>2. \A i \in ActiveIds(z) : i \in Ids /\ intents[i].slot = z
    BY <2>1 DEF InBatch, InBatchIn, Ids
  <2>3. \A i \in QueuedIds(z) : i \in Ids /\ intents[i].slot = z
    BY DEF QueuedIds, WorkOwnedOnce, QueueHoldsWaiting
  <2>4. \A i \in LiveOf(z) : i \in Ids /\ intents[i].slot = z
    BY DEF LiveOf
  <2> QED BY <2>2, <2>3, <2>4
<1>3. \A i \in Ids : intents[i].slot \in {z} /\ IsLive(i) => i \in gone
  BY DEF LiveOf
<1>4. "Cancelled" \in TerminalState /\ {z} \in SUBSET Slots
  BY DEF TerminalState
<1> HIDE DEF gone
<1> QED BY <1>1, <1>2, <1>3, <1>4, OwnedEmptied

(* stop leaves no slot with any live work.                                  *)
LEMMA OwnedStop ==
  ASSUME TypeOK, TypeOK', WorkOwnedOnce, NEW a \in Actors, Stop(a)
  PROVE  WorkOwnedOnce'
<1> DEFINE gone == {i \in Ids : IsLive(i)}
<1>1. /\ intents' = Moved(intents, gone, "Cancelled")
      /\ queue' = [s \in Slots |-> IF s \in Slots THEN EmptyQueues ELSE queue[s]]
      /\ active' = [s \in Slots |-> IF s \in Slots THEN 0 ELSE active[s]]
      /\ batches' = batches
  BY DEF Stop
<1>2. /\ gone \in SUBSET Ids /\ \A i \in gone : intents[i].slot \in Slots
      /\ \A i \in Ids : intents[i].slot \in Slots /\ IsLive(i) => i \in gone
  BY IntentPlace
<1>3. "Cancelled" \in TerminalState /\ Slots \in SUBSET Slots
  BY DEF TerminalState
<1> HIDE DEF gone
<1> QED BY <1>1, <1>2, <1>3, OwnedEmptied

(* A claim by next moves its ids from the queue to the active batch.        *)
LEMMA OwnedClaim ==
  ASSUME TypeOK, TypeOK', WorkOwnedOnce, NEW a \in Actors, NEW z \in Slots,
         ClaimBatch(a, z)
  PROVE  WorkOwnedOnce'
<1>1. PICK y \in Priorities :
        LET ids == Without(queue[z][y], SignalIds)
        IN  /\ active[z] = 0
            /\ batches' = Append(batches, [slot |-> z, ids |-> ids,
                                           priority |-> y])
            /\ intents' = Moved(intents, Range(ids), "Starting")
            /\ queue' = [queue EXCEPT ![z] = RemoveQueued(@, Range(ids))]
            /\ active' = [active EXCEPT ![z] = Len(batches) + 1]
  BY DEF ClaimBatch
<1> DEFINE ids == Without(queue[z][y], SignalIds)
           S   == Range(ids)
           n   == Len(batches)
<1>2. QueuesExact /\ ActiveExact /\ BatchesWellFormed
  BY OwnedIsExact
<1>3. /\ ids \in Seq(Nat) /\ IsInjective(ids)
      /\ S = Waiting(z, y) \ SignalIds
  <2>1. queue[z][y] \in Seq(Nat)
    BY DEF TypeOK
  <2>2. IsInjective(queue[z][y]) /\ Range(queue[z][y]) = Waiting(z, y)
    BY <1>2 DEF QueuesExact
  <2> QED BY <2>1, <2>2, WithoutProperties
<1>4. \A i \in S : /\ i \in Ids /\ intents[i].slot = z
                   /\ PriorityOf(intents[i].source) = y
                   /\ intents[i].msg # NoMsg
                   /\ intents[i].state = "Queued"
  BY <1>3 DEF Waiting, WaitingIn, SignalIds, Ids
<1>5. /\ n \in Nat /\ DOMAIN batches = 1 .. n /\ DOMAIN batches' = 1 .. (n + 1)
      /\ \A op \in 1 .. n : batches'[op] = batches[op]
      /\ batches'[n + 1] = [slot |-> z, ids |-> ids, priority |-> y]
  <2>1. batches \in Seq(WorkBatch) /\ [slot |-> z, ids |-> ids, priority |-> y] \in WorkBatch
    BY <1>3 DEF TypeOK, WorkBatch
  <2>2. batches' = Append(batches, [slot |-> z, ids |-> ids, priority |-> y])
    BY <1>1
  <2> HIDE DEF ids
  <2> QED BY <2>1, <2>2, LenProperties, AppendProperties
<1>6. /\ Ids' = Ids
      /\ \A s, p : Waiting(s, p)' = Waiting(s, p) \ S
      /\ \A s : InBatch(s)' = InBatch(s) \cup {i \in Ids : /\ i \in S
                                                           /\ intents[i].slot = s}
  <2>1. "Starting" \in State
    BY DEF State, LiveState
  <2> QED BY <1>1, <2>1, MovedStep
<1>7. \A i \in Ids : /\ intents'[i].slot = intents[i].slot
                     /\ intents'[i].source = intents[i].source
                     /\ intents'[i].msg = intents[i].msg
  <2>1. "Starting" \in State /\ intents \in Seq(WorkIntent)
    BY DEF State, LiveState, TypeOK
  <2> QED BY <1>1, <2>1, MovedFields DEF Ids
<1>8. \A s \in Slots, p \in Priorities :
        queue'[s][p] = IF s = z THEN Without(queue[s][p], S) ELSE queue[s][p]
  BY <1>1 DEF TypeOK, RemoveQueued
<1>9. \A s \in Slots : active'[s] = IF s = z THEN n + 1 ELSE active[s]
  BY <1>1 DEF TypeOK
<1> HIDE DEF ids, S, n
<1>10. QueuesExact'
  <2> SUFFICES ASSUME NEW s \in Slots, NEW p \in Priorities
               PROVE  /\ IsInjective(queue'[s][p])
                      /\ Range(queue'[s][p]) = Waiting(s, p)'
    BY DEF QueuesExact
  <2>1. queue[s][p] \in Seq(Nat)
    BY DEF TypeOK
  <2>2. IsInjective(queue[s][p]) /\ Range(queue[s][p]) = Waiting(s, p)
    BY <1>2 DEF QueuesExact
  <2>3. CASE s = z
    <3>1. /\ IsInjective(Without(queue[s][p], S))
          /\ Range(Without(queue[s][p], S)) = Waiting(s, p) \ S
      BY <2>1, <2>2, WithoutProperties
    <3> QED BY <1>6, <1>8, <2>3, <3>1
  <2>4. CASE s # z
    <3>1. Waiting(s, p) \ S = Waiting(s, p)
      BY <1>4, <2>4 DEF Waiting, WaitingIn
    <3> QED BY <1>6, <1>8, <2>2, <2>4, <3>1
  <2> QED BY <2>3, <2>4
<1>11. ActiveExact'
  <2> SUFFICES ASSUME NEW s \in Slots
               PROVE  /\ active'[s] # 0 => /\ active'[s] \in DOMAIN batches'
                                           /\ batches'[active'[s]].slot = s
                      /\ ActiveIds(s)' = InBatch(s)'
    BY DEF ActiveExact
  <2>1. CASE s = z
    <3>1. active'[s] = n + 1 /\ batches'[n + 1].slot = s /\ batches'[n + 1].ids = ids
      BY <1>5, <1>9, <2>1
    <3>2. ActiveIds(s)' = S
      BY <1>5, <3>1 DEF ActiveIds, BatchIds, S
    <3>3. InBatch(s) = {}
      BY <1>1, <1>2, <2>1 DEF ActiveExact, ActiveIds
    <3>4. {i \in Ids : i \in S /\ intents[i].slot = s} = S
      BY <1>4, <2>1
    <3>5. InBatch(s)' = S
      BY <1>6, <3>3, <3>4
    <3>6. n + 1 \in DOMAIN batches'
      BY <1>5
    <3> QED BY <3>1, <3>2, <3>5, <3>6
  <2>2. CASE s # z
    <3>1. {i \in Ids : i \in S /\ intents[i].slot = s} = {}
      BY <1>4, <2>2
    <3>2. InBatch(s)' = InBatch(s)
      BY <1>6, <3>1
    <3>3. active'[s] = active[s]
      BY <1>9, <2>2
    <3>4. active[s] # 0 => /\ active[s] \in 1 .. n
                           /\ batches[active[s]].slot = s
      BY <1>2, <1>5 DEF ActiveExact
    <3>5. ActiveIds(s)' = ActiveIds(s)
      BY <1>5, <3>3, <3>4 DEF ActiveIds, BatchIds
    <3>6. ActiveIds(s) = InBatch(s)
      BY <1>2 DEF ActiveExact
    <3> QED BY <1>5, <3>2, <3>3, <3>4, <3>5, <3>6
  <2> QED BY <2>1, <2>2
<1>12. BatchesWellFormed'
  <2> SUFFICES ASSUME NEW op \in 1 .. (n + 1)
               PROVE  /\ IsInjective(batches'[op].ids)
                      /\ \A i \in Range(batches'[op].ids) :
                           /\ i \in Ids'
                           /\ intents'[i].slot = batches'[op].slot
                           /\ PriorityOf(intents'[i].source) = batches'[op].priority
                           /\ intents'[i].msg # NoMsg
    BY <1>5 DEF BatchesWellFormed, BatchIds, PriorityOfIntent
  <2>1. CASE op \in 1 .. n
    BY <1>2, <1>5, <1>6, <1>7, <2>1 DEF BatchesWellFormed, BatchIds, PriorityOfIntent
  <2>2. CASE op = n + 1
    BY <1>3, <1>4, <1>5, <1>6, <1>7, <2>2 DEF S
  <2> QED BY <1>5, <2>1, <2>2
<1> QED BY <1>10, <1>11, <1>12, ExactIsOwned

(* commit_enqueue queues the new intent once.                               *)
LEMMA OwnedCommit ==
  ASSUME TypeOK, TypeOK', WorkOwnedOnce, NEW a \in Actors,
         NEW m \in Messages \cup {NoMsg}, CommitEnqueue(a, m)
  PROVE  WorkOwnedOnce'
<1>1. PICK l \in leases :
        /\ intents' = Append(intents, [slot |-> l.slot, source |-> l.source,
                                       msg |-> m, run |-> l.run,
                                       state |-> "Queued"])
        /\ queue' = [queue EXCEPT ![l.slot][PriorityOf(l.source)] =
                       Append(@, Len(intents) + 1)]
        /\ UNCHANGED <<active, batches>>
  BY DEF CommitEnqueue
<1> DEFINE z == l.slot
           y == PriorityOf(l.source)
           n == Len(intents)
           e == [slot |-> l.slot, source |-> l.source, msg |-> m,
                 run |-> l.run, state |-> "Queued"]
<1>2. QueuesExact /\ ActiveExact /\ BatchesWellFormed
  BY OwnedIsExact
<1>3. z \in Slots /\ y \in Priorities /\ e \in WorkIntent
  BY DEF TypeOK, EnqueueLease, WorkSource, PriorityOf, Priorities, WorkIntent,
         LiveState
<1>4. /\ n \in Nat /\ DOMAIN intents = 1 .. n /\ DOMAIN intents' = 1 .. (n + 1)
      /\ \A i \in 1 .. n : intents'[i] = intents[i]
      /\ intents'[n + 1] = e
  <2>1. intents \in Seq(WorkIntent)
    BY DEF TypeOK
  <2>2. intents' = Append(intents, e)
    BY <1>1
  <2> HIDE DEF e
  <2> QED BY <1>3, <2>1, <2>2, LenProperties, AppendProperties
<1>5. /\ intents'[n + 1].slot = z /\ PriorityOf(intents'[n + 1].source) = y
      /\ intents'[n + 1].state = "Queued"
  BY <1>4
<1>6. \A s \in Slots, p \in Priorities :
        queue'[s][p] = IF s = z /\ p = y THEN Append(queue[s][p], n + 1)
                                         ELSE queue[s][p]
  BY <1>1, <1>3 DEF TypeOK
<1> HIDE DEF z, y, n, e
<1>7. \A i \in DOMAIN intents' : i \in DOMAIN intents \/ i = n + 1
  BY <1>4
<1>8. n + 1 \in DOMAIN intents' /\ n + 1 \notin DOMAIN intents
      /\ DOMAIN intents \in SUBSET DOMAIN intents'
  BY <1>4
<1>9. \A s \in Slots, p \in Priorities :
        Waiting(s, p)' = IF s = z /\ p = y THEN Waiting(s, p) \cup {n + 1}
                                           ELSE Waiting(s, p)
  BY <1>4, <1>5, <1>7, <1>8 DEF Waiting, WaitingIn
<1>10. \A s \in Slots : InBatch(s)' = InBatch(s)
  BY <1>4, <1>5, <1>7, <1>8 DEF InBatch, InBatchIn
<1>11. QueuesExact'
  <2> SUFFICES ASSUME NEW s \in Slots, NEW p \in Priorities
               PROVE  /\ IsInjective(queue'[s][p])
                      /\ Range(queue'[s][p]) = Waiting(s, p)'
    BY DEF QueuesExact
  <2>1. queue[s][p] \in Seq(Nat) /\ n + 1 \in Nat
    BY <1>4 DEF TypeOK
  <2>2. IsInjective(queue[s][p]) /\ Range(queue[s][p]) = Waiting(s, p)
    BY <1>2 DEF QueuesExact
  <2>3. n + 1 \notin Range(queue[s][p])
    BY <1>8, <2>2 DEF Waiting, WaitingIn
  <2>4. /\ IsInjective(Append(queue[s][p], n + 1))
        /\ Range(Append(queue[s][p], n + 1)) = Waiting(s, p) \cup {n + 1}
    BY <2>1, <2>2, <2>3, AppendProps
  <2> QED BY <1>6, <1>9, <2>2, <2>4
<1>12. ActiveExact'
  BY <1>1, <1>2, <1>10 DEF ActiveExact, ActiveIds, BatchIds
<1>13. BatchesWellFormed'
  BY <1>1, <1>2, <1>4, <1>8, BatchesKept DEF Ids
<1> QED BY <1>11, <1>12, <1>13, ExactIsOwned

(* reconcile_mailbox drops what it settles and queues each recovery once.   *)
LEMMA OwnedReconcile ==
  ASSUME TypeOK, TypeOK', WorkOwnedOnce, NEW a \in Actors, NEW z \in Slots,
         NEW unread \in MailboxViews, ReconcileMailbox(a, z, unread)
  PROVE  WorkOwnedOnce'
<1> DEFINE stale == {i \in QueuedIds(z) : /\ intents[i].msg # NoMsg
                                          /\ intents[i].msg \notin Range(unread)}
           kept  == Moved(intents, stale, "Completed")
           owned == {kept[i].msg : i \in LiveOf(z) \ stale}
           fresh == Without(unread, owned)
           n     == Len(intents)
           m     == Len(fresh)
           new   == [k \in DOMAIN fresh |->
                       [slot |-> z, source |-> "RecoveryDrain",
                        msg |-> fresh[k], run |-> NoRun, state |-> "Queued"]]
           ids   == [k \in DOMAIN fresh |-> n + k]
<1>1. /\ intents' = kept \o new
      /\ queue' = [queue EXCEPT ![z] =
                     [p \in Priorities |->
                        IF p = Background THEN Without(@[p], stale) \o ids
                                          ELSE Without(@[p], stale)]]
      /\ UNCHANGED <<active, batches>>
  BY DEF ReconcileMailbox, slotVars
<1>2. QueuesExact /\ ActiveExact /\ BatchesWellFormed
  BY OwnedIsExact
<1>3. \A i \in stale : /\ i \in Ids /\ intents[i].slot = z
                       /\ intents[i].state = "Queued"
  BY DEF QueuedIds, WorkOwnedOnce, QueueHoldsWaiting
<1>4. fresh \in Seq(Messages) /\ m \in Nat /\ DOMAIN fresh = 1 .. m
  <2>1. fresh \in Seq(Messages)
    BY WithoutProperties DEF MailboxViews
  <2> QED BY <2>1, LenProperties
<1>5. n \in Nat /\ DOMAIN intents = 1 .. n
  BY LogTypes DEF Ids
<1>6. "Completed" \in State /\ intents \in Seq(WorkIntent)
  BY DEF State, TerminalState, TypeOK
<1>7. \A k \in 1 .. m : /\ new[k].slot = z
                        /\ PriorityOf(new[k].source) = Background
                        /\ new[k].state = "Queued"
  BY <1>4 DEF PriorityOf, ForegroundSources, ControlSources, BackgroundSources,
              Foreground, Control, Background
<1> HIDE DEF stale, fresh, n, m, owned
<1>8. /\ kept \in Seq(WorkIntent) /\ Len(kept) = n /\ DOMAIN kept = 1 .. n
  BY <1>5, <1>6, MovedType DEF n
<1>9. /\ \A s, p : WaitingIn(kept, s, p) = Waiting(s, p) \ stale
      /\ \A s : InBatchIn(kept, s) = InBatch(s) \ stale
  <2>1. ASSUME NEW s, NEW p
        PROVE  /\ WaitingIn(kept, s, p) = Waiting(s, p) \ stale
               /\ InBatchIn(kept, s) = InBatch(s) \ stale
    BY <1>6, MovedSets DEF Waiting, InBatch
  <2> HIDE DEF kept
  <2> QED BY <2>1
<1>10. \A i \in DOMAIN intents : /\ kept[i].slot = intents[i].slot
                                 /\ kept[i].source = intents[i].source
                                 /\ kept[i].msg = intents[i].msg
  BY <1>6, MovedFields
<1>11. /\ new \in Seq(WorkIntent) /\ Len(new) = m
       /\ ids \in Seq(Nat) /\ IsInjective(ids)
       /\ Range(ids) = (n + 1) .. (n + m)
  BY <1>4, <1>5, FreshType DEF m
<1> HIDE DEF kept, new, ids
<1>12. /\ DOMAIN intents' = 1 .. (n + m)
       /\ \A i \in 1 .. n : intents'[i] = kept[i]
       /\ \A i \in (n + 1) .. (n + m) : intents'[i] = new[i - n]
  BY <1>1, <1>4, <1>5, <1>8, <1>11, ConcatProperties
<1>13. \A i \in (n + 1) .. (n + m) :
         /\ intents'[i].slot = z
         /\ PriorityOf(intents'[i].source) = Background
         /\ intents'[i].state = "Queued"
         /\ i \in DOMAIN intents' /\ i \notin 1 .. n
  BY <1>4, <1>5, <1>7, <1>12
<1>14. /\ \A i \in DOMAIN intents' : i \in 1 .. n \/ i \in (n + 1) .. (n + m)
       /\ 1 .. n \in SUBSET DOMAIN intents'
  BY <1>4, <1>5, <1>12
<1>15. \A s \in Slots, p \in Priorities :
         Waiting(s, p)' = (Waiting(s, p) \ stale)
                          \cup (IF s = z /\ p = Background
                                THEN (n + 1) .. (n + m) ELSE {})
  <2> TAKE s \in Slots, p \in Priorities
  <2>1. Waiting(s, p)' = WaitingIn(kept, s, p)
                         \cup (IF s = z /\ p = Background
                               THEN (n + 1) .. (n + m) ELSE {})
    BY <1>8, <1>12, <1>13, <1>14 DEF Waiting, WaitingIn
  <2> QED BY <1>9, <2>1
<1>16. \A s \in Slots : InBatch(s)' = InBatch(s)
  <2> TAKE s \in Slots
  <2>1. InBatch(s)' = InBatchIn(kept, s)
    BY <1>8, <1>12, <1>13, <1>14 DEF InBatch, InBatchIn
  <2>2. InBatch(s) \ stale = InBatch(s)
    BY <1>3 DEF InBatch, InBatchIn
  <2> QED BY <1>9, <2>1, <2>2
<1>17. QueuesExact'
  <2> SUFFICES ASSUME NEW s \in Slots, NEW p \in Priorities
               PROVE  /\ IsInjective(queue'[s][p])
                      /\ Range(queue'[s][p]) = Waiting(s, p)'
    BY DEF QueuesExact
  <2> DEFINE w == Without(queue[s][p], stale)
  <2>1. queue[s][p] \in Seq(Nat)
    BY DEF TypeOK
  <2>2. IsInjective(queue[s][p]) /\ Range(queue[s][p]) = Waiting(s, p)
    BY <1>2 DEF QueuesExact
  <2>3. w \in Seq(Nat) /\ IsInjective(w) /\ Range(w) = Waiting(s, p) \ stale
    BY <2>1, <2>2, WithoutProperties
  <2>4. CASE s # z
    <3>1. Waiting(s, p) \ stale = Waiting(s, p)
      BY <1>3, <2>4 DEF Waiting, WaitingIn
    <3>2. queue'[s][p] = queue[s][p]
      BY <1>1, <2>4 DEF TypeOK
    <3> QED BY <1>15, <2>2, <2>4, <3>1, <3>2
  <2>5. CASE s = z /\ p # Background
    <3>1. queue'[s][p] = w
      BY <1>1, <2>5 DEF TypeOK
    <3> HIDE DEF w
    <3> QED BY <1>15, <2>3, <2>5, <3>1
  <2>6. CASE s = z /\ p = Background
    <3>1. queue'[s][p] = w \o ids
      BY <1>1, <2>6 DEF TypeOK
    <3>2. Range(w) \cap Range(ids) = {}
      BY <1>5, <1>11, <1>13, <2>3 DEF Waiting, WaitingIn
    <3> HIDE DEF w
    <3>3. Range(w \o ids) = Range(w) \cup Range(ids)
      BY <1>11, <2>3, ConcatProps, ZenonT(30)
    <3>4. IsInjective(w \o ids)
      BY <1>11, <2>3, <3>2, ConcatProps, ZenonT(30)
    <3> QED BY <1>11, <1>15, <2>3, <2>6, <3>1, <3>3, <3>4
  <2> QED BY <2>4, <2>5, <2>6
<1>18. ActiveExact'
  BY <1>1, <1>2, <1>16 DEF ActiveExact, ActiveIds, BatchIds
<1>19. BatchesWellFormed'
  BY <1>1, <1>2, <1>5, <1>10, <1>12, <1>14, BatchesKept DEF Ids
<1> QED BY <1>17, <1>18, <1>19, ExactIsOwned

(* SetRuntimeConstraint and CancelRun: some intents go back to waiting,    *)
(* others are finished.                                                    *)
LEMMA MovedTwice ==
  ASSUME TypeOK, BatchesWellFormed, NEW K, NEW D, NEW st \in TerminalState,
         intents' = Moved(Moved(intents, K, "Queued"), D, st),
         batches' = batches
  PROVE  /\ \A s, p : Waiting(s, p)' =
                        (Waiting(s, p) \cup PlacedIn(intents, K, s, p)) \ D
         /\ \A s : InBatch(s)' = (InBatch(s) \ K) \ D
         /\ BatchesWellFormed'
<1> DEFINE mid == Moved(intents, K, "Queued")
<1>1. /\ intents \in Seq(WorkIntent) /\ "Queued" \in State /\ st \in State
      /\ st \notin LiveState
  BY DEF TypeOK, State, LiveState, TerminalState
<1>2. mid \in Seq(WorkIntent) /\ DOMAIN mid = DOMAIN intents
  BY <1>1, MovedType
<1>3. ASSUME NEW s, NEW p
      PROVE  /\ WaitingIn(mid, s, p) = Waiting(s, p) \cup PlacedIn(intents, K, s, p)
             /\ InBatchIn(mid, s) = InBatch(s) \ K
  BY <1>1, MovedSets DEF Waiting, InBatch
<1>4. \A i \in DOMAIN intents : /\ mid[i].slot = intents[i].slot
                                /\ mid[i].source = intents[i].source
                                /\ mid[i].msg = intents[i].msg
  BY <1>1, MovedFields
<1>5. intents' = Moved(mid, D, st)
  OBVIOUS
<1> HIDE DEF mid
<1>6. ASSUME NEW s, NEW p
      PROVE  /\ Waiting(s, p)' = WaitingIn(mid, s, p) \ D
             /\ InBatch(s)' = InBatchIn(mid, s) \ D
  BY <1>1, <1>2, <1>5, MovedSets DEF Waiting, InBatch, LiveState
<1>7. /\ DOMAIN intents' = DOMAIN mid
      /\ \A i \in DOMAIN mid : /\ intents'[i].slot = mid[i].slot
                               /\ intents'[i].source = mid[i].source
                               /\ intents'[i].msg = mid[i].msg
  BY <1>1, <1>2, <1>5, MovedType, MovedFields
<1>8. BatchesWellFormed'
  BY <1>2, <1>4, <1>7, BatchesKept DEF Ids
<1>9. ASSUME NEW s, NEW p
      PROVE  /\ Waiting(s, p)' =
                  (Waiting(s, p) \cup PlacedIn(intents, K, s, p)) \ D
             /\ InBatch(s)' = (InBatch(s) \ K) \ D
  BY <1>3, <1>6
<1> QED BY <1>8, <1>9

(* A failed or stopped runtime rebuilds the queues of its slot exactly.     *)
LEMMA OwnedConstraint ==
  ASSUME TypeOK, TypeOK', WorkOwnedOnce, NEW a \in Actors, NEW z \in Slots,
         NEW c \in RuntimeConstraint, SetRuntimeConstraint(a, z, c)
  PROVE  WorkOwnedOnce'
<1> DEFINE ends == c \in {"Failed", "SessionStopped"}
           live == IF ends THEN LiveOf(z) ELSE {}
           kept == IF c = "Failed" THEN {i \in live : intents[i].run = NoRun}
                                   ELSE {}
           At(p) == {i \in kept : PriorityOfIntent(i) = p}
           st   == IF c = "Failed" THEN "Failed" ELSE "Cancelled"
           D    == live \ kept
<1>1. /\ intents' = Moved(Moved(intents, kept, "Queued"), D, st)
      /\ active' = IF ends THEN [active EXCEPT ![z] = 0] ELSE active
      /\ batches' = batches
  BY DEF SetRuntimeConstraint
<1>2. PICK f \in Enumerations(At(Foreground)), t \in Enumerations(At(Control)),
           b \in Enumerations(At(Background)) :
        queue' = IF ~ends THEN queue
                 ELSE [queue EXCEPT ![z] =
                         [p \in Priorities |-> CASE p = Foreground -> f
                                                 [] p = Control    -> t
                                                 [] p = Background -> b]]
  BY DEF SetRuntimeConstraint
<1>3. QueuesExact /\ ActiveExact /\ BatchesWellFormed
  BY OwnedIsExact
<1>4. st \in TerminalState
  BY DEF TerminalState
<1>5. kept \in SUBSET live /\ live \in SUBSET Ids
  BY DEF LiveOf
<1>6. live = IF ends THEN {i \in Ids : /\ intents[i].slot = z
                                       /\ intents[i].state \in LiveState}
                     ELSE {}
  BY DEF LiveOf, IsLive
<1>7. /\ \A s, p : Waiting(s, p)' =
                     (Waiting(s, p) \cup PlacedIn(intents, kept, s, p)) \ D
      /\ \A s : InBatch(s)' = (InBatch(s) \ kept) \ D
      /\ BatchesWellFormed'
  <2> HIDE DEF kept, D, st
  <2> QED BY <1>1, <1>3, <1>4, MovedTwice
<1> HIDE DEF live, kept
<1>8. \A s \in Slots : InBatch(s)' = IF ends /\ s = z THEN {} ELSE InBatch(s)
  <2> TAKE s \in Slots
  <2>1. (InBatch(s) \ kept) \ D = InBatch(s) \ live
    BY <1>5
  <2>2. InBatch(s) \ live = IF ends /\ s = z THEN {} ELSE InBatch(s)
    BY <1>6 DEF InBatch, InBatchIn, Ids, LiveState
  <2> QED BY <1>7, <2>1, <2>2
<1>9. \A s \in Slots, p \in Priorities :
        Waiting(s, p)' = IF ends /\ s = z THEN At(p) ELSE Waiting(s, p)
  <2> TAKE s \in Slots, p \in Priorities
  <2>1. CASE ends /\ s = z
    <3>1. (Waiting(s, p) \cup PlacedIn(intents, kept, s, p)) \ D = At(p)
      <4>1. ASSUME NEW i \in Waiting(s, p)
            PROVE  i \in D \/ i \in At(p)
        BY <1>6, <2>1 DEF Waiting, WaitingIn, Ids, LiveState, PriorityOfIntent
      <4>2. PlacedIn(intents, kept, s, p) = At(p)
        BY <1>5, <1>6, <2>1 DEF PlacedIn, Ids, PriorityOfIntent
      <4> QED BY <4>1, <4>2
    <3> QED BY <1>7, <2>1, <3>1
  <2>2. CASE ~(ends /\ s = z)
    <3>1. PlacedIn(intents, kept, s, p) = {}
      BY <1>5, <1>6, <2>2 DEF PlacedIn
    <3>2. Waiting(s, p) \ D = Waiting(s, p)
      BY <1>6, <2>2 DEF Waiting, WaitingIn
    <3> QED BY <1>7, <2>2, <3>1, <3>2
  <2> QED BY <2>1, <2>2
<1>10. \A p : IsFiniteSet(At(p)) /\ At(p) \in SUBSET Nat
  <2>1. IsFiniteSet(Ids) /\ Ids \in SUBSET Nat
    BY LogTypes, FS_Interval
  <2> QED BY <1>5, <2>1, FS_Subset
<1> HIDE DEF At
<1>11. /\ IsInjective(f) /\ Range(f) = At(Foreground)
       /\ IsInjective(t) /\ Range(t) = At(Control)
       /\ IsInjective(b) /\ Range(b) = At(Background)
  BY <1>2, <1>10, EnumerationProps
<1>12. QueuesExact'
  <2> SUFFICES ASSUME NEW s \in Slots, NEW p \in Priorities
               PROVE  /\ IsInjective(queue'[s][p])
                      /\ Range(queue'[s][p]) = Waiting(s, p)'
    BY DEF QueuesExact
  <2>1. CASE ends /\ s = z
    <3>1. queue'[s][p] = CASE p = Foreground -> f
                           [] p = Control    -> t
                           [] p = Background -> b
      BY <1>2, <2>1 DEF TypeOK
    <3>2. IsInjective(queue'[s][p]) /\ Range(queue'[s][p]) = At(p)
      BY <1>11, <3>1 DEF Priorities, Foreground, Control, Background
    <3> QED BY <1>9, <2>1, <3>2
  <2>2. CASE ~(ends /\ s = z)
    <3>1. queue'[s][p] = queue[s][p]
      BY <1>2, <2>2 DEF TypeOK
    <3> QED BY <1>3, <1>9, <2>2, <3>1 DEF QueuesExact
  <2> QED BY <2>1, <2>2
<1>13. ActiveExact'
  <2>1. \A s \in Slots : active'[s] = IF ends /\ s = z THEN 0 ELSE active[s]
    BY <1>1 DEF TypeOK
  <2> QED BY <1>1, <1>3, <1>8, <2>1 DEF ActiveExact, ActiveIds, BatchIds
<1> QED BY <1>7, <1>12, <1>13, ExactIsOwned

(* cancel_run gives the intents of other runs back to their queues.         *)
LEMMA OwnedCancelRun ==
  ASSUME TypeOK, TypeOK', WorkOwnedOnce, NEW a \in Actors, CancelRun(a)
  PROVE  WorkOwnedOnce'
<1> DEFINE r     == Head(todo[a]).run
           hit   == {s \in Slots : \E i \in ActiveIds(s) : intents[i].run = r}
           taken == UNION {ActiveIds(s) : s \in hit}
           ofRun == {i \in Ids : intents[i].run = r}
           Back(s, p) == IF s \in hit
                         THEN Without(batches[active[s]].ids,
                                      {i \in Ids : PriorityOfIntent(i) # p})
                         ELSE <<>>
           done  == (taken \cap ofRun)
                    \cup {i \in ofRun : intents[i].state = "Queued"}
           K     == taken \ ofRun
<1>1. /\ intents' = Moved(Moved(intents, K, "Queued"), done, "Cancelled")
      /\ active' = [s \in Slots |-> IF s \in hit THEN 0 ELSE active[s]]
      /\ queue' = [s \in Slots |-> [p \in Priorities |->
                     Without(Back(s, p) \o queue[s][p], done)]]
      /\ batches' = batches
  BY DEF CancelRun
<1>2. QueuesExact /\ ActiveExact /\ BatchesWellFormed
  BY OwnedIsExact
<1>3. \A s \in Slots : ActiveIds(s) = InBatch(s)
  BY <1>2 DEF ActiveExact
<1>4. \A i : i \in taken <=> /\ i \in Ids
                             /\ intents[i].slot \in hit
                             /\ intents[i].state \in {"Starting", "Running"}
  BY <1>3 DEF InBatch, InBatchIn, Ids
<1>5. "Cancelled" \in TerminalState
  BY DEF TerminalState
<1>6. /\ \A s, p : Waiting(s, p)' =
                     (Waiting(s, p) \cup PlacedIn(intents, K, s, p)) \ done
      /\ \A s : InBatch(s)' = (InBatch(s) \ K) \ done
      /\ BatchesWellFormed'
  <2> HIDE DEF K, done
  <2> QED BY <1>1, <1>2, <1>5, MovedTwice
<1>7. \A s \in hit, p \in Priorities :
        /\ Back(s, p) \in Seq(Nat) /\ IsInjective(Back(s, p))
        /\ Range(Back(s, p)) =
             {i \in InBatch(s) : PriorityOfIntent(i) = p}
  <2> SUFFICES ASSUME NEW s \in hit, NEW p \in Priorities
               PROVE  /\ Back(s, p) \in Seq(Nat) /\ IsInjective(Back(s, p))
                      /\ Range(Back(s, p)) =
                           {i \in InBatch(s) : PriorityOfIntent(i) = p}
    OBVIOUS
  <2> DEFINE q == batches[active[s]].ids
             N == {i \in Ids : PriorityOfIntent(i) # p}
  <2>1. active[s] # 0 /\ active[s] \in DOMAIN batches
    BY <1>2 DEF ActiveIds, ActiveExact
  <2>2. q \in Seq(Nat)
    BY <2>1, LogTypes DEF WorkBatch
  <2>3. IsInjective(q) /\ Range(q) = InBatch(s)
    BY <1>2, <1>3, <2>1 DEF BatchesWellFormed, ActiveIds, BatchIds
  <2>4. Back(s, p) = Without(q, N)
    OBVIOUS
  <2>5. InBatch(s) \ N = {i \in InBatch(s) : PriorityOfIntent(i) = p}
    BY DEF InBatch, InBatchIn, Ids
  <2> HIDE DEF q, N, Back
  <2>6. /\ Without(q, N) \in Seq(Nat) /\ IsInjective(Without(q, N))
        /\ Range(Without(q, N)) = InBatch(s) \ N
    BY <2>2, <2>3, WithoutProperties
  <2> QED BY <2>4, <2>5, <2>6
<1>8. \A s, p : s \notin hit => Back(s, p) = <<>>
  OBVIOUS
<1>9. hit \in SUBSET Slots
  OBVIOUS
<1>10. \A i \in done : /\ i \in Ids /\ intents[i].run = r
                       /\ i \in taken \/ intents[i].state = "Queued"
  OBVIOUS
<1>11. \A i \in Ids : (i \in taken \/ intents[i].state = "Queued")
                      /\ intents[i].run = r => i \in done
  OBVIOUS
<1>12. \A i : i \in K <=> i \in taken /\ intents[i].run # r
  BY <1>4
<1> HIDE DEF hit, taken, ofRun, Back, done, K, r
<1>13. QueuesExact'
  <2> SUFFICES ASSUME NEW s \in Slots, NEW p \in Priorities
               PROVE  /\ IsInjective(queue'[s][p])
                      /\ Range(queue'[s][p]) = Waiting(s, p)'
    BY DEF QueuesExact
  <2>1. queue'[s][p] = Without(Back(s, p) \o queue[s][p], done)
    BY <1>1
  <2>2. queue[s][p] \in Seq(Nat)
    BY DEF TypeOK
  <2>3. IsInjective(queue[s][p]) /\ Range(queue[s][p]) = Waiting(s, p)
    BY <1>2 DEF QueuesExact
  <2>4. /\ Back(s, p) \in Seq(Nat) /\ IsInjective(Back(s, p))
        /\ Range(Back(s, p)) = IF s \in hit
                               THEN {i \in InBatch(s) : PriorityOfIntent(i) = p}
                               ELSE {}
    <3>1. CASE s \in hit
      BY <1>7, <3>1
    <3>2. CASE s \notin hit
      <4>1. <<>> \in Seq(Nat) /\ IsInjective(<<>>) /\ Range(<<>>) = {}
        BY DEF IsInjective, Range
      <4>2. Back(s, p) = <<>>
        BY <1>8, <3>2
      <4> QED BY <3>2, <4>1, <4>2
    <3> QED BY <3>1, <3>2
  <2>5. Range(Back(s, p)) \cap Range(queue[s][p]) = {}
    <3>1. InBatch(s) \cap Waiting(s, p) = {}
      BY PlacesDisjoint
    <3> QED BY <2>3, <2>4, <3>1
  <2>6. /\ Back(s, p) \o queue[s][p] \in Seq(Nat)
        /\ IsInjective(Back(s, p) \o queue[s][p])
        /\ Range(Back(s, p) \o queue[s][p]) = Range(Back(s, p)) \cup Waiting(s, p)
    BY <2>2, <2>3, <2>4, <2>5, ConcatProps
  <2>7. /\ IsInjective(queue'[s][p])
        /\ Range(queue'[s][p]) = (Range(Back(s, p)) \cup Waiting(s, p)) \ done
    <3> DEFINE w == Back(s, p) \o queue[s][p]
    <3>1. /\ w \in Seq(Nat) /\ IsInjective(w)
          /\ Range(w) = Range(Back(s, p)) \cup Waiting(s, p)
          /\ queue'[s][p] = Without(w, done)
      BY <2>1, <2>6
    <3> HIDE DEF w
    <3>2. /\ IsInjective(Without(w, done))
          /\ Range(Without(w, done)) = Range(w) \ done
      BY <3>1, WithoutProperties
    <3> QED BY <3>1, <3>2
  <2>8. (Range(Back(s, p)) \cup Waiting(s, p)) \ done
          = (Waiting(s, p) \cup PlacedIn(intents, K, s, p)) \ done
    <3>1. ASSUME NEW i \in Range(Back(s, p)), i \notin done
          PROVE  i \in PlacedIn(intents, K, s, p)
      <4>1. /\ s \in hit /\ i \in Ids /\ intents[i].slot = s
            /\ PriorityOf(intents[i].source) = p
            /\ intents[i].state \in {"Starting", "Running"}
        BY <2>4, <3>1 DEF InBatch, InBatchIn, Ids, PriorityOfIntent
      <4>2. i \in taken /\ intents[i].run # r
        BY <1>4, <1>11, <3>1, <4>1
      <4> QED BY <1>12, <4>1, <4>2 DEF PlacedIn, Ids
    <3>2. ASSUME NEW i \in PlacedIn(intents, K, s, p)
          PROVE  i \in Range(Back(s, p))
      <4>1. /\ i \in Ids /\ i \in K /\ intents[i].slot = s
            /\ PriorityOf(intents[i].source) = p
        BY <3>2 DEF PlacedIn, Ids
      <4>2. s \in hit /\ intents[i].state \in {"Starting", "Running"}
        BY <1>4, <1>12, <4>1
      <4> QED BY <2>4, <4>1, <4>2 DEF InBatch, InBatchIn, Ids, PriorityOfIntent
    <3> QED BY <3>1, <3>2
  <2> QED BY <1>6, <2>7, <2>8
<1>14. \A s \in Slots : InBatch(s)' = IF s \in hit THEN {} ELSE InBatch(s)
  <2> TAKE s \in Slots
  <2>1. (InBatch(s) \ K) \ done = IF s \in hit THEN {} ELSE InBatch(s)
    <3>1. ASSUME NEW i \in InBatch(s), s \in hit
          PROVE  i \in K \/ i \in done
      <4>1. /\ i \in Ids /\ intents[i].slot = s
            /\ intents[i].state \in {"Starting", "Running"}
        BY <3>1 DEF InBatch, InBatchIn, Ids
      <4> QED BY <1>4, <1>11, <1>12, <3>1, <4>1
    <3>2. ASSUME NEW i \in InBatch(s), s \notin hit
          PROVE  i \notin K /\ i \notin done
      <4>1. /\ i \in Ids /\ intents[i].slot = s
            /\ intents[i].state \in {"Starting", "Running"}
        BY <3>2 DEF InBatch, InBatchIn, Ids
      <4> QED BY <1>4, <1>10, <1>12, <3>2, <4>1
    <3> QED BY <3>1, <3>2
  <2> QED BY <1>6, <2>1
<1>15. ActiveExact'
  <2>1. \A s \in Slots : active'[s] = IF s \in hit THEN 0 ELSE active[s]
    BY <1>1
  <2> QED BY <1>1, <1>2, <1>14, <2>1 DEF ActiveExact, ActiveIds, BatchIds
<1> QED BY <1>6, <1>13, <1>15, ExactIsOwned

------------------------------------------------------------------------------
(* The theorems.                                                           *)

Inv == TypeOK /\ WorkOwnedOnce

(* Every step keeps the types.                                              *)
LEMMA TypeStep ==
  ASSUME TypeOK, WorkOwnedOnce, [AnyNext]_vars
  PROVE  TypeOK'
<1>1. CASE UNCHANGED vars
  BY <1>1 DEF vars, TypeOK
<1>2. ASSUME NEW a \in Actors,
             AnyEnqueueing(a) \/ AnyExecuting(a) \/ AnyControlling(a) \/ PublishNext(a)
      PROVE  TypeOK'
  BY <1>2, TypeEnqueueing, TypeExecuting, TypeControlling, TypePublishNext
<1> QED BY <1>1, <1>2 DEF AnyNext

(* Every step keeps ownership exact.                                        *)
LEMMA OwnedStep ==
  ASSUME TypeOK, TypeOK', WorkOwnedOnce, [AnyNext]_vars
  PROVE  WorkOwnedOnce'
<1>1. CASE UNCHANGED vars
  BY <1>1, OwnedUnchanged DEF vars
<1>2. ASSUME NEW a \in Actors, AnyEnqueueing(a)
      PROVE  WorkOwnedOnce'
  <2>1. ASSUME NEW s \in Slots, NEW caller \in Slots, NEW rq \in EnqueueRequest,
               AcquireEnqueue(a, s, rq[1], rq[2], caller)
        PROVE  WorkOwnedOnce'
    BY <2>1, OwnedUnchanged DEF AcquireEnqueue, slotVars
  <2>2. ASSUME AbortEnqueue(a)
        PROVE  WorkOwnedOnce'
    BY <2>2, OwnedUnchanged DEF AbortEnqueue, slotVars
  <2> QED BY <1>2, <2>1, <2>2, OwnedCommit DEF AnyEnqueueing
<1>3. ASSUME NEW a \in Actors, AnyExecuting(a)
      PROVE  WorkOwnedOnce'
  BY <1>3, OwnedReconcile, OwnedClaim, OwnedCompleteSignals, OwnedMarkStarted,
     OwnedRetryStart, OwnedTerminalize DEF AnyExecuting
<1>4. ASSUME NEW a \in Actors, AnyControlling(a)
      PROVE  WorkOwnedOnce'
  <2>1. ASSUME BeginCancel(a)
        PROVE  WorkOwnedOnce'
    BY <2>1, OwnedUnchanged DEF BeginCancel, slotVars
  <2>2. ASSUME NEW s \in Slots, PauseSlot(a, s)
        PROVE  WorkOwnedOnce'
    BY <2>2, OwnedUnchanged DEF PauseSlot
  <2> QED BY <1>4, <2>1, <2>2, OwnedCancelRun, OwnedConstraint,
             OwnedRemoveSlot, OwnedStop DEF AnyControlling
<1>5. ASSUME NEW a \in Actors, PublishNext(a)
      PROVE  WorkOwnedOnce'
  BY <1>5, OwnedUnchanged DEF PublishNext, slotVars
<1> QED BY <1>1, <1>2, <1>3, <1>4, <1>5 DEF AnyNext

(* Every step keeps both.                                                  *)
LEMMA InvStep ==
  ASSUME Inv, [AnyNext]_vars
  PROVE  Inv'
<1>1. TypeOK'
  BY TypeStep DEF Inv
<1>2. WorkOwnedOnce'
  BY <1>1, OwnedStep DEF Inv
<1> QED BY <1>1, <1>2 DEF Inv

(* Every behaviour keeps every variable of its type.  The types of what a  *)
(* slot's batch and queues hold, and so of the runs an action reports,     *)
(* follow from WorkOwnedOnce, so the two are proved as one invariant.      *)
THEOREM InvCorrect == Spec => []Inv
<1>1. Init => Inv
  BY TypeInit, OwnedInit DEF Inv
<1>2. Inv /\ [Next]_vars => Inv'
  BY NextIsAny, InvStep
<1> QED BY <1>1, <1>2, PTL DEF Spec

(* TypeOK, of every team, mailbox, set of tasks and bound.                 *)
THEOREM TypeCorrect == Spec => []TypeOK
<1>1. Inv => TypeOK
  BY DEF Inv
<1> QED BY <1>1, InvCorrect, PTL

(* Whatever tasks interleave and whatever stale batches they submit to the *)
(* coordinator's methods, a live intent is owned exactly once, by the      *)
(* queue of its slot and priority or by its slot's active batch.           *)
THEOREM OwnershipCorrect == Spec => []WorkOwnedOnce
<1>1. Inv => WorkOwnedOnce
  BY DEF Inv
<1> QED BY <1>1, InvCorrect, PTL

------------------------------------------------------------------------------
(* The life of an intent.                                                  *)

(* What IntentLifecycle says of one step.                                  *)
LifeKept ==
  \A i \in Ids :
    /\ i \in DOMAIN intents'
    /\ intents'[i].state \in Successors(intents[i].state)
    /\ [intents'[i] EXCEPT !.state = "Queued"] =
       [intents[i] EXCEPT !.state = "Queued"]

(* Where an intent may go from a live state, and that it may stay.         *)
LEMMA SuccessorsOf ==
  /\ \A st \in State : st \in Successors(st)
  /\ \A st \in LiveState : /\ TerminalState \subseteq Successors(st)
                           /\ "Queued" \in Successors(st)
  /\ "Starting" \in Successors("Queued")
  /\ \A st \in {"Starting", "Running"} : "Running" \in Successors(st)
BY DEF Successors, State, LiveState, TerminalState

(* An intent whose state alone changed, to a successor, kept its life.     *)
LEMMA LifeOf ==
  ASSUME TypeOK, Ids \subseteq DOMAIN intents',
         \A i \in Ids : \E st \in Successors(intents[i].state) :
           intents'[i] = [intents[i] EXCEPT !.state = st]
  PROVE  LifeKept
<1> SUFFICES ASSUME NEW i \in Ids
             PROVE  /\ i \in DOMAIN intents'
                    /\ intents'[i].state \in Successors(intents[i].state)
                    /\ [intents'[i] EXCEPT !.state = "Queued"] =
                       [intents[i] EXCEPT !.state = "Queued"]
  BY DEF LifeKept
<1>1. PICK st \in Successors(intents[i].state) :
        intents'[i] = [intents[i] EXCEPT !.state = st]
  OBVIOUS
<1>2. intents[i] \in WorkIntent
  BY LogTypes
<1>3. [intents[i] EXCEPT !.state = st].state = st
  BY <1>2 DEF WorkIntent
<1>4. [[intents[i] EXCEPT !.state = st] EXCEPT !.state = "Queued"] =
        [intents[i] EXCEPT !.state = "Queued"]
  BY <1>2 DEF WorkIntent
<1> QED BY <1>1, <1>3, <1>4

(* A step that leaves the intents alone.                                   *)
LEMMA LifeUnchanged ==
  ASSUME TypeOK, intents' = intents
  PROVE  LifeKept
<1>1. ASSUME NEW i \in Ids
      PROVE  intents[i].state \in Successors(intents[i].state)
  <2>1. intents[i].state \in State
    BY LogTypes DEF WorkIntent, State
  <2> QED BY <2>1, SuccessorsOf
<1> QED BY <1>1 DEF LifeKept, Ids

(* A step that moves intents to a state each of them may go to.            *)
LEMMA LifeMoved ==
  ASSUME TypeOK, NEW S, NEW st, Ids \subseteq DOMAIN intents',
         \A i \in Ids : intents'[i] = Moved(intents, S, st)[i],
         \A i \in Ids : i \in S => st \in Successors(intents[i].state)
  PROVE  LifeKept
<1>1. ASSUME NEW i \in Ids
      PROVE  \E t \in Successors(intents[i].state) :
               intents'[i] = [intents[i] EXCEPT !.state = t]
  <2>1. intents'[i] = IF i \in S THEN [intents[i] EXCEPT !.state = st]
                                 ELSE intents[i]
    BY DEF Moved, Ids
  <2>2. CASE i \in S
    BY <2>1, <2>2
  <2>3. CASE i \notin S
    <3>1. intents[i].state \in State
      BY LogTypes DEF WorkIntent, State
    <3>2. intents[i].state \in Successors(intents[i].state)
      BY <3>1, SuccessorsOf
    <3>3. intents[i] = [intents[i] EXCEPT !.state = intents[i].state]
      BY LogTypes DEF WorkIntent
    <3> QED BY <2>1, <2>3, <3>2, <3>3
  <2> QED BY <2>2, <2>3
<1> QED BY <1>1, LifeOf

(* A step that moves some intents to one state and others to another.      *)
LEMMA LifeMovedTwice ==
  ASSUME TypeOK, NEW S, NEW D, NEW st, NEW dt,
         intents' = Moved(Moved(intents, S, st), D, dt),
         \A i \in Ids : i \in S => i \notin D /\ st \in Successors(intents[i].state),
         \A i \in Ids : i \in D => dt \in Successors(intents[i].state)
  PROVE  LifeKept
<1>0. DOMAIN intents' = Ids
  BY DEF Moved, Ids
<1>1. ASSUME NEW i \in Ids
      PROVE  \E t \in Successors(intents[i].state) :
               intents'[i] = [intents[i] EXCEPT !.state = t]
  <2>1. Moved(intents, S, st)[i] = IF i \in S THEN [intents[i] EXCEPT !.state = st]
                                              ELSE intents[i]
    BY DEF Moved, Ids
  <2>2. intents'[i] = IF i \in D
                      THEN [Moved(intents, S, st)[i] EXCEPT !.state = dt]
                      ELSE Moved(intents, S, st)[i]
    BY DEF Moved, Ids
  <2>3. CASE i \in D
    BY <2>1, <2>2, <2>3
  <2>4. CASE i \in S /\ i \notin D
    BY <2>1, <2>2, <2>4
  <2>5. CASE i \notin S /\ i \notin D
    <3>1. intents[i].state \in State
      BY LogTypes DEF WorkIntent, State
    <3>2. intents[i].state \in Successors(intents[i].state)
      BY <3>1, SuccessorsOf
    <3>3. intents[i] = [intents[i] EXCEPT !.state = intents[i].state]
      BY LogTypes DEF WorkIntent
    <3> QED BY <2>1, <2>2, <2>5, <3>2, <3>3
  <2> QED BY <2>3, <2>4, <2>5
<1> QED BY <1>0, <1>1, LifeOf

(* What is queued waits and what a slot's batch holds executes.            *)
LEMMA OwnedStates ==
  ASSUME TypeOK, WorkOwnedOnce
  PROVE  /\ \A s \in Slots, p \in Priorities : \A i \in Range(queue[s][p]) :
              i \in Ids /\ intents[i].state = "Queued"
         /\ \A s \in Slots : \A i \in ActiveIds(s) :
              i \in Ids /\ intents[i].state \in {"Starting", "Running"}
         /\ \A op \in DOMAIN batches : IsCurrentBatch(op) =>
              \A i \in BatchIds(op) :
                i \in Ids /\ intents[i].state \in {"Starting", "Running"}
<1>1. \A s \in Slots, p \in Priorities : \A i \in Range(queue[s][p]) :
        i \in Ids /\ intents[i].state = "Queued"
  BY DEF WorkOwnedOnce, QueueHoldsWaiting
<1>2. \A s \in Slots : \A i \in ActiveIds(s) :
        i \in Ids /\ intents[i].state \in {"Starting", "Running"}
  BY DEF WorkOwnedOnce, BatchHoldsExecuting, BatchesWellFormed, ActiveIds
<1>3. ASSUME NEW op \in DOMAIN batches, IsCurrentBatch(op), NEW i \in BatchIds(op)
      PROVE  i \in Ids /\ intents[i].state \in {"Starting", "Running"}
  <2>1. BatchIds(op) = InBatch(batches[op].slot)
    BY <1>3, CurrentBatch
  <2> QED BY <1>3, <2>1 DEF InBatch, InBatchIn, Ids
<1> QED BY <1>1, <1>2, <1>3

(* The event loop's operations keep the lives of intents.  A stale batch   *)
(* does not get past is_current_batch, so what moves was executing.        *)
LEMMA LifeExecuting ==
  ASSUME TypeOK, WorkOwnedOnce, NEW a \in Actors, AnyExecuting(a)
  PROVE  LifeKept
<1>0. \A S, st : DOMAIN Moved(intents, S, st) = Ids
  BY DEF Moved, Ids
<1>1. ASSUME NEW s \in Slots, NEW unread \in MailboxViews,
             ReconcileMailbox(a, s, unread)
      PROVE  LifeKept
  <2> DEFINE stale == {i \in QueuedIds(s) : /\ intents[i].msg # NoMsg
                                            /\ intents[i].msg \notin Range(unread)}
             kept  == Moved(intents, stale, "Completed")
             owned == {kept[i].msg : i \in LiveOf(s) \ stale}
             fresh == Without(unread, owned)
             new   == [k \in DOMAIN fresh |->
                         [slot |-> s, source |-> "RecoveryDrain",
                          msg |-> fresh[k], run |-> NoRun, state |-> "Queued"]]
  <2>1. intents' = kept \o new
    BY <1>1 DEF ReconcileMailbox
  <2>2. kept \in Seq(WorkIntent) /\ Len(kept) = Len(intents)
    BY MovedType DEF TypeOK, State, TerminalState
  <2>3. fresh \in Seq(Messages)
    BY WithoutProperties DEF MailboxViews
  <2>4. Len(intents) \in Nat /\ Ids = 1 .. Len(intents)
    BY LogTypes
  <2>5. new \in Seq(WorkIntent)
    <3> HIDE DEF fresh
    <3> QED BY <2>3, <2>4, FreshType
  <2>6. \A i \in Ids : i \in stale => "Completed" \in Successors(intents[i].state)
    <3>1. \A i \in stale : intents[i].state = "Queued"
      BY OwnedStates DEF QueuedIds
    <3> QED BY <3>1, SuccessorsOf DEF LiveState, TerminalState
  <2> HIDE DEF new, stale
  <2>7. Ids \subseteq DOMAIN intents' /\ \A i \in Ids : intents'[i] = kept[i]
    <3> HIDE DEF kept
    <3> QED BY <2>1, <2>2, <2>4, <2>5, ConcatProperties, LenProperties
  <2> QED BY <2>6, <2>7, LifeMoved
<1>2. ASSUME NEW s \in Slots, ClaimBatch(a, s)
      PROVE  LifeKept
  <2>1. PICK p \in Priorities :
          intents' = Moved(intents, Range(Without(queue[s][p], SignalIds)),
                           "Starting")
    BY <1>2 DEF ClaimBatch
  <2> DEFINE S == Range(Without(queue[s][p], SignalIds))
  <2>2. \A i \in S : intents[i].state = "Queued"
    <3>1. queue[s][p] \in Seq(Nat)
      BY DEF TypeOK
    <3>2. S = Range(queue[s][p]) \ SignalIds
      BY <3>1, WithoutProperties
    <3> QED BY <3>2, OwnedStates
  <2> HIDE DEF S
  <2>3. \A i \in Ids : i \in S => "Starting" \in Successors(intents[i].state)
    BY <2>2, SuccessorsOf
  <2> QED BY <1>0, <2>1, <2>3, LifeMoved DEF S
<1>3. ASSUME NEW s \in Slots, NEW S \in SUBSET SignalIds, CompleteSignals(a, s, S)
      PROVE  LifeKept
  <2>1. intents' = Moved(intents, S, "Completed")
    BY <1>3 DEF CompleteSignals
  <2>2. \A i \in Ids : i \in S => "Completed" \in Successors(intents[i].state)
    BY <1>3, SuccessorsOf DEF CompleteSignals, LiveState, TerminalState
  <2> QED BY <1>0, <2>1, <2>2, LifeMoved
<1>4. ASSUME NEW op \in DOMAIN batches, NEW st \in State, IsCurrentBatch(op),
             st # "Starting",
             intents' = Moved(intents, BatchIds(op), st)
      PROVE  LifeKept
  <2>1. \A i \in BatchIds(op) : intents[i].state \in {"Starting", "Running"}
    BY <1>4, OwnedStates
  <2>2. \A t \in {"Starting", "Running"} : st \in Successors(t)
    BY <1>4, SuccessorsOf DEF State, LiveState
  <2> QED BY <1>0, <1>4, <2>1, <2>2, LifeMoved
<1>5. ASSUME NEW op \in DOMAIN batches, MarkStarted(a, op) \/ RetryStart(a, op)
      PROVE  LifeKept
  BY <1>4, <1>5 DEF MarkStarted, RetryStart, State, LiveState
<1>6. ASSUME NEW op \in DOMAIN batches, NEW st \in TerminalState,
             TerminalizeBatch(a, op, st)
      PROVE  LifeKept
  BY <1>4, <1>6 DEF TerminalizeBatch, State, TerminalState
<1> QED BY <1>1, <1>2, <1>3, <1>5, <1>6 DEF AnyExecuting

(* Cancellation, a failed runtime, removal and shutdown end live intents   *)
(* or give them back to their queues, and touch no finished one.           *)
LEMMA LifeControlling ==
  ASSUME TypeOK, WorkOwnedOnce, NEW a \in Actors, AnyControlling(a)
  PROVE  LifeKept
<1>0. \A S, st : DOMAIN Moved(intents, S, st) = Ids
  BY DEF Moved, Ids
<1>1. CASE BeginCancel(a) \/ \E s \in Slots : PauseSlot(a, s)
  BY <1>1, LifeUnchanged DEF BeginCancel, PauseSlot
<1>2. CASE CancelRun(a)
  <2> DEFINE r     == Head(todo[a]).run
             hit   == {s \in Slots : \E i \in ActiveIds(s) : intents[i].run = r}
             taken == UNION {ActiveIds(s) : s \in hit}
             ofRun == {i \in Ids : intents[i].run = r}
             done  == (taken \cap ofRun)
                      \cup {i \in ofRun : intents[i].state = "Queued"}
             K     == taken \ ofRun
  <2>1. intents' = Moved(Moved(intents, K, "Queued"), done, "Cancelled")
    BY <1>2 DEF CancelRun
  <2>2. \A i \in taken : intents[i].state \in {"Starting", "Running"}
    BY OwnedStates
  <2>3. \A i \in Ids : i \in K => /\ i \notin done
                                  /\ "Queued" \in Successors(intents[i].state)
    BY <2>2, SuccessorsOf DEF LiveState
  <2>4. \A i \in Ids : i \in done => "Cancelled" \in Successors(intents[i].state)
    BY <2>2, SuccessorsOf DEF LiveState, TerminalState
  <2> HIDE DEF K, done
  <2> QED BY <2>1, <2>3, <2>4, LifeMovedTwice
<1>3. ASSUME NEW s \in Slots, NEW c \in RuntimeConstraint, SetRuntimeConstraint(a, s, c)
      PROVE  LifeKept
  <2> DEFINE live == IF c \in {"Failed", "SessionStopped"} THEN LiveOf(s) ELSE {}
             kept == IF c = "Failed" THEN {i \in live : intents[i].run = NoRun}
                                     ELSE {}
             D    == live \ kept
             st   == IF c = "Failed" THEN "Failed" ELSE "Cancelled"
  <2>1. intents' = Moved(Moved(intents, kept, "Queued"), D, st)
    BY <1>3 DEF SetRuntimeConstraint
  <2>2. st \in TerminalState
    BY DEF TerminalState
  <2>3. \A i \in live : intents[i].state \in LiveState
    BY DEF LiveOf, IsLive
  <2>4. kept \in SUBSET live
    OBVIOUS
  <2> HIDE DEF live, kept, st
  <2>5. \A i \in Ids : i \in kept => /\ i \notin D
                                     /\ "Queued" \in Successors(intents[i].state)
    BY <2>3, <2>4, SuccessorsOf
  <2>6. \A i \in Ids : i \in D => st \in Successors(intents[i].state)
    BY <2>2, <2>3, SuccessorsOf
  <2> HIDE DEF D
  <2> QED BY <2>1, <2>5, <2>6, LifeMovedTwice
<1>4. ASSUME NEW S, intents' = Moved(intents, S, "Cancelled"),
             \A i \in Ids : i \in S => intents[i].state \in LiveState
      PROVE  LifeKept
  <2>1. \A i \in Ids : i \in S => "Cancelled" \in Successors(intents[i].state)
    BY <1>4, SuccessorsOf DEF TerminalState
  <2> QED BY <1>0, <1>4, <2>1, LifeMoved
<1>5. ASSUME NEW s \in Slots, RemoveSlot(a, s)
      PROVE  LifeKept
  <2> DEFINE gone == ActiveIds(s) \cup QueuedIds(s) \cup LiveOf(s)
  <2>1. \A i \in gone : intents[i].state \in LiveState
    BY OwnedStates DEF QueuedIds, LiveOf, IsLive, LiveState
  <2>2. intents' = Moved(intents, gone, "Cancelled")
    BY <1>5 DEF RemoveSlot
  <2> HIDE DEF gone
  <2> QED BY <1>4, <2>1, <2>2
<1>6. CASE Stop(a)
  <2>1. intents' = Moved(intents, {i \in Ids : IsLive(i)}, "Cancelled")
    BY <1>6 DEF Stop
  <2> QED BY <1>4, <2>1 DEF IsLive
<1> QED BY <1>1, <1>2, <1>3, <1>5, <1>6 DEF AnyControlling

(* Enqueueing adds an intent at the end of the log or none.                *)
LEMMA LifeEnqueueing ==
  ASSUME TypeOK, NEW a \in Actors, AnyEnqueueing(a)
  PROVE  LifeKept
<1>1. CASE intents' = intents
  BY <1>1, LifeUnchanged
<1>2. ASSUME NEW m \in Messages \cup {NoMsg}, CommitEnqueue(a, m)
      PROVE  LifeKept
  <2>1. PICK x : intents' = Append(intents, x)
    BY <1>2 DEF CommitEnqueue
  <2>2. Ids \subseteq DOMAIN intents' /\ \A i \in Ids : intents'[i] = intents[i]
    <3>1. intents \in Seq(WorkIntent)
      BY DEF TypeOK
    <3> QED BY <2>1, <3>1, LogTypes, AppendProperties DEF Ids
  <2>3. \A i \in Ids : intents'[i] = Moved(intents, {}, "Queued")[i]
    BY <2>2 DEF Moved, Ids
  <2> QED BY <2>2, <2>3, LifeMoved
<1> QED BY <1>1, <1>2 DEF AnyEnqueueing, AcquireEnqueue, AbortEnqueue

(* Every step keeps the lives of intents.                                  *)
LEMMA LifeStep ==
  ASSUME TypeOK, WorkOwnedOnce, [AnyNext]_vars
  PROVE  LifeKept
<1>1. CASE UNCHANGED vars
  BY <1>1, LifeUnchanged DEF vars
<1>2. ASSUME NEW a \in Actors,
             AnyEnqueueing(a) \/ AnyExecuting(a) \/ AnyControlling(a) \/ PublishNext(a)
      PROVE  LifeKept
  <2>1. CASE PublishNext(a)
    BY <2>1, LifeUnchanged DEF PublishNext
  <2> QED BY <1>2, <2>1, LifeEnqueueing, LifeExecuting, LifeControlling
<1> QED BY <1>1, <1>2 DEF AnyNext

(* No operation, of an owner whose batch is stale, late or repeated        *)
(* included, revives a finished intent, forgets one, binds it to another   *)
(* run or skips a stage of its life.                                       *)
THEOREM LifecycleCorrect == Spec => IntentLifecycle
<1>1. Inv /\ [Next]_vars => LifeKept
  BY NextIsAny, LifeStep DEF Inv
<1>2. Spec => [][LifeKept]_vars
  BY <1>1, InvCorrect, PTL DEF Spec
<1> QED BY <1>2 DEF IntentLifecycle, LifeKept

------------------------------------------------------------------------------
(* The order of user work.                                                 *)

(* What lets a foreground queue be in commit order: user work is always    *)
(* bound to a run, so a failed runtime never puts it back in the order of  *)
(* a HashMap, and always has a message, so a claim takes the whole queue.  *)
UserWorkBound ==
  /\ \A i \in Ids : intents[i].source \in ForegroundSources =>
                      intents[i].run # NoRun /\ intents[i].msg # NoMsg
  /\ \A l \in leases : l.source \in ForegroundSources => l.run # NoRun
  /\ IsActive(run) => run.id # NoRun

(* Ascending in terms of the parts of a concatenation.                     *)
LEMMA AscendingConcat ==
  ASSUME NEW p \in Seq(Nat), NEW q \in Seq(Nat)
  PROVE  Ascending(p \o q) <=>
           /\ Ascending(p) /\ Ascending(q)
           /\ \A x \in Range(p), y \in Range(q) : x < y
<1> DEFINE m == Len(p)
           n == Len(q)
           w == p \o q
<1>1. /\ m \in Nat /\ DOMAIN p = 1 .. m
      /\ n \in Nat /\ DOMAIN q = 1 .. n
      /\ DOMAIN w = 1 .. (m + n)
      /\ \A k \in 1 .. m : w[k] = p[k]
      /\ \A k \in 1 .. n : w[m + k] = q[k]
      /\ \A k \in (m + 1) .. (m + n) : k - m \in 1 .. n /\ w[k] = q[k - m]
  BY LenProperties, ConcatProperties
<1> HIDE DEF m, n, w
<1>2. ASSUME Ascending(w)
      PROVE  /\ Ascending(p) /\ Ascending(q)
             /\ \A x \in Range(p), y \in Range(q) : x < y
  <2>1. Ascending(p)
    BY <1>1, <1>2 DEF Ascending
  <2>2. Ascending(q)
    <3> SUFFICES ASSUME NEW j \in 1 .. n, NEW k \in 1 .. n, j < k
                 PROVE  q[j] < q[k]
      BY <1>1 DEF Ascending
    <3>1. /\ m + j \in DOMAIN w /\ m + k \in DOMAIN w /\ m + j < m + k
          /\ w[m + j] = q[j] /\ w[m + k] = q[k]
      BY <1>1
    <3> QED BY <1>2, <3>1 DEF Ascending
  <2>3. ASSUME NEW x \in Range(p), NEW y \in Range(q)
        PROVE  x < y
    <3>1. PICK j \in 1 .. m : x = p[j]
      BY <1>1 DEF Range
    <3>2. PICK k \in 1 .. n : y = q[k]
      BY <1>1 DEF Range
    <3>3. /\ j \in DOMAIN w /\ m + k \in DOMAIN w /\ j < m + k
          /\ w[j] = x /\ w[m + k] = y
      BY <1>1, <3>1, <3>2
    <3> QED BY <1>2, <3>3 DEF Ascending
  <2> QED BY <2>1, <2>2, <2>3
<1>3. ASSUME Ascending(p), Ascending(q),
             \A x \in Range(p), y \in Range(q) : x < y
      PROVE  Ascending(w)
  <2> SUFFICES ASSUME NEW j \in 1 .. (m + n), NEW k \in 1 .. (m + n), j < k
               PROVE  w[j] < w[k]
    BY <1>1 DEF Ascending
  <2>1. CASE k \in 1 .. m
    BY <1>1, <1>3, <2>1 DEF Ascending
  <2>2. CASE j \in (m + 1) .. (m + n)
    <3>1. k \in (m + 1) .. (m + n) /\ j - m < k - m
      BY <1>1, <2>2
    <3>2. /\ j - m \in DOMAIN q /\ k - m \in DOMAIN q
          /\ w[j] = q[j - m] /\ w[k] = q[k - m]
      BY <1>1, <2>2, <3>1
    <3> QED BY <1>3, <3>1, <3>2 DEF Ascending
  <2>3. CASE j \in 1 .. m /\ k \in (m + 1) .. (m + n)
    <3>1. w[j] \in Range(p) /\ w[k] \in Range(q)
      BY <1>1, <2>3 DEF Range
    <3> QED BY <1>3, <3>1
  <2>4. \/ k \in 1 .. m
        \/ j \in (m + 1) .. (m + n)
        \/ j \in 1 .. m /\ k \in (m + 1) .. (m + n)
    BY <1>1
  <2> QED BY <2>1, <2>2, <2>3, <2>4
<1> QED BY <1>2, <1>3 DEF w

(* A queue that holds nothing is in order.                                 *)
LEMMA AscendingEmpty ==
  ASSUME NEW q, Range(q) = {}
  PROVE  Ascending(q)
<1>1. DOMAIN q = {}
  BY DEF Range
<1> QED BY <1>1 DEF Ascending

(* Adding an id younger than all of a queue keeps the queue in order.      *)
LEMMA AscendingAppend ==
  ASSUME NEW q \in Seq(Nat), NEW x \in Nat, Ascending(q),
         \A y \in Range(q) : y < x
  PROVE  Ascending(Append(q, x))
<1> DEFINE n == Len(q)
           w == Append(q, x)
<1>1. /\ n \in Nat /\ DOMAIN q = 1 .. n
      /\ DOMAIN w = 1 .. (n + 1) /\ w[n + 1] = x
      /\ \A k \in 1 .. n : w[k] = q[k] /\ q[k] \in Range(q)
  BY LenProperties, AppendProperties DEF Range
<1> HIDE DEF n, w
<1>2. ASSUME NEW j \in 1 .. (n + 1), NEW k \in 1 .. (n + 1), j < k
      PROVE  w[j] < w[k]
  <2>1. j \in 1 .. n
    BY <1>1, <1>2
  <2>2. CASE k \in 1 .. n
    BY <1>1, <1>2, <2>1, <2>2 DEF Ascending
  <2>3. CASE k = n + 1
    BY <1>1, <2>1, <2>3
  <2> QED BY <1>1, <2>2, <2>3
<1>3. Ascending(w)
  BY <1>1, <1>2 DEF Ascending
<1> QED BY <1>3 DEF w

(* An old intent keeps everything but its state.                           *)
LEMMA KeptFields ==
  ASSUME TypeOK, TypeOK', LifeKept, NEW i \in Ids
  PROVE  /\ i \in Ids'
         /\ intents'[i].slot = intents[i].slot
         /\ intents'[i].source = intents[i].source
         /\ intents'[i].msg = intents[i].msg
         /\ intents'[i].run = intents[i].run
<1>1. intents[i] \in WorkIntent
  BY LogTypes
<1>2. i \in DOMAIN intents' /\ intents' \in Seq(WorkIntent)
  BY DEF LifeKept, TypeOK
<1>3. intents'[i] \in WorkIntent
  BY <1>2, LenProperties
<1>4. [intents'[i] EXCEPT !.state = "Queued"] =
        [intents[i] EXCEPT !.state = "Queued"]
  BY DEF LifeKept
<1> DEFINE x == intents[i]
           y == intents'[i]
           u == [x EXCEPT !.state = "Queued"]
           v == [y EXCEPT !.state = "Queued"]
<1>5. /\ u.slot = x.slot /\ u.source = x.source /\ u.msg = x.msg /\ u.run = x.run
      /\ v.slot = y.slot /\ v.source = y.source /\ v.msg = y.msg /\ v.run = y.run
  BY <1>1, <1>3 DEF WorkIntent
<1> QED BY <1>2, <1>4, <1>5 DEF Ids

(* What an operation does to the log, the leases and the run, as far as    *)
(* user work is concerned: it keeps the intents, or appends those of a     *)
(* recovery, or the one a commit makes of a lease.                         *)
LEMMA NewIntents ==
  ASSUME TypeOK, NEW a \in Actors,
         \/ AnyExecuting(a) \/ AnyControlling(a) \/ PublishNext(a)
         \/ \E s, caller \in Slots, rq \in EnqueueRequest :
              AcquireEnqueue(a, s, rq[1], rq[2], caller)
         \/ AbortEnqueue(a)
  PROVE  \A i \in Ids' : i \in Ids \/ intents'[i].source = "RecoveryDrain"
<1>1. CASE DOMAIN intents' = Ids
  BY <1>1 DEF Ids
<1>2. ASSUME NEW s \in Slots, NEW unread \in MailboxViews,
             ReconcileMailbox(a, s, unread)
      PROVE  \A i \in Ids' : i \in Ids \/ intents'[i].source = "RecoveryDrain"
  <2> DEFINE stale == {i \in QueuedIds(s) : /\ intents[i].msg # NoMsg
                                            /\ intents[i].msg \notin Range(unread)}
             kept  == Moved(intents, stale, "Completed")
             owned == {kept[i].msg : i \in LiveOf(s) \ stale}
             fresh == Without(unread, owned)
             new   == [k \in DOMAIN fresh |->
                         [slot |-> s, source |-> "RecoveryDrain",
                          msg |-> fresh[k], run |-> NoRun, state |-> "Queued"]]
  <2>1. intents' = kept \o new
    BY <1>2 DEF ReconcileMailbox
  <2>2. kept \in Seq(WorkIntent) /\ Len(kept) = Len(intents)
    BY MovedType DEF TypeOK, State, TerminalState
  <2>3. fresh \in Seq(Messages)
    BY WithoutProperties DEF MailboxViews
  <2>4. Len(intents) \in Nat /\ Ids = 1 .. Len(intents)
    BY LogTypes
  <2>5. /\ new \in Seq(WorkIntent) /\ Len(new) = Len(fresh)
        /\ \A k \in DOMAIN new : new[k].source = "RecoveryDrain"
    <3> HIDE DEF fresh
    <3> QED BY <2>3, <2>4, FreshType
  <2> HIDE DEF new, kept, fresh
  <2>6. \A i \in DOMAIN intents' : i \in Ids \/ (i - Len(kept) \in DOMAIN new
                                              /\ intents'[i] = new[i - Len(kept)])
    BY <2>1, <2>2, <2>4, <2>5, ConcatProperties, LenProperties
  <2> QED BY <2>5, <2>6 DEF Ids
<1>3. \A S, st : DOMAIN Moved(intents, S, st) = Ids
  BY DEF Moved, Ids
<1>4. \A S, st, D, dt : DOMAIN Moved(Moved(intents, S, st), D, dt) = Ids
  BY DEF Moved, Ids
<1>5. CASE AnyExecuting(a)
  BY <1>1, <1>2, <1>3, <1>5, Zenon
  DEF AnyExecuting, ClaimBatch, CompleteSignals, MarkStarted, RetryStart,
      TerminalizeBatch
<1>6. CASE AnyControlling(a)
  <2>1. ASSUME NEW s \in Slots, NEW c \in RuntimeConstraint,
               SetRuntimeConstraint(a, s, c)
        PROVE  DOMAIN intents' = Ids
    BY <1>4, <2>1, Zenon DEF SetRuntimeConstraint
  <2>2. ASSUME CancelRun(a)
        PROVE  DOMAIN intents' = Ids
    BY <1>4, <2>2, Zenon DEF CancelRun
  <2>3. CASE Stop(a) \/ \E s \in Slots : RemoveSlot(a, s)
    BY <1>1, <1>3, <2>3, Zenon DEF Stop, RemoveSlot
  <2>4. CASE BeginCancel(a) \/ \E s \in Slots : PauseSlot(a, s)
    BY <1>1, <2>4 DEF BeginCancel, PauseSlot, Ids
  <2> QED BY <1>1, <1>6, <2>1, <2>2, <2>3, <2>4, Zenon DEF AnyControlling
<1> QED BY <1>1, <1>5, <1>6
        DEF PublishNext, AcquireEnqueue, AbortEnqueue, Ids

(* User work is bound to a run and a message by every operation.           *)
LEMMA UserWorkStep ==
  ASSUME TypeOK, TypeOK', LifeKept, UserWorkBound, [AnyNext]_vars
  PROVE  UserWorkBound'
<1> DEFINE Old == \A i \in Ids' : i \in Ids \/ intents'[i].source = "RecoveryDrain"
           Bound(i) == intents'[i].source \in ForegroundSources =>
                         intents'[i].run # NoRun /\ intents'[i].msg # NoMsg
<1>1. \A i \in Ids : Bound(i)
  BY KeptFields DEF UserWorkBound
<1>2. Old => \A i \in Ids' : Bound(i)
  BY <1>1 DEF ForegroundSources
<1>3. CASE UNCHANGED vars
  BY <1>3 DEF vars, UserWorkBound, Ids
<1>4. ASSUME NEW a \in Actors, NEW s \in Slots, NEW caller \in Slots,
             NEW rq \in EnqueueRequest, AcquireEnqueue(a, s, rq[1], rq[2], caller)
      PROVE  UserWorkBound'
  <2>1. rq[1] \in ForegroundSources => rq[2] = "UserVisible"
    BY CoordinatorAssumption DEF EnqueueRequest, ForegroundSources
  <2>2. IsActive(run') => run'.id # NoRun
    BY <1>4 DEF AcquireEnqueue, BindUserEnqueue, UserWorkBound, TypeOK, RunIds, NoRun, IsActive
  <2>3. rq[2] = "UserVisible" => BoundRun(rq[2], caller) # NoRun
    BY <1>4 DEF BoundRun, BindUserEnqueue, UserWorkBound, TypeOK, RunIds, NoRun, IsActive
  <2>4. \A l \in leases' : l.source \in ForegroundSources => l.run # NoRun
    BY <1>4, <2>1, <2>3 DEF AcquireEnqueue, UserWorkBound
  <2> QED BY <1>4, <2>2, <2>4 DEF AcquireEnqueue, UserWorkBound, Ids
<1>5. ASSUME NEW a \in Actors, NEW m \in Messages \cup {NoMsg}, CommitEnqueue(a, m)
      PROVE  UserWorkBound'
  <2>1. PICK l \in leases :
          /\ RequiresMailboxMessage(l.source) => m # NoMsg
          /\ leases' = leases \ {l}
          /\ intents' = Append(intents, [slot |-> l.slot, source |-> l.source,
                                         msg |-> m, run |-> l.run,
                                         state |-> "Queued"])
          /\ run' = run
    BY <1>5 DEF CommitEnqueue
  <2> DEFINE x == [slot |-> l.slot, source |-> l.source, msg |-> m,
                   run |-> l.run, state |-> "Queued"]
  <2>2. x.source \in ForegroundSources => x.run # NoRun /\ x.msg # NoMsg
    BY <2>1 DEF UserWorkBound, RequiresMailboxMessage, ForegroundSources
  <2>3. intents' = Append(intents, x) /\ intents \in Seq(WorkIntent)
    BY <2>1 DEF TypeOK
  <2> HIDE DEF x
  <2>4. \A i \in Ids' : i \in Ids \/ intents'[i] = x
    BY <2>3, LogTypes, AppendProperties, LenProperties DEF Ids
  <2>5. \A i \in Ids' : Bound(i)
    BY <1>1, <2>2, <2>4
  <2> QED BY <2>1, <2>5 DEF UserWorkBound
<1>6. ASSUME Old, leases' \subseteq leases, run' = run
      PROVE  UserWorkBound'
  BY <1>2, <1>6 DEF UserWorkBound
<1>7. ASSUME NEW a \in Actors, AbortEnqueue(a)
      PROVE  UserWorkBound'
  BY <1>6, <1>7, NewIntents DEF AbortEnqueue
<1>8. ASSUME NEW a \in Actors, AnyExecuting(a)
      PROVE  UserWorkBound'
  <2>1. leases' = leases /\ run' = run
    BY <1>8 DEF AnyExecuting, ReconcileMailbox, ClaimBatch, CompleteSignals,
                MarkStarted, RetryStart, TerminalizeBatch
  <2> QED BY <1>6, <1>8, <2>1, NewIntents
<1>9. ASSUME NEW a \in Actors, AnyControlling(a)
      PROVE  UserWorkBound'
  <2>1. Old
    BY <1>9, NewIntents
  <2>2. CASE BeginCancel(a)
    BY <1>2, <2>1, <2>2
    DEF BeginCancel, BeginCancelOf, UserWorkBound, TypeOK, TeamRunRecord
  <2>3. CASE CancelRun(a)
    BY <1>6, <2>1, <2>3 DEF CancelRun
  <2>4. CASE ~BeginCancel(a) /\ ~CancelRun(a)
    BY <1>6, <1>9, <2>1, <2>4
    DEF AnyControlling, PauseSlot, SetRuntimeConstraint, RemoveSlot, Stop
  <2> QED BY <2>2, <2>3, <2>4
<1>10. ASSUME NEW a \in Actors, PublishNext(a)
       PROVE  UserWorkBound'
  <2>1. Old /\ leases' = leases
    BY <1>10, NewIntents DEF PublishNext
  <2>2. IsActive(run') => run'.id # NoRun
    <3>1. NoRunRecord.status \notin ActiveStatus
      BY DEF NoRunRecord, ActiveStatus
    <3>2. IsActive(run) => run.id # NoRun
      BY DEF UserWorkBound
    <3>3. CASE run' = ApplyWorkSummary(run, Head(todo[a]))
      BY <3>2, <3>3 DEF ApplyWorkSummary
    <3>4. CASE run' = AbortBinding(run, Head(todo[a]).run)
      BY <3>1, <3>2, <3>4 DEF AbortBinding, IsActive
    <3> QED BY <1>10, <3>3, <3>4 DEF PublishNext
  <2> QED BY <1>2, <2>1, <2>2 DEF UserWorkBound
<1>11. ASSUME NEW a \in Actors, AnyEnqueueing(a)
       PROVE  UserWorkBound'
  BY <1>4, <1>5, <1>7, <1>11 DEF AnyEnqueueing
<1> QED BY <1>3, <1>8, <1>9, <1>10, <1>11 DEF AnyNext

(* What ForegroundFifo says of one slot.                                   *)
InOrder(s) ==
  /\ Ascending(queue[s][Foreground])
  /\ active[s] # 0 /\ batches[active[s]].priority = Foreground =>
       Ascending(batches[active[s]].ids \o queue[s][Foreground])

(* A slot that keeps its batch or gives it up, and whose foreground queue  *)
(* gains nothing, stays in order.                                          *)
LEMMA OrderShrinks ==
  ASSUME TypeOK, TypeOK', WorkOwnedOnce, NEW s \in Slots, InOrder(s),
         active'[s] \in {0, active[s]},
         \A op \in DOMAIN batches : batches'[op] = batches[op],
         Ascending(queue'[s][Foreground]),
         Range(queue'[s][Foreground]) \subseteq Range(queue[s][Foreground])
  PROVE  InOrder(s)'
<1>1. CASE active'[s] = 0
  BY <1>1 DEF InOrder
<1>2. CASE active'[s] # 0 /\ batches'[active'[s]].priority = Foreground
  <2> DEFINE b == batches[active[s]].ids
             q == queue[s][Foreground]
             r == queue'[s][Foreground]
  <2>1. active'[s] = active[s] /\ active[s] \in DOMAIN batches
    BY <1>2 DEF WorkOwnedOnce, BatchHoldsExecuting
  <2>2. batches'[active'[s]] = batches[active[s]]
    BY <2>1
  <2>3. b \in Seq(Nat)
    BY <2>1, LogTypes DEF WorkBatch
  <2>4. q \in Seq(Nat) /\ r \in Seq(Nat)
    BY DEF TypeOK, Priorities
  <2>5. Ascending(b \o q) /\ Ascending(r) /\ Range(r) \subseteq Range(q)
    BY <1>2, <2>1, <2>2 DEF InOrder
  <2> HIDE DEF b, q, r
  <2>6. Ascending(b) /\ \A x \in Range(b), y \in Range(q) : x < y
    BY <2>3, <2>4, <2>5, AscendingConcat
  <2>7. Ascending(b \o r)
    BY <2>3, <2>4, <2>5, <2>6, AscendingConcat
  <2> QED BY <2>2, <2>5, <2>7 DEF InOrder, b, r
<1>3. CASE active'[s] # 0 /\ batches'[active'[s]].priority # Foreground
  BY <1>3 DEF InOrder
<1> QED BY <1>1, <1>2, <1>3

(* Removing ids from a slot's queue, and perhaps giving up its batch.      *)
LEMMA OrderWithout ==
  ASSUME TypeOK, TypeOK', WorkOwnedOnce, NEW s \in Slots, InOrder(s), NEW S,
         active'[s] \in {0, active[s]},
         \A op \in DOMAIN batches : batches'[op] = batches[op],
         queue'[s][Foreground] = Without(queue[s][Foreground], S)
  PROVE  InOrder(s)'
<1>1. queue[s][Foreground] \in Seq(Nat)
  BY DEF TypeOK, Priorities
<1>2. /\ Ascending(queue'[s][Foreground])
      /\ Range(queue'[s][Foreground]) \subseteq Range(queue[s][Foreground])
  BY <1>1, WithoutProperties DEF InOrder
<1> QED BY <1>2, OrderShrinks

(* Leaving a slot's queue alone, and perhaps giving up its batch.          *)
LEMMA OrderSame ==
  ASSUME TypeOK, TypeOK', WorkOwnedOnce, NEW s \in Slots, InOrder(s),
         active'[s] \in {0, active[s]},
         \A op \in DOMAIN batches : batches'[op] = batches[op],
         queue'[s][Foreground] = queue[s][Foreground]
  PROVE  InOrder(s)'
BY OrderShrinks DEF InOrder

(* Emptying a slot's foreground queue, and perhaps giving up its batch.    *)
LEMMA OrderEmpty ==
  ASSUME TypeOK, TypeOK', WorkOwnedOnce, NEW s \in Slots, InOrder(s),
         active'[s] \in {0, active[s]},
         \A op \in DOMAIN batches : batches'[op] = batches[op],
         Range(queue'[s][Foreground]) = {}
  PROVE  InOrder(s)'
<1>1. Ascending(queue'[s][Foreground])
  BY AscendingEmpty
<1> QED BY <1>1, OrderShrinks

(* commit_enqueue puts the youngest intent of all behind a queue.          *)
LEMMA OrderCommit ==
  ASSUME TypeOK, TypeOK', WorkOwnedOnce, NEW a \in Actors,
         NEW m \in Messages \cup {NoMsg}, CommitEnqueue(a, m),
         NEW s \in Slots, InOrder(s)
  PROVE  InOrder(s)'
<1>1. PICK l \in leases :
        /\ queue' = [queue EXCEPT ![l.slot][PriorityOf(l.source)] =
                       Append(@, Len(intents) + 1)]
        /\ UNCHANGED <<active, batches>>
  BY DEF CommitEnqueue
<1>2. l.slot \in Slots /\ PriorityOf(l.source) \in Priorities
  BY DEF TypeOK, EnqueueLease, WorkSource, PriorityOf, Priorities
<1> DEFINE q == queue[s][Foreground]
           n == Len(intents) + 1
<1>3. /\ Foreground \in Priorities /\ q \in Seq(Nat)
  BY DEF TypeOK, Priorities
<1>4. n \in Nat /\ \A i \in Ids : i < n
  BY LogTypes
<1>5. CASE s = l.slot /\ PriorityOf(l.source) = Foreground
  <2>1. queue'[s][Foreground] = Append(q, n)
    BY <1>1, <1>2, <1>3, <1>5 DEF TypeOK
  <2>2. \A y \in Range(q) : y < n
    BY <1>3, <1>4, OwnedStates
  <2>3. Ascending(q)
    BY DEF InOrder
  <2> HIDE DEF q, n
  <2>4. Ascending(Append(q, n))
    BY <1>3, <1>4, <2>2, <2>3, AscendingAppend
  <2>5. CASE active[s] # 0 /\ batches[active[s]].priority = Foreground
    <3> DEFINE b == batches[active[s]].ids
    <3>1. active[s] \in DOMAIN batches
      BY <2>5 DEF WorkOwnedOnce, BatchHoldsExecuting
    <3>2. b \in Seq(Nat)
      BY <3>1, LogTypes DEF WorkBatch
    <3>3. \A x \in Range(b) : x < n
      BY <1>4, <2>5, OwnedStates DEF ActiveIds, BatchIds
    <3>4. Ascending(b \o q)
      BY <2>5 DEF InOrder, q
    <3> HIDE DEF b
    <3>5. Ascending(b) /\ \A x \in Range(b), y \in Range(q) : x < y
      BY <1>3, <3>2, <3>4, AscendingConcat
    <3>6. Append(q, n) \in Seq(Nat) /\ Range(Append(q, n)) = Range(q) \cup {n}
      BY <1>3, <1>4, AppendProps
    <3>7. Ascending(b \o Append(q, n))
      BY <2>4, <3>2, <3>3, <3>5, <3>6, AscendingConcat
    <3> QED BY <1>1, <2>1, <2>4, <3>7 DEF InOrder, b
  <2>6. CASE ~(active[s] # 0 /\ batches[active[s]].priority = Foreground)
    BY <1>1, <2>1, <2>4, <2>6 DEF InOrder
  <2> QED BY <2>5, <2>6
<1>6. CASE ~(s = l.slot /\ PriorityOf(l.source) = Foreground)
  <2>1. queue'[s][Foreground] = q
    BY <1>1, <1>2, <1>3, <1>6 DEF TypeOK
  <2> QED BY <1>1, <2>1, OrderSame
<1> QED BY <1>5, <1>6

(* A claim takes the whole foreground queue: user work is never a signal.  *)
LEMMA OrderClaim ==
  ASSUME TypeOK, TypeOK', WorkOwnedOnce, UserWorkBound, NEW a \in Actors,
         NEW z \in Slots, ClaimBatch(a, z), NEW s \in Slots, InOrder(s)
  PROVE  InOrder(s)'
<1>1. PICK p \in Priorities :
        LET ids == Without(queue[z][p], SignalIds)
            op  == Len(batches) + 1
        IN  /\ batches' = Append(batches, [slot |-> z, ids |-> ids,
                                           priority |-> p])
            /\ queue' = [queue EXCEPT ![z] = RemoveQueued(@, Range(ids))]
            /\ active' = [active EXCEPT ![z] = op]
  BY DEF ClaimBatch
<1> DEFINE ids == Without(queue[z][p], SignalIds)
           op  == Len(batches) + 1
           q   == queue[z][Foreground]
<1>2. /\ Foreground \in Priorities /\ q \in Seq(Nat)
      /\ queue[z][p] \in Seq(Nat)
  <2>1. Foreground \in Priorities
    BY DEF Priorities
  <2>2. \A r \in Priorities : queue[z][r] \in Seq(Nat)
    BY DEF TypeOK
  <2> QED BY <2>1, <2>2
<1>3. ids \in Seq(Nat) /\ Range(ids) = Range(queue[z][p]) \ SignalIds
  BY <1>2, WithoutProperties
<1>4. /\ \A o \in DOMAIN batches : batches'[o] = batches[o]
      /\ batches'[op] = [slot |-> z, ids |-> ids, priority |-> p]
  <2> DEFINE b == [slot |-> z, ids |-> ids, priority |-> p]
  <2>1. batches' = Append(batches, b) /\ batches \in Seq(WorkBatch)
    BY <1>1 DEF TypeOK
  <2> HIDE DEF b
  <2>2. /\ \A o \in DOMAIN batches : batches'[o] = batches[o]
        /\ batches'[op] = b
    BY <2>1, LogTypes, AppendProperties, LenProperties
  <2> QED BY <2>2 DEF b
<1>5. queue'[z][Foreground] = Without(q, Range(ids))
  BY <1>1, <1>2 DEF TypeOK, RemoveQueued
<1>6. CASE s # z
  <2>1. active'[s] = active[s] /\ queue'[s][Foreground] = queue[s][Foreground]
    BY <1>1, <1>6 DEF TypeOK
  <2> QED BY <1>4, <2>1, OrderSame
<1>7. CASE s = z
  <2>1. active'[s] = op
    BY <1>1, <1>7 DEF TypeOK
  <2>2. /\ Without(q, Range(ids)) \in Seq(Nat)
        /\ Range(Without(q, Range(ids))) = Range(q) \ Range(ids)
        /\ Ascending(Without(q, Range(ids)))
    BY <1>2, <1>7, WithoutProperties DEF InOrder
  <2>3. CASE p = Foreground
    <3>1. Range(q) \cap SignalIds = {}
      <4>1. ASSUME NEW i \in Range(q)
            PROVE  intents[i].source \in ForegroundSources /\ i \in Ids
        <5>1. PriorityOfIntent(i) = Foreground /\ i \in Ids
          BY <1>2, <4>1 DEF WorkOwnedOnce, QueueHoldsWaiting
        <5>2. intents[i].source \in WorkSource
          BY <5>1, LogTypes DEF WorkIntent
        <5> QED BY <5>1, <5>2
                DEF PriorityOfIntent, PriorityOf, WorkSource, Foreground,
                    Control, Background
      <4> QED BY <4>1 DEF UserWorkBound, SignalIds
    <3>2. Range(Without(q, Range(ids))) = {}
      BY <1>3, <2>2, <2>3, <3>1
    <3>3. Ascending(ids)
      BY <1>2, <1>7, <2>3, WithoutProperties DEF InOrder
    <3> DEFINE r == Without(q, Range(ids))
    <3>4. r \in Seq(Nat) /\ Range(r) = {} /\ Ascending(r)
      BY <2>2, <3>2
    <3>5. ids \in Seq(Nat) /\ Ascending(ids) /\ batches'[op].ids = ids
          /\ queue'[s][Foreground] = r
      BY <1>3, <1>4, <1>5, <1>7, <3>3
    <3> HIDE DEF r, ids, op
    <3>6. Ascending(ids \o r)
      BY <3>4, <3>5, AscendingConcat
    <3> QED BY <2>1, <3>4, <3>5, <3>6 DEF InOrder
  <2>4. CASE p # Foreground
    <3>1. batches'[op].priority # Foreground
      BY <1>4, <2>4
    <3> QED BY <1>5, <1>7, <2>1, <2>2, <3>1 DEF InOrder
  <2> QED BY <2>3, <2>4
<1> QED BY <1>6, <1>7

(* A retry puts the batch in front of the queue it was taken from.         *)
LEMMA OrderRetry ==
  ASSUME TypeOK, TypeOK', WorkOwnedOnce, NEW a \in Actors,
         NEW op \in DOMAIN batches, RetryStart(a, op),
         NEW s \in Slots, InOrder(s)
  PROVE  InOrder(s)'
<1> DEFINE b == batches[op]
<1>1. /\ active' = [active EXCEPT ![b.slot] = 0]
      /\ queue' = [queue EXCEPT ![b.slot][b.priority] = b.ids \o @]
      /\ batches' = batches /\ IsCurrentBatch(op)
  BY DEF RetryStart
<1>2. /\ b.slot \in Slots /\ b.priority \in Priorities
      /\ op # 0 /\ active[b.slot] = op
  BY <1>1, CurrentBatch
<1>3. active'[s] \in {0, active[s]} /\ Foreground \in Priorities
  BY <1>1, <1>2 DEF TypeOK, Priorities
<1>4. CASE s = b.slot /\ b.priority = Foreground
  <2>1. queue'[s][Foreground] = b.ids \o queue[s][Foreground]
    BY <1>1, <1>2, <1>3, <1>4 DEF TypeOK
  <2>2. Ascending(b.ids \o queue[s][Foreground])
    BY <1>2, <1>4 DEF InOrder
  <2>3. active'[s] = 0
    BY <1>1, <1>2, <1>4 DEF TypeOK
  <2> QED BY <2>1, <2>2, <2>3 DEF InOrder
<1>5. CASE ~(s = b.slot /\ b.priority = Foreground)
  <2>1. queue'[s][Foreground] = queue[s][Foreground]
    BY <1>1, <1>2, <1>3, <1>5 DEF TypeOK
  <2> QED BY <1>1, <1>3, <2>1, OrderSame
<1> QED BY <1>4, <1>5

(* cancel_run gives what a batch held for other runs back to the front of  *)
(* its queue, in the order the batch had it.                               *)
LEMMA OrderCancelRun ==
  ASSUME TypeOK, TypeOK', WorkOwnedOnce, NEW a \in Actors, CancelRun(a),
         NEW s \in Slots, InOrder(s)
  PROVE  InOrder(s)'
<1> DEFINE r     == Head(todo[a]).run
           hit   == {t \in Slots : \E i \in ActiveIds(t) : intents[i].run = r}
           taken == UNION {ActiveIds(t) : t \in hit}
           ofRun == {i \in Ids : intents[i].run = r}
           Others(p) == {i \in Ids : PriorityOfIntent(i) # p}
           Back(t, p) == IF t \in hit
                         THEN Without(batches[active[t]].ids, Others(p))
                         ELSE <<>>
           done  == (taken \cap ofRun)
                    \cup {i \in ofRun : intents[i].state = "Queued"}
           q     == queue[s][Foreground]
           back  == Back(s, Foreground)
<1>1. /\ active' = [t \in Slots |-> IF t \in hit THEN 0 ELSE active[t]]
      /\ queue' = [t \in Slots |-> [p \in Priorities |->
                     Without(Back(t, p) \o queue[t][p], done)]]
      /\ batches' = batches
  BY DEF CancelRun
<1>2. Foreground \in Priorities
  BY DEF Priorities
<1>3. /\ active'[s] = IF s \in hit THEN 0 ELSE active[s]
      /\ queue'[s][Foreground] = Without(back \o q, done)
  BY <1>1, <1>2
<1>4. q \in Seq(Nat)
  BY <1>2 DEF TypeOK
<1>5. back \in Seq(Nat) /\ Ascending(back \o q)
  <2>1. CASE s \notin hit
    <3>1. back = <<>> /\ <<>> \in Seq(Nat)
      BY <2>1
    <3>2. <<>> \o q = q
      BY <1>4
    <3> QED BY <3>1, <3>2 DEF InOrder
  <2>2. CASE s \in hit
    <3> DEFINE op == active[s]
               b  == batches[op].ids
    <3>1. op # 0 /\ op \in DOMAIN batches /\ batches[op].slot = s
      BY <2>2 DEF ActiveIds, WorkOwnedOnce, BatchHoldsExecuting
    <3>2. b \in Seq(Nat)
      BY <3>1, LogTypes DEF WorkBatch
    <3>3. back = Without(b, Others(Foreground))
      BY <2>2
    <3> HIDE DEF back
    <3>4. back \in Seq(Nat) /\ Range(back) = Range(b) \ Others(Foreground)
      <4> HIDE DEF b, Others
      <4> QED BY <3>2, <3>3, WithoutProperties
    <3>5. CASE batches[op].priority = Foreground
      <4>1. Ascending(b \o q)
        BY <3>1, <3>5 DEF InOrder
      <4> HIDE DEF b, q, Others
      <4>2. /\ Ascending(b) /\ Ascending(q)
            /\ \A x \in Range(b), y \in Range(q) : x < y
        BY <1>4, <3>2, <4>1, AscendingConcat
      <4>3. Ascending(back)
        BY <3>2, <3>3, <4>2, WithoutProperties
      <4>4. Ascending(back \o q)
        BY <1>4, <3>4, <4>2, <4>3, AscendingConcat
      <4> QED BY <3>4, <4>4
    <3>6. CASE batches[op].priority # Foreground
      <4>1. \A i \in Range(b) : i \in Others(Foreground)
        BY <3>1, <3>6 DEF WorkOwnedOnce, BatchesWellFormed, BatchIds
      <4>2. Range(back) = {}
        BY <3>4, <4>1
      <4>3. Ascending(q) /\ Ascending(back)
        BY <4>2, AscendingEmpty DEF InOrder
      <4> HIDE DEF q
      <4>4. Ascending(back \o q)
        BY <1>4, <3>4, <4>2, <4>3, AscendingConcat
      <4> QED BY <3>4, <4>4
    <3> QED BY <3>5, <3>6
  <2> QED BY <2>1, <2>2
<1> DEFINE w == back \o q
<1>6. CASE s \in hit
  <2>1. w \in Seq(Nat) /\ Ascending(w)
    <3> HIDE DEF back, q
    <3> QED BY <1>4, <1>5, ConcatProps
  <2>2. queue'[s][Foreground] = Without(w, done)
    BY <1>3
  <2> HIDE DEF w, done
  <2>3. Ascending(queue'[s][Foreground])
    BY <2>1, <2>2, WithoutProperties
  <2> QED BY <1>3, <1>6, <2>3 DEF InOrder
<1>7. CASE s \notin hit
  <2>1. back = <<>>
    BY <1>7
  <2>2. <<>> \o q = q
    BY <1>4
  <2>3. queue'[s][Foreground] = Without(queue[s][Foreground], done)
    BY <1>3, <2>1, <2>2
  <2>4. active'[s] \in {0, active[s]} /\ batches' = batches
    BY <1>1, <1>3, <1>7
  <2> HIDE DEF done
  <2> QED BY <2>3, <2>4, OrderWithout
<1> QED BY <1>6, <1>7

(* A failed runtime keeps no user work: it is always bound to a run.       *)
LEMMA OrderConstraint ==
  ASSUME TypeOK, TypeOK', WorkOwnedOnce, UserWorkBound, NEW a \in Actors,
         NEW z \in Slots, NEW c \in RuntimeConstraint, SetRuntimeConstraint(a, z, c),
         NEW s \in Slots, InOrder(s)
  PROVE  InOrder(s)'
<1> DEFINE ends == c \in {"Failed", "SessionStopped"}
           live == IF ends THEN LiveOf(z) ELSE {}
           kept == IF c = "Failed" THEN {i \in live : intents[i].run = NoRun}
                                   ELSE {}
           At(p) == {i \in kept : PriorityOfIntent(i) = p}
<1>1. /\ active' = IF ends THEN [active EXCEPT ![z] = 0] ELSE active
      /\ batches' = batches
  BY DEF SetRuntimeConstraint
<1>2. PICK f \in Enumerations(At(Foreground)), t \in Enumerations(At(Control)),
           b \in Enumerations(At(Background)) :
        queue' = IF ~ends THEN queue
                 ELSE [queue EXCEPT ![z] =
                         [p \in Priorities |-> CASE p = Foreground -> f
                                                 [] p = Control    -> t
                                                 [] p = Background -> b]]
  BY DEF SetRuntimeConstraint
<1>3. At(Foreground) = {}
  <2>1. ASSUME NEW i \in At(Foreground)
        PROVE  FALSE
    <3>1. i \in Ids /\ intents[i].run = NoRun /\ PriorityOfIntent(i) = Foreground
      BY <2>1 DEF LiveOf
    <3>2. intents[i].source \in WorkSource
      BY <3>1, LogTypes DEF WorkIntent
    <3>3. intents[i].source \in ForegroundSources
      BY <3>1, <3>2 DEF PriorityOfIntent, PriorityOf, WorkSource, Foreground,
                        Control, Background
    <3> QED BY <3>1, <3>3 DEF UserWorkBound
  <2> QED BY <2>1
<1>4. Range(f) = {}
  BY <1>2, <1>3 DEF Enumerations
<1>5. active'[s] \in {0, active[s]}
  BY <1>1 DEF TypeOK
<1>6. CASE ends /\ s = z
  <2>1. queue'[s][Foreground] = f
    BY <1>2, <1>6 DEF TypeOK, Priorities, Foreground, Control, Background
  <2> QED BY <1>1, <1>4, <1>5, <2>1, OrderEmpty
<1>7. CASE ~(ends /\ s = z)
  <2>1. queue'[s][Foreground] = queue[s][Foreground]
    BY <1>2, <1>7 DEF TypeOK
  <2> QED BY <1>1, <1>5, <2>1, OrderSame
<1> QED BY <1>6, <1>7

(* Every step keeps every slot's user work in order.                       *)
LEMMA FifoStep ==
  ASSUME TypeOK, TypeOK', WorkOwnedOnce, UserWorkBound, ForegroundFifo,
         [AnyNext]_vars
  PROVE  ForegroundFifo'
<1> SUFFICES ASSUME NEW s \in Slots
             PROVE  InOrder(s)'
  BY DEF ForegroundFifo, InOrder
<1>1. InOrder(s)
  BY DEF ForegroundFifo, InOrder
<1>2. Foreground \in Priorities
  BY DEF Priorities
<1>3. CASE UNCHANGED <<queue, active, batches>>
  BY <1>1, <1>3 DEF InOrder
<1>4. ASSUME NEW a \in Actors, NEW z \in Slots, NEW unread \in MailboxViews,
             ReconcileMailbox(a, z, unread)
      PROVE  InOrder(s)'
  <2>1. UNCHANGED <<active, batches>>
    BY <1>4 DEF ReconcileMailbox, slotVars
  <2>2. PICK stale, ids :
          queue' = [queue EXCEPT ![z] =
                     [p \in Priorities |->
                        IF p = Background THEN Without(@[p], stale) \o ids
                                          ELSE Without(@[p], stale)]]
    BY <1>4 DEF ReconcileMailbox
  <2>3. CASE s = z
    <3>1. queue'[s][Foreground] = Without(queue[s][Foreground], stale)
      BY <1>2, <2>2, <2>3 DEF TypeOK, Foreground, Background
    <3> QED BY <1>1, <2>1, <3>1, OrderWithout
  <2>4. CASE s # z
    <3>1. queue'[s][Foreground] = queue[s][Foreground]
      BY <2>2, <2>4 DEF TypeOK
    <3> QED BY <1>1, <2>1, <3>1, OrderSame
  <2> QED BY <2>3, <2>4
<1>5. ASSUME NEW a \in Actors, NEW z \in Slots, NEW S, CompleteSignals(a, z, S)
      PROVE  InOrder(s)'
  <2>1. /\ UNCHANGED <<active, batches>>
        /\ queue' = [queue EXCEPT ![z] = RemoveQueued(@, S)]
    BY <1>5 DEF CompleteSignals, slotVars
  <2>2. CASE s = z
    <3>1. queue'[s][Foreground] = Without(queue[s][Foreground], S)
      BY <1>2, <2>1, <2>2 DEF TypeOK, RemoveQueued
    <3> QED BY <1>1, <2>1, <3>1, OrderWithout
  <2>3. CASE s # z
    <3>1. queue'[s][Foreground] = queue[s][Foreground]
      BY <2>1, <2>3 DEF TypeOK
    <3> QED BY <1>1, <2>1, <3>1, OrderSame
  <2> QED BY <2>2, <2>3
<1>6. ASSUME NEW a \in Actors, NEW op \in DOMAIN batches, NEW st,
             TerminalizeBatch(a, op, st)
      PROVE  InOrder(s)'
  <2>1. /\ UNCHANGED <<queue, batches>>
        /\ active' = [active EXCEPT ![batches[op].slot] = 0]
    BY <1>6 DEF TerminalizeBatch
  <2>2. active'[s] \in {0, active[s]}
    BY <2>1 DEF TypeOK
  <2> QED BY <1>1, <2>1, <2>2, OrderSame
<1>7. ASSUME NEW a \in Actors, NEW z \in Slots, RemoveSlot(a, z)
      PROVE  InOrder(s)'
  <2>1. /\ queue' = [queue EXCEPT ![z] = EmptyQueues]
        /\ active' = [active EXCEPT ![z] = 0] /\ batches' = batches
    BY <1>7 DEF RemoveSlot
  <2>2. active'[s] \in {0, active[s]}
    BY <2>1 DEF TypeOK
  <2>3. CASE s = z
    <3>1. Range(queue'[s][Foreground]) = {}
      BY <1>2, <2>1, <2>3 DEF TypeOK, EmptyQueues, Range
    <3> QED BY <1>1, <2>1, <2>2, <3>1, OrderEmpty
  <2>4. CASE s # z
    <3>1. queue'[s][Foreground] = queue[s][Foreground]
      BY <2>1, <2>4 DEF TypeOK
    <3> QED BY <1>1, <2>1, <2>2, <3>1, OrderSame
  <2> QED BY <2>3, <2>4
<1>8. ASSUME NEW a \in Actors, Stop(a)
      PROVE  InOrder(s)'
  <2>1. /\ queue' = [z \in Slots |-> EmptyQueues]
        /\ active' = [z \in Slots |-> 0] /\ batches' = batches
    BY <1>8 DEF Stop
  <2>2. Range(queue'[s][Foreground]) = {}
    BY <1>2, <2>1 DEF EmptyQueues, Range
  <2>3. active'[s] = 0
    BY <2>1
  <2> QED BY <1>1, <2>1, <2>2, <2>3, OrderEmpty
<1>9. ASSUME NEW a \in Actors, AnyEnqueueing(a)
      PROVE  InOrder(s)'
  <2>1. ASSUME NEW t \in Slots, NEW caller \in Slots, NEW rq \in EnqueueRequest,
               AcquireEnqueue(a, t, rq[1], rq[2], caller)
        PROVE  InOrder(s)'
    BY <1>3, <2>1 DEF AcquireEnqueue, slotVars
  <2>2. CASE AbortEnqueue(a)
    BY <1>3, <2>2 DEF AbortEnqueue, slotVars
  <2> QED BY <1>1, <1>9, <2>1, <2>2, OrderCommit DEF AnyEnqueueing
<1>10. ASSUME NEW a \in Actors, AnyExecuting(a)
       PROVE  InOrder(s)'
  <2>1. ASSUME NEW op \in DOMAIN batches, MarkStarted(a, op)
        PROVE  InOrder(s)'
    BY <1>3, <2>1 DEF MarkStarted, slotVars
  <2> QED BY <1>1, <1>4, <1>5, <1>6, <1>10, <2>1, OrderClaim, OrderRetry
          DEF AnyExecuting
<1>11. ASSUME NEW a \in Actors, AnyControlling(a)
       PROVE  InOrder(s)'
  <2>1. CASE BeginCancel(a) \/ \E z \in Slots : PauseSlot(a, z)
    BY <1>3, <2>1 DEF BeginCancel, PauseSlot, slotVars
  <2> QED BY <1>1, <1>7, <1>8, <1>11, <2>1, OrderCancelRun, OrderConstraint
          DEF AnyControlling
<1>12. ASSUME NEW a \in Actors, PublishNext(a)
       PROVE  InOrder(s)'
  BY <1>3, <1>12 DEF PublishNext, slotVars
<1>13. CASE UNCHANGED vars
  BY <1>3, <1>13 DEF vars
<1> QED BY <1>9, <1>10, <1>11, <1>12, <1>13 DEF AnyNext

(* User work is queued and executed in the order it was committed: no      *)
(* retry, cancellation, failure or reconciliation puts a younger user      *)
(* message in front of an older one.                                       *)
THEOREM FifoCorrect == Spec => []ForegroundFifo
<1>1. Init => UserWorkBound /\ ForegroundFifo
  <2> SUFFICES ASSUME Init PROVE UserWorkBound /\ ForegroundFifo
    OBVIOUS
  <2>1. UserWorkBound
    BY DEF Init, UserWorkBound, Ids, IsActive, NoRunRecord, ActiveStatus
  <2>2. ForegroundFifo
    BY DEF Init, ForegroundFifo, Ascending, Priorities
  <2> QED BY <2>1, <2>2
<1>2. Inv /\ Inv' /\ UserWorkBound /\ ForegroundFifo /\ [Next]_vars
        => (UserWorkBound /\ ForegroundFifo)'
  <2> SUFFICES ASSUME Inv, Inv', UserWorkBound, ForegroundFifo, [Next]_vars
               PROVE  UserWorkBound' /\ ForegroundFifo'
    OBVIOUS
  <2>1. TypeOK /\ WorkOwnedOnce /\ TypeOK' /\ [AnyNext]_vars
    BY NextIsAny DEF Inv
  <2>2. LifeKept
    BY <2>1, LifeStep
  <2> QED BY <2>1, <2>2, UserWorkStep, FifoStep
<1> QED BY <1>1, <1>2, InvCorrect, PTL DEF Spec

------------------------------------------------------------------------------
(* Failed runs.                                                            *)

(* Some intent of the run r failed.                                        *)
HasFailed(ins, r) ==
  \E i \in DOMAIN ins : ins[i].run = r /\ ins[i].state = "Failed"

(* A summary still to be published was true when it was made.  It stays    *)
(* true however late it is published, because failure is final.            *)
FailedSummariesTrue ==
  \A a \in Actors : \A k \in DOMAIN todo[a] :
    todo[a][k].failed => HasFailed(intents, todo[a][k].run)

(* What has failed stays failed.                                           *)
LEMMA FailureIsFinal ==
  ASSUME TypeOK, TypeOK', LifeKept, NEW r, HasFailed(intents, r)
  PROVE  HasFailed(intents', r)
<1>1. PICK i \in Ids : intents[i].run = r /\ intents[i].state = "Failed"
  BY DEF HasFailed, Ids
<1>2. intents'[i].state \in Successors("Failed")
  BY <1>1 DEF LifeKept
<1>3. Successors("Failed") = {"Failed"}
  BY DEF Successors, TerminalState
<1>4. i \in Ids' /\ intents'[i].run = r
  BY <1>1, KeptFields
<1> QED BY <1>2, <1>3, <1>4 DEF HasFailed, Ids

(* Publishing after a critical section reports what that section left.     *)
LEMMA PublishTrue ==
  ASSUME TypeOK, NEW a \in Actors, NEW R, Publish(a, R),
         NEW b \in Actors, NEW k \in DOMAIN todo'[b], todo'[b][k].failed
  PROVE  (b # a /\ todo'[b] = todo[b]) \/ HasFailed(intents', todo'[b][k].run)
<1>1. PICK order \in Enumerations(R) :
        todo' = [todo EXCEPT ![a] =
                   [j \in DOMAIN order |->
                      RunSummary(intents', leases', order[j])]]
  BY DEF Publish
<1>2. CASE b # a
  BY <1>1, <1>2 DEF TypeOK
<1>3. CASE b = a
  <2> DEFINE sum == RunSummary(intents', leases', order[k])
             of  == {j \in DOMAIN intents' : intents'[j].run = order[k]}
  <2>1. todo'[b][k] = sum
    BY <1>1, <1>3 DEF TypeOK
  <2>2. /\ sum.failed = ("Failed" \in {intents'[i].state : i \in of})
        /\ sum.run = order[k]
    BY DEF RunSummary
  <2>3. "Failed" \in {intents'[i].state : i \in of}
    BY <2>1, <2>2
  <2>4. PICK i \in of : intents'[i].state = "Failed"
    BY <2>3
  <2> QED BY <2>1, <2>2, <2>4 DEF HasFailed
<1> QED BY <1>2, <1>3

(* A task's calls are those it had, or the ones it just computed; either   *)
(* way what they say of failures is true.                                  *)
LEMMA SummariesStep ==
  ASSUME TypeOK, TypeOK', LifeKept, FailedSummariesTrue, [AnyNext]_vars
  PROVE  FailedSummariesTrue'
<1>1. \A r : HasFailed(intents, r) => HasFailed(intents', r)
  BY FailureIsFinal
<1>2. ASSUME NEW a \in Actors, NEW R, Publish(a, R)
      PROVE  FailedSummariesTrue'
  <2> SUFFICES ASSUME NEW b \in Actors, NEW k \in DOMAIN todo'[b],
                      todo'[b][k].failed
               PROVE  HasFailed(intents', todo'[b][k].run)
    BY DEF FailedSummariesTrue
  <2>1. CASE b # a /\ todo'[b] = todo[b]
    BY <1>1, <2>1 DEF FailedSummariesTrue
  <2> QED BY <1>2, <2>1, PublishTrue
<1>3. ASSUME NEW a \in Actors, NEW w,
             todo' = [todo EXCEPT ![a] = w],
             \A k \in DOMAIN w : w[k].failed => HasFailed(intents', w[k].run)
      PROVE  FailedSummariesTrue'
  <2> SUFFICES ASSUME NEW b \in Actors, NEW k \in DOMAIN todo'[b],
                      todo'[b][k].failed
               PROVE  HasFailed(intents', todo'[b][k].run)
    BY DEF FailedSummariesTrue
  <2>1. CASE b = a
    <3>1. todo'[b] = w
      BY <1>3, <2>1 DEF TypeOK
    <3> QED BY <1>3, <3>1
  <2>2. CASE b # a
    <3>1. todo'[b] = todo[b]
      BY <1>3, <2>2 DEF TypeOK
    <3> QED BY <1>1, <3>1 DEF FailedSummariesTrue
  <2> QED BY <2>1, <2>2
<1>4. ASSUME todo' = todo
      PROVE  FailedSummariesTrue'
  BY <1>1, <1>4 DEF FailedSummariesTrue
<1>5. ASSUME NEW a \in Actors, AbortEnqueue(a)
      PROVE  FailedSummariesTrue'
  <2>1. PICK l \in leases :
          LET empties == /\ l.run # NoRun
                         /\ \A i \in Ids : intents[i].run # l.run
                         /\ \A k \in leases \ {l} : k.run # l.run
          IN  /\ leases' = leases \ {l}
              /\ todo' = [todo EXCEPT ![a] =
                    (IF empties THEN <<CallAbout("abort", l.run)>> ELSE <<>>)
                    \o (IF l.run = NoRun THEN <<>>
                        ELSE <<RunSummary(intents, leases', l.run)>>)]
              /\ intents' = intents
    BY <1>5 DEF AbortEnqueue
  <2> DEFINE abort == CallAbout("abort", l.run)
             sum   == RunSummary(intents, leases', l.run)
             of    == {j \in DOMAIN intents : intents[j].run = l.run}
             True(c) == c.failed => HasFailed(intents', c.run)
  <2>2. True(abort)
    BY DEF CallAbout
  <2>3. True(sum)
    <3>1. /\ sum.failed = ("Failed" \in {intents[i].state : i \in of})
          /\ sum.run = l.run
      BY DEF RunSummary
    <3>2. CASE "Failed" \in {intents[i].state : i \in of}
      <4>1. PICK i \in of : intents[i].state = "Failed"
        BY <3>2
      <4> QED BY <2>1, <3>1, <4>1 DEF HasFailed, Ids
    <3>3. CASE "Failed" \notin {intents[i].state : i \in of}
      BY <3>1, <3>3
    <3> QED BY <3>2, <3>3
  <2>4. l.run \in RunIds \cup {NoRun}
    BY DEF TypeOK, EnqueueLease
  <2>5. abort \in Call /\ sum \in Call
    BY <2>4 DEF CallAbout, RunSummary, Call
  <2>6. \E x, y \in {<<>>, <<abort>>, <<sum>>} :
           todo' = [todo EXCEPT ![a] = x \o y]
    BY <2>1
  <2> HIDE DEF abort, sum, True
  <2>7. PICK x \in {<<>>, <<abort>>, <<sum>>}, y \in {<<>>, <<abort>>, <<sum>>} :
           todo' = [todo EXCEPT ![a] = x \o y]
    BY <2>6
  <2>8. /\ x \in Seq(Call) /\ \A k \in DOMAIN x : True(x[k])
        /\ y \in Seq(Call) /\ \A k \in DOMAIN y : True(y[k])
    <3>1. ASSUME NEW c \in Call, True(c)
          PROVE  <<c>> \in Seq(Call) /\ \A k \in DOMAIN <<c>> : True(<<c>>[k])
      <4>1. DOMAIN <<c>> = {1} /\ <<c>>[1] = c
        OBVIOUS
      <4> QED BY <3>1, <4>1
    <3>2. <<>> \in Seq(Call) /\ DOMAIN <<>> = {}
      OBVIOUS
    <3>3. \A z \in {<<>>, <<abort>>, <<sum>>} :
            z \in Seq(Call) /\ \A k \in DOMAIN z : True(z[k])
      <4>1. <<abort>> \in Seq(Call) /\ \A k \in DOMAIN <<abort>> : True(<<abort>>[k])
        BY <2>2, <2>5, <3>1
      <4>2. <<sum>> \in Seq(Call) /\ \A k \in DOMAIN <<sum>> : True(<<sum>>[k])
        BY <2>3, <2>5, <3>1
      <4> QED BY <3>2, <4>1, <4>2, Zenon
    <3> QED BY <3>3
  <2>9. \A k \in DOMAIN (x \o y) : True((x \o y)[k])
    <3>1. \A k \in DOMAIN (x \o y) :
            \/ k \in DOMAIN x /\ (x \o y)[k] = x[k]
            \/ k - Len(x) \in DOMAIN y /\ (x \o y)[k] = y[k - Len(x)]
      BY <2>8, LenProperties, ConcatProperties
    <3> QED BY <2>8, <3>1
  <2> QED BY <1>3, <2>7, <2>9 DEF True
<1>6. ASSUME NEW a \in Actors, BeginCancel(a)
      PROVE  FailedSummariesTrue'
  <2> DEFINE w == <<CallAbout("cancel", run.id)>>
  <2>2. todo' = [todo EXCEPT ![a] = w]
    BY <1>6 DEF BeginCancel
  <2>3. \A k \in DOMAIN w : w[k].failed => HasFailed(intents', w[k].run)
    BY DEF CallAbout
  <2> HIDE DEF w
  <2> QED BY <1>3, <2>2, <2>3
<1>7. ASSUME NEW a \in Actors, PublishNext(a)
      PROVE  FailedSummariesTrue'
  <2> DEFINE w == Tail(todo[a])
             n == Len(todo[a])
  <2>1. todo[a] # <<>> /\ todo' = [todo EXCEPT ![a] = w] /\ intents' = intents
    BY <1>7 DEF PublishNext
  <2>2. todo[a] \in Seq(Call)
    BY DEF TypeOK
  <2>3. \A k \in DOMAIN w : k + 1 \in DOMAIN todo[a] /\ w[k] = todo[a][k + 1]
    BY <2>1, <2>2, HeadTailProperties, LenProperties
  <2> HIDE DEF w
  <2>4. \A k \in DOMAIN w : w[k].failed => HasFailed(intents', w[k].run)
    BY <1>1, <2>3 DEF FailedSummariesTrue
  <2> QED BY <1>3, <2>1, <2>4
<1>8. ASSUME NEW a \in Actors, AnyEnqueueing(a)
      PROVE  FailedSummariesTrue'
  BY <1>2, <1>4, <1>5, <1>8 DEF AnyEnqueueing, AcquireEnqueue, CommitEnqueue
<1>9. ASSUME NEW a \in Actors, AnyExecuting(a)
      PROVE  FailedSummariesTrue'
  BY <1>2, <1>4, <1>9
  DEF AnyExecuting, ReconcileMailbox, ClaimBatch, CompleteSignals, MarkStarted,
      RetryStart, TerminalizeBatch
<1>10. ASSUME NEW a \in Actors, AnyControlling(a)
       PROVE  FailedSummariesTrue'
  BY <1>2, <1>4, <1>6, <1>10
  DEF AnyControlling, CancelRun, PauseSlot, SetRuntimeConstraint, RemoveSlot, Stop
<1>11. CASE UNCHANGED vars
  BY <1>4, <1>11 DEF vars
<1> QED BY <1>7, <1>8, <1>9, <1>10, <1>11 DEF AnyNext

(* A run becomes failed only through a summary that says so.               *)
LEMMA FailedRunStep ==
  ASSUME TypeOK, TypeOK', LifeKept, FailedSummariesTrue, FailedRunHasFailedIntent,
         [AnyNext]_vars
  PROVE  FailedRunHasFailedIntent'
<1> SUFFICES ASSUME run'.status = "Failed"
             PROVE  HasFailed(intents', run'.id)
  BY DEF FailedRunHasFailedIntent, HasFailed, Ids
<1>1. \A r : HasFailed(intents, r) => HasFailed(intents', r)
  BY FailureIsFinal
<1>2. CASE run'.id = run.id /\ run.status = "Failed"
  <2>1. HasFailed(intents, run.id)
    BY <1>2 DEF FailedRunHasFailedIntent, HasFailed, Ids
  <2> QED BY <1>1, <1>2, <2>1
<1>3. ASSUME NEW a \in Actors, todo[a] # <<>>,
             run' = ApplyWorkSummary(run, Head(todo[a])), run' # run
      PROVE  HasFailed(intents', run'.id)
  <2> DEFINE c == Head(todo[a])
  <2>1. todo[a] \in Seq(Call)
    BY DEF TypeOK
  <2>2. 1 \in DOMAIN todo[a] /\ c = todo[a][1] /\ c \in Call
    BY <1>3, <2>1, HeadTailProperties, LenProperties
  <2>3. run'.id = run.id /\ run.id = c.run /\ run'.status = StatusAfter(run, c)
    BY <1>3 DEF ApplyWorkSummary
  <2>4. c.failed \/ run.status = "Failed"
    <3>1. c.failed \in BOOLEAN /\ c.work \in BOOLEAN /\ c.running \in BOOLEAN
      BY <2>2 DEF Call
    <3> HIDE DEF c
    <3> QED BY <2>3, <3>1 DEF StatusAfter
  <2>5. CASE c.failed
    <3>1. HasFailed(intents, run.id)
      BY <2>2, <2>3, <2>5 DEF FailedSummariesTrue
    <3> QED BY <1>1, <2>3, <3>1
  <2> QED BY <1>2, <2>3, <2>4, <2>5
<1>4. CASE run' = run
  BY <1>2, <1>4
<1>5. ASSUME NEW a \in Actors, PublishNext(a)
      PROVE  HasFailed(intents', run'.id)
  <2>1. CASE run' = AbortBinding(run, Head(todo[a]).run)
    <3>1. NoRunRecord.status # "Failed"
      BY DEF NoRunRecord
    <3> QED BY <1>4, <2>1, <3>1 DEF AbortBinding
  <2> QED BY <1>3, <1>4, <1>5, <2>1 DEF PublishNext
<1>6. ASSUME NEW a \in Actors, AnyEnqueueing(a)
      PROVE  HasFailed(intents', run'.id)
  <2>1. ASSUME NEW s \in Slots, NEW caller \in Slots, NEW rq \in EnqueueRequest,
               AcquireEnqueue(a, s, rq[1], rq[2], caller)
        PROVE  HasFailed(intents', run'.id)
    BY <1>4, <2>1 DEF AcquireEnqueue, BindUserEnqueue
  <2> QED BY <1>4, <1>6, <2>1 DEF AnyEnqueueing, CommitEnqueue, AbortEnqueue
<1>7. ASSUME NEW a \in Actors, AnyExecuting(a)
      PROVE  HasFailed(intents', run'.id)
  BY <1>4, <1>7
  DEF AnyExecuting, ReconcileMailbox, ClaimBatch, CompleteSignals, MarkStarted,
      RetryStart, TerminalizeBatch
<1>8. ASSUME NEW a \in Actors, AnyControlling(a)
      PROVE  HasFailed(intents', run'.id)
  <2>1. CASE BeginCancel(a)
    <3>1. run' = [run EXCEPT !.status = "Cancelling"] /\ run \in TeamRunRecord
      BY <2>1 DEF BeginCancel, BeginCancelOf, TypeOK
    <3> QED BY <3>1 DEF TeamRunRecord
  <2> QED BY <1>4, <1>8, <2>1
          DEF AnyControlling, CancelRun, PauseSlot, SetRuntimeConstraint,
              RemoveSlot, Stop
<1>9. CASE UNCHANGED vars
  BY <1>4, <1>9 DEF vars
<1> QED BY <1>5, <1>6, <1>7, <1>8, <1>9 DEF AnyNext

(* A run is reported failed only when one of its own intents failed, no    *)
(* matter how many tasks publish late summaries of the same run.           *)
THEOREM FailedRunCorrect == Spec => []FailedRunHasFailedIntent
<1>1. Init => FailedSummariesTrue /\ FailedRunHasFailedIntent
  BY DEF Init, FailedSummariesTrue, FailedRunHasFailedIntent, NoRunRecord
<1>2. Inv /\ Inv' /\ [Next]_vars /\ FailedSummariesTrue /\ FailedRunHasFailedIntent
        => (FailedSummariesTrue /\ FailedRunHasFailedIntent)'
  <2> SUFFICES ASSUME Inv, Inv', [Next]_vars, FailedSummariesTrue,
                      FailedRunHasFailedIntent
               PROVE  FailedSummariesTrue' /\ FailedRunHasFailedIntent'
    OBVIOUS
  <2>1. TypeOK /\ WorkOwnedOnce /\ TypeOK' /\ [AnyNext]_vars
    BY NextIsAny DEF Inv
  <2>2. LifeKept
    BY <2>1, LifeStep
  <2> QED BY <2>1, <2>2, SummariesStep, FailedRunStep
<1> QED BY <1>1, <1>2, InvCorrect, PTL DEF Spec
==============================================================================
