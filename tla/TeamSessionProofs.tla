-------------------------- MODULE TeamSessionProofs --------------------------
(* The coordinator's invariants inside a running session, crashes          *)
(* included; who executes a batch; the refinement of MessageDelivery; and  *)
(* that no wake-up is lost: for every team, set of clients, mailbox and    *)
(* bound.                                                                  *)
EXTENDS TeamSession, SlotWorkCoordinatorProofs

------------------------------------------------------------------------------
(* What the session's steps do to the coordinator.                         *)

(* A coordinator step that makes neither an intent nor a batch.            *)
Calm(a) ==
  \/ \E s, caller \in Slots, rq \in EnqueueRequest :
       AcquireEnqueue(a, s, rq[1], rq[2], caller)
  \/ AbortEnqueue(a)
  \/ \E s \in Slots : \E S \in SUBSET SignalIds : CompleteSignals(a, s, S)
  \/ \E op \in DOMAIN batches : MarkStarted(a, op)
  \/ \E op \in DOMAIN batches : RetryStart(a, op)
  \/ \E op \in DOMAIN batches, st \in TerminalState : TerminalizeBatch(a, op, st)
  \/ BeginCancel(a)
  \/ CancelRun(a)
  \/ \E s \in Slots : PauseSlot(a, s)
  \/ \E s \in Slots, c \in RuntimeConstraint : SetRuntimeConstraint(a, s, c)
  \/ PublishNext(a)

Acts(a) == Calm(a) \/ UNCHANGED vars

CalmStep == (\E a \in Actors : Calm(a)) \/ UNCHANGED vars

(* A calm step is a step of the coordinator.                               *)
LEMMA CalmIsAny == CalmStep => [AnyNext]_vars
<1>1. ASSUME NEW a \in Actors, Calm(a)
      PROVE  AnyNext
  BY <1>1, Zenon DEF Calm, AnyNext, AnyEnqueueing, AnyExecuting, AnyControlling
<1> QED BY <1>1 DEF CalmStep

(* Steps of the coordinator make batches only by claiming, and a slot's    *)
(* batch is otherwise kept or taken away.                                  *)
LEMMA CalmKeeps ==
  ASSUME TypeOK, CalmStep
  PROVE  /\ Ids' = Ids
         /\ batches' = batches
         /\ \A s \in Slots : active'[s] \in {0, active[s]}
<1> DEFINE Kept == /\ DOMAIN intents' = DOMAIN intents
                   /\ batches' = batches
                   /\ \A s \in Slots : active'[s] \in {0, active[s]}
<1> SUFFICES Kept
  BY DEF Ids
<1>1. \A S, st : DOMAIN Moved(intents, S, st) = DOMAIN intents
  BY DEF Moved
<1>2. \A S, st, D, dt :
        DOMAIN Moved(Moved(intents, S, st), D, dt) = DOMAIN intents
  BY DEF Moved
<1>3. active \in [Slots -> Nat]
  BY DEF TypeOK
<1>4. CASE UNCHANGED vars
  BY <1>4 DEF vars
<1>5. ASSUME NEW a \in Actors, Calm(a)
      PROVE  Kept
  <2>1. ASSUME NEW s \in Slots, NEW caller \in Slots, NEW rq \in EnqueueRequest,
               AcquireEnqueue(a, s, rq[1], rq[2], caller)
        PROVE  Kept
    BY <2>1 DEF AcquireEnqueue, slotVars
  <2>2. CASE AbortEnqueue(a)
    BY <2>2 DEF AbortEnqueue, slotVars
  <2>3. ASSUME NEW s \in Slots, NEW S \in SUBSET SignalIds, CompleteSignals(a, s, S)
        PROVE  Kept
    BY <1>1, <2>3 DEF CompleteSignals, slotVars
  <2>4. ASSUME NEW op \in DOMAIN batches, MarkStarted(a, op)
        PROVE  Kept
    BY <1>1, <2>4 DEF MarkStarted, slotVars
  <2>5. ASSUME NEW op \in DOMAIN batches, RetryStart(a, op)
        PROVE  Kept
    BY <1>1, <1>3, <2>5 DEF RetryStart
  <2>6. ASSUME NEW op \in DOMAIN batches, NEW st \in TerminalState,
               TerminalizeBatch(a, op, st)
        PROVE  Kept
    BY <1>1, <1>3, <2>6 DEF TerminalizeBatch
  <2>7. CASE BeginCancel(a) \/ PublishNext(a)
    BY <2>7 DEF BeginCancel, PublishNext, slotVars
  <2>8. CASE CancelRun(a)
    <3>1. PICK hit : active' = [s \in Slots |-> IF s \in hit THEN 0 ELSE active[s]]
      BY <2>8 DEF CancelRun
    <3>2. DOMAIN intents' = DOMAIN intents /\ batches' = batches
      BY <1>2, <2>8, Zenon DEF CancelRun
    <3> QED BY <3>1, <3>2
  <2>9. ASSUME NEW s \in Slots, PauseSlot(a, s)
        PROVE  Kept
    BY <2>9 DEF PauseSlot
  <2>10. ASSUME NEW s \in Slots, NEW c \in RuntimeConstraint,
                SetRuntimeConstraint(a, s, c)
         PROVE  Kept
    <3>1. /\ active' = IF c \in {"Failed", "SessionStopped"}
                       THEN [active EXCEPT ![s] = 0] ELSE active
          /\ batches' = batches
      BY <2>10 DEF SetRuntimeConstraint
    <3>2. DOMAIN intents' = DOMAIN intents
      BY <1>2, <2>10, Zenon DEF SetRuntimeConstraint
    <3> QED BY <1>3, <3>1, <3>2
  <2> HIDE DEF Kept
  <2> QED BY <1>5, <2>1, <2>2, <2>3, <2>4, <2>5, <2>6, <2>7, <2>8, <2>9, <2>10,
             Zenon DEF Calm
<1> QED BY <1>4, <1>5 DEF CalmStep

------------------------------------------------------------------------------
(* The invariant.                                                          *)

Early == {"waiting", "drain", "publish", "peek", "reconcile", "next"}
Held  == {"prepare", "late", "running", "unstarted", "complete", "fail"}

TaskStages == {"idle", "publish", "acquire", "write", "commit", "notify", "scan",
               "next", "cancelling", "cancel_batch", "reserved", "attach", "Ready",
               "Failed"}

Loop == [at : Early \cup Held, seen : RuntimeConstraint, view : MailboxViews,
         op : Nat]

Task == [at : TaskStages, slot : Slots, seen : RuntimeConstraint,
         request : EnqueueRequest, msg : Messages \cup {NoMsg}, op : Nat,
         list : Seq(Messages), scan : SUBSET Slots]

UpsetRecord == [count : Nat, wedged : BOOLEAN, missed : BOOLEAN]

(* The types of the session's own variables.                               *)
SessionTypeOK ==
  /\ unread \in [Slots -> MailboxViews]
  /\ written \in SUBSET Messages
  /\ runtime \in [Slots -> RuntimeConstraint]
  /\ permit \in [Slots -> BOOLEAN]
  /\ loop \in [Slots -> Loop]
  /\ task \in [Workers -> Task]
  /\ settle \in [Actors -> SUBSET Messages]
  /\ turn \in [Slots -> SUBSET Messages]
  /\ ended \in SUBSET Messages
  /\ upsets \in UpsetRecord

(* From the claim to the end of a turn a loop holds the id of a batch of   *)
(* its slot, before it none; a canceller holds the id of some batch, and   *)
(* the scan a row when it goes on to the next.                             *)
LoopHolds(s) ==
  /\ loop[s].at \in Early => loop[s].op = 0
  /\ loop[s].at \in Held => /\ loop[s].op \in DOMAIN batches
                            /\ batches[loop[s].op].slot = s

CancellerHolds ==
  \A c \in Workers : task[c].at = "cancel_batch" => task[c].op \in DOMAIN batches

(* Everything anybody knows of a row was written, and what is about to be  *)
(* marked read without a turn has ended.                                   *)
RowsWritten ==
  /\ ended \subseteq written
  /\ \A a \in Actors : settle[a] \subseteq ended
  /\ \A s \in Slots : /\ Range(unread[s]) \subseteq written
                      /\ Range(loop[s].view) \subseteq written
  /\ \A i \in Ids : intents[i].msg \in written \cup {NoMsg}
  /\ \A c \in Workers : /\ task[c].msg \in written \cup {NoMsg}
                        /\ Range(task[c].list) \subseteq written

(* What a loop peeked stays unread unless its work ended, what it claimed  *)
(* it peeked or it ended, and its turn is about what it claimed and peeked. *)
TurnHolds(s) ==
  /\ loop[s].at \in {"reconcile", "next", "prepare"} =>
       Range(loop[s].view) \subseteq Range(unread[s]) \cup ended
  /\ loop[s].at \in {"prepare", "late", "running", "unstarted"} =>
       BatchRows(loop[s].op) \subseteq Range(loop[s].view) \cup ended
  /\ loop[s].at = "unstarted" => BatchRows(loop[s].op) \subseteq ended
  /\ turn[s] = IF loop[s].at \in {"late", "running"}
               THEN BatchRows(loop[s].op) \cap Range(loop[s].view)
               ELSE {}

ScanHolds == \A c \in Workers : task[c].at = "next" => task[c].list # <<>>

HeldInv == (\A s \in Slots : LoopHolds(s)) /\ CancellerHolds /\ ScanHolds

TurnInv == \A s \in Slots : TurnHolds(s)

SessionInv == Inv /\ SessionTypeOK /\ HeldInv /\ RowsWritten /\ TurnInv

(* The tasks are the coordinator's callers.                                *)
LEMMA TasksAct == Slots \subseteq Actors /\ Workers \subseteq Actors
BY SessionAssumption DEF Workers

(* The fields of a task and of a loop.                                     *)
LEMMA TaskFields ==
  ASSUME SessionTypeOK, NEW c \in Workers
  PROVE  /\ task[c] \in Task
         /\ task[c].at \in TaskStages /\ task[c].slot \in Slots
         /\ task[c].seen \in RuntimeConstraint /\ task[c].request \in EnqueueRequest
         /\ task[c].msg \in Messages \cup {NoMsg} /\ task[c].op \in Nat
         /\ task[c].list \in Seq(Messages) /\ task[c].scan \in SUBSET Slots
BY DEF SessionTypeOK, Task

LEMMA LoopFields ==
  ASSUME SessionTypeOK, NEW s \in Slots
  PROVE  /\ loop[s] \in Loop
         /\ loop[s].at \in Early \cup Held /\ loop[s].seen \in RuntimeConstraint
         /\ loop[s].view \in MailboxViews /\ loop[s].op \in Nat
BY DEF SessionTypeOK, Loop

(* Every step of a sender, of the scan or of a canceller that commits      *)
(* nothing is calm.                                                        *)
LEMMA WorkerActs ==
  ASSUME SessionInv, NEW c \in Workers,
         \/ Enqueues(c) /\ ~Commit(c)
         \/ Controls(c)
         \/ c = Recovery /\ (ScanSlot \/ ScanNext)
  PROVE  Acts(c)
<1>0. c \in Actors /\ SessionTypeOK
  BY TasksAct DEF SessionInv
<1>1. CASE PublishSnapshot(c)
  <2>1. task[c].slot \in Slots /\ task[c].seen \in RuntimeConstraint
    BY <1>0, TaskFields
  <2> QED BY <1>0, <1>1, <2>1, Zenon
          DEF PublishSnapshot, PublishRuntimeConstraint, Acts, Calm
<1>2. ASSUME NEW s \in Slots, NEW rq \in Requests,
             StartEnqueue(c, s, rq) \/ StartSignal(c, s, rq)
      PROVE  Acts(c)
  BY <1>2, Zenon DEF StartEnqueue, StartSignal, Requested, Acts
<1>3. CASE Acquire(c)
  BY <1>0, <1>3, TaskFields, Zenon DEF Acquire, Acts, Calm
<1>4. CASE \/ WriteRow(c) \/ Notified(c) \/ ReadFails(c)
           \/ ScanSlot \/ ScanNext \/ AttachCommits(c)
  BY <1>4, Zenon
  DEF WriteRow, Notified, ReadFails, ScanSlot, ScanNext, AttachCommits, Acts
<1>5. CASE WriteFails(c) \/ CommitRefused(c)
  BY <1>0, <1>5, Zenon DEF WriteFails, CommitRefused, Acts, Calm
<1>6. CASE StartCancelRun(c) \/ CancelRunWork(c)
  BY <1>0, <1>6, Zenon DEF StartCancelRun, CancelRunWork, Acts, Calm
<1>7. ASSUME NEW s \in Slots, StartPause(c, s) \/ StartCancelChild(c, s)
      PROVE  Acts(c)
  BY <1>0, <1>7, Zenon DEF StartPause, StartCancelChild, Acts, Calm
<1>8. CASE CancelBatch(c)
  <2>1. task[c].op \in DOMAIN batches
    BY <1>8 DEF CancelBatch, SessionInv, HeldInv, CancellerHolds
  <2>2. "Cancelled" \in TerminalState
    BY DEF TerminalState
  <2> QED BY <1>0, <1>8, <2>1, <2>2, Zenon DEF CancelBatch, Acts, Calm
<1>9. ASSUME NEW s \in Slots, StartAttach(c, s) \/ AttachBegins(c)
      PROVE  Acts(c)
  <2>1. "Starting" \in RuntimeConstraint /\ task[c].slot \in Slots
    BY <1>0, TaskFields DEF RuntimeConstraint
  <2> QED BY <1>0, <1>9, <2>1, Zenon DEF StartAttach, AttachBegins, Acts, Calm
<1>10. CASE AttachPublishes(c)
  <2>1. task[c].at \in RuntimeConstraint /\ task[c].slot \in Slots
    BY <1>0, <1>10, TaskFields DEF AttachPublishes, RuntimeConstraint
  <2> QED BY <1>0, <1>10, <2>1, Zenon DEF AttachPublishes, Acts, Calm
<1>11. CASE AttachBegins(c)
  BY <1>9, <1>11, SessionAssumption
<1> QED BY <1>1, <1>2, <1>3, <1>4, <1>5, <1>6, <1>7, <1>8, <1>9, <1>10, <1>11, Zenon
        DEF Enqueues, Controls

LEMMA WorkerCalm ==
  ASSUME SessionInv, NEW c \in Workers,
         \/ Enqueues(c) /\ ~Commit(c)
         \/ Controls(c)
         \/ c = Recovery /\ (ScanSlot \/ ScanNext)
  PROVE  CalmStep
BY WorkerActs, TasksAct, Zenon DEF Acts, CalmStep

(* Every step of a loop that neither claims nor reconciles is calm.        *)
LEMMA LoopActs ==
  ASSUME SessionInv, NEW s \in Slots, Drains(s), ~Reconcile(s),
         ~(LoopNext(s) /\ ClaimBatch(s, s))
  PROVE  Acts(s)
<1>0. s \in Actors /\ SessionTypeOK
  BY TasksAct DEF SessionInv
<1>1. loop[s].at \in Held => loop[s].op \in DOMAIN batches
  BY DEF SessionInv, HeldInv, LoopHolds
<1>2. CASE \/ Wake(s) \/ PrepareSnapshot(s) \/ PeekUnread(s) \/ PeekFails(s)
           \/ TurnStartFails(s) \/ MarkBatchRead(s)
  BY <1>2, Zenon
  DEF Wake, PrepareSnapshot, PeekUnread, PeekFails, TurnStartFails, MarkBatchRead, Acts
<1>3. CASE PrepareConstraint(s)
  <2>1. loop[s].seen \in RuntimeConstraint
    BY <1>0, LoopFields
  <2> QED BY <1>0, <1>3, <2>1, Zenon
          DEF PrepareConstraint, PublishRuntimeConstraint, Acts, Calm
<1>4. CASE LoopNext(s)
  <2>1. ServedSignals(s) \in SUBSET SignalIds
    BY DEF ServedSignals
  <2> QED BY <1>0, <1>4, <2>1, Zenon DEF LoopNext, Acts, Calm
<1>5. CASE PrepareFails(s)
  <2>1. loop[s].op \in DOMAIN batches
    BY <1>1, <1>5 DEF PrepareFails, Held
  <2> QED BY <1>0, <1>5, <2>1, Zenon DEF PrepareFails, Acts, Calm
<1>6. CASE TurnStarts(s)
  <2>1. loop[s].op \in DOMAIN batches
    BY <1>1, <1>6 DEF TurnStarts, Held
  <2> QED BY <1>0, <1>6, <2>1, Zenon DEF TurnStarts, Acts, Calm
<1>7. CASE CancelLateStart(s)
  <2>1. loop[s].op \in DOMAIN batches /\ "Cancelled" \in TerminalState
    BY <1>1, <1>7 DEF CancelLateStart, Held, TerminalState
  <2> QED BY <1>0, <1>7, <2>1, Zenon DEF CancelLateStart, Acts, Calm
<1>8. CASE FinishBatch(s)
  <2>1. /\ loop[s].op \in DOMAIN batches
        /\ (IF loop[s].at = "complete" THEN "Completed" ELSE "Failed")
             \in TerminalState
    BY <1>1, <1>8 DEF FinishBatch, Held, TerminalState
  <2> QED BY <1>0, <1>8, <2>1, Zenon DEF FinishBatch, Acts, Calm
<1> QED BY <1>2, <1>3, <1>4, <1>5, <1>6, <1>7, <1>8 DEF Drains

LEMMA LoopCalm ==
  ASSUME SessionInv, NEW s \in Slots, Drains(s), ~Reconcile(s),
         ~(LoopNext(s) /\ ClaimBatch(s, s))
  PROVE  CalmStep
BY LoopActs, TasksAct, Zenon DEF Acts, CalmStep

(* Every step of the session but a crash is a step of the coordinator.     *)
LEMMA SessionIsAny ==
  ASSUME SessionInv, SessionNext, ~CrashRestart
  PROVE  [AnyNext]_vars
<1>0. SessionTypeOK
  BY DEF SessionInv
<1>1. ASSUME NEW c \in Workers, Commit(c)
      PROVE  AnyNext
  <2>1. c \in Actors /\ task[c].msg \in Messages \cup {NoMsg}
    BY <1>0, TasksAct, TaskFields
  <2> QED BY <1>1, <2>1, Zenon DEF Commit, AnyNext, AnyEnqueueing
<1>2. ASSUME NEW s \in Slots, Reconcile(s)
      PROVE  AnyNext
  <2>1. s \in Actors /\ loop[s].view \in MailboxViews
    BY <1>0, TasksAct, LoopFields
  <2> QED BY <1>2, <2>1, Zenon DEF Reconcile, AnyNext, AnyExecuting
<1>3. ASSUME NEW s \in Slots, ClaimBatch(s, s)
      PROVE  AnyNext
  BY <1>3, TasksAct, Zenon DEF AnyNext, AnyExecuting
<1>4. ASSUME NEW a \in Actors, MarkRead(a) \/ Reports(a)
      PROVE  CalmStep
  BY <1>4, Zenon DEF MarkRead, Reports, CalmStep, Calm
<1>5. Clients \subseteq Workers /\ Recovery \in Workers
  BY DEF Workers
<1>6. CalmStep => [AnyNext]_vars
  BY CalmIsAny
<1>7. ASSUME NEW c \in Workers, Enqueues(c)
      PROVE  [AnyNext]_vars
  BY <1>1, <1>6, <1>7, WorkerCalm
<1>8. ASSUME NEW c \in Clients, Controls(c)
      PROVE  [AnyNext]_vars
  BY <1>5, <1>6, <1>8, WorkerCalm
<1>9. ASSUME ScanSlot \/ ScanNext
      PROVE  [AnyNext]_vars
  BY <1>5, <1>6, <1>9, WorkerCalm
<1>10. ASSUME NEW s \in Slots, Drains(s)
       PROVE  [AnyNext]_vars
  BY <1>2, <1>3, <1>6, <1>10, LoopCalm
<1> QED BY <1>4, <1>6, <1>7, <1>8, <1>9, <1>10 DEF SessionNext

(* A crash leaves the coordinator as it starts.                            *)
LEMMA CrashInv ==
  ASSUME CrashRestart
  PROVE  Inv'
<1>1. /\ intents' = <<>> /\ queue' = AtStart(EmptyQueues)
      /\ active' = AtStart(0) /\ batches' = <<>>
      /\ paused' = AtStart(FALSE) /\ removed' = AtStart(FALSE)
      /\ constraint' = AtStart("Ready")
      /\ leases' = {} /\ run' = NoRunRecord /\ runs' = 0
      /\ todo' = [a \in Actors |-> <<>>]
  BY DEF CrashRestart
<1>2. TypeOK'
  BY <1>1, MaxRunsAssumption
  DEF TypeOK, AtStart, EmptyQueues, RuntimeConstraint, TeamRunRecord,
      NoRunRecord, RunStatus, RunIds, NoRun
<1>3. WorkOwnedOnce'
  <2>1. Ids' = {} /\ DOMAIN batches' = {}
    BY <1>1 DEF Ids
  <2>2. \A s \in Slots, p \in Priorities : queue'[s][p] = <<>> /\ active'[s] = 0
    BY <1>1 DEF AtStart, EmptyQueues
  <2>3. Range(<<>>) = {} /\ IsInjective(<<>>)
    BY DEF Range, IsInjective
  <2>4. QueueHoldsWaiting' /\ QueuesDistinct'
    BY <2>2, <2>3 DEF QueueHoldsWaiting, QueuesDistinct
  <2>5. WaitingIsQueued' /\ BatchesWellFormed' /\ ExecutingIsInBatch'
    BY <2>1 DEF WaitingIsQueued, BatchesWellFormed, ExecutingIsInBatch
  <2>6. \A s \in Slots : active'[s] = 0
    BY <1>1 DEF AtStart
  <2>7. BatchHoldsExecuting'
    BY <2>6 DEF BatchHoldsExecuting
  <2> QED BY <2>4, <2>5, <2>7 DEF WorkOwnedOnce
<1> QED BY <1>2, <1>3 DEF Inv

------------------------------------------------------------------------------
(* The session's own types.                                                *)

LEMMA IdleTypes ==
  /\ IdleTask \in Task /\ IdleLoop \in Loop
  /\ IdleTask.at = "idle" /\ IdleTask.msg = NoMsg /\ IdleTask.list = <<>>
  /\ IdleTask.scan = {}
  /\ IdleLoop.at = "waiting" /\ IdleLoop.op = 0 /\ IdleLoop.view = <<>>
<1>1. (CHOOSE s \in Slots : TRUE) \in Slots
  BY SessionAssumption
<1>2. <<"RecoveryDrain", "Background">> \in EnqueueRequest
  BY DEF EnqueueRequest
<1> DEFINE z == CHOOSE s \in Slots : TRUE
<1> HIDE DEF z
<1>3. IdleTask = [at |-> "idle", slot |-> z, seen |-> "Ready", msg |-> NoMsg,
                  request |-> <<"RecoveryDrain", "Background">>,
                  op |-> 0, list |-> <<>>, scan |-> {}]
  BY DEF IdleTask, z
<1>4. z \in Slots
  BY <1>1 DEF z
<1> DEFINE q == <<"RecoveryDrain", "Background">>
<1> HIDE DEF q
<1>5. IdleTask \in Task
  <2>1. IdleTask = [at |-> "idle", slot |-> z, seen |-> "Ready", msg |-> NoMsg,
                    request |-> q, op |-> 0, list |-> <<>>, scan |-> {}]
    BY <1>3 DEF q
  <2>2. q \in EnqueueRequest
    BY <1>2 DEF q
  <2>3. "idle" \in TaskStages /\ "Ready" \in RuntimeConstraint /\ <<>> \in Seq(Messages) /\ 0 \in Nat
        /\ {} \in SUBSET Slots
    BY DEF TaskStages, RuntimeConstraint
  <2> QED BY <1>4, <2>1, <2>2, <2>3 DEF Task
<1>6. IdleLoop \in Loop
  <2>1. <<>> \in MailboxViews
    BY DEF MailboxViews, IsInjective
  <2> QED BY <2>1 DEF IdleLoop, Loop, Early, RuntimeConstraint
<1>7. IdleTask.at = "idle" /\ IdleTask.msg = NoMsg /\ IdleTask.list = <<>>
      /\ IdleTask.scan = {}
  BY <1>3
<1>8. IdleLoop.at = "waiting" /\ IdleLoop.op = 0 /\ IdleLoop.view = <<>>
  BY DEF IdleLoop
<1> QED BY <1>5, <1>6, <1>7, <1>8

(* A task that goes to another stage, or starts an operation.              *)
LEMMA TaskMoves ==
  ASSUME NEW t \in Task, NEW at \in TaskStages
  PROVE  /\ [t EXCEPT !.at = at] \in Task
         /\ \A m \in Messages \cup {NoMsg} :
              [t EXCEPT !.at = at, !.msg = m] \in Task
         /\ \A s \in Slots, x \in RuntimeConstraint :
              [t EXCEPT !.at = at, !.slot = s, !.seen = x] \in Task
         /\ \A rq \in EnqueueRequest : [t EXCEPT !.request = rq] \in Task
         /\ \A x \in RuntimeConstraint : [t EXCEPT !.at = at, !.seen = x] \in Task
         /\ \A s \in Slots, op \in Nat :
              [t EXCEPT !.at = at, !.slot = s, !.op = op] \in Task
         /\ \A s \in Slots : [t EXCEPT !.at = at, !.slot = s] \in Task
         /\ \A m \in Messages, l \in Seq(Messages) :
              [t EXCEPT !.msg = m, !.list = l] \in Task
         /\ \A S \in SUBSET Slots : [t EXCEPT !.at = at, !.scan = S] \in Task
BY DEF Task

(* The scan's next stage.                                                  *)
LEMMA AfterRowType ==
  ASSUME NEW t \in Task
  PROVE  /\ AfterRow(t) \in Task
         /\ AfterRow(t).at \in {"next", "scan", "idle"}
         /\ AfterRow(t).msg \in {t.msg, NoMsg}
         /\ AfterRow(t).list \in {t.list, <<>>}
<1>1. \A at \in {"next", "scan"} :
        /\ [t EXCEPT !.at = at] \in Task /\ [t EXCEPT !.at = at].at = at
        /\ [t EXCEPT !.at = at].msg = t.msg /\ [t EXCEPT !.at = at].list = t.list
  BY DEF Task, TaskStages
<1> QED BY <1>1, IdleTypes, Zenon DEF AfterRow

(* What is marked read stays a list of distinct messages.                  *)
LEMMA ViewWithout ==
  ASSUME NEW q \in MailboxViews, NEW S
  PROVE  /\ Without(q, S) \in MailboxViews
         /\ Range(Without(q, S)) = Range(q) \ S
BY WithoutProperties DEF MailboxViews

LEMMA ViewAppend ==
  ASSUME NEW q \in MailboxViews, NEW m \in Messages, m \notin Range(q)
  PROVE  /\ Append(q, m) \in MailboxViews
         /\ Range(Append(q, m)) = Range(q) \cup {m}
BY AppendProps DEF MailboxViews

(* The rows of ended intents and of batches are messages.                  *)
LEMMA RowTypes ==
  ASSUME Inv
  PROVE  /\ EndedRows \in SUBSET Messages
         /\ \A op \in DOMAIN batches : BatchRows(op) \in SUBSET Messages
<1>1. \A i \in Ids : intents[i].msg \in Messages \cup {NoMsg}
  BY LogTypes DEF Inv, WorkIntent
<1>2. EndedRows \in SUBSET Messages
  BY <1>1 DEF EndedRows
<1>3. \A op \in DOMAIN batches : BatchRows(op) \in SUBSET Messages
  <2> TAKE op \in DOMAIN batches
  <2>1. BatchIds(op) \in SUBSET Ids
    BY BatchIdsKnown DEF Inv
  <2> QED BY <1>1, <2>1 DEF BatchRows
<1> QED BY <1>2, <1>3

(* An upset is counted, and nothing that went wrong is forgotten.          *)
LEMMA UpsetType ==
  ASSUME SessionTypeOK, NEW w \in Nat, NEW b \in BOOLEAN, Upset(w, b)
  PROVE  /\ upsets' \in UpsetRecord
         /\ upsets'.wedged = upsets.wedged
         /\ upsets.missed => upsets'.missed
         /\ b => upsets'.missed
<1> DEFINE n == upsets.count + w
           x == upsets.missed \/ b
<1>1. upsets \in UpsetRecord /\ upsets.count \in Nat /\ upsets.missed \in BOOLEAN
  BY DEF SessionTypeOK, UpsetRecord
<1>2. upsets' = [upsets EXCEPT !.count = n, !.missed = x]
  BY DEF Upset
<1>3. n \in Nat /\ x \in BOOLEAN
  BY <1>1
<1>4. (upsets.missed => x) /\ (b => x)
  OBVIOUS
<1> HIDE DEF n, x
<1>5. upsets' \in UpsetRecord /\ upsets'.missed = x /\ upsets'.wedged = upsets.wedged
  BY <1>1, <1>2, <1>3 DEF UpsetRecord
<1> QED BY <1>4, <1>5

LEMMA WedgesType ==
  ASSUME SessionTypeOK, Wedges
  PROVE  /\ upsets' \in UpsetRecord
         /\ upsets'.wedged
         /\ upsets'.missed = upsets.missed
<1> DEFINE n == upsets.count + 1
<1>1. upsets \in UpsetRecord /\ upsets.count \in Nat
  BY DEF SessionTypeOK, UpsetRecord
<1>2. upsets' = [upsets EXCEPT !.count = n, !.wedged = TRUE]
  BY DEF Wedges
<1>3. n \in Nat
  BY <1>1
<1> HIDE DEF n
<1> QED BY <1>1, <1>2, <1>3 DEF UpsetRecord

LEMMA LeavesType ==
  ASSUME SessionTypeOK, NEW b \in BOOLEAN, Leaves(b)
  PROVE  /\ upsets' \in UpsetRecord
         /\ upsets'.wedged = upsets.wedged
         /\ upsets.missed => upsets'.missed
         /\ b => upsets'.missed
<1> DEFINE x == upsets.missed \/ b
<1>1. upsets \in UpsetRecord /\ upsets.missed \in BOOLEAN
  BY DEF SessionTypeOK, UpsetRecord
<1>2. upsets' = [upsets EXCEPT !.missed = x]
  BY DEF Leaves
<1>3. x \in BOOLEAN /\ (upsets.missed => x) /\ (b => x)
  BY <1>1
<1> HIDE DEF x
<1>4. upsets' \in UpsetRecord /\ upsets'.wedged = upsets.wedged /\ upsets'.missed = x
  BY <1>1, <1>2, <1>3 DEF UpsetRecord
<1> QED BY <1>3, <1>4

(* A failed write counts as an upset, and may leave rows behind.           *)
LEMMA WriteFailsType ==
  ASSUME SessionTypeOK, NEW c \in Workers, WriteFails(c)
  PROVE  /\ upsets' \in UpsetRecord
         /\ upsets'.wedged = upsets.wedged
         /\ upsets.missed => upsets'.missed
         /\ Stale(c) => upsets'.missed
<1> DEFINE b == Stale(c)
           n == upsets.count + 1
           x == upsets.missed \/ b
<1>1. /\ upsets \in UpsetRecord /\ upsets.count \in Nat /\ upsets.missed \in BOOLEAN
      /\ upsets.wedged \in BOOLEAN
  BY DEF SessionTypeOK, UpsetRecord
<1>2. upsets' = [upsets EXCEPT !.count = n, !.missed = x]
  BY DEF WriteFails
<1>3. b \in BOOLEAN
  BY DEF Stale
<1>4. n \in Nat /\ x \in BOOLEAN /\ (upsets.missed => x) /\ (b => x)
  <2> HIDE DEF b
  <2> QED BY <1>1, <1>3
<1> HIDE DEF n, x
<1>5. /\ upsets' \in UpsetRecord /\ upsets'.missed = x /\ upsets'.wedged = upsets.wedged
  BY <1>1, <1>2, <1>4 DEF UpsetRecord
<1> QED BY <1>4, <1>5

(* The tasks keep their types.                                             *)
LEMMA WorkerTypes ==
  ASSUME SessionInv, NEW c \in Workers,
         Enqueues(c) \/ Controls(c) \/ (c = Recovery /\ (ScanSlot \/ ScanNext))
  PROVE  SessionTypeOK'
<1>0. SessionTypeOK /\ RowsWritten /\ Inv /\ c \in Actors
  BY TasksAct DEF SessionInv
<1> DEFINE TaskOK == task' \in [Workers -> Task]
           SettleOK == settle' \in [Actors -> SUBSET Messages]
           UpsetOK == upsets' \in UpsetRecord
<1>1. ASSUME NEW t \in Task, task' = [task EXCEPT ![c] = t]
      PROVE  TaskOK
  BY <1>0, <1>1 DEF SessionTypeOK
<1>2. ASSUME NEW S \in SUBSET Messages, settle' = [settle EXCEPT ![c] = S]
      PROVE  SettleOK
  BY <1>0, <1>2 DEF SessionTypeOK
<1>3. ASSUME NEW w \in {1, 2}, NEW b \in BOOLEAN, Upset(w, b)
      PROVE  UpsetOK
  BY <1>0, <1>3, UpsetType
<1>4. /\ task[c] \in Task /\ task[c].slot \in Slots /\ IdleTask \in Task
      /\ EndedRows \in SUBSET Messages
      /\ task[c].msg \in Messages \cup {NoMsg}
  BY <1>0, TaskFields, IdleTypes, RowTypes
<1>5. ASSUME NEW at \in TaskStages, Goto(c, at)
      PROVE  TaskOK
  <2>1. [task[c] EXCEPT !.at = at] \in Task
    BY <1>4, TaskMoves
  <2>2. task' = [task EXCEPT ![c] = [task[c] EXCEPT !.at = at]]
    BY <1>5 DEF Goto
  <2> QED BY <1>1, <2>1, <2>2
<1>6. CASE PublishSnapshot(c)
  <2>1. TaskOK
    BY <1>5, <1>6 DEF PublishSnapshot, TaskStages
  <2>2. SettleOK /\ ended' \in SUBSET Messages
    BY <1>0, <1>2, <1>4, <1>6 DEF PublishSnapshot, PublishRuntimeConstraint, SessionTypeOK
  <2>3. UNCHANGED <<unread, written, runtime, permit, loop, turn, upsets>>
    BY <1>6 DEF PublishSnapshot
  <2> QED BY <1>0, <2>1, <2>2, <2>3 DEF SessionTypeOK
<1>7. ASSUME NEW s \in Slots, NEW rq \in Requests,
             StartEnqueue(c, s, rq) \/ StartSignal(c, s, rq)
      PROVE  SessionTypeOK'
  <2> DEFINE u == ReadSnapshot(IdleTask, s)
             t == [u EXCEPT !.request = rq]
  <2>1. rq \in EnqueueRequest /\ "publish" \in TaskStages
    BY CoordinatorAssumption DEF TaskStages
  <2>2. u \in Task
    <3>1. runtime[s] \in RuntimeConstraint
      BY <1>0 DEF SessionTypeOK
    <3> QED BY <1>4, <2>1, <3>1, TaskMoves DEF ReadSnapshot
  <2> HIDE DEF u
  <2>3. t \in Task
    BY <2>1, <2>2, TaskMoves
  <2>4. task' = [task EXCEPT ![c] = t]
    BY <1>7 DEF StartEnqueue, StartSignal, Requested, u
  <2> HIDE DEF t
  <2>5. TaskOK
    BY <1>1, <2>3, <2>4
  <2>6. UpsetOK
    <3>1. CASE UNCHANGED upsets
      BY <1>0, <3>1 DEF SessionTypeOK
    <3>2. CASE Upset(2, FALSE)
      BY <1>3, <3>2
    <3> QED BY <1>7, <3>1, <3>2 DEF StartEnqueue, StartSignal
  <2>7. UNCHANGED <<unread, written, runtime, permit, loop, settle, turn, ended>>
    BY <1>7 DEF StartEnqueue, StartSignal, Requested
  <2> QED BY <1>0, <2>5, <2>6, <2>7 DEF SessionTypeOK
<1>8. CASE Acquire(c)
  <2>1. /\ UNCHANGED <<unread, written, runtime, permit, loop, settle, turn, ended>>
        /\ Goto(c, "write") \/ Goto(c, "commit") \/ task' = [task EXCEPT ![c] = IdleTask]
        /\ UNCHANGED upsets \/ Leaves(GivesUpScan(c) \/ Stale(c))
    BY <1>8 DEF Acquire
  <2>2. TaskOK
    BY <1>1, <1>4, <1>5, <2>1 DEF TaskStages
  <2>3. UpsetOK
    BY <1>0, <2>1, LeavesType DEF GivesUpScan, Stale, SessionTypeOK
  <2> QED BY <1>0, <2>1, <2>2, <2>3 DEF SessionTypeOK
<1>9. CASE WriteRow(c)
  <2> DEFINE m == NewRow
             s == task[c].slot
  <2>1. /\ unread' = [unread EXCEPT ![s] = Append(unread[s], m)]
        /\ written' = written \cup {m}
        /\ task' = [task EXCEPT ![c] = [task[c] EXCEPT !.at = "commit", !.msg = m]]
        /\ UNCHANGED <<runtime, permit, loop, settle, turn, ended, upsets>>
        /\ written # Messages
    BY <1>9 DEF WriteRow
  <2>2. m \in Messages /\ m \notin written
    BY <1>0, <2>1 DEF NewRow, SessionTypeOK
  <2> HIDE DEF m
  <2>3. unread[s] \in MailboxViews /\ m \notin Range(unread[s])
    BY <1>0, <1>4, <2>2 DEF SessionTypeOK, RowsWritten
  <2>4. Append(unread[s], m) \in MailboxViews
    BY <2>2, <2>3, ViewAppend
  <2>5. unread' \in [Slots -> MailboxViews]
    BY <1>0, <1>4, <2>1, <2>4 DEF SessionTypeOK
  <2>6. [task[c] EXCEPT !.at = "commit", !.msg = m] \in Task
    BY <1>4, <2>2, TaskMoves DEF TaskStages
  <2>7. TaskOK
    BY <1>1, <2>1, <2>6
  <2>8. written' \in SUBSET Messages
    BY <1>0, <2>1, <2>2 DEF SessionTypeOK
  <2> QED BY <1>0, <2>1, <2>5, <2>7, <2>8 DEF SessionTypeOK
<1>10. CASE WriteFails(c)
  <2>1. UpsetOK
    BY <1>0, <1>10, WriteFailsType
  <2>2. TaskOK
    BY <1>1, <1>4, <1>10 DEF WriteFails
  <2> QED BY <1>0, <1>10, <2>1, <2>2 DEF WriteFails, SessionTypeOK
<1>11. CASE Commit(c)
  <2>1. TaskOK
    <3>1. [task[c] EXCEPT !.at = "notify", !.seen = "Ready"] \in Task
      BY <1>4, TaskMoves DEF TaskStages, RuntimeConstraint
    <3>2. task' = [task EXCEPT ![c] = [task[c] EXCEPT !.at = "notify", !.seen = "Ready"]]
      BY <1>11 DEF Commit
    <3> QED BY <1>1, <3>1, <3>2
  <2> QED BY <1>0, <1>11, <2>1 DEF Commit, SessionTypeOK
<1>12. CASE CommitRefused(c)
  <2>1. {task[c].msg} \ {NoMsg} \in SUBSET Messages
    BY <1>4
  <2>2. TaskOK /\ SettleOK /\ ended' \in SUBSET Messages
    BY <1>0, <1>1, <1>2, <1>4, <1>12, <2>1 DEF CommitRefused, SessionTypeOK
  <2>3. UpsetOK
    BY <1>0, <1>12, LeavesType DEF CommitRefused, GivesUpScan, Stale
  <2> QED BY <1>0, <1>12, <2>2, <2>3 DEF CommitRefused, SessionTypeOK
<1>13. CASE Notified(c)
  <2> DEFINE t == IF c = Recovery THEN AfterRow(task[c]) ELSE IdleTask
  <2>1. t \in Task
    BY <1>4, AfterRowType
  <2>2. task' = [task EXCEPT ![c] = t]
    BY <1>13 DEF Notified
  <2> HIDE DEF t
  <2>3. TaskOK
    BY <1>1, <2>1, <2>2
  <2>4. permit' \in [Slots -> BOOLEAN]
    BY <1>0, <1>13 DEF Notified, SessionTypeOK
  <2> QED BY <1>0, <1>13, <2>3, <2>4 DEF Notified, SessionTypeOK
<1>14. CASE ReadFails(c)
  <2>1. TaskOK
    BY <1>1, <1>4, <1>14 DEF ReadFails
  <2>2. SettleOK
    <3>1. settle' = [settle EXCEPT ![c] = {}] /\ {} \in SUBSET Messages
      BY <1>14 DEF ReadFails
    <3> QED BY <1>2, <3>1
  <2>3. UpsetOK
    BY <1>3, <1>14 DEF ReadFails
  <2> QED BY <1>0, <1>14, <2>1, <2>2, <2>3 DEF ReadFails, SessionTypeOK
<1>15. CASE StartCancelRun(c)
  <2>1. TaskOK /\ UpsetOK
    BY <1>3, <1>5, <1>15 DEF StartCancelRun, TaskStages
  <2> QED BY <1>0, <1>15, <2>1 DEF StartCancelRun, SessionTypeOK
<1>16. CASE CancelRunWork(c)
  <2>1. TaskOK /\ SettleOK /\ ended' \in SUBSET Messages
    BY <1>0, <1>2, <1>4, <1>5, <1>16 DEF CancelRunWork, TaskStages, SessionTypeOK
  <2> QED BY <1>0, <1>16, <2>1 DEF CancelRunWork, SessionTypeOK
<1>17. CASE CancelBatch(c)
  <2>1. TaskOK
    BY <1>1, <1>4, <1>17 DEF CancelBatch
  <2> QED BY <1>0, <1>17, <2>1 DEF CancelBatch, SessionTypeOK
<1>18. ASSUME NEW s \in Slots, StartPause(c, s) \/ StartCancelChild(c, s)
       PROVE  SessionTypeOK'
  <2> DEFINE t == [IdleTask EXCEPT !.at = "cancel_batch", !.slot = s, !.op = active[s]]
  <2>1. t \in Task
    <3>1. active[s] \in Nat /\ "cancel_batch" \in TaskStages
      BY <1>0 DEF Inv, TypeOK, TaskStages
    <3> QED BY <1>4, <3>1, TaskMoves
  <2>2. task' = [task EXCEPT ![c] = t] \/ task' = task
    BY <1>18 DEF StartPause, StartCancelChild
  <2> HIDE DEF t
  <2>3. TaskOK
    BY <1>0, <1>1, <2>1, <2>2 DEF SessionTypeOK
  <2>4. UpsetOK
    BY <1>3, <1>18 DEF StartPause, StartCancelChild
  <2>5. UNCHANGED <<unread, written, runtime, permit, loop, settle, turn, ended>>
    BY <1>18 DEF StartPause, StartCancelChild
  <2> QED BY <1>0, <2>3, <2>4, <2>5 DEF SessionTypeOK
<1>19. ASSUME NEW s \in Slots, StartAttach(c, s)
       PROVE  SessionTypeOK'
  <2> DEFINE t == [IdleTask EXCEPT !.at = "reserved", !.slot = s]
  <2>1. t \in Task
    BY <1>4, TaskMoves DEF TaskStages
  <2>2. task' = [task EXCEPT ![c] = t]
    BY <1>19 DEF StartAttach
  <2> HIDE DEF t
  <2>3. TaskOK
    BY <1>1, <2>1, <2>2
  <2>4. UpsetOK
    <3>1. upsets' = [upsets EXCEPT !.count = upsets.count + 1]
      BY <1>19 DEF StartAttach
    <3> QED BY <1>0, <3>1 DEF SessionTypeOK, UpsetRecord
  <2>5. runtime' \in [Slots -> RuntimeConstraint]
    BY <1>0, <1>19 DEF StartAttach, SessionTypeOK, RuntimeConstraint
  <2> QED BY <1>0, <1>19, <2>3, <2>4, <2>5 DEF StartAttach, SessionTypeOK
<1>20. CASE AttachCommits(c)
  <2>1. PICK r \in {"Ready", "Failed"} :
          runtime' = [runtime EXCEPT ![task[c].slot] = r] /\ Goto(c, r)
    BY <1>20 DEF AttachCommits
  <2>2. r \in TaskStages /\ r \in RuntimeConstraint
    BY DEF TaskStages, RuntimeConstraint
  <2>3. TaskOK /\ runtime' \in [Slots -> RuntimeConstraint]
    BY <1>0, <1>4, <1>5, <2>1, <2>2 DEF SessionTypeOK
  <2> QED BY <1>0, <1>20, <2>3 DEF AttachCommits, SessionTypeOK
<1>21. CASE AttachPublishes(c)
  <2>1. PICK S \in {EndedRows, {}} : settle' = [settle EXCEPT ![c] = S]
    BY <1>21 DEF AttachPublishes
  <2>2. SettleOK /\ ended' \in SUBSET Messages
    BY <1>0, <1>2, <1>4, <1>21, <2>1 DEF AttachPublishes, SessionTypeOK
  <2>3. TaskOK
    <3>1. [task[c] EXCEPT !.at = "notify"] \in Task
      BY <1>4, TaskMoves DEF TaskStages
    <3>2. PICK t \in {[task[c] EXCEPT !.at = "notify"], IdleTask} :
            task' = [task EXCEPT ![c] = t]
      BY <1>21 DEF AttachPublishes
    <3> QED BY <1>1, <1>4, <3>1, <3>2
  <2>4. UpsetOK
    BY <1>0, <1>21, LeavesType DEF AttachPublishes
  <2> QED BY <1>0, <1>21, <2>2, <2>3, <2>4 DEF AttachPublishes, SessionTypeOK
<1>26. CASE AttachBegins(c)
  <2>1. TaskOK
    BY <1>5, <1>26 DEF AttachBegins, TaskStages
  <2> QED BY <1>0, <1>26, <2>1 DEF AttachBegins, SessionTypeOK
<1>22. CASE c = Recovery /\ ScanSlot
  <2>1. PICK s \in task[c].scan :
          task' = [task EXCEPT ![c] = AfterRow([task[c] EXCEPT !.slot = s,
                                 !.list = unread[s], !.scan = task[c].scan \ {s}])]
    BY <1>22 DEF ScanSlot
  <2> DEFINE t == [task[c] EXCEPT !.slot = s, !.list = unread[s],
                                  !.scan = task[c].scan \ {s}]
  <2>2. task[c].scan \in SUBSET Slots /\ s \in Slots /\ unread[s] \in Seq(Messages)
    BY <1>0, TaskFields DEF SessionTypeOK, MailboxViews
  <2>3. t \in Task
    BY <1>4, <2>2 DEF Task
  <2> HIDE DEF t
  <2>4. TaskOK
    BY <1>1, <2>1, <2>3, AfterRowType DEF t
  <2> QED BY <1>0, <1>22, <2>4 DEF ScanSlot, SessionTypeOK
<1>23. CASE c = Recovery /\ ScanNext
  <2> DEFINE q == task[c].list
             u == ReadSnapshot(task[c], task[c].slot)
             t == [u EXCEPT !.msg = Head(q), !.list = Tail(q)]
  <2>1. task' = [task EXCEPT ![c] = t]
    BY <1>23 DEF ScanNext
  <2>2. q \in Seq(Messages) /\ q # <<>>
    BY <1>0, <1>23, TaskFields DEF ScanNext, SessionInv, HeldInv, ScanHolds
  <2>3. Head(q) \in Messages /\ Tail(q) \in Seq(Messages)
    BY <2>2, HeadTailProperties
  <2> HIDE DEF q
  <2>4. u \in Task
    <3>1. runtime[task[c].slot] \in RuntimeConstraint /\ "publish" \in TaskStages
      BY <1>0, <1>4 DEF SessionTypeOK, TaskStages
    <3> QED BY <1>4, <3>1, TaskMoves DEF ReadSnapshot
  <2> HIDE DEF u
  <2>5. t \in Task
    BY <2>3, <2>4, TaskMoves DEF TaskStages
  <2> HIDE DEF t
  <2>6. TaskOK
    BY <1>1, <2>1, <2>5
  <2> QED BY <1>0, <1>23, <2>6 DEF ScanNext, SessionTypeOK
<1>24. CASE Enqueues(c)
  BY <1>6, <1>7, <1>8, <1>9, <1>10, <1>11, <1>12, <1>13, <1>14, <1>24 DEF Enqueues
<1>25. CASE Controls(c)
  BY <1>15, <1>16, <1>17, <1>18, <1>19, <1>20, <1>21, <1>25, <1>26 DEF Controls
<1> QED BY <1>22, <1>23, <1>24, <1>25

------------------------------------------------------------------------------
(* What a step of a sender, of the scan or of a canceller does to rows.    *)

(* A task knows only written rows, known batches, and a next row to scan.  *)
TaskFine(t, rows) ==
  /\ t.msg \in rows \cup {NoMsg}
  /\ Range(t.list) \subseteq rows
  /\ t.at = "cancel_batch" => t.op \in DOMAIN batches
  /\ t.at = "next" => t.list # <<>>

LEMMA FineMoves ==
  ASSUME NEW t \in Task, NEW rows, TaskFine(t, rows),
         NEW at \in TaskStages \ {"cancel_batch", "next"}
  PROVE  /\ TaskFine([t EXCEPT !.at = at], rows)
         /\ \A m \in rows \cup {NoMsg} :
              TaskFine([t EXCEPT !.at = at, !.msg = m], rows)
         /\ \A x : TaskFine([t EXCEPT !.at = at, !.seen = x], rows)
         /\ \A s, x : TaskFine([t EXCEPT !.at = at, !.slot = s, !.seen = x], rows)
         /\ \A s : TaskFine([t EXCEPT !.at = at, !.slot = s], rows)
         /\ \A rq : t.at # "cancel_batch" => TaskFine([t EXCEPT !.request = rq], rows)
<1>1. \A l \in Seq(rows) : Range(l) \subseteq rows
  BY DEF Range
<1> QED BY <1>1 DEF Task, TaskFine

LEMMA IdleFine == \A rows : TaskFine(IdleTask, rows)
<1>1. Range(<<>>) = {}
  BY DEF Range
<1> QED BY <1>1, IdleTypes DEF TaskFine

LEMMA AfterRowFine ==
  ASSUME NEW t \in Task, NEW rows, t.msg \in rows \cup {NoMsg},
         Range(t.list) \subseteq rows
  PROVE  TaskFine(AfterRow(t), rows)
<1>1. CASE t.list # <<>>
  <2>1. /\ AfterRow(t) = [t EXCEPT !.at = "next"]
    BY <1>1 DEF AfterRow
  <2> QED BY <1>1, <2>1 DEF Task, TaskFine
<1>2. CASE t.list = <<>> /\ t.scan # {}
  <2>1. /\ AfterRow(t) = [t EXCEPT !.at = "scan"]
    BY <1>2 DEF AfterRow
  <2> QED BY <1>2, <2>1 DEF Task, TaskFine
<1>3. CASE t.list = <<>> /\ t.scan = {}
  BY <1>3, IdleFine DEF AfterRow
<1> QED BY <1>1, <1>2, <1>3

(* The batch a slot works on is known, and so are the rows that end.       *)
LEMMA ActiveKnown ==
  ASSUME Inv, NEW s \in Slots, active[s] # 0
  PROVE  active[s] \in DOMAIN batches
BY DEF Inv, WorkOwnedOnce, BatchHoldsExecuting

LEMMA EndedWritten ==
  ASSUME RowsWritten
  PROVE  EndedRows \subseteq written
BY DEF RowsWritten, EndedRows

------------------------------------------------------------------------------
(* The steps that make intents or batches.                                 *)

LEMMA CommitLog ==
  ASSUME TypeOK, NEW a \in Actors, NEW m \in Messages \cup {NoMsg},
         CommitEnqueue(a, m)
  PROVE  /\ batches' = batches /\ active' = active
         /\ \A i \in Ids' : i \in Ids \/ intents'[i].msg = m
<1>1. PICK l \in leases :
        /\ intents' = Append(intents, [slot |-> l.slot, source |-> l.source,
                                       msg |-> m, run |-> l.run,
                                       state |-> "Queued"])
        /\ batches' = batches /\ active' = active
  BY DEF CommitEnqueue
<1> DEFINE x == [slot |-> l.slot, source |-> l.source, msg |-> m, run |-> l.run,
                 state |-> "Queued"]
<1>2. x.msg = m
  OBVIOUS
<1>3. intents' = Append(intents, x)
  BY <1>1
<1> HIDE DEF x
<1>4. intents \in Seq(WorkIntent) /\ Len(intents) \in Nat /\ Ids = 1 .. Len(intents)
  BY LogTypes DEF TypeOK
<1>5. /\ DOMAIN intents' = 1 .. (Len(intents) + 1)
      /\ intents'[Len(intents) + 1] = x
  BY <1>3, <1>4
<1> QED BY <1>1, <1>2, <1>4, <1>5 DEF Ids

LEMMA ReconcileLog ==
  ASSUME TypeOK, NEW a \in Actors, NEW s \in Slots, NEW view \in MailboxViews,
         ReconcileMailbox(a, s, view)
  PROVE  /\ batches' = batches /\ active' = active
         /\ \A i \in Ids' : i \in Ids \/ intents'[i].msg \in Range(view)
<1> DEFINE stale == {i \in QueuedIds(s) : /\ intents[i].msg # NoMsg
                                          /\ intents[i].msg \notin Range(view)}
           kept  == Moved(intents, stale, "Completed")
           owned == {kept[i].msg : i \in LiveOf(s) \ stale}
           fresh == Without(view, owned)
           new   == [k \in DOMAIN fresh |->
                       [slot |-> s, source |-> "RecoveryDrain",
                        msg |-> fresh[k], run |-> NoRun, state |-> "Queued"]]
<1>1. intents' = kept \o new /\ batches' = batches /\ active' = active
  BY DEF ReconcileMailbox, slotVars
<1>2. kept \in Seq(WorkIntent) /\ Len(kept) = Len(intents)
  BY MovedType DEF TypeOK, State, TerminalState
<1>3. fresh \in Seq(Messages) /\ Range(fresh) \subseteq Range(view)
  BY WithoutProperties DEF MailboxViews
<1>4. Len(intents) \in Nat /\ Ids = 1 .. Len(intents)
  BY LogTypes
<1>5. /\ new \in Seq(WorkIntent) /\ Len(new) = Len(fresh)
      /\ \A k \in DOMAIN new : new[k].msg \in Range(fresh)
  <2> HIDE DEF fresh
  <2>1. new \in Seq(WorkIntent) /\ Len(new) = Len(fresh)
    BY <1>3, <1>4, FreshType
  <2>2. \A k \in DOMAIN fresh : fresh[k] \in Range(fresh)
    BY DEF Range
  <2> QED BY <2>1, <2>2
<1> HIDE DEF new, kept, fresh
<1>6. \A i \in DOMAIN intents' : i \in Ids \/ (i - Len(kept) \in DOMAIN new
                                            /\ intents'[i] = new[i - Len(kept)])
  BY <1>1, <1>2, <1>4, <1>5, ConcatProperties, LenProperties
<1> QED BY <1>1, <1>3, <1>5, <1>6 DEF Ids

(* A claim makes the next batch, of message intents of the slot.           *)
Claimed(s) ==
  /\ Ids' = Ids
  /\ active'[s] \in DOMAIN batches' /\ active'[s] \notin DOMAIN batches
  /\ active'[s] \in Nat /\ batches'[active'[s]].slot = s
  /\ \A z \in Slots \ {s} : active'[z] = active[z]
  /\ DOMAIN batches' = DOMAIN batches \cup {active'[s]}
  /\ \A op \in DOMAIN batches : batches'[op] = batches[op]
  /\ \A i \in Range(batches'[active'[s]].ids) : /\ i \in Ids
                                                /\ intents[i].msg \in Messages

LEMMA ClaimLog ==
  ASSUME Inv, NEW a \in Actors, NEW s \in Slots, ClaimBatch(a, s)
  PROVE  Claimed(s)
<1>0. TypeOK /\ WorkOwnedOnce
  BY DEF Inv
<1>1. PICK y \in Priorities :
        LET ids == Without(queue[s][y], SignalIds)
        IN  /\ batches' = Append(batches, [slot |-> s, ids |-> ids,
                                           priority |-> y])
            /\ intents' = Moved(intents, Range(ids), "Starting")
            /\ active' = [active EXCEPT ![s] = Len(batches) + 1]
  BY DEF ClaimBatch
<1> DEFINE ids == Without(queue[s][y], SignalIds)
           n   == Len(batches)
           b   == [slot |-> s, ids |-> ids, priority |-> y]
<1>2. QueuesExact
  BY <1>0, OwnedIsExact
<1>3. ids \in Seq(Nat) /\ Range(ids) = Waiting(s, y) \ SignalIds
  <2>1. queue[s][y] \in Seq(Nat)
    BY <1>0 DEF TypeOK
  <2>2. IsInjective(queue[s][y]) /\ Range(queue[s][y]) = Waiting(s, y)
    BY <1>2 DEF QueuesExact
  <2> QED BY <2>1, <2>2, WithoutProperties
<1>4. \A i \in Ids : intents[i].msg \in Messages \cup {NoMsg}
  BY <1>0, LogTypes DEF WorkIntent
<1>5. \A i \in Range(ids) : i \in Ids /\ intents[i].msg \in Messages
  BY <1>3, <1>4 DEF Waiting, WaitingIn, SignalIds, Ids
<1>6. b.slot = s /\ b.ids = ids
  OBVIOUS
<1>7. batches' = Append(batches, b) /\ active' = [active EXCEPT ![s] = n + 1]
  BY <1>1
<1>8. Ids' = Ids
  BY <1>1 DEF Ids, Moved
<1> HIDE DEF b, ids
<1>9. n \in Nat /\ DOMAIN batches = 1 .. n
  BY <1>0, LenProperties DEF TypeOK
<1>10. /\ DOMAIN batches' = 1 .. (n + 1) /\ batches'[n + 1] = b
       /\ \A op \in 1 .. n : batches'[op] = batches[op]
  BY <1>0, <1>7, <1>9, AppendProperties DEF TypeOK
<1>11. /\ active'[s] = n + 1
       /\ \A z \in Slots \ {s} : active'[z] = active[z]
  BY <1>0, <1>7 DEF TypeOK
<1>12. n + 1 \notin 1 .. n /\ 1 .. (n + 1) = (1 .. n) \cup {n + 1}
       /\ n + 1 \in Nat
  BY <1>9
<1> QED BY <1>5, <1>6, <1>8, <1>9, <1>10, <1>11, <1>12 DEF Claimed

(* Outside a crash the batches are kept, and new intents are about written *)
(* rows.                                                                   *)
LEMMA SessionLog ==
  ASSUME SessionInv, SessionNext, ~CrashRestart
  PROVE  /\ \A op \in DOMAIN batches : /\ op \in DOMAIN batches'
                                       /\ batches'[op] = batches[op]
         /\ \A i \in Ids' : i \in Ids \/ intents'[i].msg \in written \cup {NoMsg}
<1> DEFINE Good == /\ \A op \in DOMAIN batches : /\ op \in DOMAIN batches'
                                                 /\ batches'[op] = batches[op]
                   /\ \A i \in Ids' : \/ i \in Ids
                                      \/ intents'[i].msg \in written \cup {NoMsg}
<1> SUFFICES Good
  OBVIOUS
<1>0. SessionTypeOK /\ TypeOK /\ Inv /\ RowsWritten
  BY DEF SessionInv, Inv
<1>1. ASSUME CalmStep
      PROVE  Good
  BY <1>0, <1>1, CalmKeeps
<1>2. ASSUME NEW c \in Workers, Commit(c)
      PROVE  Good
  <2>1. c \in Actors /\ task[c].msg \in Messages \cup {NoMsg}
    BY <1>0, TasksAct, TaskFields
  <2>2. CommitEnqueue(c, task[c].msg)
    BY <1>2 DEF Commit
  <2>3. task[c].msg \in written \cup {NoMsg}
    BY <1>0 DEF RowsWritten
  <2> QED BY <1>0, <2>1, <2>2, <2>3, CommitLog
<1>3. ASSUME NEW s \in Slots, Reconcile(s)
      PROVE  Good
  <2>1. s \in Actors /\ loop[s].view \in MailboxViews
    BY <1>0, TasksAct, LoopFields
  <2>2. ReconcileMailbox(s, s, loop[s].view)
    BY <1>3 DEF Reconcile
  <2>3. Range(loop[s].view) \subseteq written
    BY <1>0 DEF RowsWritten
  <2> QED BY <1>0, <2>1, <2>2, <2>3, ReconcileLog
<1>4. ASSUME NEW s \in Slots, ClaimBatch(s, s)
      PROVE  Good
  <2>1. Claimed(s)
    BY <1>0, <1>4, TasksAct, ClaimLog
  <2> QED BY <2>1 DEF Claimed
<1>5. ASSUME NEW a \in Actors, MarkRead(a) \/ Reports(a)
      PROVE  Good
  <2>1. CalmStep
    BY <1>5, Zenon DEF MarkRead, Reports, CalmStep, Calm
  <2> QED BY <1>1, <2>1
<1>6. Clients \subseteq Workers /\ Recovery \in Workers
  BY DEF Workers
<1> HIDE DEF Good
<1>7. ASSUME NEW c \in Workers, Enqueues(c)
      PROVE  Good
  BY <1>1, <1>2, <1>7, WorkerCalm
<1>8. ASSUME NEW c \in Clients, Controls(c)
      PROVE  Good
  BY <1>1, <1>6, <1>8, WorkerCalm
<1>9. ASSUME ScanSlot \/ ScanNext
      PROVE  Good
  BY <1>1, <1>6, <1>9, WorkerCalm
<1>10. ASSUME NEW s \in Slots, Drains(s)
       PROVE  Good
  BY <1>1, <1>3, <1>4, <1>10, LoopCalm
<1> QED BY <1>5, <1>7, <1>8, <1>9, <1>10 DEF SessionNext

------------------------------------------------------------------------------
(* What a step of a sender, of the scan or of a canceller does to rows.    *)

WorkerRows(c) ==
  /\ UNCHANGED <<loop, turn>>
  /\ UNCHANGED <<unread, written>> \/ WriteRow(c)
  /\ ended \subseteq ended' /\ ended' \subseteq written
  /\ \A a \in Actors : settle'[a] \subseteq ended'
  /\ \E t : TaskFine(t, written') /\ task' = [task EXCEPT ![c] = t]

LEMMA WorkerRowsStep ==
  ASSUME SessionInv, NEW c \in Workers,
         Enqueues(c) \/ Controls(c) \/ (c = Recovery /\ (ScanSlot \/ ScanNext))
  PROVE  WorkerRows(c)
<1>0. SessionTypeOK /\ RowsWritten /\ Inv /\ c \in Actors
  BY TasksAct DEF SessionInv
<1> DEFINE Fine == \E t : TaskFine(t, written') /\ task' = [task EXCEPT ![c] = t]
           Settled == \A a \in Actors : settle'[a] \subseteq ended'
           Grown == ended \subseteq ended' /\ ended' \subseteq written
           Read == UNCHANGED <<unread, written>> \/ WriteRow(c)
<1>1. settle \in [Actors -> SUBSET Messages] /\ (\A a \in Actors : settle[a] \subseteq ended)
      /\ ended \subseteq written
  BY <1>0 DEF SessionTypeOK, RowsWritten
<1>2. ASSUME NEW S, settle' = [settle EXCEPT ![c] = S], ended' = ended \cup S,
             S \subseteq written
      PROVE  Settled /\ Grown
  BY <1>0, <1>1, <1>2
<1>3. ASSUME settle' = settle, ended' = ended
      PROVE  Settled /\ Grown
  BY <1>1, <1>3
<1>4. /\ task[c] \in Task /\ IdleTask \in Task
      /\ EndedRows \subseteq written /\ TaskFine(task[c], written)
      /\ \A rows : TaskFine(IdleTask, rows)
  <2>1. TaskFine(task[c], written)
    BY <1>0 DEF RowsWritten, SessionInv, HeldInv, CancellerHolds, ScanHolds, TaskFine
  <2> QED BY <1>0, <2>1, TaskFields, IdleTypes, IdleFine, EndedWritten
<1>5. ASSUME NEW at \in TaskStages \ {"cancel_batch", "next"}, Goto(c, at),
             written' = written
      PROVE  Fine
  <2>1. task' = [task EXCEPT ![c] = [task[c] EXCEPT !.at = at]]
    BY <1>5 DEF Goto
  <2>2. TaskFine([task[c] EXCEPT !.at = at], written)
    BY <1>4, FineMoves
  <2> QED BY <1>5, <2>1, <2>2
<1>6. CASE PublishSnapshot(c)
  <2>1. /\ UNCHANGED <<unread, written, loop, turn>> /\ Goto(c, "acquire")
        /\ settle' = [settle EXCEPT ![c] = EndedRows]
        /\ ended' = ended \cup EndedRows
    BY <1>6 DEF PublishSnapshot, PublishRuntimeConstraint
  <2>2. Fine
    BY <1>5, <2>1 DEF TaskStages
  <2>3. Settled /\ Grown
    BY <1>2, <1>4, <2>1
  <2> QED BY <2>1, <2>2, <2>3 DEF WorkerRows
<1>7. ASSUME NEW s \in Slots, NEW rq \in Requests,
             StartEnqueue(c, s, rq) \/ StartSignal(c, s, rq)
      PROVE  WorkerRows(c)
  <2> DEFINE u == ReadSnapshot(IdleTask, s)
             t == [u EXCEPT !.request = rq]
  <2>1. /\ task' = [task EXCEPT ![c] = t]
        /\ UNCHANGED <<unread, written, loop, settle, turn, ended>>
    BY <1>7 DEF StartEnqueue, StartSignal, Requested
  <2>2. TaskFine(t, written)
    <3>1. "publish" \in TaskStages \ {"cancel_batch", "next"}
      BY DEF TaskStages
    <3>2. TaskFine(u, written) /\ u \in Task
      <4>1. runtime[s] \in RuntimeConstraint
        BY <1>0 DEF SessionTypeOK
      <4> QED BY <1>4, <3>1, <4>1, FineMoves, TaskMoves DEF ReadSnapshot
    <3>3. u.at = "publish"
      BY <1>4 DEF ReadSnapshot, Task
    <3> HIDE DEF u
    <3> QED BY <3>1, <3>2, <3>3, FineMoves
  <2> HIDE DEF t
  <2> QED BY <1>3, <2>1, <2>2 DEF WorkerRows
<1>8. CASE Acquire(c)
  <2>1. /\ UNCHANGED <<unread, written, loop, settle, turn, ended>>
        /\ Goto(c, "write") \/ Goto(c, "commit") \/ task' = [task EXCEPT ![c] = IdleTask]
    BY <1>8 DEF Acquire
  <2>2. Fine
    BY <1>4, <1>5, <2>1 DEF TaskStages
  <2> QED BY <1>3, <2>1, <2>2 DEF WorkerRows
<1>9. CASE WriteRow(c)
  <2> DEFINE m == NewRow
             t == [task[c] EXCEPT !.at = "commit", !.msg = m]
  <2>1. /\ written' = written \cup {m}
        /\ task' = [task EXCEPT ![c] = t]
        /\ UNCHANGED <<loop, settle, turn, ended>>
    BY <1>9 DEF WriteRow
  <2>2. TaskFine(task[c], written')
    BY <1>4, <2>1 DEF TaskFine
  <2>3. m \in written' \cup {NoMsg}
    BY <2>1
  <2> HIDE DEF m
  <2>4. TaskFine(t, written')
    <3>1. "commit" \in TaskStages \ {"cancel_batch", "next"}
      BY DEF TaskStages
    <3> QED BY <1>4, <2>2, <2>3, <3>1, FineMoves
  <2> HIDE DEF t
  <2> QED BY <1>3, <1>9, <2>1, <2>4 DEF WorkerRows
<1>10. CASE WriteFails(c)
  <2>1. /\ UNCHANGED <<unread, written, loop, settle, turn, ended>>
        /\ task' = [task EXCEPT ![c] = IdleTask]
    BY <1>10 DEF WriteFails
  <2> QED BY <1>3, <1>4, <2>1 DEF WorkerRows
<1>11. CASE Commit(c)
  <2> DEFINE t == [task[c] EXCEPT !.at = "notify", !.seen = "Ready"]
  <2>1. /\ UNCHANGED <<unread, written, loop, settle, turn, ended>>
        /\ task' = [task EXCEPT ![c] = t]
    BY <1>11 DEF Commit
  <2>2. TaskFine(t, written)
    BY <1>4, FineMoves DEF TaskStages
  <2> HIDE DEF t
  <2> QED BY <1>3, <2>1, <2>2 DEF WorkerRows
<1>12. CASE CommitRefused(c)
  <2> DEFINE S == {task[c].msg} \ {NoMsg}
  <2>1. /\ UNCHANGED <<unread, written, loop, turn>>
        /\ settle' = [settle EXCEPT ![c] = S] /\ ended' = ended \cup S
        /\ task' = [task EXCEPT ![c] = IdleTask]
    BY <1>12 DEF CommitRefused
  <2>2. S \subseteq written
    BY <1>4 DEF TaskFine
  <2> HIDE DEF S
  <2> QED BY <1>2, <1>4, <2>1, <2>2 DEF WorkerRows
<1>13. CASE Notified(c)
  <2> DEFINE t == IF c = Recovery THEN AfterRow(task[c]) ELSE IdleTask
  <2>1. /\ task' = [task EXCEPT ![c] = t]
        /\ UNCHANGED <<unread, written, loop, settle, turn, ended>>
    BY <1>13 DEF Notified
  <2>2. TaskFine(t, written)
    BY <1>4, AfterRowFine DEF TaskFine
  <2> HIDE DEF t
  <2> QED BY <1>3, <2>1, <2>2 DEF WorkerRows
<1>14. CASE ReadFails(c)
  <2>1. /\ UNCHANGED <<unread, written, loop, turn, ended>>
        /\ settle' = [settle EXCEPT ![c] = {}]
        /\ task' = [task EXCEPT ![c] = IdleTask]
    BY <1>14 DEF ReadFails
  <2>2. Settled /\ Grown
    BY <1>1, <2>1
  <2> QED BY <1>4, <2>1, <2>2 DEF WorkerRows
<1>15. CASE StartCancelRun(c)
  <2>1. UNCHANGED <<unread, written, loop, settle, turn, ended>> /\ Goto(c, "cancelling")
    BY <1>15 DEF StartCancelRun
  <2>2. Fine
    BY <1>5, <2>1 DEF TaskStages
  <2> QED BY <1>3, <2>1, <2>2 DEF WorkerRows
<1>16. CASE CancelRunWork(c)
  <2>1. /\ UNCHANGED <<unread, written, loop, turn>> /\ Goto(c, "idle")
        /\ settle' = [settle EXCEPT ![c] = EndedRows]
        /\ ended' = ended \cup EndedRows
    BY <1>16 DEF CancelRunWork
  <2>2. Fine
    BY <1>5, <2>1 DEF TaskStages
  <2>3. Settled /\ Grown
    BY <1>2, <1>4, <2>1
  <2> QED BY <2>1, <2>2, <2>3 DEF WorkerRows
<1>17. CASE CancelBatch(c)
  <2>1. /\ UNCHANGED <<unread, written, loop, settle, turn, ended>>
        /\ task' = [task EXCEPT ![c] = IdleTask]
    BY <1>17 DEF CancelBatch
  <2> QED BY <1>3, <1>4, <2>1 DEF WorkerRows
<1>18. ASSUME NEW s \in Slots, StartPause(c, s) \/ StartCancelChild(c, s)
       PROVE  WorkerRows(c)
  <2> DEFINE t == [IdleTask EXCEPT !.at = "cancel_batch", !.slot = s, !.op = active[s]]
  <2>1. /\ UNCHANGED <<unread, written, loop, settle, turn, ended>>
        /\ (active[s] # 0 /\ task' = [task EXCEPT ![c] = t]) \/ task' = task
    BY <1>18 DEF StartPause, StartCancelChild
  <2>2. ASSUME active[s] # 0
        PROVE  TaskFine(t, written)
    <3>1. active[s] \in DOMAIN batches
      BY <1>0, <2>2, ActiveKnown
    <3>2. /\ t.op = active[s] /\ t.msg = IdleTask.msg /\ t.list = IdleTask.list
          /\ t.at = "cancel_batch"
      BY <1>4 DEF Task
    <3> HIDE DEF t
    <3> QED BY <1>4, <3>1, <3>2 DEF TaskFine
  <2>3. task \in [Workers -> Task]
    BY <1>0 DEF SessionTypeOK
  <2>4. task = [task EXCEPT ![c] = task[c]]
    BY <2>3
  <2> HIDE DEF t
  <2>5. Fine
    BY <1>4, <2>1, <2>2, <2>4
  <2> QED BY <1>3, <2>1, <2>5 DEF WorkerRows
<1>19. ASSUME NEW s \in Slots, StartAttach(c, s)
       PROVE  WorkerRows(c)
  <2> DEFINE t == [IdleTask EXCEPT !.at = "reserved", !.slot = s]
  <2>1. /\ UNCHANGED <<unread, written, loop, settle, turn, ended>>
        /\ task' = [task EXCEPT ![c] = t]
    BY <1>19 DEF StartAttach
  <2>2. TaskFine(t, written)
    <3>1. "reserved" \in TaskStages \ {"cancel_batch", "next"}
      BY DEF TaskStages
    <3> QED BY <1>4, <3>1, FineMoves
  <2> HIDE DEF t
  <2> QED BY <1>3, <2>1, <2>2 DEF WorkerRows
<1>20. CASE AttachCommits(c)
  <2>1. /\ UNCHANGED <<unread, written, loop, settle, turn, ended>>
        /\ Goto(c, "Ready") \/ Goto(c, "Failed")
    BY <1>20 DEF AttachCommits
  <2>2. Fine
    BY <1>5, <2>1 DEF TaskStages
  <2> QED BY <1>3, <2>1, <2>2 DEF WorkerRows
<1>21. CASE AttachPublishes(c)
  <2>1. /\ UNCHANGED <<unread, written, loop, turn>>
        /\ ended' = ended \cup EndedRows
    BY <1>21 DEF AttachPublishes
  <2>2. Settled /\ Grown
    <3>1. PICK S \in {EndedRows, {}} : settle' = [settle EXCEPT ![c] = S]
      BY <1>21 DEF AttachPublishes
    <3> QED BY <1>0, <1>1, <1>4, <2>1, <3>1
  <2>3. Fine
    <3>1. TaskFine([task[c] EXCEPT !.at = "notify"], written)
      BY <1>4, FineMoves DEF TaskStages
    <3>2. PICK t \in {[task[c] EXCEPT !.at = "notify"], IdleTask} :
            task' = [task EXCEPT ![c] = t]
      BY <1>21 DEF AttachPublishes
    <3> QED BY <1>4, <2>1, <3>1, <3>2
  <2> QED BY <2>1, <2>2, <2>3 DEF WorkerRows
<1>26. CASE AttachBegins(c)
  <2>1. UNCHANGED <<unread, written, loop, settle, turn, ended>> /\ Goto(c, "attach")
    BY <1>26 DEF AttachBegins
  <2>2. Fine
    BY <1>5, <2>1 DEF TaskStages
  <2> QED BY <1>3, <2>1, <2>2 DEF WorkerRows
<1>22. CASE c = Recovery /\ ScanSlot
  <2>1. /\ UNCHANGED <<unread, written, loop, settle, turn, ended>>
        /\ \E s \in task[c].scan :
             task' = [task EXCEPT ![c] = AfterRow([task[c] EXCEPT !.slot = s,
                                   !.list = unread[s], !.scan = task[c].scan \ {s}])]
    BY <1>22 DEF ScanSlot
  <2>2. PICK s \in task[c].scan :
          task' = [task EXCEPT ![c] = AfterRow([task[c] EXCEPT !.slot = s,
                                 !.list = unread[s], !.scan = task[c].scan \ {s}])]
    BY <2>1
  <2> DEFINE t == [task[c] EXCEPT !.slot = s, !.list = unread[s],
                                  !.scan = task[c].scan \ {s}]
  <2>3. task[c].scan \in SUBSET Slots /\ s \in Slots /\ unread[s] \in Seq(Messages)
    BY <1>0, TaskFields DEF SessionTypeOK, MailboxViews
  <2>4. t \in Task /\ t.msg = task[c].msg /\ t.list = unread[s]
    BY <1>4, <2>3 DEF Task
  <2>5. Range(unread[s]) \subseteq written
    BY <1>0, <2>3 DEF RowsWritten
  <2>6. TaskFine(AfterRow(t), written)
    <3> HIDE DEF t
    <3> QED BY <1>4, <2>4, <2>5, AfterRowFine DEF TaskFine
  <2>7. task' = [task EXCEPT ![c] = AfterRow(t)]
    BY <2>2
  <2> HIDE DEF t
  <2> QED BY <1>3, <2>1, <2>6, <2>7 DEF WorkerRows
<1>23. CASE c = Recovery /\ ScanNext
  <2> DEFINE q == task[c].list
             u == ReadSnapshot(task[c], task[c].slot)
             t == [u EXCEPT !.msg = Head(q), !.list = Tail(q)]
  <2>1. /\ UNCHANGED <<unread, written, loop, settle, turn, ended>>
        /\ task' = [task EXCEPT ![c] = t] /\ task[c].at = "next"
    BY <1>23 DEF ScanNext
  <2>2. q \in Seq(Messages) /\ q # <<>> /\ Range(q) \subseteq written
    BY <1>0, <1>4, <2>1, TaskFields DEF TaskFine
  <2>3. Head(q) \in written /\ Range(Tail(q)) \subseteq written
    <3>1. q \in Seq(written)
      BY <2>2 DEF Range
    <3>2. Head(q) \in written /\ Tail(q) \in Seq(written)
      BY <2>2, <3>1, HeadTailProperties
    <3> QED BY <3>2 DEF Range
  <2> HIDE DEF q
  <2>4. u \in Task /\ u.at = "publish"
    <3>1. runtime[task[c].slot] \in RuntimeConstraint /\ "publish" \in TaskStages
      BY <1>0, TaskFields DEF SessionTypeOK, TaskStages
    <3>2. u \in Task
      BY <1>4, <3>1, TaskMoves DEF ReadSnapshot
    <3> QED BY <1>4, <3>2 DEF ReadSnapshot, Task
  <2> HIDE DEF u
  <2>5. TaskFine(t, written)
    BY <2>3, <2>4 DEF Task, TaskFine
  <2> HIDE DEF t
  <2> QED BY <1>3, <2>1, <2>5 DEF WorkerRows
<1>24. CASE Enqueues(c)
  BY <1>6, <1>7, <1>8, <1>9, <1>10, <1>11, <1>12, <1>13, <1>14, <1>24 DEF Enqueues
<1>25. CASE Controls(c)
  BY <1>15, <1>16, <1>17, <1>18, <1>19, <1>20, <1>21, <1>25, <1>26 DEF Controls
<1> QED BY <1>22, <1>23, <1>24, <1>25

------------------------------------------------------------------------------
(* What a step of a loop does.                                             *)

(* LoopHolds and TurnHolds, of the parts of a state.                       *)
RowsIn(log, bs, op) == {log[i].msg : i \in Range(bs[op].ids)} \ {NoMsg}

LoopFine(l, bs, s) ==
  /\ l.at \in Early => l.op = 0
  /\ l.at \in Held => l.op \in DOMAIN bs /\ bs[l.op].slot = s

TurnFine(l, prompt, box, done, rows) ==
  /\ l.at \in {"reconcile", "next", "prepare"} => Range(l.view) \subseteq box \cup done
  /\ l.at \in {"prepare", "late", "running", "unstarted"} =>
       rows \subseteq Range(l.view) \cup done
  /\ l.at = "unstarted" => rows \subseteq done
  /\ prompt = IF l.at \in {"late", "running"} THEN rows \cap Range(l.view) ELSE {}

LEMMA HoldsParts ==
  ASSUME NEW s \in Slots
  PROVE  /\ LoopHolds(s) <=> LoopFine(loop[s], batches, s)
         /\ LoopHolds(s)' <=> LoopFine(loop'[s], batches', s)
         /\ TurnHolds(s) <=> TurnFine(loop[s], turn[s], Range(unread[s]), ended,
                                      RowsIn(intents, batches, loop[s].op))
         /\ TurnHolds(s)' <=> TurnFine(loop'[s], turn'[s], Range(unread'[s]), ended',
                                       RowsIn(intents', batches', loop'[s].op))
BY DEF LoopHolds, LoopFine, TurnHolds, TurnFine, RowsIn, BatchRows, BatchIds

LEMMA RowsInKept ==
  ASSUME Inv, Inv', [AnyNext]_vars, NEW op \in DOMAIN batches,
         op \in DOMAIN batches', batches'[op] = batches[op]
  PROVE  RowsIn(intents', batches', op) = RowsIn(intents, batches, op)
<1>1. TypeOK /\ TypeOK' /\ WorkOwnedOnce
  BY DEF Inv
<1>2. LifeKept
  BY <1>1, LifeStep
<1>3. Range(batches[op].ids) \in SUBSET Ids
  BY <1>1, BatchIdsKnown DEF BatchIds
<1>4. \A i \in Ids : intents'[i].msg = intents[i].msg
  BY <1>1, <1>2, KeptFields
<1> QED BY <1>3, <1>4 DEF RowsIn

LoopRows(s) ==
  /\ SessionTypeOK'
  /\ UNCHANGED <<task, written>>
  /\ \A z \in Slots \ {s} : /\ loop'[z] = loop[z] /\ turn'[z] = turn[z]
                            /\ unread'[z] = unread[z]
  /\ Range(unread'[s]) \subseteq Range(unread[s])
  /\ ended \subseteq ended' /\ ended' \subseteq written
  /\ \A a \in Actors : settle'[a] \subseteq ended'
  /\ Range(loop'[s].view) \subseteq written
  /\ LoopHolds(s)' /\ TurnHolds(s)'

(* How one step of the loop of s is seen to be such a step.                *)
LEMMA LoopRowsFrom ==
  ASSUME SessionTypeOK, NEW s \in Slots, NEW l \in Loop, NEW T \in SUBSET Messages,
         NEW q \in MailboxViews,
         loop' = [loop EXCEPT ![s] = l], turn' = [turn EXCEPT ![s] = T],
         unread' = [unread EXCEPT ![s] = q], Range(q) \subseteq Range(unread[s]),
         UNCHANGED <<task, written, runtime>>,
         permit' \in [Slots -> BOOLEAN],
         settle' \in [Actors -> SUBSET Messages],
         \A a \in Actors : settle'[a] \subseteq ended',
         ended \subseteq ended', ended' \subseteq written,
         upsets' \in UpsetRecord,
         Range(l.view) \subseteq written,
         LoopFine(l, batches', s),
         TurnFine(l, T, Range(q), ended', RowsIn(intents', batches', l.op))
  PROVE  LoopRows(s)
<1>1. /\ loop \in [Slots -> Loop] /\ turn \in [Slots -> SUBSET Messages]
      /\ unread \in [Slots -> MailboxViews] /\ written \in SUBSET Messages
      /\ runtime \in [Slots -> RuntimeConstraint] /\ task \in [Workers -> Task]
  BY DEF SessionTypeOK
<1>2. /\ loop'[s] = l /\ turn'[s] = T /\ unread'[s] = q
      /\ \A z \in Slots \ {s} : /\ loop'[z] = loop[z] /\ turn'[z] = turn[z]
                                /\ unread'[z] = unread[z]
  BY <1>1
<1>3. /\ loop' \in [Slots -> Loop] /\ turn' \in [Slots -> SUBSET Messages]
      /\ unread' \in [Slots -> MailboxViews]
  BY <1>1
<1>4. ended' \in SUBSET Messages
  BY <1>1
<1>5. SessionTypeOK'
  BY <1>1, <1>3, <1>4 DEF SessionTypeOK
<1>6. LoopHolds(s)' /\ TurnHolds(s)'
  BY <1>2, HoldsParts
<1> QED BY <1>2, <1>5, <1>6 DEF LoopRows

(* A loop that goes to another stage.                                      *)
LEMMA LoopGoes ==
  ASSUME NEW l \in Loop, NEW at \in Early \cup Held
  PROVE  /\ \A r \in RuntimeConstraint :
              LET x == [l EXCEPT !.at = at, !.seen = r]
              IN  x \in Loop /\ x.at = at /\ x.view = l.view /\ x.op = l.op
         /\ [l EXCEPT !.at = at] \in Loop
         /\ [l EXCEPT !.at = at].at = at
         /\ [l EXCEPT !.at = at].view = l.view
         /\ [l EXCEPT !.at = at].op = l.op
BY DEF Loop

(* Every step of the loop of s.                                            *)
LEMMA LoopRowsStep ==
  ASSUME SessionInv, Inv', [AnyNext]_vars, NEW s \in Slots, Drains(s),
         \A op \in DOMAIN batches : op \in DOMAIN batches' /\ batches'[op] = batches[op]
  PROVE  LoopRows(s)
<1> DEFINE l    == loop[s]
           T    == turn[s]
           box  == Range(unread[s])
           rows == RowsIn(intents, batches, l.op)
<1>0. SessionTypeOK /\ RowsWritten /\ Inv /\ s \in Actors /\ HeldInv /\ TurnInv
  BY TasksAct DEF SessionInv
<1>1. /\ settle \in [Actors -> SUBSET Messages] /\ permit \in [Slots -> BOOLEAN]
      /\ unread \in [Slots -> MailboxViews] /\ turn \in [Slots -> SUBSET Messages]
      /\ upsets \in UpsetRecord /\ written \in SUBSET Messages
      /\ loop \in [Slots -> Loop]
  BY <1>0 DEF SessionTypeOK
<1>2. /\ l \in Loop /\ l.at \in Early \cup Held /\ l.view \in MailboxViews
      /\ l.op \in Nat /\ T \in SUBSET Messages /\ unread[s] \in MailboxViews
  BY <1>0, <1>1, LoopFields
<1>3. LoopFine(l, batches, s) /\ TurnFine(l, T, box, ended, rows)
  BY <1>0, HoldsParts DEF HeldInv, TurnInv
<1>4. LoopFine(l, batches', s)
  BY <1>3 DEF LoopFine
<1>5. l.at \in Held => RowsIn(intents', batches', l.op) = rows
  BY <1>0, <1>3, RowsInKept DEF LoopFine
<1>6. /\ ended \subseteq written /\ \A a \in Actors : settle[a] \subseteq ended
      /\ Range(l.view) \subseteq written /\ box \subseteq written
  BY <1>0 DEF RowsWritten
<1>7. /\ turn = [turn EXCEPT ![s] = T] /\ unread = [unread EXCEPT ![s] = unread[s]]
  BY <1>1
<1>8. ASSUME NEW w \in {1, 2}, NEW b \in BOOLEAN, Upset(w, b)
      PROVE  upsets' \in UpsetRecord
  BY <1>0, <1>8, UpsetType
<1>9. ASSUME NEW at \in Early \cup Held, LoopAt(s, at)
      PROVE  loop' = [loop EXCEPT ![s] = [l EXCEPT !.at = at]]
  BY <1>9 DEF LoopAt
<1>10. Early \cap Held = {}
  BY DEF Early, Held
(* The steps that only go on, before the claim or after the turn.          *)
<1>11. ASSUME NEW x \in Loop, loop' = [loop EXCEPT ![s] = x],
              x.at \in {"waiting", "drain", "publish", "peek"}, x.op = 0,
              Range(x.view) \subseteq written, T = {},
              UNCHANGED <<turn, unread, task, written, runtime>>,
              permit' \in [Slots -> BOOLEAN],
              settle' \in [Actors -> SUBSET Messages],
              \A a \in Actors : settle'[a] \subseteq ended',
              ended \subseteq ended', ended' \subseteq written,
              upsets' \in UpsetRecord
       PROVE  LoopRows(s)
  <2>1. LoopFine(x, batches', s)
    BY <1>11 DEF LoopFine, Early, Held
  <2>2. TurnFine(x, T, box, ended', RowsIn(intents', batches', x.op))
    BY <1>11 DEF TurnFine
  <2>3. turn' = [turn EXCEPT ![s] = T] /\ unread' = [unread EXCEPT ![s] = unread[s]]
    BY <1>7, <1>11
  <2> HIDE DEF T, box
  <2> QED BY <1>0, <1>2, <1>11, <2>1, <2>2, <2>3, LoopRowsFrom DEF T, box
<1>12. ASSUME l.at \notin {"late", "running"}
       PROVE  T = {}
  BY <1>3, <1>12 DEF TurnFine
<1>13. /\ IdleLoop \in Loop /\ IdleLoop.at = "waiting" /\ IdleLoop.op = 0
       /\ Range(IdleLoop.view) = {}
  BY IdleTypes DEF Range
<1>14. CASE Wake(s)
  <2> DEFINE x == [l EXCEPT !.at = "drain"]
  <2>1. /\ l.at = "waiting" /\ loop' = [loop EXCEPT ![s] = x]
        /\ UNCHANGED <<turn, unread, task, written, runtime, settle, ended, upsets>>
        /\ permit' = [permit EXCEPT ![s] = FALSE]
    BY <1>9, <1>14 DEF Wake, Early
  <2>2. x \in Loop /\ x.at = "drain" /\ x.view = l.view /\ x.op = l.op
    BY <1>2, LoopGoes DEF Early
  <2>3. permit' \in [Slots -> BOOLEAN]
    BY <1>1, <2>1
  <2>4. l.op = 0
    BY <1>3, <2>1 DEF LoopFine, Early
  <2> HIDE DEF x, l, T
  <2>5. T = {}
    BY <1>12, <2>1
  <2> QED BY <1>1, <1>6, <1>11, <2>1, <2>2, <2>3, <2>4, <2>5
<1>25. CASE PrepareSnapshot(s)
  <2> DEFINE x == [l EXCEPT !.at = "publish", !.seen = runtime[s]]
  <2>1. /\ l.at = "drain" /\ loop' = [loop EXCEPT ![s] = x]
        /\ UNCHANGED <<turn, unread, task, written, runtime, permit, settle, ended,
                       upsets>>
    BY <1>25 DEF PrepareSnapshot
  <2>2. x \in Loop /\ x.at = "publish" /\ x.view = l.view /\ x.op = l.op
    <3>1. runtime[s] \in RuntimeConstraint /\ "publish" \in Early \cup Held
      BY <1>0 DEF SessionTypeOK, Early
    <3>2. ASSUME NEW r \in RuntimeConstraint
          PROVE  LET y == [l EXCEPT !.at = "publish", !.seen = r]
                 IN  y \in Loop /\ y.at = "publish" /\ y.view = l.view /\ y.op = l.op
      <4> HIDE DEF l
      <4> QED BY <1>2, <3>1 DEF Loop
    <3> HIDE DEF l
    <3> QED BY <3>1, <3>2
  <2>3. l.op = 0
    BY <1>3, <2>1 DEF LoopFine, Early
  <2> HIDE DEF x, l, T
  <2>4. T = {}
    BY <1>12, <2>1
  <2> QED BY <1>1, <1>6, <1>11, <2>1, <2>2, <2>3, <2>4
<1>15. CASE PrepareConstraint(s)
  <2> DEFINE x == [l EXCEPT !.at = "peek", !.seen = "Ready"]
  <2>1. /\ l.at = "publish" /\ loop' = [loop EXCEPT ![s] = x]
        /\ UNCHANGED <<turn, unread, task, written, runtime, permit, upsets>>
        /\ settle' = [settle EXCEPT ![s] = EndedRows]
        /\ ended' = ended \cup EndedRows
    BY <1>15 DEF PrepareConstraint, PublishRuntimeConstraint
  <2>2. x \in Loop /\ x.at = "peek" /\ x.view = l.view /\ x.op = l.op
    BY <1>2, LoopGoes DEF Early, RuntimeConstraint
  <2>3. EndedRows \subseteq written /\ EndedRows \in SUBSET Messages
    BY <1>0, EndedWritten, RowTypes
  <2>4. l.op = 0
    BY <1>3, <2>1 DEF LoopFine, Early
  <2> HIDE DEF x, l, T
  <2>5. T = {}
    BY <1>12, <2>1
  <2>6. /\ settle' \in [Actors -> SUBSET Messages]
        /\ \A a \in Actors : settle'[a] \subseteq ended'
        /\ ended \subseteq ended' /\ ended' \subseteq written
    BY <1>0, <1>1, <1>6, <2>1, <2>3
  <2> QED BY <1>1, <1>6, <1>11, <2>1, <2>2, <2>4, <2>5, <2>6
<1>16. CASE PeekUnread(s)
  <2> DEFINE x == [l EXCEPT !.at = "reconcile", !.view = unread[s]]
  <2>1. /\ l.at = "peek" /\ loop' = [loop EXCEPT ![s] = x]
        /\ UNCHANGED <<turn, unread, task, written, runtime, permit, upsets, settle,
                      ended>>
    BY <1>16 DEF PeekUnread
  <2>2. x \in Loop /\ x.at = "reconcile" /\ x.view = unread[s] /\ x.op = l.op
    <3>1. "reconcile" \in Early \cup Held
      BY DEF Early
    <3> HIDE DEF l
    <3> QED BY <1>2, <3>1 DEF Loop
  <2>3. LoopFine(x, batches', s)
    BY <1>3, <2>1, <2>2 DEF LoopFine, Early, Held
  <2>4. TurnFine(x, T, box, ended', RowsIn(intents', batches', x.op))
    BY <1>3, <2>1, <2>2 DEF TurnFine
  <2> HIDE DEF x
  <2> QED BY <1>0, <1>1, <1>2, <1>6, <1>7, <2>1, <2>2, <2>3, <2>4, LoopRowsFrom
<1>17. CASE PeekFails(s)
  <2>1. /\ l.at = "peek" /\ loop' = [loop EXCEPT ![s] = IdleLoop]
        /\ UNCHANGED <<turn, unread, task, written, runtime, permit, ended>>
        /\ settle' = [settle EXCEPT ![s] = {}] /\ Upset(1, TRUE)
    BY <1>17 DEF PeekFails
  <2>2. upsets' \in UpsetRecord
    BY <1>8, <2>1
  <2>3. T = {}
    BY <1>12, <2>1
  <2>4. /\ settle' \in [Actors -> SUBSET Messages]
        /\ \A a \in Actors : settle'[a] \subseteq ended'
    BY <1>0, <1>1, <1>6, <2>1
  <2> HIDE DEF l, T
  <2> QED BY <1>1, <1>6, <1>11, <1>13, <2>1, <2>2, <2>3, <2>4
<1>18. CASE Reconcile(s)
  <2> DEFINE x == [l EXCEPT !.at = "next"]
  <2>1. /\ l.at = "reconcile" /\ loop' = [loop EXCEPT ![s] = x]
        /\ UNCHANGED <<turn, unread, task, written, runtime, permit, upsets, settle,
                      ended>>
    BY <1>9, <1>18 DEF Reconcile, Early
  <2>2. x \in Loop /\ x.at = "next" /\ x.view = l.view /\ x.op = l.op
    BY <1>2, LoopGoes DEF Early
  <2>3. LoopFine(x, batches', s)
    BY <1>3, <2>1, <2>2 DEF LoopFine, Early, Held
  <2>4. TurnFine(x, T, box, ended', RowsIn(intents', batches', x.op))
    BY <1>3, <2>1, <2>2 DEF TurnFine
  <2> HIDE DEF x
  <2> QED BY <1>0, <1>1, <1>2, <1>6, <1>7, <2>1, <2>2, <2>3, <2>4, LoopRowsFrom
<1>19. CASE LoopNext(s)
  <2>0. /\ l.at = "next"
        /\ UNCHANGED <<turn, unread, task, written, runtime, permit, upsets, settle>>
    BY <1>19 DEF LoopNext
  <2>1. T = {} /\ l.op = 0
    BY <1>3, <1>12, <2>0 DEF LoopFine, Early
  <2>2. ASSUME LoopAt(s, "drain"), UNCHANGED ended
        PROVE  LoopRows(s)
    <3> DEFINE x == [l EXCEPT !.at = "drain"]
    <3>1. x \in Loop /\ x.at = "drain" /\ x.view = l.view /\ x.op = l.op
      BY <1>2, LoopGoes DEF Early
    <3>2. loop' = [loop EXCEPT ![s] = x]
      BY <1>9, <2>2 DEF Early
    <3> HIDE DEF x, l, T
    <3> QED BY <1>1, <1>6, <1>11, <2>0, <2>1, <2>2, <3>1, <3>2
  <2>3. ASSUME loop' = [loop EXCEPT ![s] = IdleLoop], UNCHANGED ended
        PROVE  LoopRows(s)
    <3> HIDE DEF l, T
    <3> QED BY <1>1, <1>6, <1>11, <1>13, <2>0, <2>1, <2>3
  <2>4. ASSUME ClaimBatch(s, s),
               loop' = [loop EXCEPT ![s].at = "prepare", ![s].op = active'[s]],
               ended' = ended \cup ({intents[i].msg : i \in Range(batches'[active'[s]].ids)}
                                    \ Range(loop[s].view))
        PROVE  LoopRows(s)
    <3> DEFINE op == active'[s]
               new == {intents[i].msg : i \in Range(batches'[op].ids)}
               x == [l EXCEPT !.at = "prepare", !.op = op]
    <3>1. Claimed(s)
      BY <1>0, <2>4, ClaimLog
    <3>2. op \in Nat /\ op \in DOMAIN batches' /\ batches'[op].slot = s
      BY <3>1 DEF Claimed
    <3>3. /\ Range(batches'[op].ids) \subseteq Ids
          /\ \A i \in Range(batches'[op].ids) : intents[i].msg \in written
      <4>1. \A i \in Range(batches'[op].ids) : i \in Ids /\ intents[i].msg \in Messages
        BY <3>1 DEF Claimed
      <4>2. \A i \in Ids : intents[i].msg \in written \cup {NoMsg}
        BY <1>0 DEF RowsWritten
      <4>3. NoMsg \notin Messages
        BY CoordinatorAssumption
      <4> QED BY <4>1, <4>2, <4>3
    <3>4. \A i \in Ids : intents'[i].msg = intents[i].msg
      <4>1. TypeOK /\ TypeOK'
        BY <1>0 DEF Inv
      <4>2. LifeKept
        BY <1>0, <4>1, LifeStep DEF Inv
      <4> QED BY <4>1, <4>2, KeptFields
    <3>5. RowsIn(intents', batches', op) \subseteq new /\ new \subseteq written
      BY <3>3, <3>4 DEF RowsIn
    <3>6. loop' = [loop EXCEPT ![s] = x]
      BY <2>4
    <3>7. x \in Loop /\ x.at = "prepare" /\ x.view = l.view /\ x.op = op
      <4>1. "prepare" \in Early \cup Held
        BY DEF Held
      <4> HIDE DEF op, l
      <4> QED BY <1>2, <3>2, <4>1 DEF Loop
    <3>8. ended' = ended \cup (new \ Range(l.view))
      BY <2>4
    <3> HIDE DEF x, op, new
    <3>9. LoopFine(x, batches', s)
      BY <3>2, <3>7 DEF LoopFine, Early, Held
    <3>10. TurnFine(x, T, box, ended', RowsIn(intents', batches', x.op))
      BY <1>3, <2>0, <3>5, <3>7, <3>8 DEF TurnFine
    <3>11. /\ ended \subseteq ended' /\ ended' \subseteq written
           /\ \A a \in Actors : settle'[a] \subseteq ended'
      BY <1>6, <2>0, <3>5, <3>8
    <3> QED BY <1>0, <1>1, <1>2, <1>6, <1>7, <2>0, <3>6, <3>7, <3>9, <3>10, <3>11,
               LoopRowsFrom
  <2> QED BY <1>19, <2>2, <2>3, <2>4 DEF LoopNext
<1>20. CASE PrepareFails(s)
  <2>1. /\ l.at = "prepare" /\ loop' = [loop EXCEPT ![s] = IdleLoop]
        /\ UNCHANGED <<turn, unread, task, written, runtime, permit, ended, settle>>
        /\ Upset(1, TRUE) \/ Wedges
    BY <1>20, Zenon DEF PrepareFails
  <2>2. upsets' \in UpsetRecord
    BY <1>0, <1>8, <2>1, WedgesType
  <2>3. T = {}
    BY <1>12, <2>1
  <2> HIDE DEF l, T
  <2> QED BY <1>1, <1>6, <1>11, <1>13, <2>1, <2>2, <2>3
<1>21. CASE TurnStarts(s)
  <2> DEFINE at == IF IsCurrentBatch(l.op) /\ (paused[s] \/ constraint[s] # "Ready")
                   THEN "late" ELSE "running"
             x  == [l EXCEPT !.at = at]
             U  == rows \cap Range(l.view)
  <2>1. /\ l.at = "prepare" /\ LoopAt(s, at)
        /\ turn' = [turn EXCEPT ![s] = BatchRows(l.op) \cap Range(l.view)]
        /\ UNCHANGED <<unread, task, written, runtime, permit, ended, settle, upsets>>
    BY <1>21 DEF TurnStarts
  <2>2. turn' = [turn EXCEPT ![s] = U]
    BY <2>1 DEF BatchRows, BatchIds, RowsIn
  <2>3. at \in {"late", "running"}
    OBVIOUS
  <2> HIDE DEF at
  <2>4. at \in Early \cup Held
    BY <2>3 DEF Held
  <2>5. x \in Loop /\ x.at = at /\ x.view = l.view /\ x.op = l.op
    BY <1>2, <2>4, LoopGoes
  <2>6. loop' = [loop EXCEPT ![s] = x]
    BY <1>9, <2>1, <2>4
  <2> HIDE DEF x
  <2>7. LoopFine(x, batches', s)
    BY <1>4, <2>1, <2>3, <2>5 DEF LoopFine, Early, Held
  <2>8. RowsIn(intents', batches', x.op) = rows
    BY <1>5, <2>1, <2>5 DEF Held
  <2>9. TurnFine(x, U, box, ended', RowsIn(intents', batches', x.op))
    BY <1>3, <2>1, <2>3, <2>5, <2>8 DEF TurnFine
  <2>10. U \in SUBSET Messages
    BY <1>1, <1>6
  <2> HIDE DEF U
  <2> QED BY <1>0, <1>1, <1>2, <1>6, <1>7, <2>1, <2>2, <2>5, <2>6, <2>7, <2>9, <2>10,
             LoopRowsFrom
<1>22. CASE CancelLateStart(s) \/ TurnStartFails(s)
  <2> DEFINE at == IF CancelLateStart(s) THEN "running" ELSE "unstarted"
             x  == [l EXCEPT !.at = at]
  <2>1. /\ LoopAt(s, at)
        /\ IF at = "running" THEN l.at = "late" /\ ended' = ended
           ELSE l.at = "prepare" /\ ended' = ended \cup BatchRows(l.op)
        /\ UNCHANGED <<turn, unread, task, written, runtime, permit, settle, upsets>>
    BY <1>22 DEF CancelLateStart, TurnStartFails
  <2>2. BatchRows(l.op) = rows
    BY DEF BatchRows, BatchIds, RowsIn
  <2>3. at \in {"running", "unstarted"}
    OBVIOUS
  <2> HIDE DEF at
  <2>4. at \in Early \cup Held
    BY <2>3 DEF Held
  <2>5. x \in Loop /\ x.at = at /\ x.view = l.view /\ x.op = l.op
    BY <1>2, <2>4, LoopGoes
  <2>6. loop' = [loop EXCEPT ![s] = x]
    BY <1>9, <2>1, <2>4
  <2> HIDE DEF x
  <2>7. LoopFine(x, batches', s)
    BY <1>4, <2>1, <2>3, <2>5 DEF LoopFine, Early, Held
  <2>8. RowsIn(intents', batches', x.op) = rows
    BY <1>5, <2>1, <2>5 DEF Held
  <2>9. TurnFine(x, T, box, ended', RowsIn(intents', batches', x.op))
    BY <1>3, <2>1, <2>2, <2>3, <2>5, <2>8 DEF TurnFine
  <2>10. ended \subseteq ended' /\ ended' \subseteq written
    BY <1>3, <1>6, <2>1, <2>2, <2>3 DEF TurnFine
  <2>11. \A a \in Actors : settle'[a] \subseteq ended'
    BY <1>6, <2>1, <2>10
  <2> QED BY <1>0, <1>1, <1>2, <1>6, <1>7, <2>1, <2>5, <2>6, <2>7, <2>9, <2>10,
             <2>11, LoopRowsFrom
<1>23. CASE MarkBatchRead(s)
  <2>1. /\ l.at \in {"running", "unstarted"}
        /\ turn' = [turn EXCEPT ![s] = {}]
        /\ UNCHANGED <<task, written, runtime, permit, settle, ended>>
        /\ LoopAt(s, "complete") \/ LoopAt(s, "fail")
    BY <1>23 DEF MarkBatchRead
  <2>2. PICK at \in {"complete", "fail"} : LoopAt(s, at)
    BY <2>1
  <2> DEFINE x == [l EXCEPT !.at = at]
  <2>3. at \in Early \cup Held
    BY <2>2 DEF Held
  <2>4. x \in Loop /\ x.at = at /\ x.view = l.view /\ x.op = l.op
    BY <1>2, <2>3, LoopGoes
  <2>5. loop' = [loop EXCEPT ![s] = x]
    BY <1>9, <2>2, <2>3
  <2> HIDE DEF x
  <2>6. LoopFine(x, batches', s)
    BY <1>4, <2>1, <2>2, <2>4 DEF LoopFine, Early, Held
  <2>7. \A q : TurnFine(x, {}, q, ended', RowsIn(intents', batches', x.op))
    BY <2>4 DEF TurnFine
  <2>8. PICK q \in MailboxViews : /\ unread' = [unread EXCEPT ![s] = q]
                                  /\ Range(q) \subseteq Range(unread[s])
                                  /\ upsets' \in UpsetRecord
    <3>1. CASE /\ unread' = [unread EXCEPT ![s] = Without(@, BatchRows(l.op))]
               /\ UNCHANGED upsets
      <4>1. /\ Without(unread[s], BatchRows(l.op)) \in MailboxViews
            /\ Range(Without(unread[s], BatchRows(l.op))) \subseteq Range(unread[s])
        BY <1>2, ViewWithout
      <4>2. unread' = [unread EXCEPT ![s] = Without(unread[s], BatchRows(l.op))]
        BY <3>1
      <4> QED BY <1>1, <3>1, <4>1, <4>2
    <3>2. CASE Upset(1, FALSE) /\ UNCHANGED unread
      <4>1. upsets' \in UpsetRecord
        BY <1>8, <3>2
      <4> QED BY <1>2, <1>7, <3>2, <4>1
    <3> QED BY <1>23, <3>1, <3>2 DEF MarkBatchRead
  <2>9. TurnFine(x, {}, Range(q), ended', RowsIn(intents', batches', x.op))
    BY <2>7
  <2>10. {} \in SUBSET Messages
    OBVIOUS
  <2> QED BY <1>0, <1>1, <1>2, <1>6, <2>1, <2>4, <2>5, <2>6, <2>8, <2>9, <2>10,
             LoopRowsFrom
<1>24. CASE FinishBatch(s)
  <2> DEFINE x == [IdleLoop EXCEPT !.at = "drain"]
  <2>1. /\ l.at \in {"complete", "fail"} /\ loop' = [loop EXCEPT ![s] = x]
        /\ UNCHANGED <<turn, unread, task, written, runtime, permit, ended, settle,
                      upsets>>
    BY <1>24 DEF FinishBatch
  <2>2. x \in Loop /\ x.at = "drain" /\ x.view = IdleLoop.view /\ x.op = 0
    BY <1>13, LoopGoes DEF Early
  <2>3. T = {}
    BY <1>12, <2>1
  <2> HIDE DEF l, T, x
  <2> QED BY <1>1, <1>6, <1>11, <1>13, <2>1, <2>2, <2>3
<1> QED BY <1>14, <1>15, <1>16, <1>17, <1>18, <1>19, <1>20, <1>21, <1>22, <1>23, <1>24,
           <1>25
        DEF Drains

------------------------------------------------------------------------------
(* Every step of the session keeps the invariant.                          *)

(* A slot whose loop does not move, while rows are written or ended.       *)
LEMMA LoopStays ==
  ASSUME Inv, Inv', [AnyNext]_vars, NEW s \in Slots, LoopHolds(s), TurnHolds(s),
         SessionTypeOK,
         \A op \in DOMAIN batches : op \in DOMAIN batches' /\ batches'[op] = batches[op],
         loop'[s] = loop[s], turn'[s] = turn[s], ended \subseteq ended',
         Range(unread[s]) \subseteq Range(unread'[s]) \cup ended'
  PROVE  LoopHolds(s)' /\ TurnHolds(s)'
<1> DEFINE l == loop[s]
           rows == RowsIn(intents, batches, l.op)
           new  == RowsIn(intents', batches', l.op)
<1>1. /\ LoopFine(l, batches, s) /\ l.at \in Early \cup Held
      /\ TurnFine(l, turn[s], Range(unread[s]), ended, rows)
  BY HoldsParts, LoopFields
<1>2. LoopFine(l, batches', s)
  BY <1>1 DEF LoopFine
<1>3. l.at \in Held => new = rows
  BY <1>1, RowsInKept DEF LoopFine
<1>4. TurnFine(l, turn[s], Range(unread'[s]), ended', new)
  <2> HIDE DEF l, rows, new
  <2>1. CASE l.at \in Held
    BY <1>1, <1>3, <2>1 DEF TurnFine, Held
  <2>2. CASE l.at \in Early
    BY <1>1, <2>2 DEF TurnFine, Early
  <2> QED BY <1>1, <2>1, <2>2
<1> QED BY <1>2, <1>4, HoldsParts

(* The intents stay about written rows.                                    *)
LEMMA IntentRows ==
  ASSUME Inv, Inv', [AnyNext]_vars, RowsWritten, written \subseteq written',
         \A i \in Ids' : i \in Ids \/ intents'[i].msg \in written \cup {NoMsg}
  PROVE  \A i \in Ids' : intents'[i].msg \in written' \cup {NoMsg}
<1>1. TypeOK /\ TypeOK' /\ LifeKept
  BY LifeStep DEF Inv
<1>2. \A i \in Ids : intents'[i].msg = intents[i].msg
  BY <1>1, KeptFields
<1> QED BY <1>2 DEF RowsWritten

LEMMA WorkerKeeps ==
  ASSUME SessionInv, Inv', [AnyNext]_vars, SessionTypeOK', NEW c \in Workers,
         WorkerRows(c),
         \A op \in DOMAIN batches : op \in DOMAIN batches' /\ batches'[op] = batches[op],
         \A i \in Ids' : i \in Ids \/ intents'[i].msg \in written \cup {NoMsg}
  PROVE  SessionInv'
<1>0. /\ SessionTypeOK /\ RowsWritten /\ Inv
      /\ \A s \in Slots : LoopHolds(s) /\ TurnHolds(s)
      /\ CancellerHolds /\ ScanHolds
  BY DEF SessionInv, HeldInv, TurnInv
<1>1. /\ written \subseteq written'
      /\ \A s \in Slots : /\ Range(unread[s]) \subseteq Range(unread'[s])
                          /\ Range(unread'[s]) \subseteq written'
  <2>1. CASE UNCHANGED <<unread, written>>
    BY <1>0, <2>1 DEF RowsWritten
  <2>2. CASE WriteRow(c)
    <3> DEFINE m == NewRow
               z == task[c].slot
    <3>1. /\ unread' = [unread EXCEPT ![z] = Append(unread[z], m)]
          /\ written' = written \cup {m} /\ written # Messages
      BY <2>2 DEF WriteRow
    <3>2. m \in Messages /\ m \notin written
      BY <1>0, <3>1 DEF NewRow, SessionTypeOK
    <3> HIDE DEF m
    <3>3. z \in Slots /\ unread \in [Slots -> MailboxViews] /\ m \notin Range(unread[z])
      BY <1>0, <3>2, TaskFields DEF SessionTypeOK, RowsWritten
    <3>4. Range(Append(unread[z], m)) = Range(unread[z]) \cup {m}
      BY <3>2, <3>3, ViewAppend
    <3>5. \A s \in Slots : \/ unread'[s] = unread[s]
                           \/ s = z /\ Range(unread'[s]) = Range(unread[z]) \cup {m}
      BY <3>1, <3>3, <3>4
    <3> QED BY <1>0, <3>1, <3>5 DEF RowsWritten
  <2> QED BY <2>1, <2>2 DEF WorkerRows
<1>2. \A s \in Slots : LoopHolds(s)' /\ TurnHolds(s)'
  <2> TAKE s \in Slots
  <2>1. loop'[s] = loop[s] /\ turn'[s] = turn[s] /\ ended \subseteq ended'
    BY DEF WorkerRows
  <2> QED BY <1>0, <1>1, <2>1, LoopStays
<1>3. PICK t : TaskFine(t, written') /\ task' = [task EXCEPT ![c] = t]
  BY DEF WorkerRows
<1>4. \A d \in Workers : task'[d] = t \/ task'[d] = task[d]
  BY <1>0, <1>3 DEF SessionTypeOK
<1>5. CancellerHolds' /\ ScanHolds'
  <2>1. CancellerHolds'
    BY <1>0, <1>3, <1>4 DEF CancellerHolds, TaskFine
  <2>2. ScanHolds'
    BY <1>0, <1>3, <1>4 DEF ScanHolds, TaskFine
  <2> QED BY <2>1, <2>2
<1>6. \A d \in Workers : /\ task'[d].msg \in written' \cup {NoMsg}
                         /\ Range(task'[d].list) \subseteq written'
  BY <1>0, <1>1, <1>3, <1>4 DEF RowsWritten, TaskFine
<1>7. \A i \in Ids' : intents'[i].msg \in written' \cup {NoMsg}
  BY <1>0, <1>1, IntentRows
<1>8. /\ ended' \subseteq written' /\ \A a \in Actors : settle'[a] \subseteq ended'
      /\ \A s \in Slots : Range(loop'[s].view) \subseteq written'
  BY <1>0, <1>1 DEF WorkerRows, RowsWritten
<1>9. RowsWritten'
  BY <1>1, <1>6, <1>7, <1>8 DEF RowsWritten
<1> QED BY <1>2, <1>5, <1>9 DEF SessionInv, HeldInv, TurnInv

LEMMA LoopKeeps ==
  ASSUME SessionInv, Inv', [AnyNext]_vars, NEW s \in Slots, LoopRows(s),
         \A op \in DOMAIN batches : op \in DOMAIN batches' /\ batches'[op] = batches[op],
         \A i \in Ids' : i \in Ids \/ intents'[i].msg \in written \cup {NoMsg}
  PROVE  SessionInv'
<1>0. /\ SessionTypeOK /\ RowsWritten /\ Inv
      /\ \A z \in Slots : LoopHolds(z) /\ TurnHolds(z)
      /\ CancellerHolds /\ ScanHolds
  BY DEF SessionInv, HeldInv, TurnInv
<1>1. \A z \in Slots : LoopHolds(z)' /\ TurnHolds(z)'
  <2> TAKE z \in Slots
  <2>1. CASE z = s
    BY <2>1 DEF LoopRows
  <2>2. CASE z # s
    <3>1. /\ loop'[z] = loop[z] /\ turn'[z] = turn[z] /\ ended \subseteq ended'
          /\ unread'[z] = unread[z]
      BY <2>2 DEF LoopRows
    <3> QED BY <1>0, <3>1, LoopStays
  <2> QED BY <2>1, <2>2
<1>2. CancellerHolds' /\ ScanHolds'
  <2>1. task' = task
    BY DEF LoopRows
  <2>2. CancellerHolds'
    BY <1>0, <2>1 DEF CancellerHolds
  <2>3. ScanHolds'
    BY <1>0, <2>1 DEF ScanHolds
  <2> QED BY <2>2, <2>3
<1>3. \A i \in Ids' : intents'[i].msg \in written' \cup {NoMsg}
  BY <1>0, IntentRows DEF LoopRows
<1>4. \A z \in Slots : /\ Range(unread'[z]) \subseteq written'
                       /\ Range(loop'[z].view) \subseteq written'
  BY <1>0 DEF LoopRows, RowsWritten
<1>5. RowsWritten'
  BY <1>0, <1>3, <1>4 DEF LoopRows, RowsWritten
<1>6. SessionTypeOK'
  BY DEF LoopRows
<1> QED BY <1>1, <1>2, <1>5, <1>6 DEF SessionInv, HeldInv, TurnInv

(* Rows marked read without a turn have ended.                             *)
LEMMA MarkReadKeeps ==
  ASSUME SessionInv, Inv', [AnyNext]_vars, NEW a \in Actors, MarkRead(a)
  PROVE  SessionInv'
<1>0. /\ SessionTypeOK /\ RowsWritten /\ Inv
      /\ \A s \in Slots : LoopHolds(s) /\ TurnHolds(s)
      /\ CancellerHolds /\ ScanHolds
  BY DEF SessionInv, HeldInv, TurnInv
<1>1. /\ unread' = [s \in Slots |-> Without(unread[s], settle[a])]
      /\ settle' = [settle EXCEPT ![a] = {}]
      /\ UNCHANGED <<intents, batches, written, runtime, permit, loop, task, turn, ended,
                     upsets>>
  BY DEF MarkRead, vars
<1>2. \A s \in Slots : /\ unread'[s] \in MailboxViews
                       /\ Range(unread'[s]) = Range(unread[s]) \ settle[a]
  BY <1>0, <1>1, ViewWithout DEF SessionTypeOK
<1>3. unread' \in [Slots -> MailboxViews]
  BY <1>1, <1>2
<1>4. /\ settle' \in [Actors -> SUBSET Messages]
      /\ \A b \in Actors : settle'[b] \subseteq settle[b]
  BY <1>0, <1>1 DEF SessionTypeOK
<1>5. SessionTypeOK'
  BY <1>0, <1>1, <1>3, <1>4 DEF SessionTypeOK
<1>6. \A s \in Slots : LoopHolds(s)' /\ TurnHolds(s)'
  <2> TAKE s \in Slots
  <2>1. /\ loop'[s] = loop[s] /\ turn'[s] = turn[s] /\ ended \subseteq ended'
        /\ \A op \in DOMAIN batches : op \in DOMAIN batches' /\ batches'[op] = batches[op]
    BY <1>1
  <2>2. Range(unread[s]) \subseteq Range(unread'[s]) \cup ended'
    BY <1>0, <1>1, <1>2 DEF RowsWritten
  <2> QED BY <1>0, <2>1, <2>2, LoopStays
<1>7. CancellerHolds' /\ ScanHolds'
  BY <1>0, <1>1 DEF CancellerHolds, ScanHolds
<1>8. RowsWritten'
  BY <1>0, <1>1, <1>2, <1>4 DEF RowsWritten, Ids
<1> QED BY <1>5, <1>6, <1>7, <1>8 DEF SessionInv, HeldInv, TurnInv

(* A report changes nothing of the session.                                *)
LEMMA ReportKeeps ==
  ASSUME SessionInv, Inv', [AnyNext]_vars, UNCHANGED sessionVars,
         \A op \in DOMAIN batches : op \in DOMAIN batches' /\ batches'[op] = batches[op],
         \A i \in Ids' : i \in Ids \/ intents'[i].msg \in written \cup {NoMsg}
  PROVE  SessionInv'
<1>0. /\ SessionTypeOK /\ RowsWritten /\ Inv
      /\ \A s \in Slots : LoopHolds(s) /\ TurnHolds(s)
      /\ CancellerHolds /\ ScanHolds
  BY DEF SessionInv, HeldInv, TurnInv
<1>1. UNCHANGED <<unread, written, runtime, permit, loop, task, settle, turn, ended,
                  upsets>>
  BY DEF sessionVars
<1>2. SessionTypeOK'
  BY <1>0, <1>1 DEF SessionTypeOK
<1>3. \A s \in Slots : LoopHolds(s)' /\ TurnHolds(s)'
  BY <1>0, <1>1, LoopStays
<1>4. CancellerHolds' /\ ScanHolds'
  BY <1>0, <1>1 DEF CancellerHolds, ScanHolds
<1>5. \A i \in Ids' : intents'[i].msg \in written' \cup {NoMsg}
  BY <1>0, <1>1, IntentRows
<1>6. RowsWritten'
  BY <1>0, <1>1, <1>5 DEF RowsWritten
<1> QED BY <1>2, <1>3, <1>4, <1>6 DEF SessionInv, HeldInv, TurnInv

(* What a session starts with, the first time or after a crash.            *)
LEMMA StartFacts ==
  /\ AtStart(IdleLoop) \in [Slots -> Loop]
  /\ StartTasks \in [Workers -> Task]
  /\ \A c \in Workers : /\ StartTasks[c].at \in {"idle", "scan"}
                        /\ StartTasks[c].msg = NoMsg /\ StartTasks[c].list = <<>>
  /\ \A s \in Slots : /\ AtStart(IdleLoop)[s] = IdleLoop
                      /\ AtStart({})[s] = {} /\ AtStart(<<>>)[s] = <<>>
  /\ AtStart("Ready") \in [Slots -> RuntimeConstraint]
  /\ AtStart(FALSE) \in [Slots -> BOOLEAN]
  /\ AtStart({}) \in [Slots -> SUBSET Messages]
  /\ AtStart(<<>>) \in [Slots -> MailboxViews]
  /\ Range(<<>>) = {}
<1>1. /\ IdleLoop \in Loop /\ IdleTask \in Task /\ IdleTask.at = "idle"
      /\ IdleTask.msg = NoMsg /\ IdleTask.list = <<>>
  BY IdleTypes
<1>2. /\ [IdleTask EXCEPT !.at = "scan", !.scan = Slots] \in Task
      /\ [IdleTask EXCEPT !.at = "scan", !.scan = Slots].at = "scan"
      /\ [IdleTask EXCEPT !.at = "scan", !.scan = Slots].msg = NoMsg
      /\ [IdleTask EXCEPT !.at = "scan", !.scan = Slots].list = <<>>
  <2>1. "scan" \in TaskStages
    BY DEF TaskStages
  <2> QED BY <1>1, <2>1 DEF Task
<1> DEFINE t == [IdleTask EXCEPT !.at = "scan", !.scan = Slots]
<1>3. StartTasks = [c \in Workers |-> IF c = Recovery THEN t ELSE IdleTask]
  BY DEF StartTasks
<1> HIDE DEF t
<1>4. t \in Task /\ t.at = "scan" /\ t.msg = NoMsg /\ t.list = <<>>
  BY <1>2 DEF t
<1>5. /\ StartTasks \in [Workers -> Task]
      /\ \A c \in Workers : /\ StartTasks[c].at \in {"idle", "scan"}
                            /\ StartTasks[c].msg = NoMsg /\ StartTasks[c].list = <<>>
  BY <1>1, <1>3, <1>4
<1>6. <<>> \in MailboxViews /\ Range(<<>>) = {}
  BY DEF MailboxViews, IsInjective, Range
<1>7. AtStart(<<>>) \in [Slots -> MailboxViews]
  BY <1>6 DEF AtStart
<1> QED BY <1>1, <1>5, <1>6, <1>7 DEF AtStart, RuntimeConstraint

LEMMA CrashKeeps ==
  ASSUME SessionInv, CrashRestart
  PROVE  SessionInv'
<1>0. SessionTypeOK /\ RowsWritten
  BY DEF SessionInv
<1>1. Inv'
  BY CrashInv
<1>2. /\ intents' = <<>> /\ runtime' = AtStart("Ready") /\ permit' = AtStart(FALSE)
      /\ loop' = AtStart(IdleLoop) /\ task' = StartTasks /\ turn' = AtStart({})
      /\ settle' = [a \in Actors |-> {}] /\ Upset(1, FALSE)
      /\ UNCHANGED <<unread, written, ended>>
  BY DEF CrashRestart
<1>3. upsets' \in UpsetRecord
  BY <1>0, <1>2, UpsetType
<1>4. SessionTypeOK'
  BY <1>0, <1>2, <1>3, StartFacts DEF SessionTypeOK
<1>5. IdleLoop.at = "waiting" /\ IdleLoop.op = 0 /\ IdleLoop.view = <<>>
  BY IdleTypes
<1>6. \A s \in Slots : loop'[s] = IdleLoop /\ turn'[s] = {}
  BY <1>2, StartFacts
<1>7. \A s \in Slots : LoopHolds(s)' /\ TurnHolds(s)'
  BY <1>5, <1>6 DEF LoopHolds, TurnHolds, Early, Held
<1>8. CancellerHolds' /\ ScanHolds'
  BY <1>2, StartFacts DEF CancellerHolds, ScanHolds
<1>9. Ids' = {}
  BY <1>2 DEF Ids
<1>10. RowsWritten'
  BY <1>0, <1>2, <1>5, <1>6, <1>9, StartFacts DEF RowsWritten
<1> QED BY <1>1, <1>4, <1>7, <1>8, <1>10 DEF SessionInv, HeldInv, TurnInv

LEMMA SessionInvInit == SessionInit => SessionInv
<1> SUFFICES ASSUME SessionInit PROVE SessionInv
  OBVIOUS
<1>1. /\ intents = <<>> /\ queue = AtStart(EmptyQueues)
      /\ active = AtStart(0) /\ batches = <<>>
      /\ paused = AtStart(FALSE) /\ removed = AtStart(FALSE)
      /\ constraint = AtStart("Ready") /\ runtime = AtStart("Ready")
      /\ leases = {} /\ run = NoRunRecord /\ runs = 0
      /\ todo = [a \in Actors |-> <<>>]
      /\ permit = AtStart(FALSE) /\ loop = AtStart(IdleLoop)
      /\ task = StartTasks /\ turn = AtStart({})
      /\ settle = [a \in Actors |-> {}]
      /\ unread = AtStart(<<>>) /\ written = {} /\ ended = {}
      /\ upsets = [count |-> 0, wedged |-> FALSE, missed |-> FALSE]
  BY DEF SessionInit
<1>2. TypeOK
  BY <1>1, MaxRunsAssumption
  DEF TypeOK, AtStart, EmptyQueues, RuntimeConstraint, TeamRunRecord,
      NoRunRecord, RunStatus, RunIds, NoRun
<1>3. WorkOwnedOnce
  <2>1. Ids = {} /\ DOMAIN batches = {}
    BY <1>1 DEF Ids
  <2>2. \A s \in Slots, p \in Priorities : queue[s][p] = <<>> /\ active[s] = 0
    BY <1>1 DEF AtStart, EmptyQueues
  <2>3. Range(<<>>) = {} /\ IsInjective(<<>>)
    BY DEF Range, IsInjective
  <2>4. QueueHoldsWaiting /\ QueuesDistinct
    BY <2>2, <2>3 DEF QueueHoldsWaiting, QueuesDistinct
  <2>5. WaitingIsQueued /\ BatchesWellFormed /\ ExecutingIsInBatch
    BY <2>1 DEF WaitingIsQueued, BatchesWellFormed, ExecutingIsInBatch
  <2>6. \A s \in Slots : active[s] = 0
    BY <1>1 DEF AtStart
  <2>7. BatchHoldsExecuting
    BY <2>6 DEF BatchHoldsExecuting
  <2> QED BY <2>4, <2>5, <2>7 DEF WorkOwnedOnce
<1>4. SessionTypeOK
  BY <1>1, StartFacts DEF SessionTypeOK, UpsetRecord
<1>5. IdleLoop.at = "waiting" /\ IdleLoop.op = 0 /\ IdleLoop.view = <<>>
  BY IdleTypes
<1>6. \A s \in Slots : loop[s] = IdleLoop /\ turn[s] = {} /\ unread[s] = <<>>
  BY <1>1, StartFacts
<1>7. \A s \in Slots : LoopHolds(s) /\ TurnHolds(s)
  BY <1>5, <1>6 DEF LoopHolds, TurnHolds, Early, Held
<1>8. CancellerHolds /\ ScanHolds
  BY <1>1, StartFacts DEF CancellerHolds, ScanHolds
<1>9. RowsWritten
  BY <1>1, <1>5, <1>6, StartFacts DEF RowsWritten, Ids
<1> QED BY <1>2, <1>3, <1>4, <1>7, <1>8, <1>9 DEF SessionInv, HeldInv, TurnInv, Inv

(* The steps of the session, crashes apart.                                *)
LEMMA SessionInvNext ==
  ASSUME SessionInv, SessionNext, ~CrashRestart
  PROVE  SessionInv'
<1>0. Inv
  BY DEF SessionInv
<1>1. [AnyNext]_vars
  BY SessionIsAny
<1>2. Inv'
  BY <1>0, <1>1, InvStep
<1>3. /\ \A op \in DOMAIN batches : op \in DOMAIN batches' /\ batches'[op] = batches[op]
      /\ \A i \in Ids' : i \in Ids \/ intents'[i].msg \in written \cup {NoMsg}
  BY SessionLog
<1>4. ASSUME NEW c \in Workers,
             Enqueues(c) \/ Controls(c) \/ (c = Recovery /\ (ScanSlot \/ ScanNext))
      PROVE  SessionInv'
  <2>1. WorkerRows(c) /\ SessionTypeOK'
    BY <1>4, WorkerRowsStep, WorkerTypes
  <2> QED BY <1>1, <1>2, <1>3, <2>1, WorkerKeeps
<1>5. ASSUME NEW s \in Slots, Drains(s)
      PROVE  SessionInv'
  <2>1. LoopRows(s)
    BY <1>1, <1>2, <1>3, <1>5, LoopRowsStep
  <2> QED BY <1>1, <1>2, <1>3, <2>1, LoopKeeps
<1>6. ASSUME NEW a \in Actors, MarkRead(a)
      PROVE  SessionInv'
  BY <1>1, <1>2, <1>6, MarkReadKeeps
<1>7. ASSUME NEW a \in Actors, Reports(a)
      PROVE  SessionInv'
  <2>1. UNCHANGED sessionVars
    BY <1>7 DEF Reports
  <2> QED BY <1>1, <1>2, <1>3, <2>1, ReportKeeps
<1>8. Clients \subseteq Workers /\ Recovery \in Workers
  BY DEF Workers
<1> QED BY <1>4, <1>5, <1>6, <1>7, <1>8 DEF SessionNext

LEMMA SessionInvStep ==
  ASSUME SessionInv, [SessionNext]_allVars
  PROVE  SessionInv'
<1>1. CASE CrashRestart
  BY <1>1, CrashKeeps
<1>2. CASE SessionNext /\ ~CrashRestart
  BY <1>2, SessionInvNext
<1>3. CASE UNCHANGED allVars
  <2>1. UNCHANGED vars /\ UNCHANGED sessionVars
    BY <1>3 DEF allVars
  <2>2. Inv' /\ [AnyNext]_vars
    BY <2>1, InvStep DEF SessionInv
  <2>3. /\ \A op \in DOMAIN batches : op \in DOMAIN batches' /\ batches'[op] = batches[op]
        /\ \A i \in Ids' : i \in Ids
    BY <2>1 DEF vars, Ids
  <2> QED BY <2>1, <2>2, <2>3, ReportKeeps
<1> QED BY <1>1, <1>2, <1>3

(* In a running session, crashes and failed database calls included, the   *)
(* coordinator keeps its types and the ownership of its work, every row    *)
(* anybody refers to was written to the mailbox, and what an event loop    *)
(* holds is a batch of its slot made of rows it peeked or that ended.      *)
THEOREM SessionCorrect == SessionSpec => []SessionInv
<1>1. SessionInit => SessionInv
  BY SessionInvInit
<1>2. SessionInv /\ [SessionNext]_allVars => SessionInv'
  BY SessionInvStep
<1> QED BY <1>1, <1>2, PTL DEF SessionSpec

(* The tasks of a session use the coordinator as its free callers in       *)
(* SlotWorkCoordinator do, and a restart leaves it as new: every intent    *)
(* is in exactly the place its state says, inside a session too.           *)
THEOREM SessionOwnership == SessionSpec => [](TypeOK /\ WorkOwnedOnce)
<1>1. SessionInv => TypeOK /\ WorkOwnedOnce
  BY DEF SessionInv, Inv
<1> QED BY <1>1, SessionCorrect, PTL

------------------------------------------------------------------------------
(* Who executes a batch.                                                   *)

(* A failure to prepare a batch is not forgotten, nor a row left behind.   *)
LEMMA WedgedStays ==
  ASSUME SessionTypeOK, SessionNext
  PROVE  /\ upsets.wedged => upsets'.wedged
         /\ upsets.missed => upsets'.missed
<1> DEFINE Good == \/ upsets' = upsets
                   \/ \E w \in {1, 2}, b \in BOOLEAN : Upset(w, b)
                   \/ \E b \in BOOLEAN : Leaves(b)
                   \/ \E c \in Workers : WriteFails(c)
                   \/ Wedges
                   \/ upsets' = [upsets EXCEPT !.count = upsets.count + 1]
<1>0. /\ \A c : (GivesUpScan(c) \/ Stale(c)) \in BOOLEAN
      /\ \A c : (task[c].at = "Failed" /\ runtime[task[c].slot] = "Ready") \in BOOLEAN
  BY DEF GivesUpScan, Stale
<1>1. ASSUME NEW c \in Workers, Enqueues(c)
      PROVE  Good
  BY <1>0, <1>1, Zenon DEF Enqueues, StartEnqueue, StartSignal, Requested, PublishSnapshot,
     Acquire, WriteRow, Commit, CommitRefused, Notified, ReadFails
<1>2. ASSUME NEW c, Controls(c)
      PROVE  Good
  BY <1>0, <1>2, Zenon DEF Controls, StartCancelRun, CancelRunWork, CancelBatch, StartPause,
     StartCancelChild, StartAttach, AttachBegins, AttachCommits, AttachPublishes
<1>3. ASSUME NEW s, Drains(s)
      PROVE  Good
  BY <1>3, Zenon DEF Drains, Wake, PrepareSnapshot, PrepareConstraint, PeekUnread, PeekFails, Reconcile,
     LoopNext, PrepareFails, TurnStarts, CancelLateStart, TurnStartFails, MarkBatchRead,
     FinishBatch
<1>4. ASSUME ScanSlot \/ ScanNext \/ CrashRestart
      PROVE  Good
  BY <1>4, Zenon DEF ScanSlot, ScanNext, CrashRestart
<1>5. ASSUME NEW a, MarkRead(a) \/ Reports(a)
      PROVE  Good
  BY <1>5, Zenon DEF MarkRead, Reports, sessionVars
<1>6. Good
  <2> HIDE DEF Good
  <2> QED BY <1>1, <1>2, <1>3, <1>4, <1>5, Zenon DEF SessionNext
<1>7. ASSUME NEW w \in {1, 2}, NEW b \in BOOLEAN, Upset(w, b)
      PROVE  /\ upsets.wedged => upsets'.wedged
             /\ upsets.missed => upsets'.missed
  BY <1>7, UpsetType
<1>8. ASSUME NEW b \in BOOLEAN, Leaves(b)
      PROVE  /\ upsets.wedged => upsets'.wedged
             /\ upsets.missed => upsets'.missed
  BY <1>8, LeavesType
<1>9. ASSUME upsets' = [upsets EXCEPT !.count = upsets.count + 1]
      PROVE  upsets'.wedged = upsets.wedged /\ upsets'.missed = upsets.missed
  <2>1. upsets \in UpsetRecord
    BY DEF SessionTypeOK
  <2> QED BY <1>9, <2>1 DEF UpsetRecord
<1> QED BY <1>6, <1>7, <1>8, <1>9, WriteFailsType, WedgesType

(* A step that leaves the loops alone leaves no batch without executor.    *)
LEMMA ExecutorStays ==
  ASSUME ActiveHasExecutor, upsets.wedged => upsets'.wedged, NEW s \in Slots,
         active'[s] \in {0, active[s]}, loop'[s].op = loop[s].op
  PROVE  active'[s] # 0 => loop'[s].op = active'[s] \/ upsets'.wedged
BY DEF ActiveHasExecutor

(* Inside a session a batch is taken away or kept, but by a claim.         *)
LEMMA ActiveMoves ==
  ASSUME SessionInv, SessionNext, ~CrashRestart,
         ~\E s \in Slots : LoopNext(s) /\ ClaimBatch(s, s)
  PROVE  \A s \in Slots : active'[s] \in {0, active[s]}
<1> DEFINE Good == \A s \in Slots : active'[s] \in {0, active[s]}
<1>0. SessionTypeOK /\ TypeOK /\ Inv
  BY DEF SessionInv, Inv
<1>1. CalmStep => Good
  BY <1>0, CalmKeeps
<1>2. ASSUME NEW c \in Workers, Commit(c)
      PROVE  Good
  <2>1. c \in Actors /\ task[c].msg \in Messages \cup {NoMsg}
    BY <1>0, TasksAct, TaskFields
  <2> QED BY <1>0, <1>2, <2>1, CommitLog DEF Commit
<1>3. ASSUME NEW s \in Slots, Reconcile(s)
      PROVE  Good
  <2>1. s \in Actors /\ loop[s].view \in MailboxViews
    BY <1>0, TasksAct, LoopFields
  <2> QED BY <1>0, <1>3, <2>1, ReconcileLog DEF Reconcile
<1>4. ASSUME NEW a \in Actors, MarkRead(a) \/ Reports(a)
      PROVE  CalmStep
  BY <1>4, Zenon DEF MarkRead, Reports, CalmStep, Calm
<1>5. Clients \subseteq Workers /\ Recovery \in Workers
  BY DEF Workers
<1> HIDE DEF Good
<1>6. ASSUME NEW c \in Workers, Enqueues(c)
      PROVE  Good
  BY <1>1, <1>2, <1>6, WorkerCalm
<1>7. ASSUME NEW c \in Clients, Controls(c)
      PROVE  Good
  BY <1>1, <1>5, <1>7, WorkerCalm
<1>8. ASSUME ScanSlot \/ ScanNext
      PROVE  Good
  BY <1>1, <1>5, <1>8, WorkerCalm
<1>9. ASSUME NEW s \in Slots, Drains(s)
      PROVE  Good
  BY <1>1, <1>3, <1>9, LoopCalm
<1>10. Good
  BY <1>1, <1>4, <1>6, <1>7, <1>8, <1>9 DEF SessionNext
<1> QED BY <1>10 DEF Good

(* The loop of s lets go of a batch when it was ended, given back or taken *)
(* away, or when the transport failed.                                     *)
LEMMA LoopLetsGo ==
  ASSUME SessionInv, ActiveHasExecutor, NEW s \in Slots, Drains(s),
         ~(LoopNext(s) /\ ClaimBatch(s, s)),
         upsets.wedged => upsets'.wedged, active'[s] \in {0, active[s]}
  PROVE  active'[s] # 0 => loop'[s].op = active'[s] \/ upsets'.wedged
<1> DEFINE Good == active'[s] # 0 => loop'[s].op = active'[s] \/ upsets'.wedged
<1> SUFFICES Good
  OBVIOUS
<1>0. SessionTypeOK /\ loop \in [Slots -> Loop] /\ active \in [Slots -> Nat]
  BY DEF SessionInv, SessionTypeOK, Inv, TypeOK
<1>1. ASSUME NEW at, LoopAt(s, at)
      PROVE  loop'[s].op = loop[s].op
  BY <1>0, <1>1 DEF LoopAt, Loop
<1>2. ASSUME loop'[s].op = loop[s].op
      PROVE  Good
  BY <1>2, ExecutorStays
<1>3. ASSUME active[s] # loop[s].op \/ loop[s].op = 0
      PROVE  Good
  BY <1>3 DEF ActiveHasExecutor
<1>4. loop[s].at \in Early => loop[s].op = 0
  BY DEF SessionInv, HeldInv, LoopHolds
<1>10. CASE PrepareSnapshot(s) \/ PrepareConstraint(s)
  <2>1. loop'[s].op = loop[s].op
    BY <1>0, <1>10 DEF PrepareSnapshot, PrepareConstraint, Loop
  <2> QED BY <1>2, <2>1
<1>5. CASE \/ Wake(s) \/ Reconcile(s) \/ TurnStarts(s)
           \/ CancelLateStart(s) \/ TurnStartFails(s) \/ MarkBatchRead(s)
  <2>1. \E at : LoopAt(s, at)
    BY <1>5, Zenon DEF Wake, Reconcile, TurnStarts, CancelLateStart,
       TurnStartFails, MarkBatchRead
  <2> QED BY <1>1, <1>2, <2>1
<1>6. CASE PeekUnread(s)
  <2>1. loop' = [loop EXCEPT ![s] = [loop[s] EXCEPT !.at = "reconcile", !.view = unread[s]]]
    BY <1>6 DEF PeekUnread
  <2>2. loop'[s].op = loop[s].op
    BY <1>0, <2>1 DEF Loop
  <2> QED BY <1>2, <2>2
<1>7. CASE PeekFails(s) \/ PrepareFails(s)
  <2>1. CASE PeekFails(s)
    BY <1>3, <1>4, <2>1 DEF PeekFails, Early
  <2>2. CASE PrepareFails(s)
    <3> DEFINE op == loop[s].op
    <3>1. op \in DOMAIN batches /\ batches[op].slot = s
      BY <2>2 DEF PrepareFails, SessionInv, HeldInv, LoopHolds, Held
    <3>2. CASE RetryStart(s, op)
      <4>1. active' = [active EXCEPT ![s] = 0]
        BY <3>1, <3>2 DEF RetryStart
      <4> QED BY <1>0, <4>1
    <3>3. CASE ~IsCurrentBatch(op)
      BY <1>3, <3>1, <3>3 DEF IsCurrentBatch
    <3>4. CASE Wedges
      BY <1>0, <3>4, WedgesType
    <3> QED BY <2>2, <3>2, <3>3, <3>4, Zenon DEF PrepareFails
  <2> QED BY <1>7, <2>1, <2>2
<1>8. CASE LoopNext(s)
  <2>1. loop[s].op = 0
    BY <1>4, <1>8 DEF LoopNext, Early
  <2>2. active[s] # 0 => upsets.wedged
    BY <2>1 DEF ActiveHasExecutor
  <2> QED BY <2>2
<1>9. CASE FinishBatch(s)
  <2> DEFINE op == loop[s].op
  <2>1. op \in DOMAIN batches /\ batches[op].slot = s
    BY <1>9 DEF FinishBatch, SessionInv, HeldInv, LoopHolds, Held
  <2>2. CASE IsCurrentBatch(op)
    <3>1. \E st : TerminalizeBatch(s, op, st)
      BY <1>9, <2>2, Zenon DEF FinishBatch
    <3>2. active' = [active EXCEPT ![s] = 0]
      BY <2>1, <3>1 DEF TerminalizeBatch
    <3> QED BY <1>0, <3>2
  <2>3. CASE ~IsCurrentBatch(op)
    <3>1. active[s] # op
      BY <2>1, <2>3 DEF IsCurrentBatch
    <3>2. active[s] # 0 => upsets.wedged
      BY <3>1 DEF ActiveHasExecutor
    <3> QED BY <3>2
  <2> QED BY <2>2, <2>3
<1> HIDE DEF Good
<1> QED BY <1>5, <1>6, <1>7, <1>8, <1>9, <1>10 DEF Drains

LEMMA ExecutorStep ==
  ASSUME SessionInv, ActiveHasExecutor, [SessionNext]_allVars
  PROVE  ActiveHasExecutor'
<1> DEFINE Fine(s) == active'[s] # 0 => loop'[s].op = active'[s] \/ upsets'.wedged
<1> SUFFICES \A s \in Slots : Fine(s)
  BY DEF ActiveHasExecutor
<1>0. SessionTypeOK /\ Inv /\ loop \in [Slots -> Loop] /\ active \in [Slots -> Nat]
  BY DEF SessionInv, SessionTypeOK, Inv, TypeOK
<1>1. CASE UNCHANGED allVars
  BY <1>1 DEF allVars, vars, sessionVars, ActiveHasExecutor
<1>2. CASE CrashRestart
  BY <1>2 DEF CrashRestart, AtStart
<1>3. ASSUME SessionNext, ~CrashRestart, NEW s \in Slots, LoopNext(s), ClaimBatch(s, s)
      PROVE  \A z \in Slots : Fine(z)
  <2>1. Claimed(s) /\ (upsets.wedged => upsets'.wedged)
    BY <1>0, <1>3, TasksAct, ClaimLog, WedgedStays
  <2>2. [AnyNext]_vars
    BY <1>3, SessionIsAny
  <2>3. LoopRows(s)
    <3>1. Drains(s) /\ Inv'
      BY <1>0, <1>3, <2>2, InvStep DEF Drains
    <3>2. \A op \in DOMAIN batches : op \in DOMAIN batches' /\ batches'[op] = batches[op]
      BY <2>1 DEF Claimed
    <3> QED BY <2>2, <3>1, <3>2, LoopRowsStep
  <2>4. loop'[s].op = active'[s]
    <3> DEFINE op == active'[s]
    <3>1. CASE loop' = [loop EXCEPT ![s].at = "prepare", ![s].op = op]
      <4>1. loop' = [loop EXCEPT ![s] = [loop[s] EXCEPT !.at = "prepare", !.op = op]]
        BY <3>1
      <4> HIDE DEF op
      <4>2. loop'[s].op = op
        BY <1>0, <4>1 DEF Loop
      <4> QED BY <4>2 DEF op
    <3>2. CASE CannotServe(s) \/ CompleteSignals(s, s, ServedSignals(s))
      <4>1. ~CannotServe(s)
        <5>1. active[s] = 0 /\ constraint[s] = "Ready" /\ ~paused[s]
          BY <1>3 DEF ClaimBatch
        <5>2. PICK p \in Priorities : queue[s][p] # <<>>
          BY <1>3 DEF ClaimBatch, Serves
        <5>3. queue[s][p] \in Seq(Nat)
          BY <1>0 DEF Inv, TypeOK
        <5>4. QueuedIds(s) # {}
          <6>1. 1 \in DOMAIN queue[s][p]
            BY <5>2, <5>3
          <6>2. queue[s][p][1] \in Range(queue[s][p])
            BY <6>1 DEF Range
          <6> QED BY <6>2 DEF QueuedIds
        <5> QED BY <5>1, <5>4 DEF CannotServe
      <4>2. batches' = batches
        BY <3>2, <4>1 DEF CompleteSignals, slotVars
      <4> QED BY <2>1, <4>2 DEF Claimed
    <3> QED BY <1>3, <3>1, <3>2 DEF LoopNext
  <2>5. ASSUME NEW z \in Slots, z # s
        PROVE  Fine(z)
    <3>1. active'[z] = active[z] /\ loop'[z] = loop[z]
      BY <2>1, <2>3, <2>5 DEF Claimed, LoopRows
    <3> QED BY <2>1, <3>1, ExecutorStays
  <2> QED BY <2>4, <2>5
<1>4. ASSUME SessionNext, ~CrashRestart,
             ~\E s \in Slots : LoopNext(s) /\ ClaimBatch(s, s)
      PROVE  \A z \in Slots : Fine(z)
  <2>1. /\ upsets.wedged => upsets'.wedged
        /\ \A z \in Slots : active'[z] \in {0, active[z]}
    BY <1>0, <1>4, WedgedStays, ActiveMoves
  <2>2. ASSUME NEW z \in Slots, loop'[z] = loop[z]
        PROVE  Fine(z)
    BY <2>1, <2>2, ExecutorStays
  <2>3. ASSUME NEW c \in Workers,
               Enqueues(c) \/ Controls(c) \/ (c = Recovery /\ (ScanSlot \/ ScanNext))
        PROVE  \A z \in Slots : Fine(z)
    <3>1. loop' = loop
      BY <2>3, WorkerRowsStep DEF WorkerRows
    <3> QED BY <2>2, <3>1
  <2>4. ASSUME NEW s \in Slots, Drains(s)
        PROVE  \A z \in Slots : Fine(z)
    <3>1. [AnyNext]_vars
      BY <1>4, SessionIsAny
    <3>2. LoopRows(s)
      <4>1. Inv'
        BY <1>0, <3>1, InvStep
      <4>2. \A op \in DOMAIN batches : op \in DOMAIN batches' /\ batches'[op] = batches[op]
        BY <1>4, SessionLog
      <4> QED BY <2>4, <3>1, <4>1, <4>2, LoopRowsStep
    <3>3. Fine(s)
      BY <1>4, <2>1, <2>4, LoopLetsGo
    <3>4. \A z \in Slots \ {s} : loop'[z] = loop[z]
      BY <3>2 DEF LoopRows
    <3> QED BY <2>2, <3>3, <3>4
  <2>5. ASSUME NEW a \in Actors, MarkRead(a) \/ Reports(a)
        PROVE  \A z \in Slots : Fine(z)
    <3>1. loop' = loop
      BY <2>5 DEF MarkRead, Reports, sessionVars
    <3> QED BY <2>2, <3>1
  <2>6. Clients \subseteq Workers /\ Recovery \in Workers
    BY DEF Workers
  <2> HIDE DEF Fine
  <2> QED BY <1>2, <1>4, <2>3, <2>4, <2>5, <2>6 DEF SessionNext
<1> HIDE DEF Fine
<1> QED BY <1>1, <1>2, <1>3, <1>4

(* A batch the coordinator holds active is held by its slot's event loop,  *)
(* whatever cancels, pauses, attaches, crashes or fails in between, unless *)
(* the transport of its role prompt failed (session.rs returns with the    *)
(* batch still active).                                                    *)
THEOREM ExecutorCorrect == SessionSpec => []ActiveHasExecutor
<1>1. SessionInit => ActiveHasExecutor
  BY DEF SessionInit, AtStart, ActiveHasExecutor
<1>2. SessionInv /\ ActiveHasExecutor /\ [SessionNext]_allVars => ActiveHasExecutor'
  BY ExecutorStep
<1> QED BY <1>1, <1>2, SessionCorrect, PTL DEF SessionSpec

------------------------------------------------------------------------------
(* The mailbox, the turns and what ended, as MessageDelivery describes     *)
(* them.                                                                   *)

(* A row is unread in one slot only.                                       *)
RowsApart ==
  \A s, z \in Slots : s # z => Range(unread[s]) \cap Range(unread[z]) = {}

(* Apart from a write no step adds a row to a mailbox.                     *)
LEMMA UnreadShrinks ==
  ASSUME SessionInv, [SessionNext]_allVars, ~\E c \in Workers : WriteRow(c)
  PROVE  \A s \in Slots : Range(unread'[s]) \subseteq Range(unread[s])
<1> DEFINE Good == \A s \in Slots : Range(unread'[s]) \subseteq Range(unread[s])
<1> SUFFICES Good
  OBVIOUS
<1>0. SessionTypeOK /\ Inv
  BY DEF SessionInv
<1>1. unread' = unread => Good
  OBVIOUS
<1>2. CASE UNCHANGED allVars \/ CrashRestart
  BY <1>1, <1>2 DEF allVars, sessionVars, CrashRestart
<1>3. ASSUME NEW c \in Workers,
             Enqueues(c) \/ Controls(c) \/ (c = Recovery /\ (ScanSlot \/ ScanNext))
      PROVE  Good
  <2>1. unread' = unread
    BY <1>3, WorkerRowsStep DEF WorkerRows
  <2> QED BY <1>1, <2>1
<1>4. ASSUME NEW s \in Slots, Drains(s), SessionNext, ~CrashRestart
      PROVE  Good
  <2>1. [AnyNext]_vars /\ Inv'
    BY <1>0, <1>4, SessionIsAny, InvStep
  <2>2. \A op \in DOMAIN batches : op \in DOMAIN batches' /\ batches'[op] = batches[op]
    BY <1>4, SessionLog
  <2>3. LoopRows(s)
    BY <1>4, <2>1, <2>2, LoopRowsStep
  <2> QED BY <2>3 DEF LoopRows
<1>5. ASSUME NEW a \in Actors, MarkRead(a)
      PROVE  Good
  <2>1. \A s \in Slots : unread'[s] = Without(unread[s], settle[a])
    BY <1>5 DEF MarkRead
  <2> QED BY <1>0, <2>1, ViewWithout DEF SessionTypeOK
<1>6. ASSUME NEW a \in Actors, Reports(a)
      PROVE  Good
  BY <1>1, <1>6 DEF Reports, sessionVars
<1>7. Clients \subseteq Workers /\ Recovery \in Workers
  BY DEF Workers
<1> HIDE DEF Good
<1> QED BY <1>2, <1>3, <1>4, <1>5, <1>6, <1>7 DEF SessionNext

(* What a sender writes is a new row.                                      *)
LEMMA WritesNew ==
  ASSUME SessionInv, NEW c \in Workers, WriteRow(c)
  PROVE  \E s \in Slots, m \in Messages :
           /\ m \notin written
           /\ \A z \in Slots :
                Range(unread'[z]) = Range(unread[z]) \cup (IF z = s THEN {m} ELSE {})
           /\ UNCHANGED <<turn, ended>>
<1> DEFINE m == NewRow
           s == task[c].slot
<1>0. SessionTypeOK /\ RowsWritten
  BY DEF SessionInv
<1>1. /\ unread' = [unread EXCEPT ![s] = Append(unread[s], m)]
      /\ written # Messages /\ UNCHANGED <<turn, ended>>
  BY DEF WriteRow
<1>2. m \in Messages /\ m \notin written
  BY <1>0, <1>1 DEF NewRow, SessionTypeOK
<1> HIDE DEF m
<1>3. s \in Slots /\ unread \in [Slots -> MailboxViews] /\ m \notin Range(unread[s])
  BY <1>0, <1>2, TaskFields DEF SessionTypeOK, RowsWritten
<1>4. Range(Append(unread[s], m)) = Range(unread[s]) \cup {m}
  BY <1>2, <1>3, ViewAppend
<1>5. \A z \in Slots :
        Range(unread'[z]) = Range(unread[z]) \cup (IF z = s THEN {m} ELSE {})
  BY <1>1, <1>3, <1>4
<1> HIDE DEF s
<1> QED BY <1>1, <1>2, <1>3, <1>5

LEMMA ApartStep ==
  ASSUME SessionInv, RowsApart, [SessionNext]_allVars
  PROVE  RowsApart'
<1>1. CASE \E c \in Workers : WriteRow(c)
  <2>1. PICK s \in Slots, m \in Messages :
          /\ m \notin written
          /\ \A z \in Slots :
               Range(unread'[z]) = Range(unread[z]) \cup (IF z = s THEN {m} ELSE {})
    BY <1>1, WritesNew
  <2>2. \A z \in Slots : m \notin Range(unread[z])
    BY <2>1 DEF SessionInv, RowsWritten
  <2> QED BY <2>1, <2>2 DEF RowsApart
<1>2. CASE ~\E c \in Workers : WriteRow(c)
  <2>1. \A s \in Slots : Range(unread'[s]) \subseteq Range(unread[s])
    BY <1>2, UnreadShrinks
  <2> QED BY <2>1 DEF RowsApart
<1> QED BY <1>1, <1>2

(* The abstract state, and the steps that only end work.                   *)
Box == [s \in Slots |-> Range(unread[s])]

LEMMA WorkEnds ==
  ASSUME SessionTypeOK', UNCHANGED <<unread, turn>>, ended \subseteq ended'
  PROVE  Delivery!DeliveryNext
<1>1. ended' \in SUBSET Messages
  BY DEF SessionTypeOK
<1>2. Delivery!EndWork(ended')
  BY DEF Delivery!EndWork
<1> QED BY <1>1, <1>2 DEF Delivery!DeliveryNext

(* A write is a Write: nobody knows of the row.                            *)
LEMMA WriteDelivers ==
  ASSUME SessionInv, NEW c \in Workers, WriteRow(c)
  PROVE  Delivery!DeliveryNext
<1>1. PICK s \in Slots, m \in Messages :
        /\ m \notin written
        /\ \A z \in Slots :
             Range(unread'[z]) = Range(unread[z]) \cup (IF z = s THEN {m} ELSE {})
        /\ UNCHANGED <<turn, ended>>
  BY WritesNew
<1>2. /\ \A z \in Slots : m \notin Range(unread[z])
      /\ m \notin ended
  BY <1>1 DEF SessionInv, RowsWritten
<1>3. \A z \in Slots : m \notin turn[z]
  BY <1>1 DEF SessionInv, TurnInv, TurnHolds, RowsWritten
<1>4. Box' = [Box EXCEPT ![s] = Range(unread[s]) \cup {m}]
  BY <1>1 DEF Box
<1>5. Delivery!Write(s, m)
  BY <1>1, <1>2, <1>3, <1>4 DEF Delivery!Write, Box
<1> QED BY <1>5 DEF Delivery!DeliveryNext

(* The rows a task owes have ended.                                        *)
LEMMA MarkReadDelivers ==
  ASSUME SessionInv, NEW a \in Actors, MarkRead(a)
  PROVE  Delivery!DeliveryNext
<1>0. SessionTypeOK /\ RowsWritten
  BY DEF SessionInv
<1>1. /\ \A s \in Slots : unread'[s] = Without(unread[s], settle[a])
      /\ UNCHANGED <<turn, ended>>
  BY DEF MarkRead
<1>2. \A s \in Slots : Range(unread'[s]) = Range(unread[s]) \ settle[a]
  BY <1>0, <1>1, ViewWithout DEF SessionTypeOK
<1>3. settle[a] \subseteq ended /\ settle[a] \in SUBSET Messages
  BY <1>0 DEF RowsWritten, SessionTypeOK
<1>4. Delivery!Drop(settle[a])
  BY <1>1, <1>2, <1>3 DEF Delivery!Drop
<1> QED BY <1>3, <1>4 DEF Delivery!DeliveryNext

(* A turn is prompted with rows that are unread, or have ended since they  *)
(* were peeked.                                                            *)
LEMMA StartDelivers ==
  ASSUME SessionInv, NEW s \in Slots, TurnStarts(s)
  PROVE  [Delivery!DeliveryNext]_Delivery!deliveryVars
<1> DEFINE U == BatchRows(loop[s].op) \cap Range(loop[s].view)
<1>0. SessionTypeOK /\ RowsWritten /\ TurnHolds(s)
  BY DEF SessionInv, TurnInv
<1>1. /\ loop[s].at = "prepare" /\ turn' = [turn EXCEPT ![s] = U]
      /\ UNCHANGED <<unread, ended>>
  BY DEF TurnStarts
<1>2. turn[s] = {} /\ U \subseteq Range(unread[s]) \cup ended
  BY <1>0, <1>1 DEF TurnHolds
<1>3. U \in SUBSET Messages
  BY <1>0 DEF SessionTypeOK, RowsWritten
<1> HIDE DEF U
<1>4. CASE U = {}
  <2>1. turn' = turn
    BY <1>0, <1>1, <1>2, <1>4 DEF SessionTypeOK
  <2> QED BY <1>1, <2>1 DEF Delivery!deliveryVars
<1>5. CASE U # {}
  <2>1. Delivery!BeginTurn(s, U)
    BY <1>1, <1>2, <1>5 DEF Delivery!BeginTurn
  <2> QED BY <1>3, <2>1 DEF Delivery!DeliveryNext
<1> QED BY <1>4, <1>5

(* At the end of a turn its rows are marked read, with those that ended    *)
(* while they were claimed; the write may fail.                            *)
LEMMA ReadDelivers ==
  ASSUME SessionInv, RowsApart, NEW s \in Slots, MarkBatchRead(s)
  PROVE  [Delivery!DeliveryNext]_Delivery!deliveryVars
<1> DEFINE R == BatchRows(loop[s].op)
           S == R \ turn[s]
           D == S \cap Range(unread[s])
<1>0. SessionTypeOK /\ RowsWritten /\ TurnHolds(s) /\ HeldInv /\ Inv
  BY DEF SessionInv, TurnInv
<1>1. /\ loop[s].at \in {"running", "unstarted"}
      /\ turn' = [turn EXCEPT ![s] = {}] /\ UNCHANGED ended
      /\ \/ unread' = [unread EXCEPT ![s] = Without(unread[s], R)]
         \/ unread' = unread
  BY DEF MarkBatchRead
<1>2. turn \in [Slots -> SUBSET Messages] /\ unread \in [Slots -> MailboxViews]
  BY <1>0 DEF SessionTypeOK
<1>3. S \subseteq ended /\ turn[s] \subseteq R
  BY <1>0, <1>1 DEF TurnHolds
<1>4. R \in SUBSET Messages
  BY <1>0, <1>1, RowTypes DEF HeldInv, LoopHolds, Held
<1>5. Range(Without(unread[s], R)) = Range(unread[s]) \ R
  BY <1>2, ViewWithout
<1> HIDE DEF R
<1>6. CASE unread' = unread
  <2>1. CASE turn[s] = {}
    <3>1. turn' = turn
      BY <1>1, <1>2, <2>1
    <3> QED BY <1>1, <1>6, <3>1 DEF Delivery!deliveryVars
  <2>2. CASE turn[s] # {}
    <3>1. Delivery!EndTurn(s)
      BY <1>1, <1>6, <2>2 DEF Delivery!EndTurn
    <3> QED BY <3>1 DEF Delivery!DeliveryNext
  <2> QED BY <2>1, <2>2
<1>7. CASE unread' = [unread EXCEPT ![s] = Without(unread[s], R)]
  <2>1. \A z \in Slots : Range(unread'[z]) = IF z = s THEN Range(unread[s]) \ R
                                                      ELSE Range(unread[z])
    BY <1>2, <1>5, <1>7
  <2>2. CASE turn[s] = {}
    <3>1. turn' = turn
      BY <1>1, <1>2, <2>2
    <3>2. \A z \in Slots : Range(unread'[z]) = Range(unread[z]) \ D
      <4> TAKE z \in Slots
      <4>1. CASE z = s
        BY <1>3, <2>1, <2>2, <4>1
      <4>2. CASE z # s
        <5>1. Range(unread[s]) \cap Range(unread[z]) = {}
          BY <4>2 DEF RowsApart
        <5> QED BY <2>1, <4>2, <5>1
      <4> QED BY <4>1, <4>2
    <3>3. D \subseteq ended /\ D \in SUBSET Messages
      BY <1>3, <1>4
    <3> HIDE DEF D
    <3>4. Delivery!Drop(D)
      BY <1>1, <3>1, <3>2, <3>3 DEF Delivery!Drop
    <3> QED BY <3>3, <3>4 DEF Delivery!DeliveryNext
  <2>3. CASE turn[s] # {}
    <3>1. Box' = [Box EXCEPT ![s] = Range(unread[s]) \ (turn[s] \cup S)]
      <4>1. turn[s] \cup S = R
        BY <1>3
      <4> QED BY <2>1, <4>1 DEF Box
    <3> HIDE DEF S
    <3>2. /\ S \in SUBSET ended
          /\ Box' = [Box EXCEPT ![s] = Box[s] \ (turn[s] \cup S)]
      BY <1>3, <3>1 DEF Box
    <3>3. Delivery!EndTurn(s)
      BY <1>1, <2>3, <3>2 DEF Delivery!EndTurn, Box
    <3> QED BY <3>3 DEF Delivery!DeliveryNext
  <2> QED BY <2>2, <2>3
<1> QED BY <1>1, <1>6, <1>7

(* What the other steps of a loop do to the rows: they may end work.       *)
LEMMA LoopDelivers ==
  ASSUME SessionInv, SessionInv', RowsApart, NEW s \in Slots, Drains(s)
  PROVE  [Delivery!DeliveryNext]_Delivery!deliveryVars
<1>1. SessionTypeOK'
  BY DEF SessionInv
<1>2. CASE \/ Wake(s) \/ PrepareSnapshot(s) \/ PrepareConstraint(s) \/ PeekUnread(s) \/ PeekFails(s)
           \/ Reconcile(s) \/ LoopNext(s) \/ PrepareFails(s) \/ CancelLateStart(s)
           \/ TurnStartFails(s) \/ FinishBatch(s)
  <2>1. /\ UNCHANGED <<unread, turn>>
        /\ ended' = ended \/ \E S : ended' = ended \cup S
    BY <1>2, Zenon DEF Wake, PrepareSnapshot, PrepareConstraint, PublishRuntimeConstraint, PeekUnread,
       PeekFails, Reconcile, LoopNext, PrepareFails, CancelLateStart, TurnStartFails,
       FinishBatch
  <2>2. ended \subseteq ended'
    BY <2>1
  <2> QED BY <1>1, <2>1, <2>2, WorkEnds
<1>3. CASE TurnStarts(s)
  BY <1>3, StartDelivers
<1>4. CASE MarkBatchRead(s)
  BY <1>4, ReadDelivers
<1> QED BY <1>2, <1>3, <1>4 DEF Drains

LEMMA CrashDelivers ==
  ASSUME CrashRestart
  PROVE  Delivery!DeliveryNext
<1>1. turn' = [s \in Slots |-> {}] /\ UNCHANGED <<unread, ended>>
  BY DEF CrashRestart, AtStart
<1>2. Delivery!Crash
  BY <1>1 DEF Delivery!Crash
<1> QED BY <1>2 DEF Delivery!DeliveryNext

LEMMA DeliveryStep ==
  ASSUME SessionInv, SessionInv', RowsApart, [SessionNext]_allVars
  PROVE  [Delivery!DeliveryNext]_Delivery!deliveryVars
<1>1. CASE UNCHANGED allVars
  BY <1>1 DEF allVars, sessionVars, Delivery!deliveryVars
<1>2. CASE CrashRestart
  BY <1>2, CrashDelivers
<1>3. ASSUME NEW c \in Workers,
             Enqueues(c) \/ Controls(c) \/ (c = Recovery /\ (ScanSlot \/ ScanNext))
      PROVE  [Delivery!DeliveryNext]_Delivery!deliveryVars
  <2>1. WorkerRows(c) /\ SessionTypeOK'
    BY <1>3, WorkerRowsStep DEF SessionInv
  <2>2. CASE WriteRow(c)
    BY <2>2, WriteDelivers
  <2>3. CASE ~WriteRow(c)
    BY <2>1, <2>3, WorkEnds DEF WorkerRows
  <2> QED BY <2>2, <2>3
<1>4. ASSUME NEW s \in Slots, Drains(s)
      PROVE  [Delivery!DeliveryNext]_Delivery!deliveryVars
  BY <1>4, LoopDelivers
<1>5. ASSUME NEW a \in Actors, MarkRead(a)
      PROVE  Delivery!DeliveryNext
  BY <1>5, MarkReadDelivers
<1>6. ASSUME NEW a \in Actors, Reports(a)
      PROVE  [Delivery!DeliveryNext]_Delivery!deliveryVars
  BY <1>6 DEF Reports, sessionVars, Delivery!deliveryVars
<1>7. Clients \subseteq Workers /\ Recovery \in Workers
  BY DEF Workers
<1> QED BY <1>1, <1>2, <1>3, <1>4, <1>5, <1>6, <1>7, Zenon DEF SessionNext

(* The session delivers rows as MessageDelivery says, whatever senders,    *)
(* loops, cancellations, attaches, failures and crashes do: a row leaves   *)
(* the mailbox only with the turn that claimed it or because its work      *)
(* ended, and a slot has one turn at a time.                               *)
THEOREM DeliveryCorrect == SessionSpec => DeliversRows
<1>1. SessionInit => Delivery!DeliveryInit
  BY StartFacts DEF SessionInit, Delivery!DeliveryInit, AtStart
<1>2. SessionInit => RowsApart
  BY StartFacts DEF SessionInit, RowsApart
<1>3. SessionInv /\ RowsApart /\ [SessionNext]_allVars => RowsApart'
  BY ApartStep
<1>4. SessionInv /\ SessionInv' /\ RowsApart /\ [SessionNext]_allVars
        => [Delivery!DeliveryNext]_Delivery!deliveryVars
  BY DeliveryStep
<1>5. SessionSpec => []RowsApart
  BY <1>2, <1>3, SessionCorrect, PTL DEF SessionSpec
<1> QED BY <1>1, <1>4, <1>5, SessionCorrect, PTL
        DEF SessionSpec, DeliversRows, Delivery!DeliverySpec

------------------------------------------------------------------------------
(* The coordinator's promises about order and failure, inside a session.   *)

Promises == /\ UserWorkBound /\ ForegroundFifo
            /\ FailedSummariesTrue /\ FailedRunHasFailedIntent

(* A coordinator that has just been made promises nothing false.           *)
LEMMA StartPromises ==
  ASSUME intents = <<>>, leases = {}, run = NoRunRecord,
         queue = AtStart(EmptyQueues), active = AtStart(0),
         todo = [a \in Actors |-> <<>>]
  PROVE  Promises
BY DEF Promises, UserWorkBound, ForegroundFifo, FailedSummariesTrue,
   FailedRunHasFailedIntent, AtStart, EmptyQueues, Ascending, Priorities, Ids, IsActive,
   NoRunRecord, ActiveStatus

LEMMA CrashPromises ==
  ASSUME CrashRestart
  PROVE  Promises'
<1>1. /\ intents' = <<>> /\ leases' = {} /\ run' = NoRunRecord
      /\ queue' = AtStart(EmptyQueues) /\ active' = AtStart(0)
      /\ todo' = [a \in Actors |-> <<>>]
  BY DEF CrashRestart
<1> QED BY <1>1 DEF Promises, UserWorkBound, ForegroundFifo, FailedSummariesTrue,
           FailedRunHasFailedIntent, AtStart, EmptyQueues, Ascending, Priorities, Ids,
           IsActive, NoRunRecord, ActiveStatus

LEMMA PromisesHold == SessionSpec => []Promises
<1>1. SessionInit => Promises
  BY StartPromises DEF SessionInit
<1>2. SessionInv /\ SessionInv' /\ Promises /\ [SessionNext]_allVars => Promises'
  <2> SUFFICES ASSUME SessionInv, SessionInv', Promises, [SessionNext]_allVars
               PROVE  Promises'
    OBVIOUS
  <2>1. CASE CrashRestart
    BY <2>1, CrashPromises
  <2>2. CASE ~CrashRestart
    <3>1. [AnyNext]_vars
      <4>1. CASE SessionNext
        BY <2>2, <4>1, SessionIsAny
      <4>2. CASE UNCHANGED allVars
        BY <4>2 DEF allVars
      <4> QED BY <4>1, <4>2
    <3>2. TypeOK /\ WorkOwnedOnce /\ TypeOK'
      BY DEF SessionInv, Inv
    <3>3. LifeKept
      BY <3>1, <3>2, LifeStep
    <3> QED BY <3>1, <3>2, <3>3, UserWorkStep, FifoStep, SummariesStep, FailedRunStep
            DEF Promises
  <2> QED BY <2>1, <2>2
<1> QED BY <1>1, <1>2, SessionCorrect, PTL DEF SessionSpec

(* Short of a crash, no step of a loop, a client, an attach or the scan    *)
(* revives a finished intent, loses one or skips a stage of its life.      *)
THEOREM SessionLifecycle == SessionSpec => [][~CrashRestart => LifeKept]_allVars
<1>1. SessionInv /\ [SessionNext]_allVars => [~CrashRestart => LifeKept]_allVars
  <2> SUFFICES ASSUME SessionInv, SessionNext, ~CrashRestart
               PROVE  LifeKept
    OBVIOUS
  <2>1. [AnyNext]_vars
    BY SessionIsAny
  <2>2. Inv
    BY DEF SessionInv
  <2> QED BY <2>1, <2>2, LifeStep DEF Inv
<1> QED BY <1>1, SessionCorrect, PTL DEF SessionSpec

(* Crashes included, user work keeps its commit order in a session, and a  *)
(* run is reported failed only when one of its own intents failed.         *)
THEOREM SessionPromises ==
  SessionSpec => [](ForegroundFifo /\ FailedRunHasFailedIntent)
<1>1. Promises => ForegroundFifo /\ FailedRunHasFailedIntent
  BY DEF Promises
<1> QED BY <1>1, PromisesHold, PTL

------------------------------------------------------------------------------
(* No wake-up is lost.                                                     *)

WorkerStep(c) == \/ Enqueues(c)
                 \/ c \in Clients /\ Controls(c)
                 \/ c = Recovery /\ (ScanSlot \/ ScanNext)

(* The scan sends rows as background work: no cancellation takes its lease. *)
ScanTask(t) ==
  /\ t.at \in {"idle", "scan", "next", "publish", "acquire", "commit", "notify"}
  /\ t.at \in {"publish", "acquire", "commit"} => t.msg # NoMsg
  /\ t.request = <<"RecoveryDrain", "Background">>
  /\ t.at = "idle" => t.scan = {}

(* A task marks rows read before it goes on, commits a lease of the slot   *)
(* it is about, and cancels, between the halves of a cancellation, a run.  *)
TaskFits(c) ==
  /\ settle[c] # {} => task[c].at \in {"idle", "acquire"}
  /\ \A l \in leases : l.owner = c /\ task[c].at \in {"write", "commit"} =>
                         l.slot = task[c].slot
  /\ task[c].at = "cancelling" =>
       \E r : r # NoRun /\ todo[c] = <<CallAbout("cancel", r)>>
  /\ c = Recovery => /\ ScanTask(task[c])
                     /\ task[c].at = "commit" =>
                          \E l \in leases : l.owner = c /\ l.run = NoRun

NotRemoved == \A s \in Slots : ~removed[s]

Behind == upsets.wedged \/ upsets.missed

(* A task that is to notify the loop of s, or is counted as missed if it   *)
(* gives up: it attaches the member, or published a snapshot that may be   *)
(* out of date.                                                            *)
Coming(t, s) ==
  /\ t.slot = s
  /\ \/ t.at \in {"notify", "reserved", "attach", "Ready"}
     \/ t.at \in {"acquire", "write", "commit"} /\ t.seen # "Ready"

OnTheWay(s) == \E c \in Workers : Coming(task[c], s)

(* The loop of s is about to tell the coordinator that its member is ready. *)
Turning(s) == \/ loop[s].at = "drain"
              \/ loop[s].at = "publish" /\ loop[s].seen = "Ready"

(* The coordinator knows that a member is ready, or will be told, or its   *)
(* loop will look again ...                                                *)
ConstraintFresh ==
  \A s \in Slots : runtime[s] = "Ready" =>
    constraint[s] = "Ready" \/ OnTheWay(s) \/ permit[s] \/ Turning(s) \/ Behind

(* ... and a loop that publishes that it is not will be notified.          *)
LoopFresh ==
  \A s \in Slots :
    runtime[s] = "Ready" /\ loop[s].at = "publish" /\ loop[s].seen # "Ready" =>
      OnTheWay(s) \/ permit[s] \/ Behind

(* The loop of s will look again, or is excused from looking.              *)
Excused(s) == Behind \/ permit[s] \/ paused[s] \/ runtime[s] # "Ready" \/ OnTheWay(s)

(* The scan has still to enqueue row m for slot s.                         *)
ScanComes(t, m, s) ==
  \/ s \in t.scan
  \/ t.slot = s /\ t.at \in {"next", "publish", "acquire", "commit"} /\ m \in Range(t.list)
  \/ t.slot = s /\ t.at \in {"publish", "acquire", "commit"} /\ m = t.msg

(* Task t, with the rows S to mark read, is not done with row m.           *)
Holding(t, S, m, s) == m \in S \/ (t.at = "commit" /\ t.slot = s /\ t.msg = m)

Pending(m, s) == \/ \E c \in Workers : Holding(task[c], settle[c], m, s)
                 \/ ScanComes(task[Recovery], m, s)

HasWork(m, s) == \E i \in LiveOf(s) : intents[i].msg = m

(* The loop of s has peeked row m, or found work for it.                   *)
Seen(m, s) == \/ loop[s].at = "reconcile" /\ m \in Range(loop[s].view)
              \/ loop[s].at = "next" /\ HasWork(m, s)

(* A loop that waits, or is about to, has seen every unread row, or a task *)
(* has still to do with it.                                                *)
Looking == {"waiting", "reconcile", "next"}
Awaited(s) ==
  loop[s].at \in Looking /\ ~Excused(s) =>
    \A m \in Range(unread[s]) : Seen(m, s) \/ Pending(m, s)

TaskInv == /\ \A c \in Workers : TaskFits(c)
           /\ NotRemoved /\ ConstraintFresh /\ LoopFresh

WakeInv == TaskInv /\ \A s \in Slots : Awaited(s)

------------------------------------------------------------------------------
(* What a coordinator operation of task a leaves alone.                    *)
KeepsCalls(a) == removed' = removed /\ \A b \in Actors : b # a => todo'[b] = todo[b]
KeepsLeases(a) ==
  /\ \A l \in leases' : l.owner # a => l \in leases
  /\ \A l \in leases : l.owner # a /\ l.run = NoRun => l \in leases'

LEMMA CallsKept ==
  ASSUME TypeOK, NEW a \in Actors,
         Acts(a) \/ (\E m : CommitEnqueue(a, m))
           \/ (\E s, view : ReconcileMailbox(a, s, view)) \/ (\E s : ClaimBatch(a, s))
  PROVE  KeepsCalls(a)
<1>0. todo \in [Actors -> Seq(Call)]
  BY DEF TypeOK
<1>1. ASSUME NEW x, todo' = [todo EXCEPT ![a] = x]
      PROVE  \A b \in Actors : b # a => todo'[b] = todo[b]
  BY <1>0, <1>1
<1>2. ASSUME NEW R, Publish(a, R)
      PROVE  \A b \in Actors : b # a => todo'[b] = todo[b]
  BY <1>1, <1>2 DEF Publish
<1>3. CASE UNCHANGED vars
  BY <1>3 DEF vars, KeepsCalls
<1>4. ASSUME NEW s, NEW caller, NEW rq, AcquireEnqueue(a, s, rq[1], rq[2], caller)
      PROVE  KeepsCalls(a)
  BY <1>4 DEF AcquireEnqueue, slotVars, KeepsCalls
<1>5. CASE AbortEnqueue(a) \/ BeginCancel(a) \/ PublishNext(a)
  BY <1>1, <1>5, Zenon DEF AbortEnqueue, BeginCancel, PublishNext, slotVars, KeepsCalls
<1>6. ASSUME NEW s, NEW S, CompleteSignals(a, s, S)
      PROVE  KeepsCalls(a)
  BY <1>2, <1>6 DEF CompleteSignals, slotVars, KeepsCalls
<1>7. ASSUME NEW op, NEW st,
             MarkStarted(a, op) \/ RetryStart(a, op) \/ TerminalizeBatch(a, op, st)
      PROVE  KeepsCalls(a)
  BY <1>2, <1>7, Zenon
  DEF MarkStarted, RetryStart, TerminalizeBatch, slotVars, KeepsCalls
<1>8. CASE CancelRun(a)
  BY <1>2, <1>8, Zenon DEF CancelRun, KeepsCalls
<1>9. ASSUME NEW s, NEW c, PauseSlot(a, s) \/ SetRuntimeConstraint(a, s, c)
      PROVE  KeepsCalls(a)
  BY <1>2, <1>9, Zenon DEF PauseSlot, SetRuntimeConstraint, KeepsCalls
<1>10. ASSUME NEW m, CommitEnqueue(a, m)
       PROVE  KeepsCalls(a)
  BY <1>2, <1>10, Zenon DEF CommitEnqueue, KeepsCalls
<1>11. ASSUME NEW s, NEW view, ReconcileMailbox(a, s, view)
       PROVE  KeepsCalls(a)
  BY <1>11, Zenon DEF ReconcileMailbox, slotVars, KeepsCalls
<1>12. ASSUME NEW s, ClaimBatch(a, s)
       PROVE  KeepsCalls(a)
  BY <1>2, <1>12, Zenon DEF ClaimBatch, KeepsCalls
<1> QED BY <1>3, <1>4, <1>5, <1>6, <1>7, <1>8, <1>9, <1>10, <1>11, <1>12, Zenon
        DEF Acts, Calm

(* Only the lease of the caller is added or removed, but by CancelRun.     *)
LEMMA LeasesKept ==
  ASSUME TypeOK, NEW a \in Actors, Acts(a) \/ (\E m : CommitEnqueue(a, m)),
         CancelRun(a) => Head(todo[a]).run # NoRun
  PROVE  KeepsLeases(a)
<1>1. ASSUME leases' = leases
      PROVE  KeepsLeases(a)
  BY <1>1 DEF KeepsLeases
<1>2. ASSUME NEW l \in leases, l.owner = a, leases' = leases \ {l}
      PROVE  KeepsLeases(a)
  BY <1>2 DEF KeepsLeases
<1>3. CASE UNCHANGED vars
  BY <1>1, <1>3 DEF vars
<1>4. ASSUME NEW s, NEW caller, NEW rq, AcquireEnqueue(a, s, rq[1], rq[2], caller)
      PROVE  KeepsLeases(a)
  BY <1>4 DEF AcquireEnqueue, KeepsLeases
<1>5. CASE AbortEnqueue(a)
  BY <1>2, <1>5, Zenon DEF AbortEnqueue
<1>6. CASE BeginCancel(a) \/ PublishNext(a)
  BY <1>1, <1>6, Zenon DEF BeginCancel, PublishNext
<1>7. ASSUME NEW s, NEW S, CompleteSignals(a, s, S)
      PROVE  KeepsLeases(a)
  BY <1>1, <1>7, Zenon DEF CompleteSignals
<1>8. ASSUME NEW op, NEW st,
             MarkStarted(a, op) \/ RetryStart(a, op) \/ TerminalizeBatch(a, op, st)
      PROVE  KeepsLeases(a)
  BY <1>1, <1>8, Zenon DEF MarkStarted, RetryStart, TerminalizeBatch
<1>9. CASE CancelRun(a)
  <2>1. leases' = {l \in leases : l.run # Head(todo[a]).run}
    BY <1>9, Zenon DEF CancelRun
  <2> QED BY <1>9, <2>1 DEF KeepsLeases
<1>10. ASSUME NEW s, NEW c, PauseSlot(a, s) \/ SetRuntimeConstraint(a, s, c)
       PROVE  KeepsLeases(a)
  BY <1>1, <1>10, Zenon DEF PauseSlot, SetRuntimeConstraint
<1>11. ASSUME NEW m, CommitEnqueue(a, m)
       PROVE  KeepsLeases(a)
  BY <1>2, <1>11, Zenon DEF CommitEnqueue
<1> QED BY <1>3, <1>4, <1>5, <1>6, <1>7, <1>8, <1>9, <1>10, <1>11, Zenon
        DEF Acts, Calm

(* A step of task c leaves the loops and the other tasks alone.            *)
Others(c) == /\ loop' = loop /\ removed' = removed
             /\ \A b \in Workers : b # c => /\ task'[b] = task[b]
                                            /\ settle'[b] = settle[b]
                                            /\ todo'[b] = todo[b]
             /\ KeepsLeases(c)

LEMMA WorkerOthers ==
  ASSUME SessionInv, NEW c \in Workers, TaskFits(c), WorkerStep(c)
  PROVE  Others(c)
<1>0. TypeOK /\ SessionTypeOK /\ c \in Actors /\ Workers \subseteq Actors
  BY TasksAct DEF SessionInv, Inv
<1>1. \/ Acts(c)
      \/ \E m : CommitEnqueue(c, m)
  BY WorkerActs, Zenon DEF WorkerStep, Commit
<1>2. Free(c) \/ UNCHANGED vars \/ CancelRunWork(c)
  <2>1. PublishSnapshot(c) => Free(c)
    BY Zenon DEF PublishSnapshot, PublishRuntimeConstraint
  <2>2. CASE Enqueues(c)
    BY <2>1, <2>2, Zenon
    DEF Enqueues, StartEnqueue, StartSignal, Requested, Acquire, Steady, WriteRow,
        WriteFails, AbortEnqueue, Commit, CommitEnqueue, CommitRefused, Notified, ReadFails
  <2>3. CASE Controls(c)
    BY <2>3, Zenon
    DEF Controls, StartCancelRun, CancelBatch, StartPause, StartCancelChild, Steady,
        StartAttach, AttachBegins, AttachCommits, AttachPublishes
  <2>4. CASE c = Recovery /\ (ScanSlot \/ ScanNext)
    BY <2>4, Zenon DEF ScanSlot, ScanNext, Steady
  <2> QED BY <2>2, <2>3, <2>4 DEF WorkerStep
<1>3. KeepsLeases(c)
  <2>1. CASE UNCHANGED vars
    BY <2>1 DEF vars, KeepsLeases
  <2>2. CASE Free(c)
    <3>1. ~CancelRun(c)
      BY <2>2, Zenon DEF Free, CancelRun
    <3> QED BY <1>0, <1>1, <3>1, LeasesKept
  <2>3. CASE CancelRunWork(c)
    <3>1. task[c].at = "cancelling"
      BY <2>3 DEF CancelRunWork
    <3>2. PICK r : r # NoRun /\ todo[c] = <<CallAbout("cancel", r)>>
      BY <3>1 DEF TaskFits
    <3>3. Head(todo[c]).run # NoRun
      BY <3>2 DEF CallAbout
    <3> QED BY <1>0, <1>1, <3>3, LeasesKept
  <2> QED BY <1>2, <2>1, <2>2, <2>3
<1>4. KeepsCalls(c)
  BY <1>0, <1>1, CallsKept
<1>5. WorkerRows(c)
  BY WorkerRowsStep DEF WorkerStep
<1>6. PICK t : task' = [task EXCEPT ![c] = t]
  BY <1>5 DEF WorkerRows
<1>7. loop' = loop
  BY <1>5 DEF WorkerRows
<1>8. settle' = settle \/ \E S : settle' = [settle EXCEPT ![c] = S]
  <2>1. PublishSnapshot(c) => \E S : settle' = [settle EXCEPT ![c] = S]
    BY Zenon DEF PublishSnapshot, PublishRuntimeConstraint
  <2>2. CASE Enqueues(c)
    BY <2>1, <2>2, Zenon
    DEF Enqueues, StartEnqueue, StartSignal, Requested, Acquire, WriteRow, WriteFails,
        Commit, CommitRefused, Notified, ReadFails
  <2>3. CASE Controls(c)
    BY <2>3, Zenon DEF Controls, StartCancelRun, CancelRunWork, CancelBatch, StartPause,
       StartCancelChild, StartAttach, AttachBegins, AttachCommits, AttachPublishes
  <2>4. CASE c = Recovery /\ (ScanSlot \/ ScanNext)
    BY <2>4, Zenon DEF ScanSlot, ScanNext
  <2> QED BY <2>2, <2>3, <2>4 DEF WorkerStep
<1>9. task \in [Workers -> Task] /\ settle \in [Actors -> SUBSET Messages]
  BY <1>0 DEF SessionTypeOK
<1>10. \A b \in Workers : b # c => task'[b] = task[b]
  BY <1>6, <1>9
<1>11. \A b \in Workers : b # c => settle'[b] = settle[b]
  BY <1>0, <1>8, <1>9
<1> QED BY <1>0, <1>3, <1>4, <1>7, <1>10, <1>11 DEF Others, KeepsCalls

(* What fits the other tasks still does.                                   *)
LEMMA OthersFit ==
  ASSUME NEW c \in Workers, Others(c), NEW b \in Workers, b # c, TaskFits(b)
  PROVE  TaskFits(b)'
<1>1. task'[b] = task[b] /\ settle'[b] = settle[b] /\ todo'[b] = todo[b]
  BY DEF Others
<1>2. \A l \in leases' : l.owner = b => l \in leases
  BY DEF Others, KeepsLeases
<1>3. \A l \in leases : l.owner = b /\ l.run = NoRun => l \in leases'
  BY DEF Others, KeepsLeases
<1> QED BY <1>1, <1>2, <1>3 DEF TaskFits

------------------------------------------------------------------------------
(* What a step of task c does for the loop of s: it takes away no reason   *)
(* to be excused without notifying, and drops no row it has to do with.    *)
HandsOver(c, s) ==
  /\ permit[s] => permit'[s]
  /\ paused[s] => paused'[s] \/ Coming(task'[c], s)
  /\ runtime'[s] = "Ready" => runtime[s] = "Ready" \/ Coming(task'[c], s)
  /\ Coming(task[c], s) =>
       Coming(task'[c], s) \/ permit'[s] \/ Behind' \/ runtime'[s] # "Ready"
  /\ \A m \in Range(unread'[s]) :
       m \in Range(unread[s]) \/ Holding(task'[c], settle'[c], m, s)
  /\ \A m \in Range(unread[s]) :
       Holding(task[c], settle[c], m, s) \/ (c = Recovery /\ ScanComes(task[c], m, s)) =>
         \/ Holding(task'[c], settle'[c], m, s)
         \/ c = Recovery /\ ScanComes(task'[c], m, s)
         \/ Coming(task'[c], s) \/ Behind' \/ Excused(s)
         \/ loop[s].at \notin Looking

(* The coordinator learns, or is about to, that the member of s is ready.  *)
Tells(c, s) ==
  runtime'[s] = "Ready" =>
    \/ constraint'[s] = "Ready" \/ Behind'
    \/ Coming(task'[c], s)
    \/ runtime[s] = "Ready" /\ constraint'[s] = constraint[s]

TaskGood(c) == TaskFits(c)' /\ \A s \in Slots : HandsOver(c, s) /\ Tells(c, s)

LEMMA IdleScan == ScanTask(IdleTask) /\ IdleTask.at = "idle"
BY DEF ScanTask, IdleTask

LEMMA AfterRowScan ==
  ASSUME NEW t \in Task, t.request = <<"RecoveryDrain", "Background">>
  PROVE  /\ ScanTask(AfterRow(t))
         /\ AfterRow(t).at \in {"next", "scan", "idle"}
         /\ t.list # <<>> => AfterRow(t) = [t EXCEPT !.at = "next"]
         /\ t.list = <<>> /\ t.scan # {} => AfterRow(t) = [t EXCEPT !.at = "scan"]
<1>1. /\ t.list # <<>> => AfterRow(t) = [t EXCEPT !.at = "next"]
      /\ t.list = <<>> /\ t.scan # {} => AfterRow(t) = [t EXCEPT !.at = "scan"]
      /\ t.list = <<>> /\ t.scan = {} => AfterRow(t) = IdleTask
  BY DEF AfterRow
<1>2. [t EXCEPT !.at = "next"].at = "next" /\ ScanTask([t EXCEPT !.at = "next"])
  BY DEF Task, ScanTask
<1>3. [t EXCEPT !.at = "scan"].at = "scan" /\ ScanTask([t EXCEPT !.at = "scan"])
  BY DEF Task, ScanTask
<1> QED BY <1>1, <1>2, <1>3, IdleScan

(* A client that is not sending, and goes on.                              *)
LEMMA ClientGood ==
  ASSUME NEW c \in Workers, c # Recovery, settle[c] = {}, task[c].at # "commit",
         UNCHANGED unread, task'[c].at \notin {"write", "commit", "cancelling"},
         settle'[c] # {} => task'[c].at \in {"idle", "acquire"},
         \A s \in Slots : /\ permit[s] => permit'[s]
                          /\ paused[s] => paused'[s]
                          /\ runtime'[s] = "Ready" =>
                               runtime[s] = "Ready" \/ Coming(task'[c], s)
                          /\ Coming(task[c], s) =>
                               \/ Coming(task'[c], s) \/ permit'[s] \/ Behind'
                               \/ runtime'[s] # "Ready",
         \A s \in Slots : Tells(c, s)
  PROVE  TaskGood(c)
<1>1. TaskFits(c)'
  BY DEF TaskFits
<1>2. ASSUME NEW s \in Slots
      PROVE  HandsOver(c, s)
  BY <1>2 DEF HandsOver, Holding
<1> QED BY <1>1, <1>2 DEF TaskGood

LEMMA StartsGood ==
  ASSUME SessionInv, NEW c \in Workers, NEW z \in Slots, NEW rq \in Requests,
         StartEnqueue(c, z, rq) \/ StartSignal(c, z, rq)
  PROVE  TaskGood(c)
<1>0. SessionTypeOK /\ TypeOK
  BY DEF SessionInv, Inv
<1>1. task[c].at = "idle" /\ settle[c] = {} /\ c # Recovery
  BY SessionAssumption DEF StartEnqueue, StartSignal, Requested, Steady
<1>2. task'[c] = [ReadSnapshot(IdleTask, z) EXCEPT !.request = rq]
  BY <1>0 DEF StartEnqueue, StartSignal, Requested, SessionTypeOK
<1>3. task'[c].at = "publish"
  BY <1>2, IdleTypes DEF ReadSnapshot, Task
<1>4. UNCHANGED <<unread, permit, runtime, settle, paused, constraint>>
  BY DEF StartEnqueue, StartSignal, Requested, vars
<1>5. \A s \in Slots : Tells(c, s)
  BY <1>4 DEF Tells
<1> QED BY <1>1, <1>3, <1>4, <1>5, ClientGood DEF Coming

LEMMA PublishesGood ==
  ASSUME SessionInv, NEW c \in Workers, TaskFits(c), PublishSnapshot(c)
  PROVE  TaskGood(c)
<1> DEFINE t == task[c]
           u == task'[c]
<1>0. SessionTypeOK /\ TypeOK /\ t \in Task /\ t.slot \in Slots /\ c \in Actors
  BY TasksAct, TaskFields DEF SessionInv, Inv
<1>1. /\ t.at = "publish" /\ settle[c] = {} /\ Goto(c, "acquire")
      /\ UNCHANGED <<unread, permit, runtime>>
      /\ PublishRuntimeConstraint(c, t.slot, t.seen)
  BY DEF PublishSnapshot, TaskFits
<1>2. u = [t EXCEPT !.at = "acquire"]
  BY <1>0, <1>1 DEF Goto, SessionTypeOK
<1>3. /\ u.at = "acquire" /\ u.slot = t.slot /\ u.seen = t.seen /\ u.msg = t.msg
      /\ u.list = t.list /\ u.scan = t.scan /\ u.request = t.request
  BY <1>0, <1>2 DEF Task
<1>4. paused' = paused /\ constraint' = [constraint EXCEPT ![t.slot] = t.seen]
  BY <1>1, Zenon DEF PublishRuntimeConstraint, SetRuntimeConstraint
<1> HIDE DEF u
<1>5. TaskFits(c)'
  <2>1. c = Recovery => ScanTask(u)
    BY <1>1, <1>3 DEF TaskFits, ScanTask
  <2> QED BY <1>3, <2>1 DEF TaskFits, u
<1>6. ASSUME NEW s \in Slots
      PROVE  HandsOver(c, s)
  <2>1. \A m \in Range(unread[s]) : /\ ~Holding(t, settle[c], m, s)
                                    /\ ScanComes(t, m, s) => ScanComes(u, m, s)
    BY <1>1, <1>3 DEF Holding, ScanComes
  <2> QED BY <1>1, <1>4, <2>1 DEF HandsOver, Coming, u
<1>7. \A s \in Slots : Tells(c, s)
  <2>1. \A s \in Slots : constraint'[s] = IF s = t.slot THEN t.seen ELSE constraint[s]
    BY <1>0, <1>4 DEF TypeOK
  <2>2. t.seen # "Ready" => Coming(u, t.slot)
    BY <1>3 DEF Coming
  <2> QED BY <1>1, <2>1, <2>2 DEF Tells, u
<1> QED BY <1>5, <1>6, <1>7 DEF TaskGood

LEMMA CancelsGood ==
  ASSUME SessionInv, UserWorkBound, NEW c \in Workers, TaskFits(c), c # Recovery,
         StartCancelRun(c) \/ CancelRunWork(c) \/ CancelBatch(c)
  PROVE  TaskGood(c)
<1>0. SessionTypeOK /\ TypeOK /\ c \in Actors
  BY TasksAct DEF SessionInv, Inv
<1>1. settle[c] = {} /\ task[c].at \in {"idle", "cancelling", "cancel_batch"}
  BY DEF StartCancelRun, CancelRunWork, CancelBatch, Steady, TaskFits
<1>2. UNCHANGED <<unread, permit, runtime>>
  BY DEF StartCancelRun, CancelRunWork, CancelBatch
<1>3. UNCHANGED <<paused, constraint>>
  BY Zenon DEF StartCancelRun, CancelRunWork, CancelBatch, BeginCancel, CancelRun,
               TerminalizeBatch, slotVars, vars
<1>4. \A s \in Slots : Tells(c, s)
  BY <1>1, <1>2, <1>3 DEF Tells
<1>5. CASE StartCancelRun(c)
  <2>1. task'[c].at = "cancelling" /\ settle'[c] = {}
    BY <1>0, <1>1, <1>5, TaskFields DEF StartCancelRun, Goto, SessionTypeOK, Task
  <2>2. BeginCancel(c)
    BY <1>5 DEF StartCancelRun
  <2>3. run.id # NoRun /\ todo' = [todo EXCEPT ![c] = <<CallAbout("cancel", run.id)>>]
    BY <2>2 DEF BeginCancel, UserWorkBound
  <2>4. todo'[c] = <<CallAbout("cancel", run.id)>>
    BY <1>0, <2>3 DEF TypeOK
  <2>5. TaskFits(c)'
    BY <2>1, <2>3, <2>4 DEF TaskFits
  <2>6. ASSUME NEW s \in Slots
        PROVE  HandsOver(c, s)
    BY <1>1, <1>2, <1>3 DEF HandsOver, Holding, Coming
  <2> QED BY <1>4, <2>5, <2>6 DEF TaskGood
<1>6. CASE CancelRunWork(c) \/ CancelBatch(c)
  <2>1. task'[c].at = "idle"
    BY <1>0, <1>6, TaskFields, IdleTypes
    DEF CancelRunWork, CancelBatch, Goto, SessionTypeOK, Task
  <2> QED BY <1>1, <1>2, <1>3, <1>4, <2>1, ClientGood DEF Coming
<1> QED BY <1>5, <1>6

LEMMA PausesGood ==
  ASSUME SessionInv, NEW c \in Workers, NEW z \in Slots,
         StartPause(c, z) \/ StartCancelChild(c, z)
  PROVE  TaskGood(c)
<1>0. SessionTypeOK /\ TypeOK
  BY DEF SessionInv, Inv
<1>1. task[c].at = "idle" /\ settle[c] = {} /\ c # Recovery
  BY SessionAssumption DEF StartPause, StartCancelChild, Steady
<1>2. UNCHANGED <<unread, permit, runtime, constraint, settle>>
  BY DEF StartPause, StartCancelChild, PauseSlot, vars
<1>3. paused' = paused \/ paused' = [paused EXCEPT ![z] = TRUE]
  BY DEF StartPause, StartCancelChild, PauseSlot, vars
<1>4. task'[c].at \in {"idle", "cancel_batch"}
  <2>1. \/ task' = task
        \/ task' = [task EXCEPT ![c] = [IdleTask EXCEPT !.at = "cancel_batch",
                                                        !.slot = z, !.op = active[z]]]
    BY DEF StartPause, StartCancelChild
  <2> QED BY <1>0, <1>1, <2>1, IdleTypes DEF SessionTypeOK, Task
<1>5. \A s \in Slots : paused[s] => paused'[s]
  BY <1>0, <1>3 DEF TypeOK
<1>6. \A s \in Slots : Tells(c, s)
  BY <1>1, <1>2 DEF Tells
<1> QED BY <1>1, <1>2, <1>4, <1>5, <1>6, ClientGood DEF Coming

LEMMA AttachesGood ==
  ASSUME SessionInv, NEW c \in Workers, TaskFits(c), c # Recovery,
         \/ \E s \in Slots : StartAttach(c, s)
         \/ AttachBegins(c) \/ AttachCommits(c) \/ AttachPublishes(c)
  PROVE  TaskGood(c)
<1>0. SessionTypeOK /\ TypeOK
  BY DEF SessionInv, Inv
<1>1. CASE \E s \in Slots : StartAttach(c, s)
  <2>1. PICK z \in Slots : StartAttach(c, z)
    BY <1>1
  <2>2. task[c].at = "idle" /\ settle[c] = {} /\ settle' = settle
    BY <2>1 DEF StartAttach, Steady
  <2>3. task'[c] = [IdleTask EXCEPT !.at = "reserved", !.slot = z]
    BY <1>0, <2>1 DEF StartAttach, SessionTypeOK
  <2>4. task'[c].at = "reserved"
    BY <2>3, IdleTypes DEF Task
  <2>5. /\ UNCHANGED <<unread, permit, paused, constraint>>
        /\ runtime' = [runtime EXCEPT ![z] = "Starting"]
    BY <2>1 DEF StartAttach, vars
  <2>6. \A s \in Slots : runtime'[s] = "Ready" => runtime[s] = "Ready"
    BY <1>0, <2>5 DEF SessionTypeOK
  <2>7. \A s \in Slots : Tells(c, s)
    BY <2>5, <2>6 DEF Tells
  <2> QED BY <2>2, <2>4, <2>5, <2>6, <2>7, ClientGood DEF Coming
<1>4. CASE AttachBegins(c)
  <2> DEFINE z == task[c].slot
  <2>1. /\ task[c].at = "reserved" /\ settle[c] = {} /\ settle' = settle /\ z \in Slots
    BY <1>0, <1>4, TaskFields DEF AttachBegins, TaskFits
  <2>2. task'[c].at = "attach" /\ task'[c].slot = z
    BY <1>0, <1>4, TaskFields DEF AttachBegins, Goto, SessionTypeOK, Task
  <2>3. UNCHANGED <<unread, permit, runtime>>
    BY <1>4 DEF AttachBegins
  <2>4. paused' = paused /\ constraint' = [constraint EXCEPT ![z] = "Starting"]
    BY <1>4, Zenon DEF AttachBegins, SetRuntimeConstraint
  <2> HIDE DEF z
  <2>5. \A s \in Slots : constraint'[s] = constraint[s] \/ Coming(task'[c], s)
    BY <1>0, <2>2, <2>4 DEF TypeOK, Coming
  <2>6. \A s \in Slots : Tells(c, s)
    BY <2>3, <2>5 DEF Tells
  <2>7. \A s \in Slots : Coming(task[c], s) => Coming(task'[c], s)
    BY <2>1, <2>2 DEF Coming, z
  <2> QED BY <2>1, <2>2, <2>3, <2>4, <2>6, <2>7, ClientGood
<1>2. CASE AttachCommits(c)
  <2>1. PICK r \in {"Ready", "Failed"} :
          runtime' = [runtime EXCEPT ![task[c].slot] = r] /\ Goto(c, r)
    BY <1>2 DEF AttachCommits
  <2>2. task[c].at = "attach" /\ settle[c] = {} /\ settle' = settle
    BY <1>2 DEF AttachCommits, TaskFits
  <2>3. task'[c].at = r /\ task'[c].slot = task[c].slot /\ task[c].slot \in Slots
    BY <1>0, <2>1, TaskFields DEF Goto, SessionTypeOK, Task
  <2>4. UNCHANGED <<unread, permit, paused, constraint>>
    BY <1>2 DEF AttachCommits, vars
  <2>5. \A s \in Slots : runtime'[s] = "Ready" =>
           runtime[s] = "Ready" \/ (r = "Ready" /\ s = task[c].slot)
    BY <1>0, <2>1 DEF SessionTypeOK
  <2>6. \A s \in Slots : runtime'[s] = "Ready" => runtime[s] = "Ready" \/ Coming(task'[c], s)
    BY <2>3, <2>5 DEF Coming
  <2>7. \A s \in Slots : Tells(c, s)
    BY <2>4, <2>6 DEF Tells
  <2>8. \A s \in Slots : Coming(task[c], s) =>
          Coming(task'[c], s) \/ runtime'[s] # "Ready"
    BY <1>0, <2>1, <2>2, <2>3 DEF Coming, SessionTypeOK
  <2> QED BY <2>2, <2>3, <2>4, <2>6, <2>7, <2>8, ClientGood
<1>3. CASE AttachPublishes(c)
  <2> DEFINE z == task[c].slot
             r == task[c].at
  <2>1. z \in Slots /\ r \in {"Ready", "Failed"} /\ settle[c] = {}
    BY <1>0, <1>3, TaskFields DEF AttachPublishes, TaskFits
  <2>2. /\ settle'[c] # {} => task'[c].at = "idle"
        /\ task'[c].at \in {"notify", "idle"}
        /\ r = "Ready" => task'[c].at = "notify" /\ task'[c].slot = z
    <3>1. CASE r = "Ready"
      <4>1. task' = [task EXCEPT ![c] = [task[c] EXCEPT !.at = "notify"]]
            /\ settle' = [settle EXCEPT ![c] = {}]
        BY <1>3, <3>1 DEF AttachPublishes
      <4>2. task'[c] = [task[c] EXCEPT !.at = "notify"] /\ settle'[c] = {}
        BY <1>0, <4>1, TasksAct DEF SessionTypeOK
      <4> QED BY <1>0, <4>2, TaskFields DEF Task, SessionTypeOK
    <3>2. CASE r = "Failed"
      BY <1>0, <1>3, <3>2, IdleTypes DEF AttachPublishes, SessionTypeOK
    <3> QED BY <2>1, <3>1, <3>2
  <2>3. UNCHANGED <<unread, runtime, permit>>
    BY <1>3 DEF AttachPublishes
  <2>4. paused' = paused /\ constraint' = [constraint EXCEPT ![z] = r]
    BY <1>3, Zenon DEF AttachPublishes, SetRuntimeConstraint
  <2>5. Leaves(r = "Failed" /\ runtime[z] = "Ready")
    BY <1>3 DEF AttachPublishes
  <2>6. r = "Failed" /\ runtime[z] = "Ready" => Behind'
    BY <1>0, <2>5 DEF Leaves, SessionTypeOK, UpsetRecord, Behind
  <2>8. \A s \in Slots : constraint'[s] = IF s = z THEN r ELSE constraint[s]
    BY <1>0, <2>1, <2>4 DEF TypeOK
  <2>9. \A s \in Slots : Tells(c, s)
    <3> HIDE DEF z, r
    <3> QED BY <2>1, <2>3, <2>6, <2>8 DEF Tells
  <2>10. \A s \in Slots : Coming(task[c], s) => Coming(task'[c], s)
    BY <2>1, <2>2 DEF Coming
  <2> QED BY <2>1, <2>2, <2>3, <2>4, <2>9, <2>10, ClientGood
<1> QED BY <1>1, <1>2, <1>3, <1>4

(* A refusal is for the runtime, which no longer is ready, or of which the *)
(* loop is about to tell.                                                  *)
LEMMA RefusedExcused ==
  ASSUME TypeOK, SessionTypeOK, NotRemoved, ConstraintFresh, NEW s \in Slots,
         ~AcceptsEnqueue(s)
  PROVE  Excused(s) \/ loop[s].at \notin Looking
<1>1. constraint[s] # "Ready"
  BY DEF AcceptsEnqueue, NotRemoved
<1>2. Turning(s) => loop[s].at \notin Looking
  BY DEF Turning, Looking
<1> QED BY <1>1, <1>2 DEF ConstraintFresh, Excused

(* A sender that gives up has nothing to tell, or is counted as missed.    *)
LEMMA GivesUp ==
  ASSUME SessionTypeOK, NEW c, NEW b \in BOOLEAN, Leaves(b), Stale(c) => b,
         UNCHANGED runtime, NEW s \in Slots, Coming(task[c], s),
         task[c].at \in {"acquire", "write", "commit"}
  PROVE  Behind' \/ runtime'[s] # "Ready"
<1>1. task[c].slot = s /\ task[c].seen # "Ready"
  BY DEF Coming
<1>2. b => Behind'
  BY LeavesType DEF Behind
<1> QED BY <1>1, <1>2 DEF Stale

LEMMA AcquireGood ==
  ASSUME SessionInv, TaskInv, NEW c \in Workers, Acquire(c)
  PROVE  TaskGood(c)
<1> DEFINE t == task[c]
<1>0. SessionTypeOK /\ TypeOK /\ TaskFits(c) /\ NotRemoved /\ ConstraintFresh
  BY DEF SessionInv, Inv, TaskInv
<1>1. t.at = "acquire" /\ settle[c] = {} /\ settle' = settle /\ t \in Task
      /\ t.slot \in Slots /\ UNCHANGED <<unread, permit, runtime>>
  BY <1>0, TaskFields DEF Acquire, Steady
<1>2. c = Recovery => /\ ScanTask(t) /\ t.msg # NoMsg
                      /\ t.request = <<"RecoveryDrain", "Background">>
  BY <1>0, <1>1 DEF TaskFits, ScanTask
<1>3. CASE UNCHANGED vars /\ ~AcceptsEnqueue(t.slot) /\ Leaves(GivesUpScan(c) \/ Stale(c))
           /\ task' = [task EXCEPT ![c] = IdleTask]
  <2>1. task'[c] = IdleTask /\ UNCHANGED <<paused, constraint>>
    BY <1>0, <1>3 DEF SessionTypeOK, vars
  <2>2. TaskFits(c)'
    BY <1>1, <2>1, IdleScan DEF TaskFits
  <2>3. Excused(t.slot) \/ loop[t.slot].at \notin Looking
    BY <1>0, <1>1, <1>3, RefusedExcused
  <2>7. (GivesUpScan(c) \/ Stale(c)) \in BOOLEAN
    BY DEF GivesUpScan, Stale
  <2>4. c = Recovery /\ t.scan # {} => Behind'
    BY <1>0, <1>3, <2>7, LeavesType DEF GivesUpScan, Behind
  <2>5. ASSUME NEW s \in Slots
        PROVE  HandsOver(c, s)
    <3>1. Coming(t, s) => Behind' \/ runtime'[s] # "Ready"
      BY <1>0, <1>1, <1>3, <2>7, GivesUp
    <3> QED BY <1>1, <2>1, <2>3, <2>4, <3>1 DEF HandsOver, Holding, ScanComes
  <2>6. \A s \in Slots : Tells(c, s)
    BY <1>1, <2>1 DEF Tells
  <2> QED BY <2>2, <2>5, <2>6 DEF TaskGood
<1>4. CASE /\ AcquireEnqueue(c, t.slot, t.request[1], t.request[2], t.slot)
           /\ Goto(c, IF t.msg = NoMsg /\ RequiresMailboxMessage(t.request[1])
                      THEN "write" ELSE "commit")
  <2> DEFINE at == IF t.msg = NoMsg /\ RequiresMailboxMessage(t.request[1])
                   THEN "write" ELSE "commit"
  <2>1. task'[c] = [t EXCEPT !.at = at]
    BY <1>0, <1>4 DEF Goto, SessionTypeOK
  <2>2. at \in {"write", "commit"} /\ (c = Recovery => at = "commit")
    BY <1>2
  <2> HIDE DEF at
  <2>3. /\ task'[c].at = at /\ task'[c].slot = t.slot /\ task'[c].msg = t.msg
        /\ task'[c].list = t.list /\ task'[c].scan = t.scan
        /\ task'[c].request = t.request /\ task'[c].seen = t.seen
    BY <1>1, <2>1 DEF Task
  <2> DEFINE new == [owner |-> c, slot |-> t.slot, source |-> t.request[1],
                     run |-> BoundRun(t.request[2], t.slot)]
  <2>4. /\ \A l \in leases : l.owner # c
        /\ leases' = leases \cup {new}
        /\ UNCHANGED <<paused, constraint>>
    BY <1>4 DEF AcquireEnqueue, slotVars
  <2>5. c = Recovery => new.run = NoRun
    BY <1>2 DEF BoundRun
  <2>6. new.owner = c /\ new.slot = t.slot
    OBVIOUS
  <2> HIDE DEF new
  <2>7. c = Recovery => ScanTask(task'[c])
    BY <1>2, <2>2, <2>3 DEF ScanTask
  <2>8. TaskFits(c)'
    BY <1>1, <2>2, <2>3, <2>4, <2>5, <2>6, <2>7 DEF TaskFits
  <2>9. ASSUME NEW s \in Slots
        PROVE  HandsOver(c, s)
    BY <1>1, <2>2, <2>3, <2>4 DEF HandsOver, Holding, Coming, ScanComes
  <2>10. \A s \in Slots : Tells(c, s)
    BY <1>1, <2>4 DEF Tells
  <2> QED BY <2>8, <2>9, <2>10 DEF TaskGood
<1> QED BY <1>3, <1>4, Zenon DEF Acquire

LEMMA WritesGood ==
  ASSUME SessionInv, NEW c \in Workers, TaskFits(c), WriteRow(c) \/ WriteFails(c)
  PROVE  TaskGood(c)
<1>0. SessionTypeOK /\ TypeOK
  BY DEF SessionInv, Inv
<1>1. task[c].at = "write" /\ settle[c] = {} /\ c # Recovery /\ settle' = settle
  BY DEF WriteRow, WriteFails, TaskFits, ScanTask
<1>2. UNCHANGED <<permit, runtime>>
  BY DEF WriteRow, WriteFails
<1>3. UNCHANGED <<paused, constraint>>
  BY Zenon DEF WriteRow, WriteFails, AbortEnqueue, slotVars, vars
<1>4. \A s \in Slots : Tells(c, s)
  BY <1>1, <1>2, <1>3 DEF Tells
<1>5. CASE WriteFails(c)
  <2>1. task'[c].at = "idle" /\ unread' = unread
    BY <1>0, <1>5, IdleTypes DEF WriteFails, SessionTypeOK
  <2>2. ASSUME NEW s \in Slots, Coming(task[c], s)
        PROVE  Behind' \/ runtime'[s] # "Ready"
    <3>1. task[c].slot = s /\ task[c].seen # "Ready"
      BY <1>1, <2>2 DEF Coming
    <3>2. Stale(c) => Behind'
      BY <1>0, <1>5, WriteFailsType DEF Behind
    <3> QED BY <1>2, <3>1, <3>2 DEF Stale
  <2> QED BY <1>1, <1>2, <1>3, <1>4, <2>1, <2>2, ClientGood
<1>6. CASE WriteRow(c)
  <2> DEFINE m == NewRow
  <2>1. /\ unread' = [unread EXCEPT ![task[c].slot] = Append(@, m)]
        /\ task' = [task EXCEPT ![c].at = "commit", ![c].msg = m]
        /\ written # Messages
    BY <1>6 DEF WriteRow
  <2>2. m \in Messages \ written
    BY <1>0, <2>1 DEF NewRow, SessionTypeOK
  <2> HIDE DEF m
  <2>3. task'[c].at = "commit" /\ task'[c].msg = m /\ task'[c].slot = task[c].slot
        /\ task'[c].seen = task[c].seen /\ task[c].slot \in Slots
    BY <1>0, <2>1, TaskFields DEF SessionTypeOK, Task
  <2>4. \A s \in Slots : unread[s] \in MailboxViews /\ m \notin Range(unread[s])
    BY <1>0, <2>2 DEF SessionInv, RowsWritten, SessionTypeOK
  <2>5. Range(Append(unread[task[c].slot], m)) = Range(unread[task[c].slot]) \cup {m}
    BY <2>2, <2>3, <2>4, ViewAppend
  <2>6. \A s \in Slots : Range(unread'[s]) \subseteq
            Range(unread[s]) \cup (IF s = task[c].slot THEN {m} ELSE {})
    BY <1>0, <2>1, <2>3, <2>5 DEF SessionTypeOK
  <2>7. leases' = leases
    BY <1>6 DEF WriteRow, vars
  <2>8. TaskFits(c)'
    BY <1>1, <2>3, <2>7 DEF TaskFits
  <2>9. ASSUME NEW s \in Slots
        PROVE  HandsOver(c, s)
    BY <1>1, <1>2, <1>3, <2>3, <2>6 DEF HandsOver, Holding, Coming
  <2> QED BY <1>4, <2>8, <2>9 DEF TaskGood
<1> QED BY <1>5, <1>6

LEMMA CommitGood ==
  ASSUME SessionInv, TaskInv, NEW c \in Workers, Commit(c)
  PROVE  TaskGood(c)
<1> DEFINE t == task[c]
<1>0. SessionTypeOK /\ TypeOK /\ TaskFits(c) /\ t \in Task /\ t.slot \in Slots
  BY TaskFields DEF SessionInv, Inv, TaskInv
<1>1. t.at = "commit" /\ settle[c] = {} /\ UNCHANGED <<unread, permit, runtime, settle>>
  BY <1>0 DEF Commit, TaskFits
<1>2. task'[c] = [t EXCEPT !.at = "notify", !.seen = "Ready"]
  BY <1>0 DEF Commit, SessionTypeOK
<1>3. /\ task'[c].at = "notify" /\ task'[c].slot = t.slot
      /\ task'[c].list = t.list /\ task'[c].scan = t.scan
      /\ task'[c].request = t.request
  BY <1>0, <1>2 DEF Task
<1>4. PICK l \in leases : /\ l.owner = c /\ constraint' = constraint
                          /\ paused' = IF ResumesPausedSlot(l.source)
                                       THEN [paused EXCEPT ![l.slot] = FALSE] ELSE paused
  BY DEF Commit, CommitEnqueue
<1>5. l.slot = t.slot
  BY <1>0, <1>1, <1>4 DEF TaskFits
<1>6. \A s \in Slots : paused[s] => paused'[s] \/ s = t.slot
  BY <1>0, <1>4, <1>5 DEF TypeOK
<1>7. c = Recovery => ScanTask(task'[c])
  BY <1>0, <1>1, <1>3 DEF TaskFits, ScanTask
<1>8. TaskFits(c)'
  BY <1>1, <1>3, <1>7 DEF TaskFits
<1>9. ASSUME NEW s \in Slots
      PROVE  HandsOver(c, s)
  BY <1>1, <1>3, <1>6 DEF HandsOver, Holding, Coming, ScanComes
<1>10. \A s \in Slots : Tells(c, s)
  BY <1>1, <1>4 DEF Tells
<1> QED BY <1>8, <1>9, <1>10 DEF TaskGood

(* The lease of the scan is never cancelled: the refusal is for the        *)
(* runtime.                                                                *)
LEMMA CommitRefusedGood ==
  ASSUME SessionInv, TaskInv, NEW c \in Workers, CommitRefused(c)
  PROVE  TaskGood(c)
<1> DEFINE t == task[c]
<1>0. SessionTypeOK /\ TypeOK /\ TaskFits(c) /\ t \in Task /\ t.slot \in Slots
      /\ NotRemoved /\ ConstraintFresh /\ c \in Actors
  BY TasksAct, TaskFields DEF SessionInv, Inv, TaskInv
<1>1. t.at = "commit" /\ settle[c] = {} /\ UNCHANGED <<unread, permit, runtime>>
  BY <1>0 DEF CommitRefused, TaskFits
<1>2. UNCHANGED <<paused, constraint>>
  BY Zenon DEF CommitRefused, AbortEnqueue, slotVars, vars
<1>3. task'[c] = IdleTask /\ settle'[c] = {t.msg} \ {NoMsg}
  BY <1>0 DEF CommitRefused, SessionTypeOK
<1>4. c = Recovery => Excused(t.slot) \/ loop[t.slot].at \notin Looking
  <2>1. c = Recovery => HasLease(c)
    BY <1>0, <1>1 DEF TaskFits, HasLease
  <2>2. c = Recovery => ~AcceptsEnqueue(t.slot)
    BY <2>1 DEF CommitRefused
  <2> QED BY <1>0, <2>2, RefusedExcused
<1>10. (GivesUpScan(c) \/ Stale(c)) \in BOOLEAN /\ Leaves(GivesUpScan(c) \/ Stale(c))
  BY DEF GivesUpScan, Stale, CommitRefused
<1>5. c = Recovery /\ t.scan # {} => Behind'
  BY <1>0, <1>10, LeavesType DEF GivesUpScan, Behind
<1>6. \A s \in Slots : \A m \in Range(unread[s]) : m # NoMsg
  BY CoordinatorAssumption DEF SessionInv, RowsWritten, SessionTypeOK
<1>7. TaskFits(c)'
  BY <1>3, IdleScan DEF TaskFits
<1>8. ASSUME NEW s \in Slots
      PROVE  HandsOver(c, s)
  <2>1. \A m \in Range(unread[s]) :
          Holding(task[c], settle[c], m, s) => m \in settle'[c]
    BY <1>1, <1>3, <1>6 DEF Holding
  <2>2. \A m \in Range(unread[s]) : c = Recovery /\ ScanComes(task[c], m, s) =>
           Behind' \/ Excused(s) \/ loop[s].at \notin Looking
    BY <1>1, <1>4, <1>5 DEF ScanComes
  <2>3. Coming(t, s) => Behind' \/ runtime'[s] # "Ready"
    BY <1>0, <1>1, <1>10, GivesUp
  <2> QED BY <1>1, <1>2, <2>1, <2>2, <2>3 DEF HandsOver, Holding
<1>9. \A s \in Slots : Tells(c, s)
  BY <1>1, <1>2 DEF Tells
<1> QED BY <1>7, <1>8, <1>9 DEF TaskGood

LEMMA NotifiedGood ==
  ASSUME SessionInv, NEW c \in Workers, TaskFits(c), Notified(c)
  PROVE  TaskGood(c)
<1> DEFINE t == task[c]
           u == task'[c]
<1>0. SessionTypeOK /\ TypeOK /\ t \in Task /\ t.slot \in Slots
  BY TaskFields DEF SessionInv, Inv
<1>1. /\ t.at = "notify" /\ settle[c] = {} /\ UNCHANGED <<unread, runtime, settle>>
      /\ UNCHANGED <<paused, constraint>>
      /\ permit' = [permit EXCEPT ![t.slot] = TRUE]
  BY DEF Notified, TaskFits, vars
<1>2. u = IF c = Recovery THEN AfterRow(t) ELSE IdleTask
  BY <1>0 DEF Notified, SessionTypeOK
<1>3. c = Recovery => ScanTask(t)
  BY DEF TaskFits
<1>4. c = Recovery => ScanTask(u) /\ u.at \in {"next", "scan", "idle"}
  BY <1>0, <1>2, <1>3, AfterRowScan DEF ScanTask
<1>5. c = Recovery /\ t.scan # {} => u.scan = t.scan
  BY <1>0, <1>2, <1>3, AfterRowScan DEF ScanTask, Task
<1>6. c # Recovery => u.at = "idle"
  BY <1>2, IdleTypes
<1> HIDE DEF u
<1>7. TaskFits(c)'
  BY <1>1, <1>4, <1>6 DEF TaskFits, u
<1>8. \A s \in Slots : /\ permit[s] => permit'[s]
                       /\ s = t.slot => permit'[s]
  BY <1>0, <1>1 DEF SessionTypeOK
<1>9. ASSUME NEW s \in Slots
      PROVE  HandsOver(c, s)
  <2>1. \A m \in Range(unread[s]) : /\ ~Holding(task[c], settle[c], m, s)
                                    /\ c = Recovery /\ ScanComes(task[c], m, s) =>
                                         ScanComes(task'[c], m, s)
    BY <1>1, <1>5 DEF Holding, ScanComes, u
  <2> QED BY <1>1, <1>8, <2>1 DEF HandsOver, Coming
<1>10. \A s \in Slots : Tells(c, s)
  BY <1>1 DEF Tells
<1> QED BY <1>7, <1>9, <1>10 DEF TaskGood

LEMMA ReadFailsGood ==
  ASSUME SessionInv, NEW c \in Workers, ReadFails(c)
  PROVE  TaskGood(c)
<1>0. SessionTypeOK /\ TypeOK /\ c \in Actors
  BY TasksAct DEF SessionInv, Inv
<1>1. task'[c] = IdleTask /\ settle'[c] = {}
  BY <1>0 DEF ReadFails, SessionTypeOK
<1>2. UNCHANGED <<unread, permit, runtime, paused, constraint>>
  BY DEF ReadFails, vars
<1>3. Behind'
  BY <1>0, UpsetType DEF ReadFails, Behind
<1>4. TaskFits(c)'
  BY <1>1, IdleScan DEF TaskFits
<1>5. \A s \in Slots : HandsOver(c, s) /\ Tells(c, s)
  BY <1>2, <1>3 DEF HandsOver, Tells
<1> QED BY <1>4, <1>5 DEF TaskGood

LEMMA ScanGood ==
  ASSUME SessionInv, NEW c \in Workers, TaskFits(c), c = Recovery, ScanSlot \/ ScanNext
  PROVE  TaskGood(c)
<1> DEFINE t == task[c]
           u == task'[c]
<1>0. /\ SessionTypeOK /\ TypeOK /\ t \in Task /\ t.slot \in Slots
      /\ ScanTask(t) /\ t.request = <<"RecoveryDrain", "Background">>
      /\ NoMsg \notin Messages
  BY TaskFields, CoordinatorAssumption DEF SessionInv, Inv, TaskFits, ScanTask
<1>1. CASE ScanSlot
  <2>1. PICK z \in t.scan :
          task' = [task EXCEPT ![c] =
                     AfterRow([t EXCEPT !.slot = z, !.list = unread[z],
                                        !.scan = t.scan \ {z}])]
    BY <1>1 DEF ScanSlot
  <2>2. /\ t.at = "scan" /\ UNCHANGED <<unread, permit, runtime, settle, paused, constraint>>
        /\ settle[c] = {}
    BY <1>1 DEF ScanSlot, vars, TaskFits
  <2>3. z \in Slots /\ unread[z] \in Seq(Messages) /\ t.scan \in SUBSET Slots
    BY <1>0, <2>1 DEF Task, SessionTypeOK, MailboxViews
  <2> DEFINE v == [t EXCEPT !.slot = z, !.list = unread[z], !.scan = t.scan \ {z}]
  <2>4. /\ v \in Task /\ v.slot = z /\ v.list = unread[z] /\ v.scan = t.scan \ {z}
        /\ v.request = t.request
    BY <1>0, <2>3 DEF Task
  <2>5. u = AfterRow(v)
    BY <1>0, <2>1 DEF SessionTypeOK
  <2> HIDE DEF v, u
  <2>6. ScanTask(u) /\ u.at \in {"next", "scan", "idle"}
    BY <1>0, <2>4, <2>5, AfterRowScan
  <2>7. unread[z] # <<>> =>
          u.at = "next" /\ u.slot = z /\ u.list = unread[z] /\ u.scan = t.scan \ {z}
    BY <1>0, <2>4, <2>5, AfterRowScan DEF Task
  <2>8. unread[z] = <<>> /\ t.scan \ {z} # {} => u.scan = t.scan \ {z}
    BY <1>0, <2>4, <2>5, AfterRowScan DEF Task
  <2>9. TaskFits(c)'
    BY <2>2, <2>6 DEF TaskFits, u
  <2>10. ASSUME NEW s \in Slots
         PROVE  HandsOver(c, s)
    <3>1. unread[z] = <<>> => Range(unread[z]) = {}
      BY DEF Range
    <3>2. \A m \in Range(unread[s]) : ScanComes(t, m, s) => ScanComes(u, m, s)
      BY <2>2, <2>7, <2>8, <3>1 DEF ScanComes
    <3> QED BY <2>2, <3>2 DEF HandsOver, Holding, Coming, u
  <2>11. \A s \in Slots : Tells(c, s)
    BY <2>2 DEF Tells
  <2> QED BY <2>9, <2>10, <2>11 DEF TaskGood
<1>2. CASE ScanNext
  <2> DEFINE v == ReadSnapshot(t, t.slot)
  <2>1. /\ t.at = "next" /\ settle[c] = {}
        /\ task' = [task EXCEPT ![c] = [v EXCEPT !.msg = Head(t.list),
                                                 !.list = Tail(t.list)]]
        /\ UNCHANGED <<unread, permit, runtime, settle, paused, constraint>>
    BY <1>2 DEF ScanNext, Steady, vars
  <2>2. t.list # <<>> /\ t.list \in Seq(Messages)
    BY <1>0, <2>1 DEF SessionInv, HeldInv, ScanHolds, Task
  <2>3. Head(t.list) \in Messages /\ Range(t.list) = {Head(t.list)} \cup Range(Tail(t.list))
    <3> DEFINE h == <<Head(t.list)>>
               r == Tail(t.list)
    <3>1. t.list = h \o r /\ r \in Seq(Messages) /\ h \in Seq(Messages)
          /\ Head(t.list) \in Messages /\ Range(h) = {Head(t.list)}
      BY <2>2 DEF Range
    <3> HIDE DEF h, r
    <3>2. Range(h \o r) = Range(h) \cup Range(r)
      BY <3>1, ConcatProps
    <3> QED BY <3>1, <3>2 DEF r
  <2>4. u = [v EXCEPT !.msg = Head(t.list), !.list = Tail(t.list)]
    BY <1>0, <2>1 DEF SessionTypeOK
  <2>5. /\ v.at = "publish" /\ v.slot = t.slot /\ v.scan = t.scan /\ v.request = t.request
        /\ v \in Task
    <3>1. runtime[t.slot] \in RuntimeConstraint /\ "publish" \in TaskStages
      BY <1>0 DEF SessionTypeOK, TaskStages
    <3>2. v \in Task
      BY <1>0, <3>1, TaskMoves DEF ReadSnapshot
    <3> QED BY <1>0, <3>2 DEF ReadSnapshot, Task
  <2> HIDE DEF v
  <2>6. /\ u.at = "publish" /\ u.msg = Head(t.list) /\ u.list = Tail(t.list)
        /\ u.slot = t.slot /\ u.scan = t.scan /\ u.request = t.request
    BY <2>4, <2>5 DEF Task
  <2> HIDE DEF u
  <2>7. ScanTask(u)
    BY <1>0, <2>3, <2>6 DEF ScanTask
  <2>8. TaskFits(c)'
    BY <2>1, <2>6, <2>7 DEF TaskFits, u
  <2>9. ASSUME NEW s \in Slots
        PROVE  HandsOver(c, s)
    <3>1. \A m : ScanComes(t, m, s) => ScanComes(u, m, s)
      BY <2>1, <2>3, <2>6 DEF ScanComes
    <3> QED BY <2>1, <3>1 DEF HandsOver, Holding, Coming, u
  <2>10. \A s \in Slots : Tells(c, s)
    BY <2>1 DEF Tells
  <2> QED BY <2>8, <2>9, <2>10 DEF TaskGood
<1> QED BY <1>1, <1>2

(* Every step of a sender, of the scan or of a canceller.                  *)
LEMMA WorkerGood ==
  ASSUME SessionInv, UserWorkBound, TaskInv, NEW c \in Workers, WorkerStep(c)
  PROVE  TaskGood(c)
<1>0. TaskFits(c)
  BY DEF TaskInv
<1>1. CASE Enqueues(c)
  BY <1>0, <1>1, StartsGood, PublishesGood, AcquireGood, WritesGood, CommitGood, CommitRefusedGood,
     NotifiedGood, ReadFailsGood, Zenon DEF Enqueues
<1>2. CASE c \in Clients /\ Controls(c)
  <2>1. c # Recovery
    BY <1>2, SessionAssumption
  <2> QED BY <1>0, <1>2, <2>1, CancelsGood, PausesGood, AttachesGood, Zenon DEF Controls
<1>3. CASE c = Recovery /\ (ScanSlot \/ ScanNext)
  BY <1>0, <1>3, ScanGood
<1> QED BY <1>1, <1>2, <1>3 DEF WorkerStep

------------------------------------------------------------------------------
(* Work that a step does not end.                                          *)
StaysLive(s) == \A i \in LiveOf(s) : i \in Ids' /\ intents'[i].state \in LiveState

LEMMA WorkStays ==
  ASSUME TypeOK, TypeOK', LifeKept, NEW s \in Slots, NEW m \in Messages, HasWork(m, s)
  PROVE  /\ HasWork(m, s)' \/ m \in EndedRows
         /\ StaysLive(s) => HasWork(m, s)'
<1>1. PICK i \in LiveOf(s) : intents[i].msg = m
  BY DEF HasWork
<1>2. i \in Ids /\ IsLive(i)
  BY DEF LiveOf
<1>3. i \in Ids' /\ intents'[i].slot = intents[i].slot /\ intents'[i].msg = m
  BY <1>1, <1>2, KeptFields
<1>4. intents'[i].state \in LiveState \/ intents'[i].state \in TerminalState
  <2>1. intents'[i] \in WorkIntent
    BY <1>3 DEF TypeOK, Ids
  <2> QED BY <2>1 DEF WorkIntent
<1>5. CASE intents'[i].state \in LiveState
  <2>1. i \in LiveOf(s)'
    BY <1>2, <1>3, <1>5 DEF LiveOf, IsLive
  <2> QED BY <1>3, <2>1 DEF HasWork
<1>6. CASE intents'[i].state \in TerminalState
  <2>1. m \in EndedRows
    BY <1>1, <1>2, <1>6, CoordinatorAssumption DEF EndedRows
  <2>2. ~StaysLive(s)
    BY <1>1, <1>6 DEF StaysLive, LiveState, TerminalState
  <2> QED BY <2>1, <2>2
<1> QED BY <1>4, <1>5, <1>6

LEMMA MovedStays ==
  ASSUME TypeOK, NEW S, NEW st \in State, intents' = Moved(intents, S, st),
         NEW s, st \in LiveState \/ \A i \in LiveOf(s) : i \notin S
  PROVE  StaysLive(s)
<1>1. intents \in Seq(WorkIntent)
  BY DEF TypeOK
<1>2. Ids' = Ids
  BY <1>1, MovedType DEF Ids
<1>3. \A i \in Ids : intents'[i].state = IF i \in S THEN st ELSE intents[i].state
  BY <1>1, MovedFields DEF Ids
<1> QED BY <1>2, <1>3 DEF StaysLive, LiveOf, IsLive

LEMMA MovedTwiceStays ==
  ASSUME TypeOK, NEW K, NEW D, NEW st \in State,
         intents' = Moved(Moved(intents, K, "Queued"), D, st),
         NEW s, \A i \in LiveOf(s) : i \notin D
  PROVE  StaysLive(s)
<1> DEFINE mid == Moved(intents, K, "Queued")
<1>0. "Queued" \in State /\ "Queued" \in LiveState
  BY DEF State, LiveState
<1>1. intents \in Seq(WorkIntent)
  BY DEF TypeOK
<1>2. mid \in Seq(WorkIntent) /\ DOMAIN mid = Ids
  BY <1>0, <1>1, MovedType DEF Ids
<1>3. \A i \in Ids : mid[i].state = IF i \in K THEN "Queued" ELSE intents[i].state
  BY <1>0, <1>1, MovedFields DEF Ids
<1> HIDE DEF mid
<1>4. intents' = Moved(mid, D, st)
  BY DEF mid
<1>5. Ids' = Ids
  BY <1>2, <1>4, MovedType DEF Ids
<1>6. \A i \in Ids : intents'[i].state = IF i \in D THEN st ELSE mid[i].state
  BY <1>2, <1>4, MovedFields
<1> QED BY <1>0, <1>3, <1>5, <1>6 DEF StaysLive, LiveOf, IsLive

LEMMA SameStays ==
  ASSUME intents' = intents, NEW s
  PROVE  StaysLive(s)
BY DEF StaysLive, LiveOf, IsLive, Ids

(* The intents of a batch are those of its slot.                           *)
LEMMA TerminalizeStays ==
  ASSUME TypeOK, WorkOwnedOnce, NEW a, NEW op \in DOMAIN batches, NEW st \in TerminalState,
         TerminalizeBatch(a, op, st), NEW s, batches[op].slot # s
  PROVE  StaysLive(s)
<1>1. \A i \in BatchIds(op) : intents[i].slot = batches[op].slot
  BY DEF WorkOwnedOnce, BatchesWellFormed
<1>2. intents' = Moved(intents, BatchIds(op), st)
  BY DEF TerminalizeBatch
<1>3. \A i \in LiveOf(s) : i \notin BatchIds(op)
  BY <1>1 DEF LiveOf
<1> QED BY <1>2, <1>3, MovedStays DEF State

LEMMA ConstraintStays ==
  ASSUME TypeOK, NEW a, NEW z, NEW c, SetRuntimeConstraint(a, z, c),
         NEW s, s # z \/ c \notin {"Failed", "SessionStopped"}
  PROVE  StaysLive(s)
<1> DEFINE live == IF c \in {"Failed", "SessionStopped"} THEN LiveOf(z) ELSE {}
           kept == IF c = "Failed" THEN {i \in live : intents[i].run = NoRun} ELSE {}
           st == IF c = "Failed" THEN "Failed" ELSE "Cancelled"
<1>1. intents' = Moved(Moved(intents, kept, "Queued"), live \ kept, st)
  BY Zenon DEF SetRuntimeConstraint
<1>2. st \in State
  BY DEF State, TerminalState
<1>3. \A i \in LiveOf(s) : i \notin live \ kept
  BY DEF LiveOf
<1> HIDE DEF live, kept, st
<1> QED BY <1>1, <1>2, <1>3, MovedTwiceStays

LEMMA CommitStays ==
  ASSUME TypeOK, NEW a, NEW m, CommitEnqueue(a, m), NEW s
  PROVE  StaysLive(s)
<1>1. PICK x : intents' = Append(intents, x)
  BY DEF CommitEnqueue
<1>2. intents \in Seq(WorkIntent)
  BY DEF TypeOK
<1>3. \A i \in Ids : i \in Ids' /\ intents'[i] = intents[i]
  BY <1>1, <1>2 DEF Ids
<1> QED BY <1>3 DEF StaysLive, LiveOf, IsLive

(* What a task ends of the work the loop of s found, it marks read.        *)
WorkKept(c, s) ==
  \A m \in Messages : loop[s].at = "next" /\ HasWork(m, s) =>
    HasWork(m, s)' \/ m \in settle'[c] \/ Behind

LEMMA WorkerKeepsWork ==
  ASSUME SessionInv, TypeOK', LifeKept, ActiveHasExecutor, NEW c \in Workers,
         WorkerStep(c), NEW s \in Slots
  PROVE  WorkKept(c, s)
<1>0. TypeOK /\ WorkOwnedOnce /\ SessionTypeOK /\ c \in Actors
  BY TasksAct DEF SessionInv, Inv
<1>1. ASSUME StaysLive(s)
      PROVE  WorkKept(c, s)
  BY <1>0, <1>1, WorkStays DEF WorkKept
<1>2. ASSUME settle' = [settle EXCEPT ![c] = EndedRows]
      PROVE  WorkKept(c, s)
  <2>1. settle'[c] = EndedRows
    BY <1>0, <1>2 DEF SessionTypeOK
  <2> QED BY <1>0, <2>1, WorkStays DEF WorkKept
<1>3. ASSUME intents' = intents
      PROVE  WorkKept(c, s)
  BY <1>1, <1>3, SameStays
<1>4. ASSUME PublishSnapshot(c)
      PROVE  WorkKept(c, s)
  BY <1>2, <1>4 DEF PublishSnapshot, PublishRuntimeConstraint
<1>5. CASE Enqueues(c)
  <2>1. ASSUME NEW z \in Slots, NEW rq \in Requests,
               StartEnqueue(c, z, rq) \/ StartSignal(c, z, rq)
        PROVE  WorkKept(c, s)
    BY <1>3, <2>1 DEF StartEnqueue, StartSignal, Requested, vars
  <2>2. CASE Commit(c)
    BY <1>0, <1>1, <2>2, CommitStays DEF Commit
  <2>3. CASE \/ Acquire(c) \/ WriteRow(c) \/ WriteFails(c) \/ CommitRefused(c)
             \/ Notified(c) \/ ReadFails(c)
    BY <1>3, <2>3, Zenon
    DEF Acquire, AcquireEnqueue, WriteRow, WriteFails, AbortEnqueue, CommitRefused,
        Notified, ReadFails, vars
  <2> QED BY <1>4, <1>5, <2>1, <2>2, <2>3, Zenon DEF Enqueues
<1>6. CASE Controls(c)
  <2>1. CASE CancelRunWork(c)
    BY <1>2, <2>1 DEF CancelRunWork
  <2>2. CASE AttachBegins(c)
    <3>1. SetRuntimeConstraint(c, task[c].slot, "Starting")
      BY <2>2 DEF AttachBegins
    <3> QED BY <1>0, <1>1, <3>1, ConstraintStays
  <2>5. CASE AttachPublishes(c)
    <3>1. /\ SetRuntimeConstraint(c, task[c].slot, task[c].at)
          /\ task[c].at \in {"Ready", "Failed"}
          /\ settle' = [settle EXCEPT ![c] = IF task[c].at = "Failed" THEN EndedRows ELSE {}]
      BY <2>5 DEF AttachPublishes
    <3>2. CASE task[c].at = "Failed"
      BY <1>2, <3>1, <3>2
    <3>3. CASE task[c].at = "Ready"
      BY <1>0, <1>1, <3>1, <3>3, ConstraintStays
    <3> QED BY <3>1, <3>2, <3>3
  <2>3. CASE CancelBatch(c)
    <3> DEFINE op == task[c].op
    <3>1. op \in DOMAIN batches /\ "Cancelled" \in TerminalState
      BY <2>3 DEF CancelBatch, SessionInv, HeldInv, CancellerHolds, TerminalState
    <3>2. \/ intents' = intents
          \/ IsCurrentBatch(op) /\ TerminalizeBatch(c, op, "Cancelled")
      BY <2>3 DEF CancelBatch, vars
    <3>3. CASE IsCurrentBatch(op) /\ TerminalizeBatch(c, op, "Cancelled")
      <4>1. CASE batches[op].slot # s
        BY <1>0, <1>1, <3>1, <3>3, <4>1, TerminalizeStays
      <4>2. CASE batches[op].slot = s
        <5>1. active[s] = op /\ op # 0
          BY <1>0, <3>1, <3>3, <4>2, LogTypes DEF IsCurrentBatch
        <5>2. loop[s].at = "next" => loop[s].op = 0
          BY DEF SessionInv, HeldInv, LoopHolds, Early
        <5> QED BY <5>1, <5>2 DEF ActiveHasExecutor, WorkKept, Behind
      <4> QED BY <4>1, <4>2
    <3> QED BY <1>3, <3>2, <3>3
  <2>4. CASE \/ StartCancelRun(c) \/ AttachCommits(c)
             \/ \E z \in Slots : StartPause(c, z) \/ StartCancelChild(c, z)
             \/ \E z \in Slots : StartAttach(c, z)
    BY <1>3, <2>4, Zenon
    DEF StartCancelRun, BeginCancel, AttachCommits, StartPause, PauseSlot,
        StartCancelChild, StartAttach, vars
  <2> QED BY <1>6, <2>1, <2>2, <2>3, <2>4, <2>5, Zenon DEF Controls
<1>7. CASE c = Recovery /\ (ScanSlot \/ ScanNext)
  BY <1>3, <1>7 DEF ScanSlot, ScanNext, vars
<1> QED BY <1>5, <1>6, <1>7 DEF WorkerStep

------------------------------------------------------------------------------
(* A step of a task keeps the invariant.                                   *)
LEMMA WorkerFits ==
  ASSUME TaskInv, NEW c \in Workers, Others(c), TaskGood(c), Behind => Behind'
  PROVE  TaskInv'
<1>1. ASSUME NEW b \in Workers
      PROVE  TaskFits(b)'
  BY <1>1, OthersFit DEF TaskInv, TaskGood
<1>2. NotRemoved'
  BY DEF TaskInv, NotRemoved, Others
<1>3. ASSUME NEW s \in Slots, runtime'[s] = "Ready", ~Behind', ~permit'[s],
             \A b \in Workers : ~Coming(task'[b], s)
      PROVE  /\ ~Behind /\ ~permit[s] /\ runtime[s] = "Ready" /\ ~OnTheWay(s)
             /\ constraint'[s] = "Ready" \/ constraint'[s] = constraint[s]
             /\ loop' = loop
  <2>1. HandsOver(c, s) /\ Tells(c, s)
    BY DEF TaskGood
  <2>2. \A b \in Workers : ~Coming(task[b], s)
    BY <1>3, <2>1 DEF HandsOver, Others
  <2>3. loop' = loop
    BY DEF Others
  <2> QED BY <1>3, <2>1, <2>2, <2>3 DEF HandsOver, Tells, OnTheWay
<1>4. ConstraintFresh'
  BY <1>3 DEF TaskInv, ConstraintFresh, OnTheWay, Turning
<1>5. LoopFresh'
  BY <1>3 DEF TaskInv, LoopFresh, OnTheWay
<1> QED BY <1>1, <1>2, <1>4, <1>5 DEF TaskInv

LEMMA WorkerAwaits ==
  ASSUME SessionInv, SessionInv', NEW c \in Workers, Others(c), TaskGood(c),
         Behind => Behind', NEW s \in Slots, WorkKept(c, s), Awaited(s)
  PROVE  Awaited(s)'
<1>0. HandsOver(c, s) /\ Recovery \in Workers
  BY DEF TaskGood, Workers
<1>1. SUFFICES ASSUME loop'[s].at \in Looking, ~Excused(s)', NEW m \in Range(unread'[s])
               PROVE  Seen(m, s)' \/ Pending(m, s)'
  BY DEF Awaited
<1>2. ~Behind' /\ ~permit'[s] /\ ~paused'[s] /\ runtime'[s] = "Ready"
      /\ \A b \in Workers : ~Coming(task'[b], s)
  BY <1>1 DEF Excused, OnTheWay
<1>3. \A b \in Workers : ~Coming(task[b], s)
  BY <1>0, <1>2 DEF HandsOver, Others
<1>4. ~Excused(s)
  BY <1>0, <1>2, <1>3 DEF HandsOver, Excused, OnTheWay
<1>5. loop'[s] = loop[s]
  BY DEF Others
<1>6. ASSUME Holding(task'[c], settle'[c], m, s)
      PROVE  Pending(m, s)'
  BY <1>6 DEF Pending
<1>7. CASE m \notin Range(unread[s])
  BY <1>0, <1>6, <1>7 DEF HandsOver
<1>8. CASE m \in Range(unread[s])
  <2>1. Seen(m, s) \/ Pending(m, s)
    BY <1>1, <1>4, <1>5, <1>8 DEF Awaited
  <2>2. CASE loop[s].at = "reconcile" /\ m \in Range(loop[s].view)
    BY <1>5, <2>2 DEF Seen
  <2>3. CASE loop[s].at = "next" /\ HasWork(m, s)
    <3>1. m \in Messages
      BY <1>8 DEF SessionInv, RowsWritten, SessionTypeOK
    <3>2. HasWork(m, s)' \/ m \in settle'[c]
      BY <1>4, <2>3, <3>1 DEF WorkKept, Excused
    <3> QED BY <1>5, <1>6, <2>3, <3>2 DEF Seen, Holding
  <2>4. CASE Holding(task[c], settle[c], m, s) \/ (c = Recovery /\ ScanComes(task[c], m, s))
    <3>1. \/ Holding(task'[c], settle'[c], m, s)
          \/ c = Recovery /\ ScanComes(task'[c], m, s)
      BY <1>0, <1>1, <1>2, <1>4, <1>5, <1>8, <2>4 DEF HandsOver
    <3> QED BY <1>6, <3>1 DEF Pending
  <2>5. ASSUME NEW b \in Workers, b # c, Holding(task[b], settle[b], m, s)
        PROVE  Pending(m, s)'
    <3>1. Holding(task'[b], settle'[b], m, s)
      BY <2>5 DEF Others
    <3> QED BY <3>1 DEF Pending
  <2>6. CASE c # Recovery /\ ScanComes(task[Recovery], m, s)
    <3>1. ScanComes(task'[Recovery], m, s)
      BY <1>0, <2>6 DEF Others
    <3> QED BY <3>1 DEF Pending
  <2> QED BY <2>1, <2>2, <2>3, <2>4, <2>5, <2>6 DEF Seen, Pending
<1> QED BY <1>7, <1>8

------------------------------------------------------------------------------
(* A step of the loop of z.                                                *)
LoopLeaves(z) ==
  /\ UNCHANGED <<task, runtime, leases, removed, paused>>
  /\ \A c \in Workers : settle'[c] = settle[c] /\ todo'[c] = todo[c]
  /\ \A s \in Slots : s # z => permit'[s] = permit[s] /\ constraint'[s] = constraint[s]

LEMMA LoopLeavesStep ==
  ASSUME SessionInv, NEW z \in Slots, Drains(z)
  PROVE  LoopLeaves(z)
<1>0. /\ TypeOK /\ SessionTypeOK /\ z \in Actors /\ Workers \subseteq Actors
      /\ z \notin Workers
  BY TasksAct, SessionAssumption DEF SessionInv, Inv, Workers
<1>1. \/ Acts(z)
      \/ \E view : ReconcileMailbox(z, z, view)
      \/ ClaimBatch(z, z)
  BY LoopActs, Zenon DEF Reconcile
<1>2. KeepsCalls(z)
  BY <1>0, <1>1, CallsKept
<1>3. UNCHANGED <<task, runtime>>
  BY Zenon DEF Drains, Wake, PrepareSnapshot, PrepareConstraint, PeekUnread, PeekFails, Reconcile, LoopNext,
     PrepareFails, TurnStarts, CancelLateStart, TurnStartFails, MarkBatchRead, FinishBatch
<1>4. /\ UNCHANGED <<leases, paused>>
      /\ constraint' = constraint \/ constraint' = [constraint EXCEPT ![z] = loop[z].seen]
  <2>1. CASE \/ Wake(z) \/ PeekUnread(z) \/ PeekFails(z) \/ TurnStartFails(z)
             \/ MarkBatchRead(z) \/ PrepareSnapshot(z)
    BY <2>1 DEF Wake, PrepareSnapshot, PeekUnread, PeekFails, TurnStartFails, MarkBatchRead, vars
  <2>2. CASE PrepareConstraint(z)
    BY <2>2, Zenon DEF PrepareConstraint, PublishRuntimeConstraint, SetRuntimeConstraint
  <2>3. CASE Reconcile(z)
    BY <2>3, Zenon DEF Reconcile, ReconcileMailbox, slotVars
  <2>4. CASE LoopNext(z)
    BY <2>4, Zenon DEF LoopNext, ClaimBatch, CompleteSignals, slotVars, vars
  <2>5. CASE PrepareFails(z) \/ TurnStarts(z)
    BY <2>5, Zenon DEF PrepareFails, TurnStarts, RetryStart, MarkStarted, slotVars, vars
  <2>6. CASE CancelLateStart(z) \/ FinishBatch(z)
    BY <2>6, Zenon DEF CancelLateStart, FinishBatch, TerminalizeBatch, slotVars, vars
  <2> QED BY <2>1, <2>2, <2>3, <2>4, <2>5, <2>6, Zenon DEF Drains
<1>5. settle' = settle \/ \E S : settle' = [settle EXCEPT ![z] = S]
  BY Zenon DEF Drains, Wake, PrepareSnapshot, PrepareConstraint, PublishRuntimeConstraint, PeekUnread, PeekFails,
     Reconcile, LoopNext, PrepareFails, TurnStarts, CancelLateStart, TurnStartFails,
     MarkBatchRead, FinishBatch
<1>6. permit' = permit \/ permit' = [permit EXCEPT ![z] = FALSE]
  BY Zenon DEF Drains, Wake, PrepareSnapshot, PrepareConstraint, PeekUnread, PeekFails, Reconcile, LoopNext,
     PrepareFails, TurnStarts, CancelLateStart, TurnStartFails, MarkBatchRead, FinishBatch
<1>7. \A c \in Workers : settle'[c] = settle[c]
  BY <1>0, <1>5 DEF SessionTypeOK
<1>8. \A s \in Slots : s # z => permit'[s] = permit[s]
  BY <1>0, <1>6 DEF SessionTypeOK
<1>9. \A s \in Slots : s # z => constraint'[s] = constraint[s]
  BY <1>0, <1>4 DEF TypeOK
<1> QED BY <1>0, <1>2, <1>3, <1>4, <1>7, <1>8, <1>9 DEF LoopLeaves, KeepsCalls

(* What it does to the coordinator's picture of its own member.            *)
LEMMA LoopTells ==
  ASSUME SessionInv, TaskInv, NEW z \in Slots, Drains(z), LoopLeaves(z), Behind => Behind',
         runtime[z] = "Ready", ~Behind', ~permit'[z], ~OnTheWay(z)
  PROVE  /\ constraint'[z] = "Ready" \/ Turning(z)'
         /\ loop'[z].at = "publish" => loop'[z].seen = "Ready"
<1>0. /\ SessionTypeOK /\ TypeOK /\ z \in Actors
      /\ loop[z] \in Loop /\ loop \in [Slots -> Loop]
  BY TasksAct, LoopFields DEF SessionInv, Inv, SessionTypeOK
<1>1. CASE Wake(z)
  <2>1. loop' = [loop EXCEPT ![z].at = "drain"]
    BY <1>1 DEF Wake, LoopAt
  <2>2. loop'[z].at = "drain"
    BY <1>0, <2>1 DEF Loop
  <2> QED BY <2>2 DEF Turning
<1>2. CASE PrepareSnapshot(z)
  <2>1. loop' = [loop EXCEPT ![z].at = "publish", ![z].seen = runtime[z]]
    BY <1>2 DEF PrepareSnapshot
  <2>2. loop'[z].at = "publish" /\ loop'[z].seen = "Ready"
    BY <1>0, <2>1 DEF Loop
  <2> QED BY <2>2 DEF Turning
<1>3. CASE PrepareConstraint(z)
  <2>1. /\ loop[z].at = "publish" /\ permit' = permit
        /\ SetRuntimeConstraint(z, z, loop[z].seen)
        /\ loop' = [loop EXCEPT ![z].at = "peek", ![z].seen = "Ready"]
    BY <1>3 DEF PrepareConstraint, PublishRuntimeConstraint
  <2>2. loop[z].seen = "Ready"
    BY <2>1 DEF TaskInv, LoopFresh
  <2>3. constraint' = [constraint EXCEPT ![z] = loop[z].seen]
    BY <2>1, Zenon DEF SetRuntimeConstraint
  <2>4. constraint'[z] = "Ready"
    BY <1>0, <2>2, <2>3 DEF TypeOK
  <2>5. loop'[z].at = "peek"
    BY <1>0, <2>1 DEF Loop
  <2> QED BY <2>4, <2>5
<1>4. ASSUME UNCHANGED <<constraint, permit>>, loop[z].at \notin {"drain", "publish"},
             loop'[z].at # "publish"
      PROVE  /\ constraint'[z] = "Ready" \/ Turning(z)'
             /\ loop'[z].at = "publish" => loop'[z].seen = "Ready"
  BY <1>4 DEF TaskInv, ConstraintFresh, Turning
<1>5. ASSUME NEW at \in Early \cup Held, at # "publish", LoopAt(z, at)
      PROVE  loop'[z].at # "publish"
  <2>1. loop'[z].at = at
    BY <1>0, <1>5 DEF LoopAt, Loop
  <2> QED BY <1>5, <2>1
<1>6. ASSUME NEW at, at # "publish", loop' = [loop EXCEPT ![z] = [IdleLoop EXCEPT !.at = at]]
      PROVE  loop'[z].at # "publish"
  <2>1. loop'[z] = [IdleLoop EXCEPT !.at = at]
    BY <1>0, <1>6
  <2>2. loop'[z].at = at
    BY <2>1, IdleTypes DEF Loop
  <2> QED BY <1>6, <2>2
<1>7. ASSUME loop' = [loop EXCEPT ![z] = IdleLoop]
      PROVE  loop'[z].at # "publish"
  BY <1>0, <1>7 DEF IdleLoop
<1>8. CASE PeekUnread(z) \/ PeekFails(z)
  <2>1. loop[z].at = "peek" /\ UNCHANGED <<constraint, permit>>
    BY <1>8 DEF PeekUnread, PeekFails, vars
  <2>2. loop'[z].at # "publish"
    <3>1. CASE PeekUnread(z)
      <4>1. loop' = [loop EXCEPT ![z].at = "reconcile", ![z].view = unread[z]]
        BY <3>1 DEF PeekUnread
      <4> QED BY <1>0, <4>1 DEF Loop
    <3>2. CASE PeekFails(z)
      BY <1>7, <3>2 DEF PeekFails
    <3> QED BY <1>8, <3>1, <3>2
  <2> QED BY <1>4, <2>1, <2>2
<1>9. CASE Reconcile(z)
  <2>1. loop[z].at = "reconcile" /\ UNCHANGED <<constraint, permit>> /\ LoopAt(z, "next")
    BY <1>9, Zenon DEF Reconcile, ReconcileMailbox, slotVars
  <2> QED BY <1>4, <1>5, <2>1 DEF Early
<1>10. CASE LoopNext(z)
  <2>1. loop[z].at = "next" /\ UNCHANGED <<constraint, permit>>
    BY <1>10, Zenon DEF LoopNext, ClaimBatch, CompleteSignals, slotVars, vars
  <2>2. CASE loop' = [loop EXCEPT ![z].at = "prepare", ![z].op = active'[z]]
    <3>1. loop'[z].at = "prepare"
      BY <1>0, <2>2 DEF Loop
    <3> QED BY <1>4, <2>1, <3>1
  <2>3. CASE LoopAt(z, "drain")
    BY <1>4, <1>5, <2>1, <2>3 DEF Early
  <2>4. CASE loop' = [loop EXCEPT ![z] = IdleLoop]
    BY <1>4, <1>7, <2>1, <2>4
  <2> QED BY <1>10, <2>2, <2>3, <2>4, Zenon DEF LoopNext
<1>11. CASE PrepareFails(z) \/ TurnStarts(z) \/ TurnStartFails(z)
  <2>1. loop[z].at = "prepare" /\ UNCHANGED <<constraint, permit>>
    BY <1>11, Zenon
    DEF PrepareFails, TurnStarts, TurnStartFails, RetryStart, MarkStarted, slotVars, vars
  <2>2. \/ loop' = [loop EXCEPT ![z] = IdleLoop]
        \/ \E at \in {"late", "running", "unstarted"} : LoopAt(z, at)
    BY <1>11, Zenon DEF PrepareFails, TurnStarts, TurnStartFails
  <2>3. loop'[z].at # "publish"
    BY <1>5, <1>7, <2>2 DEF Held
  <2> QED BY <1>4, <2>1, <2>3
<1>12. CASE CancelLateStart(z) \/ MarkBatchRead(z) \/ FinishBatch(z)
  <2>1. /\ loop[z].at \in {"late", "running", "unstarted", "complete", "fail"}
        /\ UNCHANGED <<constraint, permit>>
    BY <1>12, Zenon
    DEF CancelLateStart, MarkBatchRead, FinishBatch, TerminalizeBatch, slotVars, vars
  <2>2. \/ loop' = [loop EXCEPT ![z] = [IdleLoop EXCEPT !.at = "drain"]]
        \/ \E at \in {"running", "complete", "fail"} : LoopAt(z, at)
    BY <1>12, Zenon DEF CancelLateStart, MarkBatchRead, FinishBatch
  <2>3. loop'[z].at # "publish"
    BY <1>5, <1>6, <2>2 DEF Held
  <2> QED BY <1>4, <2>1, <2>3
<1> QED BY <1>1, <1>2, <1>3, <1>8, <1>9, <1>10, <1>11, <1>12, Zenon DEF Drains

LEMMA LoopFits ==
  ASSUME SessionInv, TaskInv, NEW z \in Slots, Drains(z), LoopLeaves(z), Behind => Behind',
         \A s \in Slots : s # z => loop'[s] = loop[s]
  PROVE  TaskInv'
<1>1. ASSUME NEW c \in Workers
      PROVE  TaskFits(c)'
  BY <1>1 DEF TaskInv, TaskFits, LoopLeaves
<1>2. NotRemoved'
  BY DEF TaskInv, NotRemoved, LoopLeaves
<1>3. ASSUME NEW s \in Slots, runtime'[s] = "Ready", ~Behind', ~permit'[s], ~OnTheWay(s)'
      PROVE  /\ constraint'[s] = "Ready" \/ Turning(s)'
             /\ loop'[s].at = "publish" => loop'[s].seen = "Ready"
  <2>1. runtime[s] = "Ready" /\ ~Behind /\ ~OnTheWay(s)
    BY <1>3 DEF OnTheWay, LoopLeaves
  <2>2. CASE s = z
    BY <1>3, <2>1, <2>2, LoopTells
  <2>3. CASE s # z
    BY <1>3, <2>1, <2>3 DEF TaskInv, ConstraintFresh, LoopFresh, LoopLeaves, Turning
  <2> QED BY <2>2, <2>3
<1>4. ConstraintFresh' /\ LoopFresh'
  BY <1>3 DEF ConstraintFresh, LoopFresh
<1> QED BY <1>1, <1>2, <1>4 DEF TaskInv

(* It ends no work of another slot.                                        *)
LEMMA LoopSpares ==
  ASSUME SessionInv, NEW z \in Slots, Drains(z), NEW s \in Slots, s # z
  PROVE  StaysLive(s)
<1>0. TypeOK /\ WorkOwnedOnce /\ SessionTypeOK /\ z \in Actors
  BY TasksAct DEF SessionInv, Inv
<1>1. ASSUME UNCHANGED vars
      PROVE  StaysLive(s)
  BY <1>1, SameStays DEF vars
<1>2. loop[z].at \in Held => loop[z].op \in DOMAIN batches /\ batches[loop[z].op].slot = z
  BY DEF SessionInv, HeldInv, LoopHolds
<1>3. CASE \/ Wake(z) \/ PeekUnread(z) \/ PeekFails(z) \/ TurnStartFails(z)
           \/ MarkBatchRead(z) \/ PrepareSnapshot(z)
  BY <1>1, <1>3, Zenon DEF Wake, PrepareSnapshot, PeekUnread, PeekFails, TurnStartFails, MarkBatchRead
<1>4. CASE PrepareConstraint(z)
  <2>1. SetRuntimeConstraint(z, z, loop[z].seen)
    BY <1>4 DEF PrepareConstraint, PublishRuntimeConstraint
  <2> QED BY <1>0, <2>1, ConstraintStays
<1>5. CASE Reconcile(z)
  <2> DEFINE view == loop[z].view
             stale == {i \in QueuedIds(z) : /\ intents[i].msg # NoMsg
                                            /\ intents[i].msg \notin Range(view)}
             kept == Moved(intents, stale, "Completed")
  <2>1. \E new : intents' = kept \o new /\ new \in Seq(WorkIntent)
    <3>1. ReconcileMailbox(z, z, view)
      BY <1>5 DEF Reconcile
    <3> DEFINE owned == {kept[i].msg : i \in LiveOf(z) \ stale}
               fresh == Without(view, owned)
               new == [k \in DOMAIN fresh |->
                         [slot |-> z, source |-> "RecoveryDrain", msg |-> fresh[k],
                          run |-> NoRun, state |-> "Queued"]]
    <3>2. intents' = kept \o new
      BY <3>1 DEF ReconcileMailbox
    <3>3. fresh \in Seq(Messages)
      BY <1>0, LoopFields, WithoutProperties DEF MailboxViews
    <3> HIDE DEF fresh, owned
    <3>4. new \in Seq(WorkIntent)
      BY <3>3, FreshType
    <3> HIDE DEF new, kept
    <3> QED BY <3>2, <3>4
  <2>2. PICK new : intents' = kept \o new /\ new \in Seq(WorkIntent)
    BY <2>1
  <2>3. /\ kept \in Seq(WorkIntent) /\ DOMAIN kept = Ids
        /\ \A i \in Ids : kept[i].state = IF i \in stale THEN "Completed"
                                          ELSE intents[i].state
    BY <1>0, MovedType, MovedFields DEF TypeOK, Ids, State, TerminalState
  <2> HIDE DEF kept
  <2>4. \A i \in Ids : i \in Ids' /\ intents'[i] = kept[i]
    BY <2>2, <2>3 DEF Ids
  <2>5. \A i \in stale : intents[i].slot = z
    BY DEF WorkOwnedOnce, QueueHoldsWaiting, QueuedIds, SessionInv, Inv
  <2> HIDE DEF stale
  <2> QED BY <2>3, <2>4, <2>5 DEF StaysLive, LiveOf, IsLive
<1>6. CASE LoopNext(z)
  <2>1. CASE ClaimBatch(z, z)
    <3>1. PICK S : intents' = Moved(intents, S, "Starting")
      BY <2>1, Zenon DEF ClaimBatch
    <3> QED BY <1>0, <3>1, MovedStays DEF State, LiveState
  <2>2. CASE CompleteSignals(z, z, ServedSignals(z))
    <3>1. /\ intents' = Moved(intents, ServedSignals(z), "Completed")
          /\ \A i \in ServedSignals(z) : intents[i].slot = z
      BY <2>2, Zenon DEF CompleteSignals
    <3>2. \A i \in LiveOf(s) : i \notin ServedSignals(z)
      BY <3>1 DEF LiveOf
    <3> QED BY <1>0, <3>1, <3>2, MovedStays DEF State, TerminalState
  <2> QED BY <1>1, <1>6, <2>1, <2>2, Zenon DEF LoopNext
<1>7. CASE PrepareFails(z)
  <2>1. UNCHANGED vars \/ RetryStart(z, loop[z].op)
    BY <1>7, Zenon DEF PrepareFails
  <2>2. CASE RetryStart(z, loop[z].op)
    <3>1. PICK S : intents' = Moved(intents, S, "Queued")
      BY <2>2, Zenon DEF RetryStart
    <3> QED BY <1>0, <3>1, MovedStays DEF State, LiveState
  <2> QED BY <1>1, <2>1, <2>2
<1>8. CASE TurnStarts(z)
  <2>1. UNCHANGED vars \/ MarkStarted(z, loop[z].op)
    BY <1>8, Zenon DEF TurnStarts
  <2>2. CASE MarkStarted(z, loop[z].op)
    <3>1. PICK S : intents' = Moved(intents, S, "Running")
      BY <2>2, Zenon DEF MarkStarted
    <3> QED BY <1>0, <3>1, MovedStays DEF State, LiveState
  <2> QED BY <1>1, <2>1, <2>2
<1>9. CASE CancelLateStart(z) \/ FinishBatch(z)
  <2>1. \/ UNCHANGED vars
        \/ \E st \in TerminalState : TerminalizeBatch(z, loop[z].op, st)
    BY <1>9 DEF CancelLateStart, FinishBatch, TerminalState
  <2>2. loop[z].op \in DOMAIN batches /\ batches[loop[z].op].slot # s
    BY <1>2, <1>9 DEF CancelLateStart, FinishBatch, Held
  <2>3. ASSUME NEW st \in TerminalState, TerminalizeBatch(z, loop[z].op, st)
        PROVE  StaysLive(s)
    BY <1>0, <2>2, <2>3, TerminalizeStays
  <2> QED BY <1>1, <2>1, <2>3
<1> QED BY <1>3, <1>4, <1>5, <1>6, <1>7, <1>8, <1>9, Zenon DEF Drains

LEMMA LoopAwaitsOther ==
  ASSUME SessionInv, TypeOK', LifeKept, NEW z \in Slots, LoopLeaves(z), Behind => Behind',
         NEW s \in Slots, StaysLive(s), loop'[s] = loop[s], unread'[s] = unread[s],
         s # z, Awaited(s)
  PROVE  Awaited(s)'
<1>1. SUFFICES ASSUME loop'[s].at \in Looking, ~Excused(s)', NEW m \in Range(unread'[s])
               PROVE  Seen(m, s)' \/ Pending(m, s)'
  BY DEF Awaited
<1>2. ~Excused(s) /\ m \in Range(unread[s])
  BY <1>1 DEF Excused, OnTheWay, LoopLeaves
<1>3. Seen(m, s) \/ Pending(m, s)
  BY <1>1, <1>2 DEF Awaited
<1>4. Pending(m, s) => Pending(m, s)'
  BY DEF Pending, LoopLeaves
<1>5. HasWork(m, s) => HasWork(m, s)'
  <2>1. m \in Messages /\ TypeOK
    BY <1>2 DEF SessionInv, RowsWritten, SessionTypeOK, Inv
  <2> QED BY <2>1, WorkStays
<1>6. Seen(m, s) => Seen(m, s)'
  BY <1>5 DEF Seen
<1> QED BY <1>3, <1>4, <1>6

(* After it reconciled, the loop has work for every row it peeked.         *)
LEMMA ReconcileSees ==
  ASSUME TypeOK, NEW a, NEW s \in Slots, NEW view \in MailboxViews,
         ReconcileMailbox(a, s, view), NEW m \in Range(view)
  PROVE  HasWork(m, s)'
<1> DEFINE stale == {i \in QueuedIds(s) : /\ intents[i].msg # NoMsg
                                          /\ intents[i].msg \notin Range(view)}
           kept == Moved(intents, stale, "Completed")
           owned == {kept[i].msg : i \in LiveOf(s) \ stale}
           fresh == Without(view, owned)
           new == [k \in DOMAIN fresh |->
                     [slot |-> s, source |-> "RecoveryDrain", msg |-> fresh[k],
                      run |-> NoRun, state |-> "Queued"]]
<1>1. intents' = kept \o new
  BY DEF ReconcileMailbox
<1>2. /\ intents \in Seq(WorkIntent) /\ "Completed" \in State /\ view \in Seq(Messages)
      /\ "Queued" \in LiveState
  BY DEF TypeOK, State, TerminalState, MailboxViews, LiveState
<1>3. /\ kept \in Seq(WorkIntent) /\ Len(kept) = Len(intents) /\ DOMAIN kept = Ids
      /\ \A i \in Ids : /\ kept[i].slot = intents[i].slot
                        /\ kept[i].state = IF i \in stale THEN "Completed"
                                           ELSE intents[i].state
  BY <1>2, MovedType, MovedFields DEF Ids
<1>4. fresh \in Seq(Messages) /\ Range(fresh) = Range(view) \ owned
  BY <1>2, WithoutProperties
<1>5. CASE m \in owned
  <2>1. PICK i \in LiveOf(s) \ stale : kept[i].msg = m
    BY <1>5
  <2> HIDE DEF kept, owned, fresh, stale
  <2>2. new \in Seq(WorkIntent)
    BY <1>4, FreshType
  <2> HIDE DEF new
  <2>3. i \in Ids /\ i \notin stale /\ intents[i].slot = s /\ intents[i].state \in LiveState
    BY <2>1 DEF LiveOf, IsLive
  <2>4. i \in Ids' /\ intents'[i] = kept[i]
    BY <1>1, <1>3, <2>2, <2>3 DEF Ids
  <2>5. i \in LiveOf(s)' /\ intents'[i].msg = m
    BY <1>3, <2>1, <2>3, <2>4 DEF LiveOf, IsLive
  <2> QED BY <2>5 DEF HasWork
<1>6. CASE m \notin owned
  <2> HIDE DEF owned, fresh
  <2>1. PICK k \in DOMAIN fresh : fresh[k] = m
    BY <1>4, <1>6 DEF Range
  <2>2. new \in Seq(WorkIntent) /\ Len(new) = Len(fresh)
    BY <1>4, FreshType
  <2>3. new[k].slot = s /\ new[k].msg = m /\ new[k].state = "Queued"
    BY <2>1
  <2>4. k \in 1 .. Len(new)
    BY <1>4, <2>1, <2>2
  <2> HIDE DEF new, kept
  <2> DEFINE i == Len(kept) + k
  <2>5. i \in DOMAIN intents' /\ intents'[i] = new[k]
    BY <1>1, <1>3, <2>2, <2>4
  <2> HIDE DEF i
  <2>6. i \in LiveOf(s)' /\ intents'[i].msg = m
    BY <1>2, <2>3, <2>5 DEF LiveOf, IsLive, Ids
  <2> QED BY <2>6 DEF HasWork
<1> QED BY <1>5, <1>6

(* A loop waits only when it must not serve or has no work.                *)
LEMMA WaitsForNothing ==
  ASSUME SessionInv, ActiveHasExecutor, TaskInv, NEW s \in Slots,
         loop[s].at = "next", CannotServe(s), ~Excused(s), NEW m
  PROVE  ~HasWork(m, s)
<1>0. TypeOK /\ WorkOwnedOnce
  BY DEF SessionInv, Inv
<1>1. active[s] = 0
  <2>1. loop[s].op = 0
    BY DEF SessionInv, HeldInv, LoopHolds, Early
  <2> QED BY <2>1 DEF ActiveHasExecutor, Excused, Behind
<1>2. constraint[s] = "Ready" /\ ~paused[s]
  BY DEF TaskInv, ConstraintFresh, Excused, Turning
<1>3. QueuedIds(s) = {}
  BY <1>1, <1>2 DEF CannotServe
<1>4. ASSUME NEW i \in LiveOf(s)
      PROVE  FALSE
  <2>1. i \in Ids /\ intents[i].slot = s /\ intents[i].state \in LiveState
    BY DEF LiveOf, IsLive
  <2>2. intents[i].state = "Queued" => FALSE
    BY <1>0, <1>3, <2>1, IntentPlace DEF WorkOwnedOnce, WaitingIsQueued, QueuedIds
  <2>3. intents[i].state \in {"Starting", "Running"} => FALSE
    BY <1>0, <1>1, <2>1 DEF WorkOwnedOnce, ExecutingIsInBatch, ActiveIds
  <2> QED BY <2>1, <2>2, <2>3 DEF LiveState
<1> QED BY <1>4 DEF HasWork

LEMMA LoopAwaitsOwn ==
  ASSUME SessionInv, SessionInv', ActiveHasExecutor, TaskInv, NEW s \in Slots, Drains(s),
         LoopLeaves(s), Behind => Behind', Awaited(s)
  PROVE  Awaited(s)'
<1>0. SessionTypeOK /\ TypeOK /\ s \in Actors
  BY TasksAct DEF SessionInv, Inv
<1>1. ASSUME loop'[s].at \notin Looking
      PROVE  Awaited(s)'
  BY <1>1 DEF Awaited
<1>2. ASSUME Behind'
      PROVE  Awaited(s)'
  BY <1>2 DEF Awaited, Excused
<1>3. \A m : Pending(m, s) => Pending(m, s)'
  BY DEF Pending, LoopLeaves
<1>4. ASSUME ~Excused(s)', permit' = permit
      PROVE  ~Excused(s)
  BY <1>4 DEF Excused, OnTheWay, LoopLeaves
<1>5. CASE \/ Wake(s) \/ PrepareSnapshot(s) \/ PrepareConstraint(s) \/ TurnStarts(s) \/ CancelLateStart(s)
           \/ TurnStartFails(s) \/ MarkBatchRead(s) \/ FinishBatch(s)
  <2> DEFINE On == {"drain", "publish", "peek", "late", "running", "unstarted", "complete", "fail"}
  <2>1. ASSUME NEW at \in On, LoopAt(s, at)
        PROVE  loop'[s].at \in On
    <3>1. loop'[s] = [loop[s] EXCEPT !.at = at]
      BY <1>0, <2>1 DEF LoopAt, SessionTypeOK
    <3>2. loop[s] \in Loop
      BY <1>0, LoopFields
    <3>3. loop'[s].at = at
      BY <3>1, <3>2 DEF Loop
    <3> QED BY <3>3
  <2>2. ASSUME FinishBatch(s)
        PROVE  loop'[s].at \in On
    <3>0. loop' = [loop EXCEPT ![s] = [IdleLoop EXCEPT !.at = "drain"]]
      BY <2>2, Zenon DEF FinishBatch
    <3>1. loop'[s] = [IdleLoop EXCEPT !.at = "drain"]
      BY <1>0, <3>0 DEF SessionTypeOK
    <3>2. loop'[s].at = "drain"
      BY <3>1, IdleTypes DEF Loop
    <3> QED BY <3>2
  <2>5. ASSUME PrepareSnapshot(s) \/ PrepareConstraint(s)
        PROVE  loop'[s].at \in On
    <3>1. \/ loop' = [loop EXCEPT ![s].at = "publish", ![s].seen = runtime[s]]
          \/ loop' = [loop EXCEPT ![s].at = "peek", ![s].seen = "Ready"]
      BY <2>5 DEF PrepareSnapshot, PrepareConstraint
    <3> QED BY <1>0, <3>1, LoopFields DEF SessionTypeOK, Loop
  <2> HIDE DEF On
  <2>3. ASSUME \/ Wake(s) \/ TurnStarts(s) \/ CancelLateStart(s)
               \/ TurnStartFails(s) \/ MarkBatchRead(s)
        PROVE  loop'[s].at \in On
    <3>1. /\ "drain" \in On /\ "peek" \in On /\ "late" \in On /\ "running" \in On
          /\ "unstarted" \in On /\ "complete" \in On /\ "fail" \in On
      BY DEF On
    <3>2. CASE \/ Wake(s) \/ CancelLateStart(s) \/ TurnStartFails(s)
      BY <2>1, <3>1, <3>2, Zenon DEF Wake, CancelLateStart, TurnStartFails
    <3>3. CASE TurnStarts(s)
      <4>1. \E at \in {"late", "running"} : LoopAt(s, at)
        BY <3>3, Zenon DEF TurnStarts
      <4> QED BY <2>1, <3>1, <4>1
    <3>4. CASE MarkBatchRead(s)
      <4>1. \E at \in {"complete", "fail"} : LoopAt(s, at)
        BY <3>4, Zenon DEF MarkBatchRead
      <4> QED BY <2>1, <3>1, <4>1
    <3> QED BY <2>3, <3>2, <3>3, <3>4
  <2>4. loop'[s].at \in On
    BY <1>5, <2>2, <2>3, <2>5
  <2> QED BY <1>1, <2>4 DEF Looking, On
<1>6. CASE PeekUnread(s)
  <2>1. /\ loop' = [loop EXCEPT ![s].at = "reconcile", ![s].view = unread[s]]
        /\ unread' = unread
    BY <1>6 DEF PeekUnread
  <2>2. loop'[s].at = "reconcile" /\ loop'[s].view = unread'[s]
    BY <1>0, <2>1, LoopFields DEF SessionTypeOK, Loop
  <2> QED BY <2>2 DEF Awaited, Seen
<1>7. CASE PeekFails(s) \/ PrepareFails(s)
  <2>1. Behind'
    BY <1>0, <1>7, UpsetType, WedgesType, Zenon DEF PeekFails, PrepareFails, Behind
  <2> QED BY <1>2, <2>1
<1>8. CASE Reconcile(s)
  <2>1. loop[s].at = "reconcile" /\ UNCHANGED <<unread, permit>> /\ loop[s].view \in MailboxViews
        /\ ReconcileMailbox(s, s, loop[s].view) /\ LoopAt(s, "next")
    BY <1>0, <1>8, LoopFields DEF Reconcile
  <2>2. loop'[s].at = "next"
    BY <1>0, <2>1, LoopFields DEF LoopAt, SessionTypeOK, Loop
  <2>3. SUFFICES ASSUME ~Excused(s)', NEW m \in Range(unread'[s])
                 PROVE  Seen(m, s)' \/ Pending(m, s)'
    BY DEF Awaited
  <2>4. Seen(m, s) \/ Pending(m, s)
    BY <1>4, <2>1, <2>3 DEF Awaited, Looking
  <2>5. CASE m \in Range(loop[s].view)
    <3>1. HasWork(m, s)'
      BY <1>0, <2>1, <2>5, ReconcileSees
    <3> QED BY <2>2, <3>1 DEF Seen
  <2> QED BY <1>3, <2>1, <2>4, <2>5 DEF Seen
<1>9. CASE LoopNext(s)
  <2>1. loop[s].at = "next" /\ UNCHANGED <<unread, permit>>
    BY <1>9 DEF LoopNext
  <2>2. CASE loop' = [loop EXCEPT ![s].at = "prepare", ![s].op = active'[s]]
    <3>1. loop'[s].at = "prepare"
      BY <1>0, <2>2, LoopFields DEF SessionTypeOK, Loop
    <3> QED BY <1>1, <3>1 DEF Looking
  <2>3. CASE LoopAt(s, "drain")
    <3>1. loop'[s].at = "drain"
      BY <1>0, <2>3, LoopFields DEF SessionTypeOK, Loop, LoopAt
    <3> QED BY <1>1, <3>1 DEF Looking
  <2>4. CASE CannotServe(s)
    <3>1. SUFFICES ASSUME ~Excused(s)', NEW m \in Range(unread'[s])
                   PROVE  Pending(m, s)'
      BY DEF Awaited
    <3>2. ~Excused(s)
      BY <1>4, <2>1, <3>1
    <3>3. Seen(m, s) \/ Pending(m, s)
      BY <2>1, <3>1, <3>2 DEF Awaited, Looking
    <3>4. ~HasWork(m, s)
      BY <2>1, <2>4, <3>2, WaitsForNothing
    <3> QED BY <1>3, <2>1, <3>3, <3>4 DEF Seen
  <2> QED BY <1>9, <2>2, <2>3, <2>4, Zenon DEF LoopNext
<1> QED BY <1>5, <1>6, <1>7, <1>8, <1>9, Zenon DEF Drains

------------------------------------------------------------------------------
(* The other steps.                                                        *)
LEMMA MarkReadWakes ==
  ASSUME SessionInv, WakeInv, NEW a \in Actors, MarkRead(a)
  PROVE  WakeInv'
<1>0. SessionTypeOK
  BY DEF SessionInv
<1>1. /\ UNCHANGED <<vars, runtime, permit, loop, task, upsets>>
      /\ settle' = [settle EXCEPT ![a] = {}]
      /\ unread' = [s \in Slots |-> Without(unread[s], settle[a])]
  BY DEF MarkRead
<1>2. /\ UNCHANGED <<intents, leases, todo, removed, constraint, paused>>
      /\ UNCHANGED <<runtime, permit, loop, task, upsets>>
  BY <1>1 DEF vars
<1>3. \A b \in Actors : settle'[b] = IF b = a THEN {} ELSE settle[b]
  BY <1>0, <1>1 DEF SessionTypeOK
<1>4. \A s \in Slots : Range(unread'[s]) = Range(unread[s]) \ settle[a]
  BY <1>0, <1>1, ViewWithout DEF SessionTypeOK
<1>5. Workers \subseteq Actors
  BY TasksAct
<1>6. TaskInv'
  <2>1. ASSUME NEW c \in Workers
        PROVE  TaskFits(c)'
    <3>1. settle'[c] # {} => settle[c] # {}
      BY <1>3, <1>5
    <3> QED BY <1>2, <3>1 DEF WakeInv, TaskInv, TaskFits
  <2>2. NotRemoved' /\ ConstraintFresh' /\ LoopFresh'
    BY <1>2 DEF WakeInv, TaskInv, NotRemoved, ConstraintFresh, LoopFresh, OnTheWay, Turning,
                Behind
  <2> QED BY <2>1, <2>2 DEF TaskInv
<1>7. ASSUME NEW s \in Slots
      PROVE  Awaited(s)'
  <2>1. SUFFICES ASSUME loop'[s].at \in Looking, ~Excused(s)', NEW m \in Range(unread'[s])
                 PROVE  Seen(m, s)' \/ Pending(m, s)'
    BY DEF Awaited
  <2>2. ~Excused(s) /\ loop[s].at \in Looking
    BY <1>2, <2>1 DEF Excused, OnTheWay, Behind
  <2>3. m \in Range(unread[s]) /\ m \notin settle[a]
    BY <1>4, <2>1
  <2>4. Seen(m, s) \/ Pending(m, s)
    BY <2>2, <2>3 DEF WakeInv, Awaited
  <2>5. Seen(m, s) => Seen(m, s)'
    BY <1>2 DEF Seen, HasWork, LiveOf, IsLive, Ids
  <2>6. Pending(m, s) => Pending(m, s)'
    <3>1. \A c \in Workers : m \in settle[c] => m \in settle'[c]
      BY <1>3, <1>5, <2>3
    <3> QED BY <1>2, <3>1 DEF Pending, Holding
  <2> QED BY <2>4, <2>5, <2>6
<1> QED BY <1>6, <1>7 DEF WakeInv

LEMMA SameWakes ==
  ASSUME SessionInv, WakeInv, UNCHANGED sessionVars, NEW a \in Actors,
         Reports(a) \/ UNCHANGED vars
  PROVE  WakeInv'
<1>0. TypeOK /\ Workers \subseteq Actors
  BY TasksAct DEF SessionInv, Inv
<1>1. /\ UNCHANGED <<intents, leases, removed, constraint, paused>>
      /\ UNCHANGED <<unread, runtime, permit, loop, task, settle, upsets>>
  BY DEF Reports, PublishNext, slotVars, vars, sessionVars
<1>2. ASSUME NEW c \in Workers
      PROVE  TaskFits(c)'
  <2>1. TaskFits(c) /\ c \in Actors
    BY <1>0 DEF WakeInv, TaskInv
  <2>2. CASE todo'[c] = todo[c]
    BY <1>1, <2>1, <2>2 DEF TaskFits
  <2>3. CASE todo'[c] # todo[c]
    <3>1. c = a /\ PublishNext(a)
      BY <1>0, <2>1, <2>3 DEF Reports, PublishNext, vars, TypeOK
    <3>2. task[c].at # "cancelling"
      <4>1. ASSUME NEW r, todo[c] = <<CallAbout("cancel", r)>>
            PROVE  FALSE
        <5>1. Head(todo[c]).kind = "cancel"
          BY <4>1 DEF CallAbout
        <5> QED BY <3>1, <5>1 DEF PublishNext
      <4> QED BY <2>1, <4>1 DEF TaskFits
    <3> QED BY <1>1, <2>1, <3>2 DEF TaskFits
  <2> QED BY <2>2, <2>3
<1>3. NotRemoved' /\ ConstraintFresh' /\ LoopFresh'
  BY <1>1 DEF WakeInv, TaskInv, NotRemoved, ConstraintFresh, LoopFresh, OnTheWay, Turning,
              Behind
<1>4. ASSUME NEW s \in Slots
      PROVE  Awaited(s)'
  <2>1. Excused(s)' <=> Excused(s)
    BY <1>1 DEF Excused, OnTheWay, Behind
  <2>2. ASSUME NEW m
        PROVE  (Seen(m, s)' <=> Seen(m, s)) /\ (Pending(m, s)' <=> Pending(m, s))
    BY <1>1 DEF Seen, HasWork, LiveOf, IsLive, Ids, Pending
  <2> QED BY <1>1, <2>1, <2>2 DEF WakeInv, Awaited
<1> QED BY <1>2, <1>3, <1>4 DEF WakeInv, TaskInv

(* A session that has just started scans every slot.                       *)
LEMMA StartScans ==
  /\ \A c \in Workers : StartTasks[c].at \in {"idle", "scan"}
  /\ Recovery \in Workers /\ StartTasks[Recovery].scan = Slots
  /\ ScanTask(StartTasks[Recovery])
BY DEF StartTasks, Workers, IdleTask, ScanTask

LEMMA CrashWakes ==
  ASSUME CrashRestart
  PROVE  WakeInv'
<1>1. /\ removed' = AtStart(FALSE) /\ constraint' = AtStart("Ready") /\ leases' = {}
      /\ task' = StartTasks /\ settle' = [a \in Actors |-> {}] /\ loop' = AtStart(IdleLoop)
  BY DEF CrashRestart
<1>2. TaskInv'
  <2>1. ASSUME NEW c \in Workers
        PROVE  TaskFits(c)'
    <3>1. settle'[c] = {}
      BY <1>1, TasksAct
    <3> QED BY <1>1, <3>1, StartScans DEF TaskFits
  <2>2. NotRemoved' /\ ConstraintFresh' /\ LoopFresh'
    BY <1>1 DEF NotRemoved, ConstraintFresh, LoopFresh, AtStart, IdleLoop
  <2> QED BY <2>1, <2>2 DEF TaskInv
<1>3. ASSUME NEW s \in Slots
      PROVE  Awaited(s)'
  BY <1>1, StartScans DEF Awaited, Pending, ScanComes
<1> QED BY <1>2, <1>3 DEF WakeInv

LEMMA WakeInit == SessionInit => WakeInv
<1> SUFFICES ASSUME SessionInit
             PROVE  WakeInv
  OBVIOUS
<1>1. /\ removed = AtStart(FALSE) /\ constraint = AtStart("Ready") /\ leases = {}
      /\ task = StartTasks /\ settle = [a \in Actors |-> {}] /\ loop = AtStart(IdleLoop)
  BY DEF SessionInit
<1>2. TaskInv
  <2>1. ASSUME NEW c \in Workers
        PROVE  TaskFits(c)
    <3>1. settle[c] = {}
      BY <1>1, TasksAct
    <3> QED BY <1>1, <3>1, StartScans DEF TaskFits
  <2>2. NotRemoved /\ ConstraintFresh /\ LoopFresh
    BY <1>1 DEF NotRemoved, ConstraintFresh, LoopFresh, AtStart, IdleLoop
  <2> QED BY <2>1, <2>2 DEF TaskInv
<1>3. ASSUME NEW s \in Slots
      PROVE  Awaited(s)
  BY <1>1, StartScans DEF Awaited, Pending, ScanComes
<1> QED BY <1>2, <1>3 DEF WakeInv

------------------------------------------------------------------------------
(* Every step of the session keeps the invariant.                          *)
LEMMA WakeNext ==
  ASSUME SessionInv, SessionInv', ActiveHasExecutor, UserWorkBound, WakeInv,
         SessionNext, ~CrashRestart
  PROVE  WakeInv'
<1>1. /\ TypeOK /\ TypeOK' /\ WorkOwnedOnce /\ SessionTypeOK
  BY DEF SessionInv, Inv
<1>2. [AnyNext]_vars
  BY SessionIsAny
<1>3. LifeKept
  BY <1>1, <1>2, LifeStep
<1>4. Behind => Behind'
  BY <1>1, WedgedStays DEF Behind
<1>5. ASSUME NEW c \in Workers, WorkerStep(c)
      PROVE  WakeInv'
  <2>1. TaskInv /\ TaskFits(c)
    BY DEF WakeInv, TaskInv
  <2>2. Others(c) /\ TaskGood(c)
    BY <1>5, <2>1, WorkerOthers, WorkerGood
  <2>3. TaskInv'
    BY <1>4, <2>1, <2>2, WorkerFits
  <2>4. ASSUME NEW s \in Slots
        PROVE  Awaited(s)'
    <3>1. WorkKept(c, s)
      BY <1>1, <1>3, <1>5, WorkerKeepsWork
    <3>2. Awaited(s)
      BY DEF WakeInv
    <3> QED BY <1>4, <2>2, <3>1, <3>2, WorkerAwaits
  <2> QED BY <2>3, <2>4 DEF WakeInv
<1>6. ASSUME NEW z \in Slots, Drains(z)
      PROVE  WakeInv'
  <2>1. LoopLeaves(z) /\ TaskInv
    BY <1>6, LoopLeavesStep DEF WakeInv
  <2>3. LoopRows(z)
    <3>1. \A op \in DOMAIN batches : op \in DOMAIN batches' /\ batches'[op] = batches[op]
      BY SessionLog
    <3>2. Inv'
      BY DEF SessionInv
    <3> QED BY <1>2, <1>6, <3>1, <3>2, LoopRowsStep
  <2>2. TaskInv'
    <3>1. \A s \in Slots : s # z => loop'[s] = loop[s]
      BY <2>3 DEF LoopRows
    <3> QED BY <1>4, <1>6, <2>1, <3>1, LoopFits
  <2>4. ASSUME NEW s \in Slots
        PROVE  Awaited(s)'
    <3>1. Awaited(s)
      BY DEF WakeInv
    <3>2. CASE s = z
      BY <1>4, <1>6, <2>1, <3>1, <3>2, LoopAwaitsOwn
    <3>3. CASE s # z
      <4>1. loop'[s] = loop[s] /\ unread'[s] = unread[s]
        BY <2>3, <3>3 DEF LoopRows
      <4>2. StaysLive(s)
        BY <1>6, <3>3, LoopSpares
      <4> QED BY <1>1, <1>3, <1>4, <2>1, <3>1, <3>3, <4>1, <4>2, LoopAwaitsOther
    <3> QED BY <3>2, <3>3
  <2> QED BY <2>2, <2>4 DEF WakeInv
<1>7. ASSUME NEW a \in Actors, MarkRead(a) \/ Reports(a)
      PROVE  WakeInv'
  BY <1>7, MarkReadWakes, SameWakes DEF Reports
<1>8. Recovery \in Workers /\ Clients \subseteq Workers
  BY DEF Workers
<1> QED BY <1>5, <1>6, <1>7, <1>8, Zenon DEF SessionNext, WorkerStep

LEMMA WakeStep ==
  ASSUME SessionInv, SessionInv', ActiveHasExecutor, UserWorkBound, WakeInv,
         [SessionNext]_allVars
  PROVE  WakeInv'
<1>1. CASE CrashRestart
  BY <1>1, CrashWakes
<1>2. CASE SessionNext /\ ~CrashRestart
  BY <1>2, WakeNext
<1>3. CASE UNCHANGED allVars
  <2>1. UNCHANGED sessionVars /\ UNCHANGED vars
    BY <1>3 DEF allVars
  <2>2. \E a : a \in Actors
    BY SessionAssumption
  <2> QED BY <2>1, <2>2, SameWakes
<1> QED BY <1>1, <1>2, <1>3

(* A permit is never lost: when every sender and the scan are done, a loop *)
(* that waits without one has no row to serve that it may serve, but for   *)
(* the failures that leave rows behind.                                    *)
THEOREM WakeupCorrect == SessionSpec => []NoLostWakeup
<1>1. SessionInv /\ WakeInv => NoLostWakeup
  <2> SUFFICES ASSUME SessionInv, WakeInv, NEW s \in Slots, loop[s].at = "waiting", ~permit[s],
                      \A c \in Workers : task[c].at = "idle" /\ settle[c] = {},
                      unread[s] # <<>>, ~paused[s], runtime[s] = "Ready", ~Behind
               PROVE  FALSE
    BY DEF NoLostWakeup, Behind
  <2>1. ~Excused(s)
    BY DEF Excused, OnTheWay, Coming
  <2>2. \A m \in Range(unread[s]) : Seen(m, s) \/ Pending(m, s)
    BY <2>1 DEF WakeInv, Awaited, Looking
  <2>3. Recovery \in Workers /\ task[Recovery].scan = {}
    BY DEF Workers, WakeInv, TaskInv, TaskFits, ScanTask
  <2>4. \A m : ~Seen(m, s) /\ ~Pending(m, s)
    BY <2>3 DEF Seen, Pending, Holding, ScanComes
  <2>5. unread[s] \in Seq(Messages)
    BY DEF SessionInv, SessionTypeOK, MailboxViews
  <2>6. Range(unread[s]) # {}
    BY <2>5 DEF Range
  <2> QED BY <2>2, <2>4, <2>6
<1>2. WakeInv /\ SessionInv /\ SessionInv' /\ ActiveHasExecutor /\ Promises
        /\ [SessionNext]_allVars => WakeInv'
  BY WakeStep DEF Promises
<1> QED BY <1>1, <1>2, WakeInit, SessionCorrect, ExecutorCorrect, PromisesHold, PTL
        DEF SessionSpec
==============================================================================
