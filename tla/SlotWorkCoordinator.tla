------------------------- MODULE SlotWorkCoordinator -------------------------
(***************************************************************************)
(* SlotWorkCoordinator (crates/aionui-team/src/work_coordinator/): the     *)
(* work every agent slot of a team session has queued, is executing, or    *)
(* has finished, together with the TeamRunManager it reports to.           *)
(*                                                                         *)
(* All coordinator state is under one mutex, so each public method is one  *)
(* atomic action.  What a method does after it drops the guard, calls to   *)
(* the run manager with summaries computed under the guard, is left in     *)
(* todo[a], where a is the task that made the call: those calls are made   *)
(* in order by later steps of a (PublishNext) and interleave with every    *)
(* other task's.  A task with such calls outstanding is still inside the   *)
(* method and starts nothing else.                                         *)
(*                                                                         *)
(* Intent, lease and batch ids (generate_id) are numbered in the order     *)
(* they are generated.  Any batch that was ever handed out may be          *)
(* submitted again by any task, so the ownership checks face every stale   *)
(* owner.  A submission the code answers with StaleOwner or Rejected       *)
(* changes nothing and has no action of its own.                           *)
(***************************************************************************)
EXTENDS Integers, Sequences, FiniteSets, SequencesExt, WorkQueue,
        TeamRunManager

CONSTANTS Slots,        \* slot ids of the team
          Messages,     \* mailbox message ids
          NoMsg,        \* mailbox_message_id: None
          Actors,       \* the tasks that call the coordinator
          Requests,     \* the enqueue requests callers make
          Constraints,  \* the runtime constraints callers publish
          MaxIntents,   \* how many intents a behaviour may create
          MaxBatches    \* how many batches a behaviour may claim

Foreground == "Foreground"
Control    == "Control"
Background == "Background"
Priorities == {Foreground, Control, Background}

(* WorkSource::priority                                                    *)
ForegroundSources == {"UserMessage", "UserIntervention"}
ControlSources    == {"McpShutdownRequest", "ShutdownRejected"}
BackgroundSources == {"McpSendMessage", "SpawnWelcome",
                      "TeamMembershipChanged", "SpawnAttachFailure",
                      "IdleNotification", "InterruptedNotification",
                      "RecoveryDrain"}
WorkSource == ForegroundSources \cup ControlSources \cup BackgroundSources

PriorityOf(source) == CASE source \in ForegroundSources -> Foreground
                        [] source \in ControlSources    -> Control
                        [] source \in BackgroundSources -> Background

ResumesPausedSlot(source) == source \in ForegroundSources

RequiresMailboxMessage(source) ==
  source \notin {"TeamMembershipChanged", "IdleNotification"}

(* CausalBinding                                                           *)
Bindings == {"UserVisible", "InheritRunningBatch", "ActiveRunOrBackground",
             "Background"}

(* The (source, binding) pairs that session.rs builds EnqueueRequests of.  *)
EnqueueRequest ==
       ForegroundSources \X {"UserVisible"}
  \cup {"McpSendMessage", "McpShutdownRequest", "ShutdownRejected",
        "SpawnWelcome", "SpawnAttachFailure", "InterruptedNotification"}
         \X {"InheritRunningBatch"}
  \cup {"SpawnWelcome", "TeamMembershipChanged", "IdleNotification"}
         \X {"ActiveRunOrBackground"}
  \cup {<<"RecoveryDrain", "Background">>}

LiveState     == {"Queued", "Starting", "Running"}
TerminalState == {"Completed", "Failed", "Cancelled"}

RuntimeConstraint == {"Ready", "Starting", "Failed", "Removing",
                      "SessionStopped"}

ASSUME CoordinatorAssumption ==
  /\ NoMsg \notin Messages /\ IsFiniteSet(Messages)
  /\ Requests \subseteq EnqueueRequest
  /\ Constraints \subseteq RuntimeConstraint
  /\ MaxIntents \in Nat /\ MaxBatches \in Nat

WorkIntent == [slot : Slots, source : WorkSource,
               msg : Messages \cup {NoMsg}, run : RunIds \cup {NoRun},
               state : LiveState \cup TerminalState]

WorkBatch == [slot : Slots, ids : Seq(Nat), priority : Priorities]

EnqueueLease == [owner : Actors, slot : Slots, source : WorkSource,
                 run : RunIds \cup {NoRun}]

(* A call to make after the coordinator's guard is dropped: to the run     *)
(* manager (publish a summary, abort a binding) or, between begin_cancel   *)
(* and the coordinator's cancel_run, that second half of a cancellation.   *)
Call == [kind : {"summary", "abort", "cancel"}, run : RunIds \cup {NoRun},
         failed : BOOLEAN, running : BOOLEAN, work : BOOLEAN]

VARIABLES
  intents,     \* WorkIntents, by id; an intent is never forgotten
  queue,       \* queue[s][p]: the ids slot s has queued at priority p
  active,      \* active[s]: operation id of the slot's batch, 0 for none
  batches,     \* every WorkBatch handed out, by operation id
  paused,      \* paused[s]: the slot was interrupted by the user
  constraint,  \* constraint[s]: what the member's runtime allows
  removed,     \* removed[s]: the slot was removed from the team
  leases,      \* enqueue_leases
  run,         \* TeamRunManager's record
  runs,        \* how many runs were created
  todo         \* todo[a]: the calls task a has still to make

slotVars == <<active, batches, paused, constraint, removed>>
vars == <<intents, queue, active, batches, paused, constraint, removed,
          leases, run, runs, todo>>

Init ==
  /\ intents = <<>>
  /\ queue = [s \in Slots |-> [p \in Priorities |-> <<>>]]
  /\ active = [s \in Slots |-> 0]
  /\ batches = <<>>
  /\ paused = [s \in Slots |-> FALSE]
  /\ constraint = [s \in Slots |-> "Starting"]
  /\ removed = [s \in Slots |-> FALSE]
  /\ leases = {}
  /\ run = NoRunRecord
  /\ runs = 0
  /\ todo = [a \in Actors |-> <<>>]

------------------------------------------------------------------------------
(* Helpers.                                                                *)

Ids == DOMAIN intents

IsLive(i) == intents[i].state \in LiveState

(* Mutant: the is_terminal filter is missing.                              *)
AllOf(s) == {i \in Ids : intents[i].slot = s}

LiveOf(s) == {i \in Ids : intents[i].slot = s /\ IsLive(i)}

PriorityOfIntent(i) == PriorityOf(intents[i].source)

QueuedIds(s) == UNION {Range(queue[s][p]) : p \in Priorities}

BatchIds(op) == Range(batches[op].ids)

ActiveIds(s) == IF active[s] = 0 THEN {} ELSE BatchIds(active[s])

RunsOf(S) == {intents[i].run : i \in S} \ {NoRun}

(* team_run_ids.first() of a batch                                         *)
FirstRun(op) ==
  LET ids   == batches[op].ids
      bound == {k \in DOMAIN ids : intents[ids[k]].run # NoRun}
  IN  IF bound = {}
      THEN NoRun
      ELSE intents[ids[CHOOSE k \in bound : \A j \in bound : k <= j]].run

(* The intents S of ins moved to state st.                                 *)
Moved(ins, S, st) ==
  [i \in DOMAIN ins |-> IF i \in S THEN [ins[i] EXCEPT !.state = st]
                                   ELSE ins[i]]

(* remove_queued, for every id of S, on a slot's three queues.             *)
RemoveQueued(q, S) == [p \in Priorities |-> Without(q[p], S)]

EmptyQueues == [p \in Priorities |-> <<>>]

(* validate_enqueue_constraint                                             *)
AcceptsEnqueue(s) == ~removed[s] /\ constraint[s] \in {"Ready", "Starting"}

(* Mutant: a batch is never found stale.                                   *)
NeverStale(op) == TRUE

(* is_current_batch                                                        *)
IsCurrentBatch(op) == active[batches[op].slot] = op

(* Mutant: the intents of other runs are counted.                          *)
SummaryOfAll(ins, ls, r) ==
  LET states == {ins[i].state : i \in DOMAIN ins}
  IN  [kind |-> "summary", run |-> r,
       failed  |-> "Failed" \in states,
       running |-> "Running" \in states,
       work    |-> states \cap LiveState # {} \/ ls # {}]

(* run_summary_locked                                                      *)
RunSummary(ins, ls, r) ==
  LET states == {ins[i].state : i \in {j \in DOMAIN ins : ins[j].run = r}}
  IN  [kind |-> "summary", run |-> r,
       failed  |-> "Failed" \in states,
       running |-> "Running" \in states,
       work    |-> \/ states \cap LiveState # {}
                   \/ \E l \in ls : l.run = r]

(* run_summaries_locked and, after the guard is dropped,                   *)
(* publish_run_summaries: one summary for each run of R.                   *)
Publish(a, R) ==
  \E order \in Enumerations(R) :
    todo' = [todo EXCEPT ![a] =
               [k \in DOMAIN order |-> RunSummary(intents', leases', order[k])]]

CallAbout(kind, r) == [kind |-> kind, run |-> r, failed |-> FALSE,
                       running |-> FALSE, work |-> FALSE]

(* Task a is not in the middle of a coordinator method.                    *)
Free(a) == todo[a] = <<>>

------------------------------------------------------------------------------
(* Enqueueing: a lease, a durable mailbox write by the caller, a commit.   *)

(* The run a request is bound to; user-visible requests create one when    *)
(* none is active.                                                         *)
BoundRun(binding, caller) ==
  CASE binding = "UserVisible" -> BindUserEnqueue(run, runs + 1).id
    [] binding = "InheritRunningBatch" ->
         IF active[caller] = 0 THEN NoRun ELSE FirstRun(active[caller])
    [] binding = "ActiveRunOrBackground" -> CurrentActiveRunId(run)
    [] binding = "Background" -> NoRun

AcquireEnqueue(a, s, source, binding, caller) ==
  LET creates == binding = "UserVisible" /\ ~IsActive(run)
  IN  /\ Free(a)
      /\ \A l \in leases : l.owner # a
      /\ AcceptsEnqueue(s)
      /\ creates => runs < MaxRuns
      /\ run'  = IF binding = "UserVisible" THEN BindUserEnqueue(run, runs + 1)
                                            ELSE run
      /\ runs' = IF creates THEN runs + 1 ELSE runs
      /\ leases' = leases \cup {[owner |-> a, slot |-> s, source |-> source,
                                 run |-> BoundRun(binding, caller)]}
      /\ UNCHANGED <<intents, queue, slotVars, todo>>

CommitEnqueue(a, m) ==
  \E l \in leases :
    LET id == Len(intents) + 1
    IN  /\ Free(a)
        /\ l.owner = a
        /\ RequiresMailboxMessage(l.source) => m # NoMsg
        /\ AcceptsEnqueue(l.slot)
        /\ Len(intents) < MaxIntents
        /\ leases' = leases \ {l}
        /\ intents' = Append(intents, [slot |-> l.slot, source |-> l.source,
                                       msg |-> m, run |-> l.run,
                                       state |-> "Queued"])
        /\ paused' = IF ResumesPausedSlot(l.source)
                     THEN [paused EXCEPT ![l.slot] = FALSE] ELSE paused
        /\ queue' = [queue EXCEPT ![l.slot][PriorityOf(l.source)] =
                       Append(@, id)]
        /\ Publish(a, {l.run} \ {NoRun})
        /\ UNCHANGED <<active, batches, constraint, removed, run, runs>>

(* The run is dropped when nothing else refers to it, but only after the   *)
(* coordinator's guard is dropped.                                         *)
AbortEnqueue(a) ==
  \E l \in leases :
    LET empties == /\ l.run # NoRun
                   /\ \A i \in Ids : intents[i].run # l.run
                   /\ \A k \in leases \ {l} : k.run # l.run
    IN  /\ Free(a)
        /\ l.owner = a
        /\ leases' = leases \ {l}
        /\ todo' = [todo EXCEPT ![a] =
                      (IF empties THEN <<CallAbout("abort", l.run)>> ELSE <<>>)
                      \o (IF l.run = NoRun THEN <<>>
                          ELSE <<RunSummary(intents, leases', l.run)>>)]
        /\ UNCHANGED <<intents, queue, slotVars, run, runs>>

------------------------------------------------------------------------------
(* The event loop's side: reconcile with the mailbox, claim, start, finish. *)

(* reconcile_mailbox: queued intents whose message is no longer unread are *)
(* settled; unread messages no live intent of the slot owns get a recovery *)
(* intent, in mailbox order.                                               *)
ReconcileMailbox(a, s, unread) ==
  LET stale == {i \in QueuedIds(s) : /\ intents[i].msg # NoMsg
                                     /\ intents[i].msg \notin Range(unread)}
      kept  == Moved(intents, stale, "Completed")
      owned == {kept[i].msg : i \in LiveOf(s) \ stale}
      fresh == Without(unread, owned)
      n     == Len(intents)
  IN  /\ Free(a)
      /\ n + Len(fresh) <= MaxIntents
      /\ intents' = kept \o [k \in DOMAIN fresh |->
                               [slot |-> s, source |-> "RecoveryDrain",
                                msg |-> fresh[k], run |-> NoRun,
                                state |-> "Queued"]]
      /\ queue' = [queue EXCEPT ![s] =
                     [p \in Priorities |->
                        IF p = Background
                        THEN Without(@[p], stale) \o [k \in DOMAIN fresh |-> n + k]
                        ELSE Without(@[p], stale)]]
      /\ UNCHANGED <<slotVars, leases, run, runs, todo>>

(* The priority `next` serves, and the messages queued at it.              *)
Serves(s, p) ==
  /\ queue[s][p] # <<>>
  /\ p = Control    => queue[s][Foreground] = <<>>
  /\ p = Background => queue[s][Foreground] = <<>> /\ queue[s][Control] = <<>>

SignalIds == {i \in Ids : intents[i].msg = NoMsg}

(* next, when its decision is Claim: one batch of every message intent at  *)
(* the served priority.                                                    *)
ClaimBatch(a, s) ==
  \E p \in Priorities :
    LET ids == Without(queue[s][p], SignalIds)
        op  == Len(batches) + 1
    IN  /\ Free(a)
        /\ active[s] = 0
        /\ constraint[s] = "Ready"
        /\ ~paused[s]
        /\ Serves(s, p)
        /\ ids # <<>>
        /\ Len(batches) < MaxBatches
        /\ batches' = Append(batches, [slot |-> s, ids |-> ids,
                                       priority |-> p])
        /\ intents' = Moved(intents, Range(ids), "Starting")
        /\ queue' = [queue EXCEPT ![s] = RemoveQueued(@, Range(ids))]
        /\ active' = [active EXCEPT ![s] = op]
        /\ UNCHANGED <<paused, constraint, removed, leases, run, runs>>
        /\ Publish(a, RunsOf(Range(ids)))

(* complete_signals, for ids that `next` answered SettleSignals with.      *)
CompleteSignals(a, s, S) ==
  /\ Free(a)
  /\ \A i \in S : /\ i \in SignalIds
                  /\ intents[i].slot = s /\ intents[i].state = "Queued"
  /\ intents' = Moved(intents, S, "Completed")
  /\ queue' = [queue EXCEPT ![s] = RemoveQueued(@, S)]
  /\ UNCHANGED <<slotVars, leases, run, runs>>
  /\ Publish(a, RunsOf(S))

(* mark_started, for the current batch.                                    *)
MarkStarted(a, op) ==
  /\ Free(a)
  /\ IsCurrentBatch(op)
  /\ intents' = Moved(intents, BatchIds(op), "Running")
  /\ UNCHANGED <<queue, slotVars, leases, run, runs>>
  /\ Publish(a, RunsOf(BatchIds(op)))

(* Mutant: retry_start queues behind what arrived meanwhile.               *)
RetryStartBehind(a, op) ==
  LET b == batches[op]
  IN  /\ Free(a)
      /\ IsCurrentBatch(op)
      /\ intents' = Moved(intents, BatchIds(op), "Queued")
      /\ active' = [active EXCEPT ![b.slot] = 0]
      /\ queue' = [queue EXCEPT ![b.slot][b.priority] = @ \o b.ids]
      /\ UNCHANGED <<batches, paused, constraint, removed, leases, run, runs>>
      /\ Publish(a, RunsOf(BatchIds(op)))

(* retry_start: the batch's intents go back to the front of their queue.   *)
RetryStart(a, op) ==
  LET b == batches[op]
  IN  /\ Free(a)
      /\ IsCurrentBatch(op)
      /\ intents' = Moved(intents, BatchIds(op), "Queued")
      /\ active' = [active EXCEPT ![b.slot] = 0]
      /\ queue' = [queue EXCEPT ![b.slot][b.priority] = b.ids \o @]
      /\ UNCHANGED <<batches, paused, constraint, removed, leases, run, runs>>
      /\ Publish(a, RunsOf(BatchIds(op)))

(* terminalize_batch: complete_batch, fail_batch and cancel_batch.         *)
TerminalizeBatch(a, op, st) ==
  /\ Free(a)
  /\ IsCurrentBatch(op)
  /\ intents' = Moved(intents, BatchIds(op), st)
  /\ active' = [active EXCEPT ![batches[op].slot] = 0]
  /\ UNCHANGED <<queue, batches, paused, constraint, removed, leases, run,
                 runs>>
  /\ Publish(a, RunsOf(BatchIds(op)))

------------------------------------------------------------------------------
(* Cancellation, pausing, the member runtime, removal and shutdown.        *)

(* TeamSession::cancel_run first moves the active run to Cancelling ...    *)
BeginCancel(a) ==
  /\ Free(a)
  /\ IsActive(run)
  /\ run' = BeginCancelOf(run)
  /\ todo' = [todo EXCEPT ![a] = <<CallAbout("cancel", run.id)>>]
  /\ UNCHANGED <<intents, queue, slotVars, leases, runs>>

(* ... then cancels the run's intents and leases.  An executing batch that *)
(* holds one of them is taken from its slot, and its other intents go back *)
(* to the front of their queues.                                           *)
CancelRun(a) ==
  LET r     == Head(todo[a]).run
      hit   == {s \in Slots : \E i \in ActiveIds(s) : intents[i].run = r}
      taken == UNION {ActiveIds(s) : s \in hit}
      ofRun == {i \in Ids : intents[i].run = r}
      Back(s, p) == IF s \in hit
                    THEN Without(batches[active[s]].ids,
                                 {i \in Ids : PriorityOfIntent(i) # p})
                    ELSE <<>>
      done  == (taken \cap ofRun)
               \cup {i \in ofRun : intents[i].state = "Queued"}
  IN  /\ todo[a] # <<>> /\ Head(todo[a]).kind = "cancel"
      /\ intents' = Moved(Moved(intents, taken \ ofRun, "Queued"),
                          done, "Cancelled")
      /\ active' = [s \in Slots |-> IF s \in hit THEN 0 ELSE active[s]]
      /\ queue' = [s \in Slots |-> [p \in Priorities |->
                     Without(Back(s, p) \o queue[s][p], done)]]
      /\ leases' = {l \in leases : l.run # r}
      /\ UNCHANGED <<batches, paused, constraint, removed, run, runs>>
      /\ Publish(a, {r})

(* pause_slot                                                              *)
PauseSlot(a, s) ==
  /\ Free(a)
  /\ paused' = [paused EXCEPT ![s] = TRUE]
  /\ UNCHANGED <<intents, queue, active, batches, constraint, removed, leases,
                 run, runs, todo>>

(* set_runtime_constraint.  A failed or stopped runtime ends the slot's    *)
(* work; a failure keeps the work that belongs to no run, and queues it in *)
(* the order the intents' HashMap happens to yield.                        *)
SetRuntimeConstraint(a, s, c) ==
  LET ends == c \in {"Failed", "SessionStopped"}
      live == IF ends THEN LiveOf(s) ELSE {}
      kept == IF c = "Failed" THEN {i \in live : intents[i].run = NoRun}
                              ELSE {}
      At(p) == {i \in kept : PriorityOfIntent(i) = p}
  IN  /\ Free(a)
      /\ constraint' = [constraint EXCEPT ![s] = c]
      /\ intents' = Moved(Moved(intents, kept, "Queued"), live \ kept,
                          IF c = "Failed" THEN "Failed" ELSE "Cancelled")
      /\ active' = IF ends THEN [active EXCEPT ![s] = 0] ELSE active
      /\ \E f \in Enumerations(At(Foreground)), t \in Enumerations(At(Control)),
            b \in Enumerations(At(Background)) :
           queue' = IF ~ends THEN queue
                    ELSE [queue EXCEPT ![s] =
                            [p \in Priorities |-> CASE p = Foreground -> f
                                                    [] p = Control    -> t
                                                    [] p = Background -> b]]
      /\ UNCHANGED <<batches, paused, removed, leases, run, runs>>
      /\ Publish(a, RunsOf(live \ kept))

(* remove_slot                                                             *)
RemoveSlot(a, s) ==
  LET gone == ActiveIds(s) \cup QueuedIds(s) \cup LiveOf(s)
  IN  /\ Free(a)
      /\ intents' = Moved(intents, gone, "Cancelled")
      /\ queue' = [queue EXCEPT ![s] = EmptyQueues]
      /\ active' = [active EXCEPT ![s] = 0]
      /\ removed' = [removed EXCEPT ![s] = TRUE]
      /\ UNCHANGED <<batches, paused, constraint, leases, run, runs>>
      /\ Publish(a, RunsOf(gone))

(* stop: reports every run any intent or lease was ever bound to.          *)
Stop(a) ==
  /\ Free(a)
  /\ intents' = Moved(intents, {i \in Ids : IsLive(i)}, "Cancelled")
  /\ queue' = [s \in Slots |-> EmptyQueues]
  /\ active' = [s \in Slots |-> 0]
  /\ constraint' = [s \in Slots |-> "SessionStopped"]
  /\ leases' = {}
  /\ UNCHANGED <<batches, paused, removed, run, runs>>
  /\ Publish(a, RunsOf(Ids) \cup ({l.run : l \in leases} \ {NoRun}))

(* The next call task a owes the run manager.                              *)
PublishNext(a) ==
  /\ todo[a] # <<>>
  /\ \/ /\ Head(todo[a]).kind = "summary"
        /\ run' = ApplyWorkSummary(run, Head(todo[a]))
     \/ /\ Head(todo[a]).kind = "abort"
        /\ run' = AbortBinding(run, Head(todo[a]).run)
  /\ todo' = [todo EXCEPT ![a] = Tail(@)]
  /\ UNCHANGED <<intents, queue, slotVars, leases, runs>>

------------------------------------------------------------------------------
(* What peek_unread can return: unread messages in creation order.  Which  *)
(* of two messages is older is not fixed here.                             *)
UnreadLists == UNION {Enumerations(S) : S \in SUBSET Messages}

Enqueueing(a) ==
  \/ \E s, caller \in Slots, rq \in Requests :
       AcquireEnqueue(a, s, rq[1], rq[2], caller)
  \/ \E m \in Messages \cup {NoMsg} : CommitEnqueue(a, m)
  \/ AbortEnqueue(a)

Executing(a) ==
  \/ \E s \in Slots : \E unread \in UnreadLists : ReconcileMailbox(a, s, unread)
  \/ \E s \in Slots : ClaimBatch(a, s)
  \/ \E s \in Slots : \E S \in SUBSET SignalIds \ {{}} : CompleteSignals(a, s, S)
  \/ \E op \in DOMAIN batches : MarkStarted(a, op)
  \/ \E op \in DOMAIN batches : RetryStart(a, op)
  \/ \E op \in DOMAIN batches, st \in TerminalState : TerminalizeBatch(a, op, st)

Controlling(a) ==
  \/ BeginCancel(a)
  \/ CancelRun(a)
  \/ \E s \in Slots : PauseSlot(a, s)
  \/ \E s \in Slots, c \in Constraints : SetRuntimeConstraint(a, s, c)
  \/ \E s \in Slots : RemoveSlot(a, s)
  \/ Stop(a)

Next == \E a \in Actors : \/ Enqueueing(a)
                          \/ Executing(a)
                          \/ Controlling(a)
                          \/ PublishNext(a)

Spec == Init /\ [][Next]_vars

------------------------------------------------------------------------------
(* Types.                                                                  *)

(* Every variable has the type of the field it models.                     *)
TypeOK ==
  /\ intents \in Seq(WorkIntent)
  /\ queue \in [Slots -> [Priorities -> Seq(Nat)]]
  /\ active \in [Slots -> Nat]
  /\ batches \in Seq(WorkBatch)
  /\ paused \in [Slots -> BOOLEAN]
  /\ constraint \in [Slots -> RuntimeConstraint]
  /\ removed \in [Slots -> BOOLEAN]
  /\ leases \subseteq EnqueueLease
  /\ run \in TeamRunRecord
  /\ runs \in RunIds \cup {0}
  /\ todo \in [Actors -> Seq(Call)]

------------------------------------------------------------------------------
(* Ownership of work.                                                      *)

(* What a queue holds is an intent of that slot and priority that waits.   *)
QueueHoldsWaiting ==
  \A s \in Slots, p \in Priorities :
    \A i \in Range(queue[s][p]) :
      /\ i \in Ids
      /\ intents[i].slot = s
      /\ PriorityOfIntent(i) = p
      /\ intents[i].state = "Queued"

(* No intent is queued twice.                                              *)
QueuesDistinct ==
  \A s \in Slots, p \in Priorities : IsInjective(queue[s][p])

(* No waiting intent is forgotten by its queue.                            *)
WaitingIsQueued ==
  \A i \in Ids : intents[i].state = "Queued" =>
    i \in Range(queue[intents[i].slot][PriorityOfIntent(i)])

(* A batch is made of message intents of its own slot and priority, each   *)
(* once.                                                                   *)
BatchesWellFormed ==
  \A op \in DOMAIN batches :
    /\ IsInjective(batches[op].ids)
    /\ \A i \in BatchIds(op) : /\ i \in Ids
                               /\ intents[i].slot = batches[op].slot
                               /\ PriorityOfIntent(i) = batches[op].priority
                               /\ intents[i].msg # NoMsg

(* A slot's active batch is one of its own and everything in it executes.  *)
BatchHoldsExecuting ==
  \A s \in Slots : active[s] # 0 =>
    /\ active[s] \in DOMAIN batches
    /\ batches[active[s]].slot = s
    /\ \A i \in BatchIds(active[s]) :
         intents[i].state \in {"Starting", "Running"}

(* Nothing executes outside its slot's active batch.                       *)
ExecutingIsInBatch ==
  \A i \in Ids : intents[i].state \in {"Starting", "Running"} =>
    i \in ActiveIds(intents[i].slot)

(* Whatever tasks interleave, and whatever stale batches they submit, a    *)
(* live intent is owned exactly once: by its slot's queue of its priority  *)
(* while it waits and by its slot's active batch while it executes.        *)
WorkOwnedOnce ==
  /\ QueueHoldsWaiting
  /\ QueuesDistinct
  /\ WaitingIsQueued
  /\ BatchesWellFormed
  /\ BatchHoldsExecuting
  /\ ExecutingIsInBatch

(* The states an intent may go to from each state in one operation:        *)
(* a terminal state is final, and an intent runs only after it started.    *)
Successors(st) ==
  CASE st = "Queued"   -> {"Queued", "Starting"} \cup TerminalState
    [] st = "Starting" -> LiveState \cup TerminalState
    [] st = "Running"  -> {"Queued", "Running"} \cup TerminalState
    [] st \in TerminalState -> {st}

(* No operation, a late or repeated one included, revives a finished       *)
(* intent, loses one, rebinds it or skips a stage of its life.             *)
IntentLifecycle ==
  [][\A i \in Ids :
       /\ i \in DOMAIN intents'
       /\ intents'[i].state \in Successors(intents[i].state)
       /\ [intents'[i] EXCEPT !.state = "Queued"] =
          [intents[i] EXCEPT !.state = "Queued"]]_vars

(* User work is served in the order it was committed: a slot's foreground  *)
(* queue is in commit order, and so is its foreground batch, which holds   *)
(* nothing younger than what waits.  Retries and cancellations that give   *)
(* work back to the queue keep that order.                                 *)
ForegroundFifo ==
  \A s \in Slots :
    /\ Ascending(queue[s][Foreground])
    /\ active[s] # 0 /\ batches[active[s]].priority = Foreground =>
         Ascending(batches[active[s]].ids \o queue[s][Foreground])

(* A run is reported failed only when one of its own intents failed,       *)
(* however late the report is made.                                        *)
FailedRunHasFailedIntent ==
  run.status = "Failed" =>
    \E i \in Ids : intents[i].run = run.id /\ intents[i].state = "Failed"

------------------------------------------------------------------------------
(* What a test of the repository says of a run and the code does not keep  *)
(* when tasks interleave.                                                  *)

(* aborting_the_creator_lease_preserves_a_concurrent_committed_enqueue:    *)
(* the record of a run with a committed intent is not dropped.             *)
AbortPreservesCommitted ==
  [][(\E i \in Ids : IsLive(i) /\ intents[i].run = run.id /\ run.id # NoRun)
       => run'.id # NoRun]_vars
==============================================================================
