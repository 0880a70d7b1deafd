----------------------------- MODULE TeamSession -----------------------------
(***************************************************************************)
(* A team session (crates/aionui-team/src/session.rs) at work: the tasks   *)
(* that send messages, cancel and attach, the durable mailbox, and one     *)
(* event loop per slot (event_loop.rs) that drains it through the slot     *)
(* work coordinator.  Every step below is one coordinator method (an       *)
(* action of SlotWorkCoordinator), one reading or commit of the registry   *)
(* of member runtimes, one mailbox query or one notification; between two  *)
(* steps of a task the others run.                                         *)
(*                                                                         *)
(* The loop of slot s calls the coordinator as task s, clients as          *)
(* themselves, and the recovery scan of ensure_session as task Recovery.   *)
(* A crash loses everything but the mailbox.  The turn itself is external: *)
(* it starts, or fails to, and it ends.  The member's runtime is reduced   *)
(* to what the registry's snapshot maps to (MemberRuntimeRegistry models   *)
(* the registry).  Faults are failed database calls.  The slots are leads: *)
(* what a teammate's finished or interrupted turn sends to its lead        *)
(* (finalize_turn, notify_leader_child_interrupted) is a client's request. *)
(***************************************************************************)
EXTENDS SlotWorkCoordinator

CONSTANTS Clients,      \* tasks that serve user requests
          Recovery,     \* the task that runs the recovery scan
          MaxLoad       \* bounds the messages and the upsets (faults,
                        \* crashes, attaches, cancellations, pauses, signals)

ASSUME SessionAssumption ==
  /\ Actors = Slots \cup Clients \cup {Recovery} /\ Slots # {}
  /\ Slots \cap (Clients \cup {Recovery}) = {} /\ Recovery \notin Clients
  /\ MaxLoad \in Nat /\ MaxLoad \div 2 <= Cardinality(Messages)

VARIABLES
  unread,    \* unread[s]: the unread rows addressed to s, oldest first
  written,   \* every row ever written
  runtime,   \* runtime[s]: what member_runtimes.snapshot(s) maps to
  permit,    \* permit[s]: the stored permit of the loop's Notify
  loop,      \* loop[s]: where the event loop is, what it peeked and claimed
  task,      \* task[c]: where a client (or the scan) is, and with what;
             \* both hold the snapshot of the runtime they read last (seen)
  settle,    \* settle[a]: rows task a has still to mark read
  turn,      \* turn[s]: rows the agent turn in progress was prompted with
  ended,     \* rows whose work ended without a prompt (history)
  upsets     \* how many upsets there were, whether one left a batch active
             \* that nobody executes, and whether rows were left behind
             \* (history)

sessionVars == <<unread, written, runtime, permit, loop, task, settle, turn,
                 ended, upsets>>
allVars == <<vars, sessionVars>>

IdleLoop == [at |-> "waiting", seen |-> "Ready", view |-> <<>>, op |-> 0]
IdleTask == [at |-> "idle", slot |-> CHOOSE s \in Slots : TRUE,
             seen |-> "Ready", msg |-> NoMsg,
             request |-> <<"RecoveryDrain", "Background">>, op |-> 0, list |-> <<>>, scan |-> {}]

Workers == Clients \cup {Recovery}

(* A session right after ensure_session: loops spawned, members Ready (and *)
(* the coordinator told so), the recovery scan about to run.               *)
AtStart(x) == [s \in Slots |-> x]
StartTasks == [c \in Workers |->
                 IF c = Recovery THEN [IdleTask EXCEPT !.at = "scan",
                                                       !.scan = Slots]
                                 ELSE IdleTask]

SessionInit ==
  /\ intents = <<>> /\ queue = AtStart(EmptyQueues)
  /\ active = AtStart(0) /\ batches = <<>>
  /\ paused = AtStart(FALSE) /\ removed = AtStart(FALSE)
  /\ constraint = AtStart("Ready") /\ runtime = AtStart("Ready")
  /\ leases = {} /\ run = NoRunRecord /\ runs = 0
  /\ todo = [a \in Actors |-> <<>>]
  /\ permit = AtStart(FALSE) /\ loop = AtStart(IdleLoop)
  /\ task = StartTasks /\ turn = AtStart({})
  /\ settle = [a \in Actors |-> {}]
  /\ unread = AtStart(<<>>) /\ written = {} /\ ended = {}
  /\ upsets = [count |-> 0, wedged |-> FALSE, missed |-> FALSE]

------------------------------------------------------------------------------
(* Steps that tasks have in common.                                        *)

Goto(c, at) == task' = [task EXCEPT ![c].at = at]

Steady(a) == Free(a) /\ settle[a] = {}

(* The rows of the live intents that this step ends.                       *)
EndedRows == {intents[i].msg : i \in {j \in Ids : /\ IsLive(j)
                                                 /\ intents'[j].state
                                                      \in TerminalState}}
             \ {NoMsg}

BatchRows(op) == {intents[i].msg : i \in BatchIds(op)} \ {NoMsg}

(* set_runtime_constraint, under the coordinator's mutex, with the snapshot *)
(* read before under the registry's; what it ends is marked read next      *)
(* (publish_runtime_constraint, prepare_next_batch).                       *)
PublishRuntimeConstraint(a, s, seen) ==
  /\ Free(a)
  /\ SetRuntimeConstraint(a, s, seen)
  /\ settle' = [settle EXCEPT ![a] = EndedRows]
  /\ ended' = ended \cup EndedRows

(* mark_read_batch of the rows a task owes.                                *)
MarkRead(a) ==
  /\ Free(a) /\ settle[a] # {}
  /\ unread' = [s \in Slots |-> Without(unread[s], settle[a])]
  /\ settle' = [settle EXCEPT ![a] = {}]
  /\ UNCHANGED <<vars, written, runtime, permit, loop, task, turn, ended,
                 upsets>>

(* The requests that have not written their message yet.                   *)
Sending == {c \in Clients : /\ task[c].at \in {"publish", "acquire", "write"}
                            /\ RequiresMailboxMessage(task[c].request[1])}

(* What a behaviour has spent of MaxLoad: two for every message or signal, *)
(* one for every other upset; at most half of it goes to upsets.           *)
Load == 2 * (Cardinality(written) + Cardinality(Sending)) + upsets.count

Spends(weight) == /\ Load + weight <= MaxLoad
                  /\ 2 * (upsets.count + weight) <= MaxLoad

(* An upset, which may leave unread rows with nobody on the way to their   *)
(* loop.                                                                   *)
Upset(weight, behind) ==
  /\ Spends(weight)
  /\ upsets' = [upsets EXCEPT !.count = @ + weight, !.missed = @ \/ behind]

(* A step that is no upset may leave rows behind, too.                     *)
Leaves(behind) == upsets' = [upsets EXCEPT !.missed = @ \/ behind]

(* The constraint a task published was out of date, or is by now: the loop *)
(* may wait because of it and nobody but the task will notify it.          *)
Stale(c) == task[c].seen # "Ready" /\ runtime[task[c].slot] = "Ready"

(* mark_read_batch, or peek_unread of the scan, fails: the request, or the *)
(* rest of the scan, is given up.                                          *)
ReadFails(c) ==
  /\ Free(c)
  /\ settle[c] # {} \/ (c = Recovery /\ task[c].at = "scan")
  /\ Upset(1, TRUE)
  /\ settle' = [settle EXCEPT ![c] = {}]
  /\ task' = [task EXCEPT ![c] = IdleTask]
  /\ UNCHANGED <<vars, unread, written, runtime, permit, loop, turn, ended>>

------------------------------------------------------------------------------
(* Enqueueing: enqueue_user_message and its siblings; enqueue_existing_work *)
(* joins with a row that is already in the mailbox.  Each begins with the  *)
(* registry's snapshot of the slot.                                        *)

ReadSnapshot(t, s) == [t EXCEPT !.at = "publish", !.slot = s, !.seen = runtime[s]]

Requested(c, s, rq) ==
  /\ c \in Clients /\ task[c].at = "idle" /\ Steady(c)
  /\ task' = [task EXCEPT ![c] = [ReadSnapshot(IdleTask, s) EXCEPT !.request = rq]]
  /\ UNCHANGED <<vars, unread, written, runtime, permit, loop, settle, turn,
                 ended>>

StartEnqueue(c, s, rq) ==
  /\ RequiresMailboxMessage(rq[1])
  /\ Load + 2 <= MaxLoad
  /\ Requested(c, s, rq)
  /\ UNCHANGED upsets

(* enqueue_existing_work without a row: a membership change or a settled   *)
(* team is signalled to the slot.                                          *)
StartSignal(c, s, rq) ==
  /\ ~RequiresMailboxMessage(rq[1])
  /\ Upset(2, FALSE)
  /\ Requested(c, s, rq)

PublishSnapshot(c) ==
  /\ task[c].at = "publish"
  /\ PublishRuntimeConstraint(c, task[c].slot, task[c].seen)
  /\ Goto(c, "acquire")
  /\ UNCHANGED <<unread, written, runtime, permit, loop, turn, upsets>>

HasLease(c) == \E l \in leases : l.owner = c

(* try_start_recovery_drain returns at the first refusal: the slots it has *)
(* not come to are not scanned in this session.                            *)
GivesUpScan(c) == c = Recovery /\ task[c].scan # {}

(* A refusal is returned to the caller.                                    *)
Acquire(c) ==
  /\ task[c].at = "acquire" /\ Steady(c)
  /\ \/ /\ AcquireEnqueue(c, task[c].slot, task[c].request[1],
                          task[c].request[2], task[c].slot)
        /\ Goto(c, IF task[c].msg = NoMsg
                      /\ RequiresMailboxMessage(task[c].request[1])
                   THEN "write" ELSE "commit")
        /\ UNCHANGED upsets
     \/ /\ ~AcceptsEnqueue(task[c].slot)
        /\ task' = [task EXCEPT ![c] = IdleTask]
        /\ Leaves(GivesUpScan(c) \/ Stale(c))
        /\ UNCHANGED vars
  /\ UNCHANGED <<unread, written, runtime, permit, loop, settle, turn, ended>>

(* Mailbox::write makes a new id; which one does not matter.               *)
NewRow == CHOOSE m \in Messages \ written : TRUE

WriteRow(c) ==
  /\ task[c].at = "write"
  /\ written # Messages      \* the bound; Load keeps a row for every sender
  /\ LET m == NewRow
     IN  /\ unread' = [unread EXCEPT ![task[c].slot] = Append(@, m)]
         /\ written' = written \cup {m}
         /\ task' = [task EXCEPT ![c].at = "commit", ![c].msg = m]
  /\ UNCHANGED <<vars, runtime, permit, loop, settle, turn, ended, upsets>>

(* The write fails: the caller gets the error, the loop no notification.   *)
WriteFails(c) ==
  /\ task[c].at = "write"
  /\ 2 * (upsets.count + 1) <= MaxLoad    \* the row's share of Load is free again
  /\ upsets' = [upsets EXCEPT !.count = @ + 1, !.missed = @ \/ Stale(c)]
  /\ IF HasLease(c) THEN AbortEnqueue(c) ELSE UNCHANGED vars
  /\ task' = [task EXCEPT ![c] = IdleTask]
  /\ UNCHANGED <<unread, written, runtime, permit, loop, settle, turn, ended>>

(* commit_persisted_enqueue, when commit_enqueue accepts the lease ...     *)
Commit(c) ==
  /\ task[c].at = "commit"
  /\ CommitEnqueue(c, task[c].msg)
  /\ task' = [task EXCEPT ![c].at = "notify", ![c].seen = "Ready"]
  /\ UNCHANGED <<unread, written, runtime, permit, loop, settle, turn, ended,
                 upsets>>

(* ... and when the lease was cancelled or the runtime went away: the row  *)
(* is marked read and the caller gets the error.                           *)
CommitRefused(c) ==
  /\ task[c].at = "commit" /\ Free(c)
  /\ ~HasLease(c) \/ ~AcceptsEnqueue(task[c].slot)
  /\ IF HasLease(c) THEN AbortEnqueue(c) ELSE UNCHANGED vars
  /\ settle' = [settle EXCEPT ![c] = {task[c].msg} \ {NoMsg}]
  /\ ended' = ended \cup ({task[c].msg} \ {NoMsg})
  /\ task' = [task EXCEPT ![c] = IdleTask]
  /\ Leaves(GivesUpScan(c) \/ Stale(c))
  /\ UNCHANGED <<unread, written, runtime, permit, loop, turn>>

(* The scan goes on with the next row of the list it read, the next slot,  *)
(* or ends.                                                                *)
AfterRow(t) ==
  IF t.list # <<>> THEN [t EXCEPT !.at = "next"]
  ELSE IF t.scan # {} THEN [t EXCEPT !.at = "scan"]
  ELSE IdleTask

(* Mutant: notify_waiters, which stores no permit for a busy loop.         *)
NotifiesWaiter(c) ==
  /\ task[c].at = "notify" /\ Free(c)
  /\ permit' = [permit EXCEPT ![task[c].slot] = @ \/ loop[task[c].slot].at = "waiting"]
  /\ task' = [task EXCEPT ![c] = IF c = Recovery THEN AfterRow(@) ELSE IdleTask]
  /\ UNCHANGED <<vars, unread, written, runtime, loop, settle, turn, ended,
                 upsets>>

Notified(c) ==
  /\ task[c].at = "notify" /\ Free(c)
  /\ permit' = [permit EXCEPT ![task[c].slot] = TRUE]
  /\ task' = [task EXCEPT ![c] = IF c = Recovery THEN AfterRow(@) ELSE IdleTask]
  /\ UNCHANGED <<vars, unread, written, runtime, loop, settle, turn, ended,
                 upsets>>

------------------------------------------------------------------------------
(* try_start_recovery_drain: once per session, slot after slot.            *)

ScanSlot ==
  LET t == task[Recovery]
  IN  /\ t.at = "scan"
      /\ \E s \in t.scan :
           task' = [task EXCEPT ![Recovery] =
                      AfterRow([t EXCEPT !.slot = s, !.list = unread[s],
                                         !.scan = t.scan \ {s}])]
      /\ UNCHANGED <<vars, unread, written, runtime, permit, loop, settle, turn,
                     ended, upsets>>

ScanNext ==
  LET t == task[Recovery]
  IN  /\ t.at = "next" /\ Steady(Recovery)
      /\ task' = [task EXCEPT ![Recovery] =
                     [ReadSnapshot(t, t.slot) EXCEPT !.msg = Head(t.list),
                                                     !.list = Tail(t.list)]]
      /\ UNCHANGED <<vars, unread, written, runtime, permit, loop, settle, turn,
                     ended, upsets>>

------------------------------------------------------------------------------
(* run_event_loop: wait for the permit, then drain until nothing is left.  *)

LoopAt(s, at) == loop' = [loop EXCEPT ![s].at = at]

Wake(s) ==
  /\ loop[s].at = "waiting" /\ permit[s]
  /\ permit' = [permit EXCEPT ![s] = FALSE]
  /\ LoopAt(s, "drain")
  /\ UNCHANGED <<vars, unread, written, runtime, task, settle, turn, ended,
                 upsets>>

(* prepare_next_batch reads the registry's snapshot of its own slot ...    *)
PrepareSnapshot(s) ==
  /\ loop[s].at = "drain" /\ Free(s)
  /\ loop' = [loop EXCEPT ![s].at = "publish", ![s].seen = runtime[s]]
  /\ UNCHANGED <<vars, unread, written, runtime, permit, task, settle, turn,
                 ended, upsets>>

(* ... and publishes it.                                                   *)
PrepareConstraint(s) ==
  /\ loop[s].at = "publish"
  /\ PublishRuntimeConstraint(s, s, loop[s].seen)
  /\ loop' = [loop EXCEPT ![s].at = "peek", ![s].seen = "Ready"]
  /\ UNCHANGED <<unread, written, runtime, permit, task, turn, upsets>>

PeekUnread(s) ==
  /\ loop[s].at = "peek" /\ Steady(s)
  /\ loop' = [loop EXCEPT ![s].at = "reconcile", ![s].view = unread[s]]
  /\ UNCHANGED <<vars, unread, written, runtime, permit, task, settle, turn,
                 ended, upsets>>

(* mark_read_batch or peek_unread fails: the loop waits for its next       *)
(* permit.                                                                 *)
PeekFails(s) ==
  /\ loop[s].at = "peek" /\ Free(s)
  /\ Upset(1, TRUE)
  /\ settle' = [settle EXCEPT ![s] = {}]
  /\ loop' = [loop EXCEPT ![s] = IdleLoop]
  /\ UNCHANGED <<vars, unread, written, runtime, permit, task, turn, ended>>

Reconcile(s) ==
  /\ loop[s].at = "reconcile"
  /\ ReconcileMailbox(s, s, loop[s].view)
  /\ LoopAt(s, "next")
  /\ UNCHANGED <<unread, written, runtime, permit, task, settle, turn, ended,
                 upsets>>

(* next: claim, settle signals, or wait for the next permit.               *)
CannotServe(s) == \/ active[s] # 0
                  \/ constraint[s] # "Ready"
                  \/ paused[s]
                  \/ QueuedIds(s) = {}

ServedSignals(s) ==
  {i \in SignalIds : \E p \in Priorities : /\ Serves(s, p)
                                           /\ i \in Range(queue[s][p])
                                           /\ Range(queue[s][p]) \subseteq SignalIds}

(* Rows committed after the peek may be in the batch; their work ends      *)
(* without them being prompted.                                            *)
LoopNext(s) ==
  /\ loop[s].at = "next" /\ Free(s)
  /\ \/ /\ ClaimBatch(s, s)
        /\ loop' = [loop EXCEPT ![s].at = "prepare", ![s].op = active'[s]]
        /\ ended' = ended \cup ({intents[i].msg : i \in Range(batches'[active'[s]].ids)}
                                \ Range(loop[s].view))
     \/ /\ ~CannotServe(s) /\ ServedSignals(s) # {}
        /\ CompleteSignals(s, s, ServedSignals(s))
        /\ LoopAt(s, "drain")
        /\ UNCHANGED ended
     \/ /\ CannotServe(s)
        /\ loop' = [loop EXCEPT ![s] = IdleLoop]
        /\ UNCHANGED <<vars, ended>>
  /\ UNCHANGED <<unread, written, runtime, permit, task, settle, turn, upsets>>

(* team_tool_transport fails: the batch stays active and the loop returns. *)
Wedges == /\ Spends(1)
          /\ upsets' = [upsets EXCEPT !.count = @ + 1, !.wedged = TRUE]

(* Mutant: the batch is given back in no case.                             *)
PrepareForgets(s) ==
  /\ loop[s].at = "prepare" /\ Free(s)
  /\ Upset(1, TRUE) \/ Wedges
  /\ loop' = [loop EXCEPT ![s] = IdleLoop]
  /\ UNCHANGED <<vars, unread, written, runtime, permit, task, settle, turn,
                 ended>>

(* The rest of prepare_next_batch, up to the start of the turn.  A failed  *)
(* list_tasks, or a conversation that is already running a turn, gives the *)
(* batch back and nobody notifies the loop again; a failed transport does  *)
(* not give it back.                                                       *)
PrepareFails(s) ==
  /\ loop[s].at = "prepare" /\ Free(s)
  /\ \/ /\ Upset(1, TRUE)
        /\ IF IsCurrentBatch(loop[s].op) THEN RetryStart(s, loop[s].op)
                                         ELSE UNCHANGED vars
     \/ Wedges /\ UNCHANGED vars
  /\ loop' = [loop EXCEPT ![s] = IdleLoop]
  /\ UNCHANGED <<unread, written, runtime, permit, task, settle, turn, ended>>

(* execute_and_finalize, the on_started callback: the prompt is made of    *)
(* the claimed rows the loop peeked.  A batch that is no longer current    *)
(* keeps its turn; one that must not run is cancelled at once.             *)
TurnStarts(s) ==
  LET op == loop[s].op
  IN  /\ loop[s].at = "prepare" /\ Free(s)
      /\ IF IsCurrentBatch(op) THEN MarkStarted(s, op) ELSE UNCHANGED vars
      /\ turn' = [turn EXCEPT ![s] = BatchRows(op) \cap Range(loop[s].view)]
      /\ LoopAt(s, IF IsCurrentBatch(op) /\ (paused[s] \/ constraint[s] # "Ready")
                   THEN "late" ELSE "running")
      /\ UNCHANGED <<unread, written, runtime, permit, task, settle, ended,
                     upsets>>

(* StartCommitResult::CancelImmediately                                    *)
CancelLateStart(s) ==
  LET op == loop[s].op
  IN  /\ loop[s].at = "late" /\ Free(s)
      /\ IF IsCurrentBatch(op) THEN TerminalizeBatch(s, op, "Cancelled")
                               ELSE UNCHANGED vars
      /\ LoopAt(s, "running")
      /\ UNCHANGED <<unread, written, runtime, permit, task, settle, turn,
                     ended, upsets>>

(* run_agent_turn fails before it started.                                 *)
TurnStartFails(s) ==
  /\ loop[s].at = "prepare" /\ Free(s)
  /\ ended' = ended \cup BatchRows(loop[s].op)
  /\ LoopAt(s, "unstarted")
  /\ UNCHANGED <<vars, unread, written, runtime, permit, task, settle, turn,
                 upsets>>

(* Mutant: read_unread_and_mark, which takes the rows of others along.     *)
MarkAllRead(s) ==
  /\ loop[s].at \in {"running", "unstarted"} /\ Free(s)
  /\ unread' = [unread EXCEPT ![s] = <<>>]
  /\ turn' = [turn EXCEPT ![s] = {}]
  /\ LoopAt(s, "complete")
  /\ UNCHANGED <<vars, written, runtime, permit, task, settle, ended, upsets>>

(* run_agent_turn returned, with a success or a failure;                   *)
(* mark_batch_messages_read: every row of the batch; an error is logged.   *)
MarkBatchRead(s) ==
  /\ loop[s].at \in {"running", "unstarted"} /\ Free(s)
  /\ \/ /\ unread' = [unread EXCEPT ![s] = Without(@, BatchRows(loop[s].op))]
        /\ UNCHANGED upsets
     \/ /\ Upset(1, FALSE)
        /\ UNCHANGED unread
  /\ turn' = [turn EXCEPT ![s] = {}]
  /\ \E next \in {"complete", "fail"} :
       /\ loop[s].at = "unstarted" => next = "fail"
       /\ LoopAt(s, next)
  /\ UNCHANGED <<vars, written, runtime, permit, task, settle, ended>>

(* Mutant: a failed turn ends the loop.                                    *)
FinishOrReturn(s) ==
  LET op == loop[s].op
  IN  /\ loop[s].at \in {"complete", "fail"} /\ Free(s)
      /\ IF IsCurrentBatch(op)
         THEN TerminalizeBatch(s, op, IF loop[s].at = "complete" THEN "Completed"
                                                                 ELSE "Failed")
         ELSE UNCHANGED vars
      /\ loop' = [loop EXCEPT ![s].at = IF @ = "fail" THEN "returned" ELSE "drain"]
      /\ UNCHANGED <<unread, written, runtime, permit, task, settle, turn,
                     ended, upsets>>

(* complete_batch or fail_batch, then drain on.                            *)
FinishBatch(s) ==
  LET op == loop[s].op
  IN  /\ loop[s].at \in {"complete", "fail"} /\ Free(s)
      /\ IF IsCurrentBatch(op)
         THEN TerminalizeBatch(s, op, IF loop[s].at = "complete" THEN "Completed"
                                                                 ELSE "Failed")
         ELSE UNCHANGED vars
      /\ loop' = [loop EXCEPT ![s] = [IdleLoop EXCEPT !.at = "drain"]]
      /\ UNCHANGED <<unread, written, runtime, permit, task, settle, turn,
                     ended, upsets>>

------------------------------------------------------------------------------
(* cancel_run, cancel_child_turn and pause_slot_work.                      *)

StartCancelRun(c) ==
  /\ c \in Clients /\ task[c].at = "idle" /\ Steady(c)
  /\ Upset(1, FALSE)
  /\ BeginCancel(c)
  /\ Goto(c, "cancelling")
  /\ UNCHANGED <<unread, written, runtime, permit, loop, settle, turn, ended>>

CancelRunWork(c) ==
  /\ task[c].at = "cancelling"
  /\ CancelRun(c)
  /\ settle' = [settle EXCEPT ![c] = EndedRows]
  /\ ended' = ended \cup EndedRows
  /\ Goto(c, "idle")
  /\ UNCHANGED <<unread, written, runtime, permit, loop, turn, upsets>>

(* The turn of a started batch is cancelled first; if that fails, the slot *)
(* stays paused and the batch active.                                      *)
StartPause(c, s) ==
  /\ c \in Clients /\ task[c].at = "idle" /\ Steady(c)
  /\ IsActive(run)
  /\ PauseSlot(c, s)
  /\ \/ /\ active[s] # 0
        /\ task' = [task EXCEPT ![c] = [IdleTask EXCEPT !.at = "cancel_batch",
                                                        !.slot = s,
                                                        !.op = active[s]]]
     \/ /\ active[s] # 0
           => \E i \in BatchIds(active[s]) : intents[i].state = "Running"
        /\ UNCHANGED task
  /\ Upset(1, FALSE)
  /\ UNCHANGED <<unread, written, runtime, permit, loop, settle, turn, ended>>

StartCancelChild(c, s) ==
  /\ c \in Clients /\ task[c].at = "idle" /\ Steady(c)
  /\ active[s] # 0 /\ RunsOf(BatchIds(active[s])) # {}
  /\ task' = [task EXCEPT ![c] = [IdleTask EXCEPT !.at = "cancel_batch",
                                                  !.slot = s,
                                                  !.op = active[s]]]
  /\ Upset(1, FALSE)
  /\ UNCHANGED <<vars, unread, written, runtime, permit, loop, settle, turn,
                 ended>>

CancelBatch(c) ==
  /\ task[c].at = "cancel_batch" /\ Free(c)
  /\ IF IsCurrentBatch(task[c].op)
     THEN TerminalizeBatch(c, task[c].op, "Cancelled") ELSE UNCHANGED vars
  /\ task' = [task EXCEPT ![c] = IdleTask]
  /\ UNCHANGED <<unread, written, runtime, permit, loop, settle, turn, ended,
                 upsets>>

------------------------------------------------------------------------------
(* attach_member_runtime, by a client that restarts the member.            *)

StartAttach(c, s) ==
  /\ c \in Clients /\ task[c].at = "idle" /\ Steady(c)
  /\ runtime[s] # "Starting"
  /\ Spends(2)              \* the bound: an attach and one more upset
  /\ upsets' = [upsets EXCEPT !.count = @ + 1]
  /\ runtime' = [runtime EXCEPT ![s] = "Starting"]
  /\ task' = [task EXCEPT ![c] = [IdleTask EXCEPT !.at = "reserved", !.slot = s]]
  /\ UNCHANGED <<vars, unread, written, permit, loop, settle, turn, ended>>

(* The operation is reserved in the registry; the coordinator is told next. *)
AttachBegins(c) ==
  /\ task[c].at = "reserved" /\ Free(c)
  /\ SetRuntimeConstraint(c, task[c].slot, "Starting")
  /\ Goto(c, "attach")
  /\ UNCHANGED <<unread, written, runtime, permit, loop, settle, turn, ended,
                 upsets>>

(* commit_ready or commit_failed ...                                       *)
AttachCommits(c) ==
  /\ task[c].at = "attach"
  /\ \E r \in {"Ready", "Failed"} :
       /\ runtime' = [runtime EXCEPT ![task[c].slot] = r]
       /\ Goto(c, r)
  /\ UNCHANGED <<vars, unread, written, permit, loop, settle, turn, ended,
                 upsets>>

(* ... then the coordinator is told, and of a success the loop after it.   *)
(* A failure may be told late (set_status is awaited before), after a      *)
(* second attach made the member ready.                                    *)
AttachPublishes(c) ==
  LET s == task[c].slot
      r == task[c].at
  IN  /\ r \in {"Ready", "Failed"} /\ Free(c)
      /\ SetRuntimeConstraint(c, s, r)
      /\ settle' = [settle EXCEPT ![c] = IF r = "Failed" THEN EndedRows ELSE {}]
      /\ ended' = ended \cup EndedRows
      /\ task' = [task EXCEPT ![c] = IF r = "Ready" THEN [@ EXCEPT !.at = "notify"]
                                                  ELSE IdleTask]
      /\ Leaves(r = "Failed" /\ runtime[s] = "Ready")
      /\ UNCHANGED <<unread, written, runtime, permit, loop, turn>>

------------------------------------------------------------------------------
(* The process dies; ensure_session starts over from the mailbox.          *)
CrashRestart ==
  /\ Upset(1, FALSE)
  /\ intents' = <<>> /\ queue' = AtStart(EmptyQueues)
  /\ active' = AtStart(0) /\ batches' = <<>>
  /\ paused' = AtStart(FALSE) /\ removed' = AtStart(FALSE)
  /\ constraint' = AtStart("Ready") /\ runtime' = AtStart("Ready")
  /\ leases' = {} /\ run' = NoRunRecord /\ runs' = 0
  /\ todo' = [a \in Actors |-> <<>>]
  /\ permit' = AtStart(FALSE) /\ loop' = AtStart(IdleLoop)
  /\ task' = StartTasks /\ turn' = AtStart({})
  /\ settle' = [a \in Actors |-> {}]
  /\ UNCHANGED <<unread, written, ended>>

Enqueues(c) ==
  \/ \E s \in Slots, rq \in Requests :
       StartEnqueue(c, s, rq) \/ StartSignal(c, s, rq)
  \/ PublishSnapshot(c) \/ Acquire(c) \/ WriteRow(c) \/ WriteFails(c)
  \/ Commit(c) \/ CommitRefused(c) \/ Notified(c) \/ ReadFails(c)

Controls(c) ==
  \/ StartCancelRun(c) \/ CancelRunWork(c) \/ CancelBatch(c)
  \/ \E s \in Slots : StartPause(c, s) \/ StartCancelChild(c, s)
  \/ \E s \in Slots : StartAttach(c, s)
  \/ AttachBegins(c) \/ AttachCommits(c) \/ AttachPublishes(c)

Drains(s) ==
  \/ Wake(s) \/ PrepareSnapshot(s) \/ PrepareConstraint(s)
  \/ PeekUnread(s) \/ PeekFails(s)
  \/ Reconcile(s) \/ LoopNext(s) \/ PrepareFails(s) \/ TurnStarts(s) \/ CancelLateStart(s)
  \/ TurnStartFails(s) \/ MarkBatchRead(s) \/ FinishBatch(s)

Reports(a) == PublishNext(a) /\ UNCHANGED sessionVars

SessionNext ==
  \/ \E c \in Workers : Enqueues(c)
  \/ \E c \in Clients : Controls(c)
  \/ ScanSlot \/ ScanNext
  \/ \E s \in Slots : Drains(s)
  \/ \E a \in Actors : MarkRead(a) \/ Reports(a)
  \/ CrashRestart

SessionSpec == SessionInit /\ [][SessionNext]_allVars

(* The runtime polls a spawned task until it ends: while a loop, a sender, *)
(* the scan or a canceller can take a step it has begun, a turn can end or *)
(* an attach be decided, some such step is taken.  Requests, faults and    *)
(* crashes need not happen.                                                *)
Proceeds(a) ==
  \/ MarkRead(a) \/ Reports(a)
  \/ /\ a \in Workers
     /\ \/ PublishSnapshot(a) \/ Acquire(a) \/ WriteRow(a) \/ Commit(a)
        \/ CommitRefused(a) \/ Notified(a)
  \/ /\ a \in Clients
     /\ \/ CancelRunWork(a) \/ CancelBatch(a) \/ AttachBegins(a)
        \/ AttachCommits(a) \/ AttachPublishes(a)
  \/ a = Recovery /\ (ScanSlot \/ ScanNext)
  \/ a \in Slots /\ Drains(a)

SessionFairSpec == /\ SessionSpec
                   /\ WF_allVars(\E a \in Actors : Proceeds(a))

------------------------------------------------------------------------------
(* What the session promises.                                              *)

Delivery == INSTANCE MessageDelivery
              WITH box <- [s \in Slots |-> Range(unread[s])],
                   prompt <- turn,
                   ended <- ended

(* Whatever senders, loops, cancellations, attaches and crashes do, a row  *)
(* leaves the mailbox only with the turn that claimed it or because its    *)
(* work was ended, a slot has one turn at a time, and no row is served     *)
(* again once it was marked read by a turn.                                *)
DeliversRows == Delivery!DeliverySpec

(* A batch the coordinator holds active is being executed by its slot's    *)
(* loop: one that is not started after all is given back or ended, unless  *)
(* its role prompt's team_tool_transport failed.                           *)
ActiveHasExecutor ==
  \A s \in Slots : active[s] # 0 =>
    \/ loop[s].op = active[s]
    \/ upsets.wedged

(* The permit is never lost: when a loop waits without one and no task is  *)
(* on its way to notify it, nothing it could serve is unread.  Rows are    *)
(* left behind by a database failure, by a recovery scan given up half way, *)
(* by an attach whose failure is reported after the member is ready, and   *)
(* by a sender that publishes a snapshot an attach has overtaken and then  *)
(* gives up; by nothing else.                                              *)
NoLostWakeup ==
  \A s \in Slots :
    (/\ loop[s].at = "waiting" /\ ~permit[s]
     /\ \A c \in Workers : task[c].at = "idle" /\ settle[c] = {}) =>
      \/ unread[s] = <<>>
      \/ paused[s] \/ runtime[s] # "Ready"
      \/ upsets.wedged \/ upsets.missed

(* An unread row is eventually served or settled, crashes included, unless *)
(* the slot stays paused, its runtime failed, the database did, or it was  *)
(* left behind.                                                            *)
RowsAreServed ==
  \A m \in Messages, s \in Slots :
    m \in Range(unread[s]) ~>
      \/ m \notin Range(unread[s])
      \/ paused[s] \/ runtime[s] # "Ready"
      \/ upsets.wedged \/ upsets.missed

(* mark_read_batch is "called after successful prompt delivery"            *)
(* (mailbox.rs): a row a finished turn marks read was in its prompt.       *)
ReadWasPrompted ==
  [][\A s \in Slots :
       loop[s].at = "running" /\ loop'[s].at = "complete"
         => Range(unread[s]) \ Range(unread'[s]) \subseteq turn[s]]_allVars
==============================================================================
