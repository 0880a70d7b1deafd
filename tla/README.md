# TLA+ models of the AionUi core

This directory specifies, model-checks and proves parts of `aion_core`, the Rust
backend that runs AI agents (as child processes, mostly over ACP), lets them hold
conversations and groups them into teams. Paths below are relative to
`src/crates/`.

Contents: [Inventory](#inventory) · [Modules](#modules) · [Runs](#runs) ·
[Bounds](#bounds) · [Fairness](#fairness) · [Proofs](#proofs) · [Refinement](#refinement) ·
[Findings](#findings) · [Further hazards](#further-hazards) · [Not modelled](#not-modelled) · [Plan](#plan)

## Inventory

The state that is hard to get right is in memory, shared by tokio tasks, and
spread over four crates. Everything else is SQL, HTTP glue, file and process
I/O or data mapping.

| Component | State it keeps | Operations | Talks to | What is hard | What makes it correct |
|---|---|---|---|---|---|
| Slot work coordinator (`aionui-team/src/work_coordinator/`) | per slot: three queues of intents, an active batch, `paused`, a runtime constraint; all intents; open enqueue leases; one mutex | acquire / commit / abort an enqueue; `reconcile_mailbox`; `next` (claim); `mark_started`, `retry_start`, complete / fail / cancel a batch; `cancel_run`; `pause_slot`; `set_runtime_constraint`; `remove_slot`; `stop` | run manager (after the mutex is dropped), event loops (a `Notify`), mailbox | stale batches, summaries applied late, requeueing | a live intent is owned once, by a queue or by the executing batch; user work keeps its order; a finished intent stays finished |
| Team run manager (`team_run/manager.rs`) | at most one run record | `bind_user_enqueue`, `apply_work_summary`, `begin_cancel`, `abort_binding` | the coordinator, WebSocket events | it is told what was true a moment ago | a run ends as its own intents did |
| Member runtime registry (`member_runtime.rs`) | per member: absent, attaching, ready, failed or removing, and who owns that; an outcome channel per operation | reserve an attach or a repair, commit ready / failed, begin / finish / take back a removal, stop | attach tasks, `add_agent`, `remove_agent`, `ensure_session` | an owner that lost the entry commits; callers that joined an operation must be told | only the newest owner decides; every waiter is told once |
| Team session and service (`session.rs`, `service.rs`, `provisioning.rs`, `event_loop.rs`) | published sessions; membership; event loops; two kinds of locks | `add_agent`, `remove_agent`, `ensure_session`, `stop_session`, the attach task, the bootstrap | registry, task manager, conversation service, database | long tasks of many awaits; removal, stop and replacement between any two of them; several early returns | a removed member leaves no loop and no agent; a ready one has both; nobody waits for ever |
| Worker task manager (`aionui-ai-agent/src/task_manager.rs`) | conversation → slot (`Arc<OnceCell>`) in a concurrent map | `get_or_build_task`, `kill`, `kill_and_wait`, `clear`, `collect_idle` | factory, conversation service, idle scanner, runtime tokens | no lock spans two steps; a slot outlives its place in the map | the map offers live agents only; an agent that left the map is killed |
| Runtime tokens, leases, idle scanner (`runtime_token.rs`, `active_lease.rs`, `idle_scanner.rs`) | tokens per conversation; leases with expiry | issue, invalidate; renew, look up; scan | task manager | look-up and update are separate steps | an issued token validates until it is revoked; a busy agent is not killed |
| Teammate scheduler (`aionui-team/src/scheduler/`) | status per teammate, wake locks, finalize deduplication | wake, finalize, crash recovery | mailbox, event loop | duplicate and late finish events | a turn is finalized once |
| Task board (`task_board.rs`) | tasks with `blocked_by` / `blocks` | create, update, complete | database | two-way links written by separate statements | the links agree |
| Mailbox (`aionui-team/src/mailbox.rs`) | durable rows, read or unread | write, `peek_unread`, `mark_read_batch` | session, event loop, recovery scan | it survives a crash, the coordinator does not | a row is served, or its work ended, before it is marked read; it is not served again afterwards |
| Conversation runtime and turns (`aionui-conversation/src/runtime_state.rs`, `turn_orchestrator.rs`, `service.rs`) | claimed turn, cancel and delete marks per conversation; waiters for a release | claim, release, cancel with a drain timer, delete, shut down; build, send, relay, continue, replay, evict | task manager, stream relay, team adapter, cron | a lifecycle that is read and used later; marks that name the conversation and not the turn | one turn at a time; no mark outlives its reason; an error is told once; a cancelled turn ends |
| Stream relay and persistence (`stream_relay.rs`, `stream_persistence.rs`) | the message being assembled | event → message rows, finish | database, WebSocket | events after the end of a turn | stored messages follow the order of events; what was seen is not replayed |
| Cron (`aionui-cron/src/`, run table in `aionui-db/src/repository/sqlite_cron.rs`) | a timer per job and process; rows of jobs and runs with leases | fire, claim, defer, execute, finish, reschedule; edit, remove, run now, resume, init | conversations, database, other processes | several processes on one database; ticks that end with what they loaded; crashes in a run | an occurrence runs under one lease; a process forgets a job that is on only through a failed call; a run that began ends |
| Channels (`aionui-channel/src/`) | pairing codes, sessions, plugins | pair, approve, start / stop | chat services | expiry | a code is used once |
| The rest (auth, realtime, mcp, office, file, extension, assistant, shell, system, runtime, db, common, api-types, assets, app) | mostly the database and the file system | CRUD, I/O, wiring | | | |

How the modelled parts interact. A user message or a tool call reaches
`TeamSession`, which takes an enqueue lease at the coordinator, writes the
message to the mailbox and commits. The session notifies the event loop of
the slot; the loop reconciles with the mailbox, claims a batch, runs a turn of
the member's conversation and reports how it ended. After each of these calls the
coordinator tells the run manager, outside its mutex, how much work each run has
left. A member has to be attached before its loop exists: an attach task kills
what runs in the conversation, warms up a new agent through the task manager,
registers the loop and commits its lease at the registry; `remove_agent` and
`stop` displace it at any point. After a crash only the mailbox is left; the
recovery scan of the next session enqueues what is unread.

A turn of a conversation, whether a user, a team or a cron job asks for it, is
claimed at the runtime state, gets its agent from the task manager, sends, and
relays the stream until it ends; then it continues, is replayed once on a new
agent, or releases the claim, which wakes the team turns that wait for it.
Cancellations, deletions and the shutdown mark the runtime state and kill the
agent. Cron ticks in every process compete for an occurrence in the run table.

`PROJECT.json` lists all components, the modelled and the others, and the
hazards: the lines where an order of steps no test exercises could go wrong,
each with the properties that would show it.

## Modules

| Module | Models | State → code |
|---|---|---|
| `WorkQueue` | the queue operations of `SlotState` | `Without` is `remove_queued`; `Enumerations` the order in which a `HashMap` yields its keys |
| `TeamRunManager` | `team_run/manager.rs` | operators on the one run record; each is one critical section |
| `SlotWorkCoordinator` | `work_coordinator/`, with the above | `intents`, `queue`, `active`, `paused`, `constraint`, `removed`, `leases` are the fields under the mutex; `run` is the run manager's record; `batches` remembers every batch handed out so that any of them can be submitted again; `todo[a]` are the calls task `a` still owes the run manager after the mutex was dropped |
| `MemberRuntimeRegistry` | `member_runtime.rs` | `entry[m]` and `stopped` are the fields; `ops[o]` is operation `o`, the kind of its lease and what was sent on its channel |
| `MemberLifecycle` | attach tasks, `add_agent`, `remove_agent`, `ensure_session`, `stop_session`, bootstrap of a replacement; extends the registry | `attach[o]`, `remove[r]`, `boot`, `stopping` are program counters with the locals of the functions; `slot`, `cells` the task manager as far as a team uses it; `loops` the `EventLoopRegistry`; `published` the entry of the service's map |
| `TeamSession` | `session.rs`, `event_loop.rs`, `mailbox.rs` over `SlotWorkCoordinator` | `unread` is the mailbox, `permit` the stored permit of the loop's `Notify`, `loop[s]` the event loop, `task[c]` a sender, canceller, attacher or the recovery scan, `settle[a]` the rows a task has still to mark read, `turn[s]` the rows the running turn was prompted with |
| `MessageDelivery` | what a session promises of a row: the abstract specification `TeamSession` is shown to implement | `box` the unread rows, `prompt` the rows in a turn, `ended` the rows whose work ended otherwise |
| `RuntimeTokenService` | `runtime_token.rs` | tokens per conversation |
| `WorkerTaskManager` | `task_manager.rs`, `idle_scanner.rs`; extends the tokens | `tasks` is the map, `cells` the `OnceCell`s ever allocated, `call[p]` the call task `p` is in |
| `ConversationRuntime` | `runtime_state.rs` and the policies on writes, continuation, replay and eviction | `turn`, `deleting`, `cancelling`, `shuttingDown` are the fields under the mutex |
| `ConversationTurns` | `send_message`, `run_agent_turn`, the team adapter, `turn_orchestrator.rs`, what a relay sees and how it ends, `cancel`, `delete`, shutdown; extends the runtime | `req[r]` is a request with the locals of its turn, `cancel[k]` and `del[d]` calls under way, `agent` and `killed` the task manager as far as a conversation uses it, `row` the database |
| `CronRuns` | timers, ticks, leases and retries of one job in several processes | `job` and `run[o]` are database rows, `timer[p]` the scheduler's handle, `task[t]` a tick or a manual run, `turn[p]` the conversation's claim |
| `WorkQueueProofs`, `SlotWorkCoordinatorProofs`, `TeamSessionProofs`, `MemberRuntimeRegistryProofs`, `MemberLifecycleProofs`, `WorkerTaskManagerProofs`, `ConversationTurnsProofs`, `CronRunsProofs` | theorems | |
| `MC…` | symmetry and request sets for TLC | |

Grain of atomicity. A method of the coordinator or the registry holds one mutex
from beginning to end and does not await: it is one action, up to the calls it
makes after it dropped the guard, which are later actions. In the modules with
tasks a step ends at each await, and after each operation on a concurrent map or
on the runtime state where another thread may come between. What is under two mutexes
is two steps: in `TeamSession` whoever publishes a runtime constraint reads the
registry's snapshot in one (`ReadSnapshot`, `PrepareSnapshot`, `StartAttach`,
`AttachCommits`) and tells the coordinator in the next (`PublishSnapshot`,
`PrepareConstraint`, `AttachBegins`, `AttachPublishes`), when the snapshot may be old.
In `CronRuns` each database statement or transaction is a step, and setting the
timer is the step after it. A call the code answers with an error and without a change
(`StaleOwner`, `Rejected`, `NotOwner`) is a disabled action, not a stutter.

Abstractions. Ids are numbered in the order they are generated. A scan of the task
manager finds any set of leases held; leases have no state of their own. Messages have
no content. Summaries keep the three facts `apply_work_summary` looks at. The
tokio `OnceCell` is external and modelled from its use: one initialiser runs,
others wait, a failed or dropped one leaves the cell empty. An agent is fresh,
idle, running or dead; its process exit is immediate. A replacement session B
exists only as far as the agents it builds; its bootstrap attaches members one
at a time and gives up the ensure lock together with the publication, a little
before the code does. Database errors are the constant `Faults`: `persist`
(the removal cannot be saved), `load` (the team cannot be read after the agent
was killed), `welcome` (the welcome message of a new member), `delete` (the
conversation).

In `TeamSession` the turn is external (it starts or does not, and ends), the slots
are leads (what a teammate's turn sends to its lead is a client's request) and the
member's runtime is what the registry's snapshot maps to. A failed call is an upset.
`upsets.wedged` remembers the one that leaves a batch active with nobody to
execute it (`session.rs:363`), `upsets.missed` every way in which a row is left unread with
nobody on the way to its loop; the properties that cannot survive it say so. In `ConversationTurns` the agent is an
ACP agent and external: it may show output, end its stream in four ways, or hang
until it is killed. In `CronRuns` time is the number of occurrences that have
come due, and a lease is running or expired: it does not expire while its owner's
heartbeat runs (whose renewals are assumed to succeed), nor in the moment between its
last beat and the end of the run. The last occurrence stands for all later ones, whose
runs others do. The job is created in one process; the others learn of it at their
start or a resume, as in the code, and of its edits not at all. Every database call of a tick, a
resume, the start and a request may fail. A process serves one request at a time; an
edit sets the switch, or the schedule, or neither.

Definitions called "Mutant" are single plausible mistakes in the code;
`PROJECT.json` pairs each with the property that detects it.

## Runs

`tlc -workers 2 -config X.cfg M`; states are distinct ones.

| Run | Configuration, module | Shows | States |
|---|---|---|---|
| `slot_work` | `SlotWork`, `MCSlotWorkCoordinator` | `WorkOwnedOnce`, `ForegroundFifo` (user work is queued and batched in commit order through retries, cancellations and stale submissions), `IntentLifecycle` (no operation revives, loses or rebinds an intent) | 1.6 M |
| `slot_work_abort` | `SlotWorkAbort` | violation, see Findings | |
| `team_session` | `TeamSession`, `MCTeamSession` | `DeliversRows`: the session implements `MessageDelivery`. `NoLostWakeup`, `ActiveHasExecutor`, `RowsAreServed` (liveness) through crashes, cancellations, pauses, attaches, old snapshots and failed calls; `FailedRunHasFailedIntent`: late summaries never fail a run none of whose intents failed | 0.9 M |
| `team_session_prompt` | `TeamSessionPrompt` | violation, see Findings | |
| `member_lifecycle` | `MemberLifecycle`, `MCMemberLifecycle` | `RemovedLeavesNothing` and, at every moment, `ReadyIsServed` while two removals, attaches, repairs, an eviction and a stop interleave and calls fail half-way; `NewestOwns`, `PendingIsOwned` and `OutcomeIsFinal` of the registry under them | 1.0 M |
| `member_operations` | `MemberOperations` | `OwnerAtWork`, its inductive form `LifecycleInv`, and `OperationsDecided` (liveness), with failed persists and a replacement session | 0.4 M |
| `member_replacement` | `MemberReplacement` | violation, see Findings | |
| `task_manager` | `TaskManager`, `MCWorkerTaskManager` | `MapHoldsLiveAgents`; `OnlyAbandonedLeak`: an agent leaks only if its slot was taken before it was built by a call that does not wait for it; `CallsEnd` (liveness): whoever waits for a cell is released | 0.6 M |
| `task_manager_leak` | `TaskManagerLeak` | violation, see Findings | |
| `conversation` | `ConversationTurns`, `MCConversationTurns` | `OneTurnAtATime`, `DeletingMarkIsOwned`, `ErrorToldOnce`, `NoMissedRelease`, `ReplayIsUnseen`, `CancelEndsTurn` (liveness); `TypeOK` bounds the continuations | 1.1 M |
| `conversation_sent` | `ConversationSent` | violation, see Findings | |
| `cron_runs` | `CronRuns`, `MCCronRuns` | `RunsUnderLease`, `JobIsWatched`, `RunsEnd` (liveness) from the creation of the job on, with two processes, one upset of any kind (a failed call, a crash, a request, a resume), two occurrences and every kind of schedule; `TypeOK` bounds the retries | 1.9 M |

`CHECK_DEADLOCK FALSE` is set where a behaviour ends because its bound on
operations or calls is used up, or the session has stopped.

### Where properties stop holding

Each of these was found by TLC and is why a configuration is what it is.

- `RemovedLeavesNothing` is checked without a replacement session
  (`MaxBoots = 0`): with one, an attach that session A left behind skips its
  cleanup once B is published, and a removal in B has run already.
- `ReadyIsServed` is checked and proved without the fault `persist`: when a removal is
  taken back and a new attach begins, the cleanup of the displaced attach kills the
  new attach's agent.
- `OwnerAtWork` is checked without `load` and `welcome`: `?` at `service.rs:646`
  and `:551` drops a lease or a reservation without restoring the entry, which
  stays removing or attaching until the session stops. `member_lifecycle` has both
  faults.
- `ForegroundFifo` is about foreground work only: `set_runtime_constraint(Failed)`
  puts background work back in the order of a `HashMap`, so a background queue
  may be out of commit order.
- A run may be announced as accepted by the summary of an *aborted* enqueue while
  another one of the same run has not committed, and may complete, on a summary
  computed before, while an enqueue lease is open.
- A removal that cannot be persisted restores the entry while the attach it
  displaced still builds an agent, although `member_runtime.rs:413` asks for
  "cancellation and join cleanup" first.
- A scan kills by conversation id after an await; the agent may have started a
  turn since it was collected.
- Two issues of a token for one conversation may interleave: one caller's token is
  revoked by the other, or both validate (`runtime_token.rs:86`, the test at
  `:307` promises reuse).
- `reconcile_mailbox` ends intents whose row was read elsewhere without a summary
  of their run: the run may stay active with no work left.
- `ActiveHasExecutor` excuses one step (`wedged`): `?` at `session.rs:363` leaves the batch
  active when the tool transport of a role prompt fails. Every other failure between
  claim and start gives the batch back or ends it.
- `NoLostWakeup` and `RowsAreServed` excuse that step and failed calls after which nobody
  notifies the loop (`missed`): a failed peek, a batch given back by `retry_start`, a
  failed `mark_read_batch`, a scan that is not repeated.
- They also excuse (`missed`) three cases without any failure of the slot's own. The
  recovery scan returns at the first slot that refuses (`session.rs:856`), so that the
  unread rows of the slots it had not come to lie until the next message. A
  failed attach is reported to the coordinator after an await
  (`session.rs:1594`-`1599`), without asking whether the failure is still the newest: if
  a second attach made the member ready meanwhile, the coordinator takes a ready
  member for a failed one until the next constraint is published. And a sender reads the
  registry and tells the coordinator under different mutexes (`session.rs:608`, `:620`): a
  snapshot Starting that is published after the attach told Ready and notified blocks the
  loop, and a sender that then gives up (its write fails, `session.rs:562`, or its lease is
  refused) does not notify it. The rows of other senders lie until the next message.
  Only the sender that gives up while its snapshot is out of date is excused; one that
  commits notifies the loop, and the proof shows that this is enough. The cases need two
  slots or two clients; the run has one of each, and the theorem has any number. TLC
  shows the last one with two clients, `MaxLoad = 5` and `Stale` left out of
  `WriteFails` (a violation of `NoLostWakeup` within seconds); with it two clients pass with
  `MaxLoad = 4` (3.0 M states under symmetry).
- A lifecycle that was read before the relay decides on the continuation after it:
  a turn may continue in a conversation that is being cancelled.
- With two cancellations, the failure of the second clears the mark of the first
  (`service.rs:3029`); its drain timer then spares an agent that hangs, and
  `CancelEndsTurn` fails. It also excuses a timer that fires before the turn, or
  its replay, got its agent. `ErrorToldOnce` excuses turns whose cancellation or
  deletion failed half way.
- A tick ends with the job as it loaded it: a one-shot job edited to a recurring one
  while its tick runs is disabled. `JobIsWatched` and `RunsEnd` exclude edits of
  the schedule that meet a tick, an unfinished run or a disabled job (`crossed`).
- A failed database call may cost a process its timer: a tick that cannot read,
  parse or resolve its job (`service.rs:540`-`558`), claim (`600`), defer (`1277`) or finish
  (`1335`) its run returns, `remove_job` cancels the timer before a delete that
  fails (`433`-`437`), and the timer of a one-shot job is cancelled although the row could not
  be disabled (`1146`-`1149`). The job is on and that process does not look at it
  until its next start or resume. The model takes all these ways; `JobIsWatched` is about
  the processes that set a timer and did not lose it so (`watch`), `RunsEnd` is
  excused only when every process lost its timer or never had one (`Forgotten`).

## Bounds

Each bound is a constant of its module.

- Coordinator: `MaxIntents`, `MaxBatches`, `MaxRuns`, one message. Three intents
  and two batches let a batch of two be claimed, given back behind or before a
  third intent and claimed again, while the first batch is submitted late. Slots
  share only the run and the leases; `OwnershipCorrect` proves the ownership
  property for any number of them. The run publishes the constraints Ready and
  Failed (a slot begins with Starting, a stop publishes SessionStopped); with all
  five it passes as well (4.0 M states), but takes longer.
- Session: one slot, one client, two messages, two upsets (`MaxLoad = 4`: a message weighs
  two, an upset one, and upsets take half at most), two runs, so that a report of an
  older run meets a newer one. Two rows let one be committed while the other is peeked,
  claimed or cancelled; two upsets are a crash after a fault, a cancellation after a
  pause and so on. An attach begins only with room for a second upset, and a sender whose
  write fails gives the share of its row back. The bounds on intents and batches
  are never met. What needs two clients is left to the theorems and to the
  development run above.
- Registry: checked under `MemberLifecycle`; its theorems cover every bound.
- Lifecycle: members share only locks and the registry's stop, so one member with
  three operations (attach, removal, another of either) and two removers contains
  the races; two operations when B is bootstrapped too.
- Task manager: two tasks on one conversation with four calls (build, rebuild, and
  a removal of each), so that a builder and a remover, or two of either, meet.
  `Versions = {0, 2}` makes the rebuild branch reachable; production callers ask
  for 2 always, tests and the trait allow both.
- Conversation: two requests (`MCCallers`: a team's, or a user's and a cron job's),
  one cancellation, one deletion, two upsets among these and the shutdown, one
  continuation. A second turn is what stale claims, marks and waiters need; the
  limit of continuations is a number the code only compares. Two users, two cron
  jobs, and a team with a cron job pass as well (1.5 M states).
- Cron: two processes, two ticks or manual runs at a time (with the work of the
  processes, two things under way), two occurrences and one more for all later ones, one
  retry, one upset in process `p1` (`UpsetProcs`), where the job may be created too. The
  one-shot job is created without `queue_enabled`, the other two with it. The safety
  properties pass as well with all six combinations (3.2 M states), and for an `Every` job
  with any amount of work under way (3.5 M states).

Symmetry is used for messages, actors and slots and for removers, in runs without
liveness properties.

## Fairness

`FairSpec` of `MemberLifecycle` has weak fairness of every step of an attach task, a
removal, a stop and a bootstrap, once begun; that of `WorkerTaskManager` of every step of a
call. A spawned tokio task and an awaited future are polled until they end; the
factory and the warm-up have timeouts, so a build ends, successfully or not. No
fairness is assumed of callers: nobody has to begin anything, retry or evict.
`OperationsDecided` needs no fairness of a retry.

`SessionFairSpec` (`TeamSession`): weak fairness of what each task has begun, of the
loop (a turn ends: the agent's turn has a timeout or is cancelled by the
user; the model assumes the former), of the scan and of an attach. `FairSpec` of
`ConversationTurns`: weak fairness of every step of a turn, a cancellation and a
deletion, except that a relay ends by itself only when its agent was killed: an
agent may hang, which is what the drain timer is for. `FairSpec` of `CronRuns`:
each tick is polled (`WF_vars(Step(t))`), timers fire, and of time, leases, turns of users,
requests under way and processes that are down, something goes on (`Goes`).

In `TeamSession` and `ConversationTurns` the fairness is of all these steps together:
as long as a task can proceed, some task does. That is less than the scheduler
gives each task, and enough, since neither has tasks that keep each other busy
for ever. In `CronRuns` it is not for ticks: one that meets a run of another process
comes back again and again, so each task has fairness of its own. A task that can
proceed stays able to until it does (if not always by the same step), so fairness of a
disjunction asks less than the scheduler gives each.

## Proofs

`tlapm M.tla` checks them; no bound of a configuration plays a role.

`SlotWorkCoordinatorProofs`, from `CoordinatorAssumption` and `MaxRunsAssumption`:

- `TypeCorrect`: `Spec => []TypeOK`.
- `OwnershipCorrect`: `Spec => []WorkOwnedOnce`. The invariant is
  `Inv == TypeOK /\ WorkOwnedOnce`. `WorkOwnedOnce` is made of six parts that need one
  another: that a claimed intent is in no queue follows from the queues holding
  waiting intents only, and that a stale batch cannot touch queued work from
  the active batch holding exactly the executing intents. For the proof these
  parts are restated as an equality: the queue of a slot and priority *is* the set of
  its waiting intents, and the active batch *is* the set of its executing ones
  (`OwnedIsExact`, `ExactIsOwned`); each action then is set algebra on the moved
  intents (`MovedSets`).
- They rest on `WorkQueueProofs`: what `Without`, appending and concatenation do to the
  contents and distinctness of a queue. `Without` is defined by ranks rather than by
  recursion so that it can be proved about; TLC compares it with `SelectSeq`
  (`WithoutIsSelectSeq`).
- `LifecycleCorrect`: `Spec => IntentLifecycle`, an action property. `Inv` gives the
  types; what is left is a comparison of the log before and after each method.
- `FifoCorrect`: `Spec => []ForegroundFifo`, with `UserWorkBound` (a user intent
  belongs to a run that has an id, and a run that is active has one). Without it a
  `cancel_run` of "no run" would put user work back.
- `FailedRunCorrect`: `Spec => []FailedRunHasFailedIntent`, with `FailedSummariesTrue`: a
  summary under way that reports a failure names a run one of whose intents has
  failed, and a failed intent stays failed (`LifeKept`), so that the summary is true
  whenever it is applied.

The proofs are about `AnyNext`, any task calling any method at any time with any
batch and any list of messages, of which `Next` is a part. That is what lets
a session reuse them.

`TeamSessionProofs`, from `SessionAssumption` and the coordinator's: any slots,
clients, messages and load.

- `SessionCorrect`: `SessionSpec => []SessionInv`. `SessionInv` is the coordinator's
  `Inv`, the types of the session (`SessionTypeOK`), what a loop and a canceller hold
  (`HeldInv`: a batch that was handed out for its slot), that every
  row any part refers to was written (`RowsWritten`), and that the rows of a turn are
  unread or ended until it marks them (`TurnInv`). Every step but a crash is a step
  of `AnyNext` (`SessionIsAny`), so the coordinator's lemmas carry over; a crash
  resets the coordinator to its initial state.
- `SessionOwnership`, `SessionPromises`: `WorkOwnedOnce`, `ForegroundFifo` and
  `FailedRunHasFailedIntent` inside a session, for this reason. `SessionLifecycle`: every step
  but a crash, which forgets all intents, keeps what `IntentLifecycle` says.
- `ExecutorCorrect`: `SessionSpec => []ActiveHasExecutor`. The loop lets go of a batch only
  when it gave it back or ended it, when it was taken away, or at `wedged`
  (`LoopLetsGo`).
- `DeliveryCorrect`: `SessionSpec => DeliversRows`, the refinement below. It needs
  `RowsApart` (no row is unread in two slots) on top of `SessionInv`.
- `WakeupCorrect`: `SessionSpec => []NoLostWakeup`. The property speaks of moments at which
  no task is under way, so it says nothing about the steps before; `WakeInv` follows
  a row through them. A loop that waits, reconciles or is about to decide that there is
  nothing to do is either excused (a permit is stored, a task is about to notify it,
  the slot is paused, its runtime is not ready, a failure left rows behind) or,
  for every unread row of the slot, has peeked the row, finds work for it, or
  knows a task that still commits it, marks it read or scans for it (`Awaited`).
  That is inductive only with what such a task holds (`TaskFits`: a lease of the
  slot it writes to, the run it cancels), with `ConstraintFresh` (if a member is ready, the
  coordinator knows, or a task is on its way to notify the loop, or the loop is about to
  tell the coordinator, or rows were left behind) and with `LoopFresh` (a loop that is about
  to publish that a ready member is not ready will be notified). A snapshot may be
  arbitrarily old when it is published. Without these two an intent could be claimable
  for nobody. The proof needs
  `ActiveHasExecutor` and the coordinator's `Promises` beside it.
  The attempt showed that ways to leave a row behind were not
  recorded in the model: a recovery scan given up half way, an attach whose
  failure is reported after the member was ready, and a sender that publishes an
  overtaken snapshot and gives up (`upsets.missed`).

`MemberRuntimeRegistryProofs`: `RegistryCorrect`, `NoForgottenWaiter`
(`[]PendingIsOwned`), `StaleOwnerRejected` (`[]NewestOwns`), `OutcomesAreFinal`
(`OutcomeIsFinal`). The invariant `RegistryInv` is the conjunction of the four
invariants of the run. `PendingIsOwned` alone is not inductive: that `BeginRemove`
answers the operation it displaces needs `EntriesNameTheirOps`. The proof has
two lemmas for the two shapes of an action: starting an operation and settling
one.

`MemberLifecycleProofs`, from `LifecycleAssumption` and `RegistryAssumption`, for any
members, removers and number of operations:

- `LifecycleCoreHolds`: `Spec => []LifecycleCore`, whatever database call fails.
- `LifecycleCorrect`, `NoAbandonedOperation`: `Spec => []LifecycleInv` and
  `Spec => []OwnerAtWork`, if `Faults` has neither `load` nor `welcome`, for the
  reason given above.

Every step of a task is an operation of the registry or leaves it alone
(`StepOfRegistry`), so `RegistryInv` carries over from the registry's proof. A task
that gives up without an answer does so because it does not own its entry any
more; `PendingOwns` turns that into "its operation has an outcome". A removal
also goes on without deciding when another session is published than the one it
began with; that this happens only when A is being stopped or has stopped is
`LeasesKnown` and `StopOrder`. `OpsBounded` gives every operation a task. Further:

- `RegistryKept`: `Spec => [](PendingIsOwned /\ NewestOwns)`, the registry's own promises with
  these tasks as its callers.
- `LifecycleTypeCorrect`, `TasksUseRegistry` (`[][RegistryNext]_registryVars`: the life
  cycle uses the registry only through its methods) and `OutcomesStayFinal`, from the
  same core.
- `RemovedCorrect`: `Spec => []RemovedLeavesNothing` if `MaxBoots = 0`. The invariant is
  `RunningInv` (as long as the session is published the removals own their leases and
  know their members) with what a member that is not in the team has: no cell in the
  task manager but one that an attach still holds and will clean up (`AgentSwept`), no
  loop but one of an attach that will take it down (`LoopsEnd`, `LoopSwept`). With a replacement
  session the cleanup of an old attach is skipped, see above; hence the assumption.
- `ReadyCorrect`: `Spec => []ReadyIsServed` if `"persist"` is not a fault. `ServeInv` says
  who may still touch a member's agent: an attach that owns its entry has what it
  built so far (`OwnersServe`), attaches that lost it are not building any more when a
  newer one begins (`BuildersApart`, `StaleLost`). It is that last part that a removal
  taken back destroys; hence the assumption.

`WorkerTaskManagerProofs`, from `ManagerAssumption`, any conversations, callers, calls:
`ManagerTypeCorrect` (with `CallInv`: a call has the cell and the token its stage
needs), `MapHoldsLiveCorrect` and `OnlyAbandonedCorrect`. Neither of the last two is
inductive: that the map offers no killed agent needs that a cell to be killed is
out of the map (`UnmappedInv`), that no agent leaks needs the accounting of cells
that are not built yet (`AccountInv`).

`ConversationTurnsProofs`, any requests, cancellations, deletions: `TurnsTypeCorrect`,
`OneTurnCorrect` and `NoMissedReleaseCorrect` are inductive with the types.
`DeletingMarkCorrect` needs `MarkOwned`: a deletion that found no turn clears its mark
itself. `ReplayCorrect` needs `SeenCounts`: what the user saw is in the summary of the
attempt or of the relay that runs. `ErrorToldCorrect` needs `MarkInv`: until a
cancellation or deletion is withdrawn, a mark that a turn met stays until the turn ends,
so that the two readings of the lifecycle agree.

`CronRunsProofs`, from `CronAssumption`, any processes, ticks, occurrences, retries, upsets:

- `CronTypeCorrect`, with the shape of tasks and timers (`Shaped`: what a task at each
  stage is for and holds; a retry is decided only while one is left).
- `LeaseCorrect`: `LeaseInv` says that from its claim to its end a tick holds the running
  lease of its occurrence, and no other tick is there with it.
- `WatchCorrect`: `WatchInv` is stronger than `JobIsWatched`, since a tick that only counts a
  retry has set its timer before and does not watch any more. It needs `ReadyInv` (while
  the job is on and no edit crossed a task, whoever is about to set a timer holds a row that
  is on, unless its write failed) and `FreshInv` (before the row is inserted
  there is no other task and no timer).

Only model-checked: liveness (`OperationsDecided`, `CallsEnd`, `RowsAreServed`,
`CancelEndsTurn`, `RunsEnd`), which the prover does not reach. Every invariant and every
action property of a passing run has a theorem. Three of the proofs have a hypothesis on
the constants, given above with its reason: `LifecycleCorrect` with
`NoAbandonedOperation`, `RemovedCorrect` and `ReadyCorrect`. The statements of the
five runs that end in a counterexample are not theorems, of course.

## Refinement

`MessageDelivery` says what becomes of a row: it is written to the box of its slot;
a turn begins with rows of the box, one turn at a time; the end of the turn, the end
of the row's work or the refusal of its commit takes rows out of the box; a crash ends
turns and keeps the box. `TeamSession` implements it with the unread rows as `box`, the prompted
rows as `prompt` and the history of ended rows as `ended`; every other step of the
session is a stutter. `DeliversRows` is that statement, checked by `team_session` and proved by
`DeliveryCorrect` for every instance. The proof corrected the abstract specification:
a cancelled run ends rows of several slots in one step, and the task that
cancelled marks all of them read at once, so `Drop` takes rows out of every box,
where a version with one box per step passed the run with one slot.

## Findings

Five runs are expected to end in a counterexample, each of a statement the
repository makes. `PROJECT.json` quotes the lines.

- `slot_work_abort`: `abort_enqueue` decides under the mutex that a run is empty and
  drops the run after it; an enqueue that joins and commits in between loses
  its run.
- `member_replacement`: an attach task of a stopped session kills the agent that
  the replacement session has built. The fence against it is in
  `cleanup_stale_member_runtime_task`, not in `attach_agent_process`.
- `task_manager_leak`: `kill` takes the slot of a build under way; the agent it
  yields is in no map, and the next caller builds a second.
- `team_session_prompt`: the mailbox is peeked before the coordinator claims; a row
  committed in between is claimed, not prompted, and marked read with the batch.
- `conversation_sent`: `cancel` compares turn ids in one critical section and marks
  the conversation in the next; when the named turn ended and another was
  claimed in between, the user message of that one is not stored, and the
  caller is told it was.

## Further hazards

Lines met while modelling that `PROJECT.json` does not list, since no run asks
about them. The first group needs code that is not modelled yet, the second is
in a model and excused or allowed there.

- `aionui-team/src/service.rs:590`: `remove_agent` never calls `remove_slot` of the
  coordinator. `service.rs:469`: `remove_team` against a bootstrap under way.
  `session.rs:1398`: `spawn_agent` reserves the attach after it released the membership lock.
  `session.rs:1670`: a stale registration that fails sets the slot's constraint.
- `event_loop.rs:309`: a turn that does not start fails its batch without
  `finalize_turn`, so the leader is not told.
- `active_lease.rs:45`: an expired lease is removed by key after it was read.
- `scheduler.rs:167` of cron: of two concurrent `schedule_job` calls one timer leaves
  the map without being aborted; it adds duplicate ticks, which `claim_run` turns away.
- `stream_relay.rs:585`: a relay that lags loses events, perhaps the tool call that
  would have forbidden a replay.
- `aionui-cron/src/service.rs:1288`: the heartbeat stands still while the machine sleeps
  and the lease expires under its owner; a renewal that fails does the same.
- `coordinator.rs:713`: background work is requeued in the order of a `HashMap`
  when a runtime fails.
- `event_loop.rs:173`, `session.rs:823`, `session.rs:793`: a failed peek ends the drain, a failed
  scan is not repeated, a refused row is marked read (`missed`, and `Drop` of
  `MessageDelivery`).
- `session.rs:944`: a cancelled run's rows stay unread if they cannot be marked, and the
  next restart serves them; `MessageDelivery` allows it.
- `sqlite_cron.rs:247`: a takeover skips the queue check, so a recovered run may
  overlap the next occurrence; `RunsUnderLease` is per occurrence.

## Not modelled

`PROJECT.json` gives the reason for each component. In short: database
repositories, HTTP routes, formatting of prompts and events, process and file
I/O have no state whose interleaving matters here. The teammate scheduler, the task
board, the segments of the stream relay and the channels' pairing do.
Within modelled components: `spawn_agent`, team deletion, the composition of the
member's life cycle with the session (their product is out of TLC's reach); an attach or a
removal whose future is dropped half-way; expiry by clock of leases and tokens;
agents other than ACP ones, which are neither replayed nor evicted; cron jobs
that open a new conversation for each run; a laptop that sleeps longer
than a lease.

Smaller things the modelled parts leave out:

- `TeamSession`: `spawn_member_runtime_attach` announces a new member's runtime a second
  time (`session.rs:1536`-`1545`); the model's members exist from the start, and their
  restarts go through `ensure_session` (`service.rs:1107`), which does not.
- `SlotWorkCoordinator`: a slot is created by the first call that names it
  (`coordinator.rs:813`, `:841`-`847`); in the model slots exist, empty, from the start.
- `MemberLifecycle`: the error paths of `ensure_runtime_agent` (`service.rs:3187`,
  `:3217`-`3218` of the conversation crate) end an attach as a failed build does.
- `ConversationTurns`: the row of an error tip is assumed to be inserted
  (`message_persistence.rs:57`-`64` returns nothing on a database error, and then nothing
  is told); `ErrorToldOnce` is about what the relay and the tip decide.
- `CronRuns`: `schedule_job` and `schedule_retry` of the scheduler, a cancellation and an
  insertion, are one step (see Further hazards). Left out are schedules without a next occurrence,
  an edit that sets both the switch and the schedule, edits of `queue_enabled` and
  `max_retries`, what the deletion of the conversation does to the job's workspace
  (`service.rs:1353`; the job stays), and a request whose future is dropped half-way. The two looks of the duplicate arm (`service.rs:582`-`593`, and
  again in `reschedule_after_execution`) are one.

Most of the repository's lines are CRUD, parsing, installation of
runtimes and tests, and the map leaves them out.

## Plan

What is left, in order:

1. Proofs: what remains of `RemovedLeavesNothing` when a replacement session boots;
   abstract specifications, with their refinements, of the lease of a cron run and
   of the task manager's map.
2. `TeammateManager` (wake locks, finalize deduplication, crash recovery) and
   `TaskBoard` (agreement of the two-way links under partial failure).
3. `spawn_agent` and team deletion in `MemberLifecycle`; the bootstrap of the first
   session, so that `MemberLifecycle` implements `RegistrySpec` from its initial
   state and not only step by step (`TasksUseRegistry`).
4. The segments of the stream relay; channel pairing.
