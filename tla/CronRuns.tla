------------------------------- MODULE CronRuns -------------------------------
(***************************************************************************)
(* One cron job (crates/aionui-cron/src/service.rs, scheduler.rs,          *)
(* executor.rs and the tables of crates/aionui-db/src/repository/          *)
(* sqlite_cron.rs).  Several backend processes share the database; each    *)
(* has its own timers, ticks and conversation runtime.                     *)
(*                                                                         *)
(* Time is the number of occurrences that have come due, and a lease is    *)
(* either running or expired.  The job runs in one existing conversation.  *)
(* A task is cut where another may run: at its database calls, any of      *)
(* which may fail; what it read it keeps.  The statuses ok and error are   *)
(* one, "done": both end the run, reset the retries and reschedule the     *)
(* job.                                                                    *)
(***************************************************************************)
EXTENDS Naturals, FiniteSets

CONSTANTS Procs,        \* backend processes on one database
          Tasks,        \* bound: ticks and manual runs, and with the work of
                        \* the processes all that is under way at a time
          NoProc,       \* owner_id is NULL
          Gone,         \* an instance id whose process has died
          Free,         \* the conversation of a process has no active turn
          User,         \* a turn of the user's
          Schedules,    \* the schedule kinds a job may have
          Queued,       \* those of the jobs created with queue_enabled
          MaxOcc,       \* bound: occurrences, one more stands for all later
          MaxRetries,   \* max_retries
          MaxUpsets,    \* bound: crashes, requests, resumes, user turns, and
                        \* failed calls of ticks and of init
          UpsetProcs    \* bound: the processes where these happen

ASSUME CronAssumption ==
  /\ MaxOcc \in Nat \ {0} /\ MaxRetries \in Nat /\ MaxUpsets \in Nat
  /\ Schedules \subseteq {"At", "Every", "Cron"}
  /\ {NoProc, Gone} \cap Procs = {} /\ {Free, User} \cap Tasks = {}
  /\ UpsetProcs \subseteq Procs /\ Tasks \cap Procs = {}

VARIABLES
  due,      \* occurrences that have come due
  job,      \* the row of cron_jobs, next = 0 for none
  run,      \* run[o]: the row of cron_job_runs for occurrence o
  up,       \* the processes that are running
  timer,    \* timer[p]: the timer the scheduler of p holds for the job
  turn,     \* turn[p]: the turn that holds the job's conversation in p
  task,     \* task[t]: a tick or a manual run; task[p]: what process p does
            \* for a user, at its start or after a resume, one at a time
  upsets,   \* upsets so far
  crossed,  \* an edit met another task, an unfinished run or a disabled job
            \* (history)
  watch     \* watch[p]: p has set a timer for the job, and no failed call
            \* made it lose one since (history)

vars == <<due, job, run, up, timer, turn, task, upsets, crossed, watch>>

(* The last one stands for all that come later, whose runs others do.      *)
Occs == 1 .. MaxOcc + 1
Later(o) == IF o > MaxOcc THEN o ELSE o + 1
Came(o) == o <= due \/ due = MaxOcc
Workers == Tasks \cup Procs

(* A task with the row of the job it read: enabled, sched, next, retry.    *)
Idle == [at |-> "idle", proc |-> NoProc, what |-> "tick", occ |-> 0,
         enabled |-> TRUE, sched |-> "At", next |-> 0, retry |-> 0,
         result |-> "done", sets |-> {}]
NoRun == [status |-> "none", owner |-> NoProc, expired |-> FALSE]
NoRuns == [o \in Occs |-> IF o <= MaxOcc THEN NoRun
                                         ELSE [NoRun EXCEPT !.status = "done"]]
NoTimer == [kind |-> "none", occ |-> 0]
Once(o) == [kind |-> "once", occ |-> o]

Kinds   == {"At", "Every", "Cron"}
Stages  == {"idle", "load", "claim", "prepare", "execute", "running", "settle",
            "count", "update", "look", "row", "retry", "timer", "insert", "read",
            "write", "delete", "list", "recover", "missed"}
Whats   == {"tick", "now", "create", "edit", "remove", "init", "resume"}
Results == {"done", "skipped", "retry", "missed", "failed"}

Job   == [exists : BOOLEAN, enabled : BOOLEAN, sched : Kinds,
          next : 0 .. MaxOcc + 1, retry : 0 .. MaxRetries, queue : BOOLEAN]
Run   == [status : {"none", "running", "retrying", "done", "skipped"},
          owner : Procs \cup {NoProc, Gone}, expired : BOOLEAN]
Timer == [kind : {"none", "once"} \cup Kinds, occ : 0 .. MaxOcc + 1]
Task  == [at : Stages, proc : Procs \cup {NoProc}, what : Whats, occ : 0 .. MaxOcc + 1,
          enabled : BOOLEAN, sched : Kinds, next : 0 .. MaxOcc + 1,
          retry : 0 .. MaxRetries, result : Results,
          sets : SUBSET {"enabled", "sched"}]

Unfinished(o) == run[o].status \in {"running", "retrying"}
Finished(o)   == run[o].status \in {"done", "skipped"}

(* compute_next_run of a schedule that repeats, and                        *)
(* compute_next_run_after_occurrence                                       *)
NextRun == Later(due)

(* schedule_job: replaces the timer, and sets none for a disabled job.     *)
ScheduleJob(enabled, sched, next) ==
  IF enabled /\ next # 0 THEN [kind |-> sched, occ |-> next] ELSE NoTimer

(* get_recoverable_run: unfinished runs, the lease that ends first first.  *)
Recoverable ==
  LET open == {o \in Occs : Unfinished(o)}
  IN  IF \E o \in open : run[o].expired THEN {o \in open : run[o].expired}
                                        ELSE open

(* add_job_internal computes the first occurrence, and will insert the row *)
(* and set a timer in the process that was asked.                          *)
Init ==
  /\ due = 0
  /\ \E s \in Schedules :
       job = [exists |-> FALSE, enabled |-> TRUE, sched |-> s, next |-> 1,
              retry |-> 0, queue |-> s \in Queued]
  /\ run = NoRuns
  /\ up \in SUBSET Procs
  /\ timer = [p \in Procs |-> NoTimer]
  /\ turn = [p \in Procs |-> Free]
  /\ \E p \in up \cap UpsetProcs :
       task = [t \in Workers |->
         IF t = p THEN [Idle EXCEPT !.at = "insert", !.proc = p, !.what = "create",
                                    !.sched = job.sched, !.next = 1]
                  ELSE Idle]
  /\ upsets = 0 /\ crossed = FALSE
  /\ watch = [p \in Procs |-> FALSE]

(* The bound on tasks, and the task a new tick or manual run takes.        *)
MayStart == /\ \E t \in Tasks : task[t].at = "idle"
            /\ Cardinality({t \in Workers : task[t].at # "idle"})
                 < Cardinality(Tasks)
Becomes(t, q) == task' = [task EXCEPT ![t] = q]
Spawn(q) == Becomes(CHOOSE t \in Tasks : task[t].at = "idle", q)

Upset == upsets < MaxUpsets /\ upsets' = upsets + 1

(* Process p begins to serve a request.                                    *)
Asked(p, q) == /\ Upset /\ p \in up /\ job.exists /\ task[p].at = "idle" /\ MayStart
               /\ Becomes(p, [q EXCEPT !.proc = p])

Goto(t, at) == Becomes(t, [task[t] EXCEPT !.at = at])
End(t) == Becomes(t, Idle)

(* A database call fails.                                                  *)
Fails(t) == IF task[t].what \in {"tick", "init"}
            THEN task[t].proc \in UpsetProcs /\ Upset ELSE UNCHANGED upsets

(* A task that took the timer away, or that the timer called, ends without *)
(* setting it.                                                             *)
GivesUp(t) ==
  LET p == task[t].proc
  IN  /\ Fails(t) /\ End(t)
      /\ watch' = [watch EXCEPT ![p] = @ /\ timer[p].kind # "none"]

------------------------------------------------------------------------------
(* Timers.                                                                 *)

TimePasses ==
  /\ due < MaxOcc
  /\ due' = due + 1
  /\ UNCHANGED <<job, run, up, timer, turn, task, upsets, crossed, watch>>

(* A timer fires and spawns a tick.  An Every timer counts on from its own *)
(* occurrence, a Cron timer from the present.                              *)
Fire(p) ==
  LET m == timer[p]
  IN  /\ p \in up /\ m.kind # "none" /\ MayStart
      /\ IF m.kind = "once"
         THEN ~(run[m.occ].status = "retrying" /\ ~run[m.occ].expired)
         ELSE Came(m.occ)
      /\ Spawn([Idle EXCEPT !.at = "load", !.proc = p, !.occ = m.occ])
      /\ timer' = [timer EXCEPT ![p] =
           CASE m.kind \in {"once", "At"} -> NoTimer
             [] m.kind = "Every"          -> [m EXCEPT !.occ = Later(@)]
             [] m.kind = "Cron"           -> [m EXCEPT !.occ = NextRun]]
      /\ UNCHANGED <<due, job, run, up, turn, upsets, crossed, watch>>

(* A task sets the timer from the row it holds, or cancels it: for a job   *)
(* that is off, and for a one-shot job that is done, whether or not the    *)
(* row could be disabled.                                                  *)
SetTimer(t) ==
  LET q == task[t]
      m == ScheduleJob(q.enabled, q.sched, q.next)
  IN  /\ q.at = "timer"
      /\ timer' = [timer EXCEPT ![q.proc] = m]
      /\ watch' = [watch EXCEPT ![q.proc] =
                     m.kind # "none" \/ (@ /\ q.result # "failed")]
      /\ End(t)
      /\ UNCHANGED <<due, job, run, up, turn, upsets, crossed>>

(* schedule_retry of the scheduler: a deferred or an unfinished occurrence *)
SetRetry(t) ==
  LET q == task[t]
  IN  /\ q.at = "retry"
      /\ timer' = [timer EXCEPT ![q.proc] = Once(q.next)]
      /\ watch' = [watch EXCEPT ![q.proc] = TRUE]
      /\ IF q.result = "retry" THEN Goto(t, "count") ELSE End(t)
      /\ UNCHANGED <<due, job, run, up, turn, upsets, crossed>>

(* The heartbeat keeps the lease of a tick that is preparing or running,   *)
(* and what is left of it then outlasts the call that ends the run; a      *)
(* deferred run comes back when its retry is due.                          *)
Beats(o) == \E t \in Tasks : /\ task[t].occ = o /\ task[t].proc = run[o].owner
                             /\ task[t].at \in {"prepare", "execute", "running",
                                                "settle"}

Expire(o) ==
  /\ Unfinished(o) /\ ~run[o].expired /\ ~Beats(o)
  /\ run' = [run EXCEPT ![o].expired = TRUE]
  /\ UNCHANGED <<due, job, up, timer, turn, task, upsets, crossed, watch>>

------------------------------------------------------------------------------
(* tick                                                                    *)

(* A row that cannot be read, parsed or resolved ends the tick.            *)
Load(t) ==
  /\ task[t].at = "load"
  /\ \/ /\ job.exists /\ job.enabled
        /\ Becomes(t, [task[t] EXCEPT !.at = "claim", !.sched = job.sched,
                                      !.retry = job.retry])
        /\ UNCHANGED <<timer, upsets, watch>>
     \/ /\ ~(job.exists /\ job.enabled)
        /\ End(t)
        /\ timer' = IF job.exists THEN timer
                                  ELSE [timer EXCEPT ![task[t].proc] = NoTimer]
        /\ UNCHANGED <<upsets, watch>>
     \/ GivesUp(t) /\ UNCHANGED timer
  /\ UNCHANGED <<due, job, run, up, turn, crossed>>

(* A tick that is done with its occurrence goes on with the job alone.     *)
GoOn(t, at) ==
  Becomes(t, [task[t] EXCEPT !.at = at, !.occ = 0, !.retry = 0, !.result = "done"])

(* Mutant: a run is taken over whether or not its lease has expired.       *)
MayReclaimAny(o) == Unfinished(o)

MayReclaim(o) == Unfinished(o) /\ run[o].expired

(* claim_run, one transaction.  A row of a removed job cannot be written.  *)
Claim(t) ==
  LET o == task[t].occ
      busy == job.queue /\ \E r \in Occs : Unfinished(r) /\ ~run[r].expired
      mine == [status |-> "running", owner |-> task[t].proc, expired |-> FALSE]
  IN  /\ task[t].at = "claim"
      /\ \/ /\ job.exists
            /\ MayReclaim(o) \/ (run[o].status = "none" /\ ~busy)
            /\ run' = [run EXCEPT ![o] = mine]
            /\ Goto(t, "prepare")
            /\ UNCHANGED <<upsets, watch>>
         \/ /\ job.exists /\ run[o].status # "none" /\ ~MayReclaim(o)
            /\ GoOn(t, "look")
            /\ UNCHANGED <<run, upsets, watch>>
         \/ /\ job.exists /\ run[o].status = "none" /\ busy
            /\ run' = [run EXCEPT ![o].status = "skipped"]
            /\ GoOn(t, "update")
            /\ UNCHANGED <<upsets, watch>>
         \/ /\ ~job.exists
            /\ End(t)
            /\ UNCHANGED <<run, upsets, watch>>
         \/ GivesUp(t) /\ UNCHANGED run
      /\ UNCHANGED <<due, job, up, timer, turn, crossed>>

(* Mutant: one retry more than max_retries.                                *)
BusyOnceMore(t) ==
  IF job.queue \/ task[t].retry > MaxRetries THEN "skipped" ELSE "retry"

(* handle_busy                                                             *)
BusyResult(t) ==
  IF job.queue \/ task[t].retry >= MaxRetries THEN "skipped" ELSE "retry"

Result(t, result) ==
  Becomes(t, [task[t] EXCEPT !.at = "settle", !.result = result])

Ticks(q) == q.what = "tick"

(* prepare_scheduled, prepare_run_now: they fail, or find the conversation *)
(* busy, or go on.                                                         *)
Prepare(t) ==
  LET q == task[t]
      busy == turn[q.proc] # Free
  IN  /\ q.at = "prepare"
      /\ \/ ~busy /\ Goto(t, "execute")
         \/ busy /\ Ticks(q) /\ Result(t, BusyResult(t))
         \/ Ticks(q) /\ Result(t, "done")
         \/ ~Ticks(q) /\ End(t)
      /\ UNCHANGED <<due, job, run, up, timer, turn, upsets, crossed, watch>>

(* execute_inner_with_busy_retry up to the claim of the turn, which may    *)
(* fail; a manual run does not retry.                                      *)
Execute(t) ==
  LET q == task[t]
      busy == turn[q.proc] # Free
  IN  /\ q.at = "execute"
      /\ \/ ~busy /\ Goto(t, "running") /\ turn' = [turn EXCEPT ![q.proc] = t]
         \/ /\ \/ busy /\ Ticks(q) /\ Result(t, BusyResult(t))
               \/ Ticks(q) /\ Result(t, "done")
               \/ ~Ticks(q) /\ Goto(t, "update")
            /\ UNCHANGED turn
      /\ UNCHANGED <<due, job, run, up, timer, upsets, crossed, watch>>

TurnEnds(t) ==
  LET q == task[t]
  IN  /\ q.at = "running"
      /\ turn' = [turn EXCEPT ![q.proc] = Free]
      /\ \/ ~Ticks(q) /\ Goto(t, "update")
         \/ Ticks(q) /\ Result(t, "done")
      /\ UNCHANGED <<due, job, run, up, timer, upsets, crossed, watch>>

(* finish_run or defer_run; a run that is no longer owned ends the tick.   *)
Settle(t) ==
  LET q == task[t]
      owned == job.exists /\ run[q.occ].status = "running"
                          /\ run[q.occ].owner = q.proc
  IN  /\ q.at = "settle"
      /\ \/ /\ owned /\ q.result = "retry"
            /\ run' = [run EXCEPT ![q.occ] = [NoRun EXCEPT !.status = "retrying"]]
            /\ Becomes(t, [q EXCEPT !.at = "retry", !.occ = 0, !.next = q.occ,
                                    !.sched = "At"])
            /\ UNCHANGED <<upsets, watch>>
         \/ /\ owned /\ q.result # "retry"
            /\ run' = [run EXCEPT ![q.occ] = [NoRun EXCEPT !.status = q.result]]
            /\ GoOn(t, "update")
            /\ UNCHANGED <<upsets, watch>>
         \/ ~owned /\ End(t) /\ UNCHANGED <<run, upsets, watch>>
         \/ GivesUp(t) /\ UNCHANGED run
      /\ UNCHANGED <<due, job, up, timer, turn, crossed>>

(* A write of the job's row fails, always when the job was removed.        *)
MissesRow(t) == IF job.exists THEN Fails(t) ELSE UNCHANGED upsets

(* A write of the retry count, or of what a run came to, that fails is     *)
(* logged.                                                                 *)
Retries(t, n) ==
  \/ job.exists /\ job' = [job EXCEPT !.retry = n] /\ UNCHANGED upsets
  \/ MissesRow(t) /\ UNCHANGED job

Count(t) ==
  /\ task[t].at = "count"
  /\ Retries(t, task[t].retry + 1)
  /\ End(t)
  /\ UNCHANGED <<due, run, up, timer, turn, crossed, watch>>

(* update_job_after_success or _error, or the record of a skip.            *)
Update(t) ==
  /\ task[t].at = "update"
  /\ Retries(t, 0)
  /\ IF Ticks(task[t]) THEN Goto(t, "look") ELSE End(t)
  /\ UNCHANGED <<due, run, up, timer, turn, crossed, watch>>

(* Mutant: a tick reschedules without looking for unfinished runs.         *)
LookPast(t) ==
  /\ task[t].at = "look"
  /\ Goto(t, "row")
  /\ UNCHANGED <<due, job, run, up, timer, turn, upsets, crossed, watch>>

Recovers(t, o) ==
  Becomes(t, [task[t] EXCEPT !.at = "retry", !.next = o, !.sched = "At",
                             !.result = "done"])

(* reschedule_after_execution: an unfinished run comes first; otherwise    *)
(* the row and the timer, with the job as the tick loaded it.              *)
Look(t) ==
  /\ task[t].at = "look"
  /\ \/ (\E o \in Recoverable : Recovers(t, o)) /\ UNCHANGED upsets
     \/ Recoverable = {} /\ Goto(t, "row") /\ UNCHANGED upsets
     \/ Fails(t) /\ Goto(t, "row")
  /\ UNCHANGED <<due, job, run, up, timer, turn, crossed, watch>>

(* Mutant: the row is written and the timer is not set again.              *)
RowOnly(t) ==
  LET again == task[t].sched # "At"
  IN  /\ task[t].at = "row"
      /\ job' = [job EXCEPT !.enabled = @ /\ again,
                            !.next = IF again THEN NextRun ELSE 0]
      /\ End(t)
      /\ UNCHANGED <<due, run, up, timer, turn, upsets, crossed, watch>>

(* The next occurrence of a job that repeats, or the end of one that does  *)
(* not, is written, by a tick or by reschedule_after_missed; only the      *)
(* latter returns when that fails.                                         *)
Row(t) ==
  LET q == task[t]
      again == q.sched # "At"
      next == IF again THEN NextRun ELSE 0
      Then(result) == Becomes(t, [q EXCEPT !.at = "timer", !.enabled = again,
                                           !.next = next, !.result = result])
  IN  /\ q.at = "row"
      /\ \/ /\ job.exists
            /\ job' = [job EXCEPT !.enabled = @ /\ again, !.next = next]
            /\ Then("done")
            /\ UNCHANGED upsets
         \/ /\ MissesRow(t)
            /\ IF again /\ q.what = "resume" THEN End(t) ELSE Then("failed")
            /\ UNCHANGED job
      /\ UNCHANGED <<due, run, up, timer, turn, crossed, watch>>

------------------------------------------------------------------------------
(* What users ask for.                                                     *)

Insert(p) ==
  /\ task[p].at = "insert"
  /\ \/ /\ job' = [job EXCEPT !.exists = TRUE]
        /\ Goto(p, "timer")
     \/ End(p) /\ UNCHANGED job
  /\ UNCHANGED <<due, run, up, timer, turn, upsets, crossed, watch>>

RunNow(p) ==
  /\ Upset /\ p \in up /\ job.exists /\ MayStart
  /\ Spawn([Idle EXCEPT !.at = "prepare", !.proc = p, !.what = "now"])
  /\ UNCHANGED <<due, job, run, up, timer, turn, crossed, watch>>

UserTurn(p) ==
  /\ Upset /\ p \in up /\ turn[p] = Free
  /\ turn' = [turn EXCEPT ![p] = User]
  /\ UNCHANGED <<due, job, run, up, timer, task, crossed, watch>>

UserTurnEnds(p) ==
  /\ turn[p] = User
  /\ turn' = [turn EXCEPT ![p] = Free]
  /\ UNCHANGED <<due, job, run, up, timer, task, upsets, crossed, watch>>

(* update_job: reads the row, writes what the request sets, and sets the   *)
(* timer of its process from what it read and set.                         *)
UpdateJob(p) ==
  /\ Asked(p, [Idle EXCEPT !.at = "read", !.what = "edit"])
  /\ UNCHANGED <<due, job, run, up, timer, turn, crossed, watch>>

(* A one-shot job may be given, or keep, a time that is past (nobody reads *)
(* the time of a disabled one).                                            *)
Edited(p, sets, enabled, sched, next) ==
  /\ "enabled" \in sets \/ enabled = job.enabled
  /\ "sched" \in sets \/ sched = job.sched
  /\ IF sets = {} THEN next = job.next
                  ELSE next = NextRun \/ (sched = "At" /\ enabled /\ next \in 1 .. due)
  /\ Becomes(p, [task[p] EXCEPT !.at = "write", !.enabled = enabled,
                                !.sched = sched, !.next = next, !.sets = sets])

Read(p) ==
  /\ task[p].at = "read"
  /\ \/ /\ job.exists
        /\ \E sets \in {{}, {"enabled"}, {"sched"}}, b \in BOOLEAN, s \in Schedules,
              o \in 0 .. MaxOcc + 1 : Edited(p, sets, b, s, o)
     \/ End(p)
  /\ UNCHANGED <<due, job, run, up, timer, turn, upsets, crossed, watch>>

Write(p) ==
  LET q == task[p]
  IN  /\ q.at = "write"
      /\ \/ /\ job.exists
            /\ job' = [job EXCEPT
                 !.enabled = IF "enabled" \in q.sets THEN q.enabled ELSE @,
                 !.sched = IF "sched" \in q.sets THEN q.sched ELSE @,
                 !.next = IF q.sets = {} THEN @ ELSE q.next]
            /\ Becomes(p, [q EXCEPT !.at = "timer", !.sets = {}])
            /\ crossed' = (crossed \/
                 /\ q.sets # {}
                 /\ \/ ~job.enabled
                    \/ \E t \in Workers \ {p} : task[t].at # "idle"
                    \/ \E o \in Occs : Unfinished(o))
         \/ End(p) /\ UNCHANGED <<job, crossed>>
      /\ UNCHANGED <<due, run, up, timer, turn, upsets, watch>>

(* remove_job: the timer, and after the skill file the row, which takes    *)
(* its runs with it.                                                       *)
RemoveJob(p) ==
  /\ Asked(p, [Idle EXCEPT !.at = "delete", !.what = "remove"])
  /\ timer' = [timer EXCEPT ![p] = NoTimer]
  /\ UNCHANGED <<due, job, run, up, turn, crossed, watch>>

Delete(p) ==
  /\ task[p].at = "delete"
  /\ \/ /\ job.exists
        /\ job' = [job EXCEPT !.exists = FALSE]
        /\ run' = NoRuns
        /\ End(p)
        /\ UNCHANGED <<upsets, watch>>
     \/ GivesUp(p) /\ UNCHANGED <<job, run>>
  /\ UNCHANGED <<due, up, timer, turn, crossed>>

------------------------------------------------------------------------------
(* What the system does.                                                   *)

(* handle_system_resume                                                    *)
Resume(p) ==
  /\ Asked(p, [Idle EXCEPT !.at = "list", !.what = "resume"])
  /\ UNCHANGED <<due, job, run, up, timer, turn, crossed, watch>>

(* A process dies with its timers and tasks; its instance id dies with it. *)
Crash(p) ==
  /\ Upset /\ p \in up
  /\ up' = up \ {p}
  /\ timer' = [timer EXCEPT ![p] = NoTimer]
  /\ turn' = [turn EXCEPT ![p] = Free]
  /\ task' = [t \in Workers |-> IF task[t].proc = p THEN Idle ELSE task[t]]
  /\ run' = [o \in Occs |-> IF run[o].owner = p THEN [run[o] EXCEPT !.owner = Gone]
                                                ELSE run[o]]
  /\ watch' = [watch EXCEPT ![p] = FALSE]
  /\ UNCHANGED <<due, job, crossed>>

(* init                                                                    *)
Restart(p) ==
  /\ p \notin up
  /\ up' = up \cup {p}
  /\ Becomes(p, [Idle EXCEPT !.at = "list", !.proc = p, !.what = "init"])
  /\ UNCHANGED <<due, job, run, timer, turn, upsets, crossed, watch>>

(* list_enabled; a resume compares the row with the time it is.            *)
List(p) ==
  LET missed == task[p].what = "resume" /\ job.next # 0 /\ job.next <= due
  IN  /\ task[p].at = "list"
      /\ \/ /\ job.exists /\ job.enabled
            /\ Becomes(p, [task[p] EXCEPT
                 !.at = "recover", !.sched = job.sched, !.next = job.next,
                 !.result = IF missed THEN "missed" ELSE "done"])
            /\ UNCHANGED upsets
         \/ ~(job.exists /\ job.enabled) /\ End(p) /\ UNCHANGED upsets
         \/ Fails(p) /\ End(p)
      /\ UNCHANGED <<due, job, run, up, timer, turn, crossed, watch>>

(* get_recoverable_run; a failure is logged.                               *)
Recover(p) ==
  LET next == IF task[p].result = "missed" THEN "missed" ELSE "timer"
  IN  /\ task[p].at = "recover"
      /\ \/ (\E o \in Recoverable : Recovers(p, o)) /\ UNCHANGED upsets
         \/ Recoverable = {} /\ Goto(p, next) /\ UNCHANGED upsets
         \/ Fails(p) /\ Goto(p, next)
      /\ UNCHANGED <<due, job, run, up, timer, turn, crossed, watch>>

(* record_missed_execution and the tip, then reschedule_after_missed.      *)
Missed(p) ==
  /\ task[p].at = "missed"
  /\ Retries(p, 0)
  /\ Goto(p, "row")
  /\ UNCHANGED <<due, run, up, timer, turn, crossed, watch>>

------------------------------------------------------------------------------
Step(t) ==
  \/ Load(t) \/ Claim(t) \/ Prepare(t) \/ Execute(t) \/ TurnEnds(t) \/ Settle(t)
  \/ Count(t) \/ Update(t) \/ Look(t) \/ Row(t) \/ SetTimer(t) \/ SetRetry(t)

Serves(p) ==
  \/ Insert(p) \/ Read(p) \/ Write(p) \/ Delete(p) \/ List(p) \/ Recover(p)
  \/ Missed(p) \/ Row(p) \/ SetTimer(p) \/ SetRetry(p)

Upsetting(p) ==
  \/ UserTurn(p) \/ RunNow(p) \/ UpdateJob(p) \/ RemoveJob(p) \/ Resume(p)
  \/ Crash(p)

Next ==
  \/ TimePasses
  \/ \E p \in Procs : Restart(p) \/ UserTurnEnds(p) \/ Fire(p) \/ Serves(p)
  \/ \E o \in Occs : Expire(o)
  \/ \E t \in Tasks : Step(t)
  \/ \E p \in UpsetProcs : Upsetting(p)

Spec == Init /\ [][Next]_vars

(* Tasks are polled, timers fire, and as long as time may pass, a lease    *)
(* expire, a turn end, a process that is down start, or a request be       *)
(* served, one of these happens.                                           *)
Goes == \/ TimePasses
        \/ \E o \in Occs : Expire(o)
        \/ \E p \in Procs : Restart(p) \/ UserTurnEnds(p) \/ Serves(p)

FairSpec ==
  /\ Spec /\ WF_vars(Goes)
  /\ \A t \in Tasks : WF_vars(Step(t))
  /\ WF_vars(\E p \in Procs : Fire(p))

------------------------------------------------------------------------------
(* Every variable has the type of what it models; retry_count stays within *)
(* max_retries.                                                            *)
TypeOK ==
  /\ due \in 0 .. MaxOcc /\ upsets \in 0 .. MaxUpsets /\ crossed \in BOOLEAN
  /\ job \in Job
  /\ run \in [Occs -> Run]
  /\ up \in SUBSET Procs
  /\ timer \in [Procs -> Timer]
  /\ turn \in [Procs -> Tasks \cup {Free, User}]
  /\ task \in [Workers -> Task]
  /\ watch \in [Procs -> BOOLEAN]

(* A tick that talks to the agent holds the lease of its occurrence, alone *)
(* among all ticks of all processes, from the claim to the end of the turn *)
(* (unless the job was removed under it).                                  *)
RunsUnderLease ==
  \A t \in Tasks :
    task[t].at \in {"execute", "running"} /\ Ticks(task[t]) /\ job.exists =>
      /\ run[task[t].occ].status = "running"
      /\ run[task[t].occ].owner = task[t].proc
      /\ \A s \in Tasks \ {t} :
           task[s].at \in {"execute", "running"} /\ Ticks(task[s])
             => task[s].occ # task[t].occ

(* A job that is on is not forgotten: a process that has set a timer for   *)
(* it, and has lost none to a failed call since, holds one, or has a tick  *)
(* or a removal under way that will set it or fail; whatever ticks,        *)
(* retries, duplicates, resumes and renames crossed each other.  Not after *)
(* an edit that crossed a tick: the tick ends with the row it loaded.      *)
JobIsWatched ==
  job.exists /\ job.enabled /\ ~crossed => \A p \in up :
    watch[p] => \/ timer[p].kind # "none"
                \/ \E t \in Workers : task[t].proc = p
                                        /\ task[t].what \in {"tick", "remove"}

(* Nobody will look at the job again: every process is up, has nothing     *)
(* under way, and never had a timer for the job or lost it to a failed     *)
(* call.                                                                   *)
Forgotten == /\ up = Procs /\ \A t \in Workers : task[t].at = "idle"
             /\ \A p \in Procs : ~watch[p]

(* An occurrence that some process began is brought to an end, also when   *)
(* that process died: another, or the same after a restart, takes it over, *)
(* at the latest when a later occurrence is done.  It does not stay open   *)
(* for ever.  Stated for the first occurrence; all are treated alike.      *)
RunsEnd == []<>(\/ ~Unfinished(1) \/ crossed \/ ~job.enabled \/ Forgotten)
==============================================================================
