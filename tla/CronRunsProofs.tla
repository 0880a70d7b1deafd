---------------------------- MODULE CronRunsProofs ----------------------------
(***************************************************************************)
(* Proofs about CronRuns, for any number of processes, concurrent tasks    *)
(* and occurrences: the types and the bound on retries, the lease under    *)
(* which an occurrence runs, and the timer or tick that watches the job.   *)
(***************************************************************************)
EXTENDS CronRuns, TLAPS

(* A retry is decided while there is one left.                             *)
RetryLeft(q) ==
  q.at = "count" \/ (q.at \in {"settle", "retry"} /\ q.result = "retry")
    => q.retry < MaxRetries

(* What a task holds at each of its stages: up to the end of its run a     *)
(* tick has an occurrence; a task that is to set a timer for a job that is *)
(* on has a next run; only ticks claim and settle runs; and an edit, a     *)
(* start or a resume is neither a tick nor a removal.                      *)
Shaped(t, q) ==
  /\ IF q.at = "idle" THEN q.proc = NoProc
                      ELSE q.proc \in up /\ (t \in Procs => q.proc = t)
  /\ q.at \in {"load", "claim", "prepare", "execute", "running", "settle"}
     /\ q.what = "tick" => q.occ \in Occs
  /\ q.at \in {"load", "claim", "settle"} => q.what = "tick"
  /\ q.at \in {"prepare", "execute", "running", "update"} => q.what # "remove"
  /\ q.at \in {"insert", "read", "write", "list"} => q.what \notin {"tick", "remove"}
  /\ q.at = "settle" => q.result \in {"done", "skipped", "retry"}
  /\ q.at = "retry" => q.next \in Occs
  /\ q.at \in {"insert", "write", "recover", "timer"} /\ q.enabled => q.next # 0
  /\ q.at = "write" /\ q.sets # {} => q.next # 0
  /\ q.at \in {"insert", "list", "recover"} => q.enabled
  /\ RetryLeft(q)

TaskInv == \A t \in Workers : Shaped(t, task[t])

(* A timer has an occurrence.                                              *)
Armed(m) == m.kind # "none" => m.occ # 0
TimerInv == \A p \in Procs : Armed(timer[p])

(* A job that is on has a next run.                                        *)
NextInv == job.enabled => job.next # 0

(* Before the job is created there is nothing but processes that start.    *)
FreshInv == \A p \in Workers : task[p].at = "insert" =>
  /\ \A t \in Workers \ {p} : task[t].at \in {"idle", "list"}
  /\ \A r \in Procs : timer[r].kind = "none" /\ ~watch[r]
  /\ ~job.exists

TypeInv == TypeOK /\ TaskInv /\ TimerInv /\ NextInv /\ FreshInv

(* From its claim to the end of its run a tick holds a lease that has not  *)
(* expired, and no other tick is there with its occurrence.                *)
Leased == {"prepare", "execute", "running", "settle"}
Holds(q) == q.at \in Leased /\ q.what = "tick"
HoldsLease(q) == run[q.occ].status = "running" /\ run[q.occ].owner = q.proc
                                               /\ ~run[q.occ].expired
LeaseInv ==
  job.exists => \A t \in Tasks : Holds(task[t]) =>
    /\ HoldsLease(task[t])
    /\ \A s \in Tasks \ {t} : Holds(task[s]) => task[s].occ # task[t].occ

(* The job is on, and no edit crossed another task: then what a task is to *)
(* set the timer from says so.                                             *)
On == job.exists /\ job.enabled /\ ~crossed
Ready(q) == /\ q.at = "timer" /\ q.result # "failed" => q.enabled
            /\ q.at = "write" => q.enabled \/ "enabled" \in q.sets
ReadyInv == On => \A t \in Workers : Ready(task[t])

(* A tick that only counts a retry sets no timer any more: it has set one. *)
Watching(q) == q.what \in {"tick", "remove"} /\ q.at # "count"
Watched(p) == timer[p].kind # "none"
                \/ \E t \in Workers : task[t].proc = p /\ Watching(task[t])
WatchInv == /\ On => \A p \in up : watch[p] => Watched(p)
            /\ \A p \in Procs \ up : ~watch[p]

------------------------------------------------------------------------------
(* The values that tasks, timers and rows are given have their types.      *)

LEMMA Constants ==
  /\ Idle \in Task /\ NoRun \in Run /\ NoTimer \in Timer /\ NoRuns \in [Occs -> Run]
  /\ Idle.at = "idle" /\ Idle.what = "tick" /\ NoTimer.kind = "none"
  /\ ~Holds(Idle) /\ \A t : Shaped(t, Idle)
  /\ UpsetProcs \subseteq Procs /\ Schedules \subseteq Kinds
  <1>1. 0 \in 0 .. MaxOcc + 1 /\ 0 \in 0 .. MaxRetries
    BY CronAssumption
  <1>2. Idle \in Task
    BY <1>1 DEF Idle, Task, Stages, Whats, Results, Kinds
  <1>3. NoRun \in Run /\ [NoRun EXCEPT !.status = "done"] \in Run
    BY DEF NoRun, Run
  <1>4. NoTimer \in Timer /\ NoTimer.kind = "none"
    BY <1>1 DEF NoTimer, Timer
  <1>5. Idle.at = "idle" /\ Idle.what = "tick" /\ Idle.proc = NoProc
    BY DEF Idle
  <1>6. ~Holds(Idle) /\ \A t : Shaped(t, Idle)
    BY <1>5 DEF Holds, Leased, Shaped, RetryLeft
  <1>7. NoRuns \in [Occs -> Run]
    BY <1>3 DEF NoRuns
  <1>. QED  BY <1>2, <1>3, <1>4, <1>5, <1>6, <1>7, CronAssumption DEF Kinds

LEMMA ScheduleTyped ==
  ASSUME NEW e \in BOOLEAN, NEW s \in Kinds, NEW n \in 0 .. MaxOcc + 1
  PROVE  /\ ScheduleJob(e, s, n) \in Timer /\ Armed(ScheduleJob(e, s, n))
         /\ e /\ n # 0 => ScheduleJob(e, s, n).kind # "none"
  BY Constants DEF ScheduleJob, Timer, Armed, Kinds

LEMMA OnceTyped ==
  ASSUME NEW o \in Occs
  PROVE  Once(o) \in Timer /\ Armed(Once(o)) /\ Once(o).kind # "none"
  BY CronAssumption DEF Once, Timer, Armed, Occs

LEMMA LaterTyped ==
  ASSUME NEW o \in 0 .. MaxOcc + 1
  PROVE  Later(o) \in 0 .. MaxOcc + 1 /\ Later(o) # 0
  BY CronAssumption DEF Later

LEMMA NextRunTyped ==
  ASSUME TypeOK
  PROVE  NextRun \in 0 .. MaxOcc + 1 /\ NextRun # 0
  BY LaterTyped, CronAssumption DEF TypeOK, NextRun

LEMMA RecoverableTyped == Recoverable \subseteq Occs
  BY DEF Recoverable

LEMMA OccsTyped ==
  /\ Occs \subseteq 0 .. MaxOcc + 1
  /\ \A o \in 0 .. MaxOcc + 1 : o # 0 => o \in Occs
  BY CronAssumption DEF Occs

(* handle_busy defers a run while there is a retry left.                   *)
LEMMA BusyTyped ==
  ASSUME TypeOK, NEW t \in Workers
  PROVE  /\ BusyResult(t) \in {"skipped", "retry"}
         /\ BusyResult(t) = "retry" => task[t].retry < MaxRetries
  <1>1. task[t].retry \in Nat /\ MaxRetries \in Nat
    BY CronAssumption DEF TypeOK, Task
  <1>. QED  BY <1>1 DEF BusyResult

(* A task is in a process that runs.                                       *)
LEMMA TaskProc ==
  ASSUME TypeOK, TaskInv, NEW t \in Workers, task[t].at # "idle"
  PROVE  task[t].proc \in up /\ task[t].proc \in Procs
  BY DEF TypeOK, TaskInv, Shaped

------------------------------------------------------------------------------
(* What the steps do to the tasks.                                         *)

(* A step of a task: of a tick, of a manual run, or of what a process does *)
(* itself.                                                                 *)
Works(t) == (t \in Tasks /\ Step(t)) \/ (t \in Procs /\ Serves(t))

(* One task is given a new value.                                          *)
LEMMA Put ==
  ASSUME TypeOK, TaskInv, NEW t \in Workers, NEW v \in Task, Becomes(t, v),
         up \subseteq up', Shaped(t, v)'
  PROVE  /\ task' \in [Workers -> Task] /\ TaskInv'
         /\ task'[t] = v /\ \A u \in Workers \ {t} : task'[u] = task[u]
  <1>1. task' \in [Workers -> Task] /\ task'[t] = v
        /\ \A u \in Workers \ {t} : task'[u] = task[u]
    BY DEF TypeOK, Becomes
  <1>2. ASSUME NEW u \in Workers PROVE Shaped(u, task[u])'
    BY <1>1 DEF TaskInv, Shaped
  <1>. QED  BY <1>1, <1>2 DEF TaskInv

(* The task goes on with what it holds at another stage.                   *)
But(v, q, a) ==
  /\ v.at = a /\ v.proc = q.proc /\ v.what = q.what /\ v.occ = q.occ
  /\ v.enabled = q.enabled /\ v.sched = q.sched /\ v.next = q.next
  /\ v.retry = q.retry /\ v.result = q.result /\ v.sets = q.sets

LEMMA GotoBut ==
  ASSUME TypeOK, NEW t \in Workers, NEW a \in Stages, Goto(t, a)
  PROVE  \E v \in Task : Becomes(t, v) /\ But(v, task[t], a)
  <1>. DEFINE v == [task[t] EXCEPT !.at = a]
  <1>1. task[t] \in Task
    BY DEF TypeOK
  <1>2. v \in Task /\ But(v, task[t], a)
    BY <1>1 DEF Task, But
  <1>3. Becomes(t, v)
    BY DEF Goto
  <1>. QED  BY <1>2, <1>3

(* A run ended with a result, which is settled next.                       *)
LEMMA ResultEnds ==
  ASSUME TypeOK, NEW t \in Workers, NEW r \in Results, Result(t, r)
  PROVE  \E v \in Task : /\ Becomes(t, v)
                         /\ v.at = "settle" /\ v.proc = task[t].proc
                         /\ v.what = task[t].what /\ v.occ = task[t].occ
                         /\ v.retry = task[t].retry /\ v.result = r
  <1>. DEFINE v == [task[t] EXCEPT !.at = "settle", !.result = r]
  <1>1. task[t] \in Task /\ "settle" \in Stages
    BY DEF TypeOK, Stages
  <1>2. v \in Task
    BY <1>1 DEF Task
  <1>3. /\ v.at = "settle" /\ v.proc = task[t].proc /\ v.what = task[t].what
        /\ v.occ = task[t].occ /\ v.retry = task[t].retry /\ v.result = r
    BY <1>1 DEF Task
  <1>4. Becomes(t, v)
    BY DEF Result
  <1>. QED  BY <1>2, <1>3, <1>4

(* The tick is done with its occurrence.                                   *)
LEMMA GoOnBut ==
  ASSUME TypeOK, NEW t \in Workers, NEW a \in Stages, GoOn(t, a)
  PROVE  \E v \in Task : /\ Becomes(t, v)
                         /\ v.at = a /\ v.proc = task[t].proc
                         /\ v.what = task[t].what /\ v.result = "done"
  <1>. DEFINE v == [task[t] EXCEPT !.at = a, !.occ = 0, !.retry = 0, !.result = "done"]
  <1>1. task[t] \in Task /\ "done" \in Results
        /\ 0 \in 0 .. MaxOcc + 1 /\ 0 \in 0 .. MaxRetries
    BY CronAssumption DEF TypeOK, Results
  <1>2. v \in Task
    BY <1>1 DEF Task
  <1>3. /\ v.at = a /\ v.proc = task[t].proc /\ v.what = task[t].what
        /\ v.result = "done"
    BY <1>1 DEF Task
  <1>4. Becomes(t, v)
    BY DEF GoOn
  <1>. QED  BY <1>2, <1>3, <1>4

(* It will set the timer for an unfinished run.                            *)
LEMMA RecoversBut ==
  ASSUME TypeOK, NEW t \in Workers, NEW o \in Occs, Recovers(t, o)
  PROVE  \E v \in Task : /\ Becomes(t, v)
                         /\ v.at = "retry" /\ v.proc = task[t].proc
                         /\ v.what = task[t].what /\ v.next = o /\ v.result = "done"
  <1>. DEFINE v == [task[t] EXCEPT !.at = "retry", !.next = o, !.sched = "At",
                                   !.result = "done"]
  <1>1. task[t] \in Task /\ "done" \in Results /\ "retry" \in Stages /\ "At" \in Kinds
        /\ o \in 0 .. MaxOcc + 1
    BY OccsTyped DEF TypeOK, Results, Stages, Kinds
  <1>2. v \in Task
    BY <1>1 DEF Task
  <1>3. /\ v.at = "retry" /\ v.proc = task[t].proc /\ v.what = task[t].what
        /\ v.next = o /\ v.result = "done"
    BY <1>1 DEF Task
  <1>4. Becomes(t, v)
    BY DEF Recovers
  <1>. QED  BY <1>2, <1>3, <1>4

(* Whoever holds a lease after a step held it before, or claims it; a task *)
(* that goes on keeps its process and what it is; and who is to set a      *)
(* timer comes from the row that was created, written or read.             *)
Moved(q, v) ==
  /\ v.at # "insert"
  /\ v.at = "timer" => q.at \in {"insert", "row", "recover", "write"}
  /\ v.at = "write" => q.at = "read"
  /\ v.at = "count" => q.at = "retry"
  /\ Holds(v) => /\ q.at # "settle" /\ v.occ = q.occ /\ v.proc = q.proc
                 /\ Holds(q) \/ q.at = "claim"
  /\ v.at = "idle" \/ (v.proc = q.proc /\ v.what = q.what)

Moves(t) == \E v \in Task : Becomes(t, v) /\ Shaped(t, v) /\ Moved(task[t], v)

(* What a step does that ends the task, or gives it another stage only.    *)
LEMMA MoveKinds ==
  ASSUME TypeInv, NEW t \in Workers, task[t].at # "idle"
  PROVE  /\ End(t) => Moves(t)
         /\ \A a \in {"count", "update", "look", "row", "timer", "missed"} :
              /\ Goto(t, a)
              /\ a = "count" => task[t].retry < MaxRetries /\ task[t].at = "retry"
              /\ a = "update" => task[t].what # "remove"
              /\ a = "timer" => /\ task[t].at \in {"insert", "recover"}
                                /\ task[t].enabled => task[t].next # 0
              => Moves(t)
         /\ \A a \in {"prepare", "execute", "running"} :
              /\ Goto(t, a)
              /\ task[t].at \in {"claim", "prepare", "execute"}
              => Moves(t)
         /\ \A r \in {"done", "skipped", "retry"} :
              /\ Result(t, r) /\ Ticks(task[t])
              /\ task[t].at \in {"prepare", "execute", "running"}
              /\ r = "retry" => task[t].retry < MaxRetries
              => Moves(t)
         /\ \A a \in {"look", "update"} :
              GoOn(t, a) /\ task[t].what = "tick" => Moves(t)
         /\ \A o \in Occs : Recovers(t, o) => Moves(t)
  <1>1. TypeOK /\ task[t] \in Task /\ Shaped(t, task[t])
    BY DEF TypeInv, TypeOK, TaskInv
  <1>2. End(t) => Moves(t)
    BY Constants DEF End, Moves, Moved
  <1>3. ASSUME NEW a \in {"count", "update", "look", "row", "timer", "missed"}, Goto(t, a),
               a = "count" => task[t].retry < MaxRetries /\ task[t].at = "retry",
               a = "update" => task[t].what # "remove",
               a = "timer" => /\ task[t].at \in {"insert", "recover"}
                              /\ task[t].enabled => task[t].next # 0
        PROVE  Moves(t)
    <2>1. a \in Stages
      BY DEF Stages
    <2>2. PICK v \in Task : Becomes(t, v) /\ But(v, task[t], a)
      BY <1>1, <1>3, <2>1, GotoBut
    <2>3. Shaped(t, v)
      BY <1>1, <1>3, <2>2 DEF But, Shaped, RetryLeft
    <2>4. Moved(task[t], v)
      BY <1>3, <2>2 DEF But, Moved, Holds, Leased
    <2>. QED  BY <2>2, <2>3, <2>4 DEF Moves
  <1>4. ASSUME NEW a \in {"prepare", "execute", "running"}, Goto(t, a),
               task[t].at \in {"claim", "prepare", "execute"}
        PROVE  Moves(t)
    <2>1. a \in Stages
      BY DEF Stages
    <2>2. PICK v \in Task : Becomes(t, v) /\ But(v, task[t], a)
      BY <1>1, <1>4, <2>1, GotoBut
    <2>3. Shaped(t, v)
      BY <1>1, <1>4, <2>2 DEF But, Shaped, RetryLeft
    <2>4. Moved(task[t], v)
      BY <1>4, <2>2 DEF But, Moved, Holds, Leased
    <2>. QED  BY <2>2, <2>3, <2>4 DEF Moves
  <1>5. ASSUME NEW r \in {"done", "skipped", "retry"}, Result(t, r), Ticks(task[t]),
               task[t].at \in {"prepare", "execute", "running"},
               r = "retry" => task[t].retry < MaxRetries
        PROVE  Moves(t)
    <2>1. r \in Results
      BY DEF Results
    <2>2. PICK v \in Task : /\ Becomes(t, v)
                            /\ v.at = "settle" /\ v.proc = task[t].proc
                            /\ v.what = task[t].what /\ v.occ = task[t].occ
                            /\ v.retry = task[t].retry /\ v.result = r
      BY <1>1, <1>5, <2>1, ResultEnds
    <2>3. Shaped(t, v)
      BY <1>1, <1>5, <2>2 DEF Shaped, RetryLeft, Ticks
    <2>4. Moved(task[t], v)
      BY <1>5, <2>2 DEF Moved, Holds, Leased
    <2>. QED  BY <2>2, <2>3, <2>4 DEF Moves
  <1>6. ASSUME NEW a \in {"look", "update"}, GoOn(t, a), task[t].what = "tick"
        PROVE  Moves(t)
    <2>1. a \in Stages
      BY DEF Stages
    <2>2. PICK v \in Task : /\ Becomes(t, v)
                            /\ v.at = a /\ v.proc = task[t].proc
                            /\ v.what = task[t].what /\ v.result = "done"
      BY <1>1, <1>6, <2>1, GoOnBut
    <2>3. Shaped(t, v)
      BY <1>1, <1>6, <2>2 DEF Shaped, RetryLeft
    <2>4. Moved(task[t], v)
      BY <1>6, <2>2 DEF Moved, Holds, Leased
    <2>. QED  BY <2>2, <2>3, <2>4 DEF Moves
  <1>7. ASSUME NEW o \in Occs, Recovers(t, o)
        PROVE  Moves(t)
    <2>1. PICK v \in Task : /\ Becomes(t, v)
                            /\ v.at = "retry" /\ v.proc = task[t].proc
                            /\ v.what = task[t].what /\ v.next = o /\ v.result = "done"
      BY <1>1, <1>7, RecoversBut
    <2>2. Shaped(t, v)
      BY <1>1, <1>7, <2>1 DEF Shaped, RetryLeft
    <2>3. Moved(task[t], v)
      BY <2>1 DEF Moved, Holds, Leased
    <2>. QED  BY <2>1, <2>2, <2>3 DEF Moves
  <1>. QED  BY <1>2, <1>3, <1>4, <1>5, <1>6, <1>7

(* A step of a task is one of its own, in a process that runs.             *)
LEMMA WorksFrame ==
  ASSUME TypeInv, NEW t, Works(t)
  PROVE  /\ t \in Workers /\ task[t].at # "idle"
         /\ task[t].proc \in up /\ task[t].proc \in Procs
         /\ up' = up /\ due' = due
  <1>1. t \in Workers
    BY DEF Works, Workers
  <1>2. task[t].at # "idle" /\ up' = up /\ due' = due
    <2>1. CASE Step(t)
      BY <2>1 DEF Step, Load, Claim, Prepare, Execute, TurnEnds, Settle, Count, Update,
                  Look, Row, SetTimer, SetRetry
    <2>2. CASE Serves(t)
      BY <2>2 DEF Serves, Insert, Read, Write, Delete, List, Recover, Missed, Row,
                  SetTimer, SetRetry
    <2>. QED  BY <2>1, <2>2 DEF Works
  <1>. QED  BY <1>1, <1>2, TaskProc DEF TypeInv

(* reschedule_after_execution: the timer is set from what the row was      *)
(* given.                                                                  *)
LEMMA RowMoves ==
  ASSUME TypeInv, NEW t \in Workers, Row(t)
  PROVE  \/ End(t) /\ task[t].what = "resume" /\ job' = job
         \/ \E v \in Task :
              /\ Becomes(t, v) /\ Shaped(t, v) /\ Moved(task[t], v)
              /\ v.at = "timer"
              /\ \/ v.result = "failed" /\ job' = job
                 \/ /\ v.enabled = (task[t].sched # "At")
                    /\ job' = [job EXCEPT !.enabled = @ /\ v.enabled, !.next = v.next]
  <1>. DEFINE again == task[t].sched # "At"
              n == IF again THEN NextRun ELSE 0
              w(r) == [task[t] EXCEPT !.at = "timer", !.enabled = again, !.next = n,
                                      !.result = r]
  <1>1. /\ TypeOK /\ task[t] \in Task /\ Shaped(t, task[t])
        /\ task[t].at = "row" /\ "timer" \in Stages
    BY DEF Row, TypeInv, TypeOK, TaskInv, Stages
  <1>2. n \in 0 .. MaxOcc + 1 /\ (again => n # 0) /\ again \in BOOLEAN
    BY <1>1, NextRunTyped, CronAssumption
  <1>. HIDE DEF n, again
  <1>3. ASSUME NEW r \in {"done", "failed"}
        PROVE  /\ w(r) \in Task /\ w(r).at = "timer" /\ w(r).proc = task[t].proc
               /\ w(r).what = task[t].what /\ w(r).enabled = again /\ w(r).next = n
               /\ w(r).result = r
    BY <1>1, <1>2 DEF Task, Results
  <1>4. ASSUME NEW r \in {"done", "failed"}
        PROVE  Shaped(t, w(r)) /\ Moved(task[t], w(r))
    <2>. DEFINE v == w(r)
    <2>1. /\ v.at = "timer" /\ v.proc = task[t].proc
          /\ v.what = task[t].what /\ v.enabled = again /\ v.next = n
      BY <1>3
    <2>. HIDE DEF w, v
    <2>2. Shaped(t, v) /\ Moved(task[t], v)
      BY <1>1, <1>2, <2>1 DEF Shaped, RetryLeft, Moved, Holds, Leased
    <2>. QED  BY <2>2 DEF v
  <1>5. \/ /\ job' = [job EXCEPT !.enabled = @ /\ again, !.next = n]
           /\ Becomes(t, w("done"))
        \/ End(t) /\ task[t].what = "resume" /\ job' = job
        \/ Becomes(t, w("failed")) /\ job' = job
    BY DEF Row, again, n
  <1>. HIDE DEF w
  <1>6. CASE /\ job' = [job EXCEPT !.enabled = @ /\ again, !.next = n]
             /\ Becomes(t, w("done"))
    <2>1. job' = [job EXCEPT !.enabled = @ /\ w("done").enabled, !.next = w("done").next]
      BY <1>3, <1>6
    <2>. QED  BY <1>3, <1>4, <1>6, <2>1 DEF again
  <1>7. CASE Becomes(t, w("failed")) /\ job' = job
    BY <1>3, <1>4, <1>7
  <1>. QED  BY <1>5, <1>6, <1>7

LEMMA LoadMoves ==
  ASSUME TypeInv, NEW t \in Workers, Load(t)
  PROVE  Moves(t)
  <1>. DEFINE v == [task[t] EXCEPT !.at = "claim", !.sched = job.sched,
                                   !.retry = job.retry]
  <1>1. /\ TypeOK /\ task[t] \in Task /\ Shaped(t, task[t])
        /\ task[t].at = "load" /\ "claim" \in Stages
        /\ job.sched \in Kinds /\ job.retry \in 0 .. MaxRetries
    BY DEF Load, TypeInv, TypeOK, TaskInv, Stages, Job
  <1>2. /\ v \in Task /\ v.at = "claim" /\ v.proc = task[t].proc
        /\ v.what = task[t].what /\ v.occ = task[t].occ
    BY <1>1 DEF Task
  <1>3. Becomes(t, v) \/ End(t)
    BY DEF Load, GivesUp
  <1>. HIDE DEF v
  <1>4. Shaped(t, v) /\ Moved(task[t], v)
    BY <1>1, <1>2 DEF Shaped, RetryLeft, Moved, Holds, Leased
  <1>. QED  BY <1>1, <1>2, <1>3, <1>4, MoveKinds DEF Moves

LEMMA SettleMoves ==
  ASSUME TypeInv, NEW t \in Workers, Settle(t)
  PROVE  Moves(t)
  <1>. DEFINE v == [task[t] EXCEPT !.at = "retry", !.occ = 0, !.next = task[t].occ,
                                   !.sched = "At"]
  <1>1. /\ TypeOK /\ task[t] \in Task /\ Shaped(t, task[t])
        /\ task[t].at = "settle" /\ "retry" \in Stages /\ "At" \in Kinds
        /\ 0 \in 0 .. MaxOcc + 1
    BY CronAssumption DEF Settle, TypeInv, TypeOK, TaskInv, Stages, Kinds
  <1>2. task[t].what = "tick" /\ task[t].occ \in Occs /\ task[t].occ \in 0 .. MaxOcc + 1
    BY <1>1 DEF Shaped, Task
  <1>3. /\ v \in Task /\ v.at = "retry" /\ v.proc = task[t].proc
        /\ v.what = task[t].what /\ v.next = task[t].occ
        /\ v.retry = task[t].retry /\ v.result = task[t].result
    BY <1>1, <1>2 DEF Task
  <1>4. Becomes(t, v) \/ GoOn(t, "update") \/ End(t)
    BY DEF Settle, GivesUp
  <1>. HIDE DEF v
  <1>5. Shaped(t, v) /\ Moved(task[t], v)
    BY <1>1, <1>2, <1>3 DEF Shaped, RetryLeft, Moved, Holds, Leased
  <1>. QED  BY <1>1, <1>2, <1>3, <1>4, <1>5, MoveKinds DEF Moves

(* update_job: what was read and set is a row with a next run.             *)
LEMMA ReadMoves ==
  ASSUME TypeInv, NEW p \in Workers, Read(p)
  PROVE  \/ End(p)
         \/ \E v \in Task : /\ Becomes(p, v) /\ Shaped(p, v) /\ Moved(task[p], v)
                            /\ v.at = "write" /\ (v.sets # {} => v.next # 0)
                            /\ "enabled" \in v.sets \/ v.enabled = job.enabled
  <1>. SUFFICES ASSUME ~End(p)
                PROVE  \E v \in Task :
                         /\ Becomes(p, v) /\ Shaped(p, v) /\ Moved(task[p], v)
                         /\ v.at = "write" /\ (v.sets # {} => v.next # 0)
                         /\ "enabled" \in v.sets \/ v.enabled = job.enabled
    OBVIOUS
  <1>1. PICK sets \in {{}, {"enabled"}, {"sched"}}, b \in BOOLEAN, s \in Schedules,
             o \in 0 .. MaxOcc + 1 : Edited(p, sets, b, s, o)
    BY DEF Read
  <1>. DEFINE v == [task[p] EXCEPT !.at = "write", !.enabled = b, !.sched = s,
                                   !.next = o, !.sets = sets]
  <1>2. /\ TypeOK /\ task[p] \in Task /\ Shaped(p, task[p])
        /\ task[p].at = "read" /\ "write" \in Stages /\ s \in Kinds
        /\ sets \in SUBSET {"enabled", "sched"}
    BY Constants DEF Read, TypeInv, TypeOK, TaskInv, Stages
  <1>3. /\ v \in Task /\ v.at = "write" /\ v.proc = task[p].proc
        /\ v.what = task[p].what /\ v.enabled = b /\ v.next = o /\ v.sets = sets
    BY <1>2 DEF Task
  <1>4. Becomes(p, v)
    BY <1>1 DEF Edited
  <1>5. "enabled" \in sets \/ b = job.enabled
    BY <1>1 DEF Edited
  <1>6. (sets # {} \/ b) => o # 0
    <2>1. CASE sets = {}
      <3>1. o = job.next /\ b = job.enabled
        BY <1>1, <1>5, <2>1 DEF Edited
      <3>. QED  BY <2>1, <3>1 DEF TypeInv, NextInv
    <2>2. CASE sets # {}
      <3>1. o = NextRun \/ o \in 1 .. due
        BY <1>1, <2>2 DEF Edited
      <3>2. due \in Nat
        BY <1>2, CronAssumption DEF TypeOK
      <3>. QED  BY <1>2, <3>1, <3>2, NextRunTyped
    <2>. QED  BY <2>1, <2>2
  <1>. HIDE DEF v
  <1>7. Shaped(p, v) /\ Moved(task[p], v)
    BY <1>2, <1>3, <1>6 DEF Shaped, RetryLeft, Moved, Holds, Leased
  <1>. QED  BY <1>3, <1>4, <1>5, <1>6, <1>7

LEMMA WriteMoves ==
  ASSUME TypeInv, NEW p \in Workers, Write(p)
  PROVE  \/ End(p)
         \/ \E v \in Task : /\ Becomes(p, v) /\ Shaped(p, v) /\ Moved(task[p], v)
                            /\ v.at = "timer" /\ v.enabled = task[p].enabled
  <1>. DEFINE v == [task[p] EXCEPT !.at = "timer", !.sets = {}]
  <1>1. /\ TypeOK /\ task[p] \in Task /\ Shaped(p, task[p])
        /\ task[p].at = "write" /\ "timer" \in Stages
    BY DEF Write, TypeInv, TypeOK, TaskInv, Stages
  <1>2. /\ v \in Task /\ v.at = "timer" /\ v.proc = task[p].proc
        /\ v.what = task[p].what /\ v.enabled = task[p].enabled
        /\ v.next = task[p].next
    BY <1>1 DEF Task
  <1>3. Becomes(p, v) \/ End(p)
    BY DEF Write
  <1>. HIDE DEF v
  <1>4. Shaped(p, v) /\ Moved(task[p], v)
    BY <1>1, <1>2 DEF Shaped, RetryLeft, Moved, Holds, Leased
  <1>. QED  BY <1>2, <1>3, <1>4

LEMMA ListMoves ==
  ASSUME TypeInv, NEW p \in Workers, List(p)
  PROVE  Moves(p)
  <1>. DEFINE r == IF task[p].what = "resume" /\ job.next # 0 /\ job.next <= due
                   THEN "missed" ELSE "done"
              v == [task[p] EXCEPT !.at = "recover", !.sched = job.sched,
                                   !.next = job.next, !.result = r]
  <1>1. /\ TypeOK /\ task[p] \in Task /\ Shaped(p, task[p])
        /\ task[p].at = "list" /\ "recover" \in Stages /\ r \in Results
        /\ job.sched \in Kinds /\ job.next \in 0 .. MaxOcc + 1
    BY DEF List, TypeInv, TypeOK, TaskInv, Stages, Results, Job
  <1>2. (job.enabled /\ Becomes(p, v)) \/ End(p)
    BY DEF List
  <1>. HIDE DEF r
  <1>3. /\ v \in Task /\ v.at = "recover" /\ v.proc = task[p].proc
        /\ v.what = task[p].what /\ v.enabled = task[p].enabled /\ v.next = job.next
    BY <1>1 DEF Task
  <1>. HIDE DEF v
  <1>4. job.enabled => Shaped(p, v) /\ Moved(task[p], v)
    BY <1>1, <1>3 DEF TypeInv, NextInv, Shaped, RetryLeft, Moved, Holds, Leased
  <1>. QED  BY <1>1, <1>2, <1>3, <1>4, MoveKinds DEF Moves

LEMMA StepMoves ==
  ASSUME TypeInv, NEW t, Works(t)
  PROVE  Moves(t)
  <1>1. /\ t \in Workers /\ task[t].at # "idle" /\ TypeOK /\ Shaped(t, task[t])
        /\ End(t) => Moves(t)
    BY WorksFrame, MoveKinds DEF TypeInv, TaskInv
  <1>2. CASE Load(t)
    BY <1>1, <1>2, LoadMoves
  <1>3. CASE Claim(t)
    <2>1. task[t].at = "claim" /\ task[t].what = "tick"
      BY <1>1, <1>3 DEF Claim, Shaped
    <2>2. Goto(t, "prepare") \/ GoOn(t, "look") \/ GoOn(t, "update") \/ End(t)
      BY <1>3 DEF Claim, GivesUp
    <2>. QED  BY <1>1, <2>1, <2>2, MoveKinds
  <1>4. CASE Prepare(t)
    <2>1. task[t].at = "prepare"
      BY <1>4 DEF Prepare
    <2>2. \/ Goto(t, "execute")
          \/ Ticks(task[t]) /\ Result(t, BusyResult(t))
          \/ Ticks(task[t]) /\ Result(t, "done")
          \/ End(t)
      BY Zenon, <1>4 DEF Prepare
    <2>. QED  BY <1>1, <2>1, <2>2, MoveKinds, BusyTyped
  <1>5. CASE Execute(t)
    <2>1. task[t].at = "execute" /\ task[t].what # "remove"
      BY <1>1, <1>5 DEF Execute, Shaped
    <2>2. \/ Goto(t, "running")
          \/ Ticks(task[t]) /\ Result(t, BusyResult(t))
          \/ Ticks(task[t]) /\ Result(t, "done")
          \/ Goto(t, "update")
      BY Zenon, <1>5 DEF Execute
    <2>. QED  BY <1>1, <2>1, <2>2, MoveKinds, BusyTyped
  <1>6. CASE TurnEnds(t)
    <2>1. task[t].at = "running" /\ task[t].what # "remove"
      BY <1>1, <1>6 DEF TurnEnds, Shaped
    <2>2. Goto(t, "update") \/ (Ticks(task[t]) /\ Result(t, "done"))
      BY <1>6 DEF TurnEnds
    <2>. QED  BY <1>1, <2>1, <2>2, MoveKinds
  <1>7. CASE Settle(t)
    BY <1>1, <1>7, SettleMoves
  <1>8. CASE Count(t)
    BY <1>1, <1>8 DEF Count
  <1>9. CASE Update(t)
    <2>1. End(t) \/ Goto(t, "look")
      BY <1>9 DEF Update
    <2>. QED  BY <1>1, <2>1, MoveKinds
  <1>10. CASE Look(t)
    <2>1. (\E o \in Occs : Recovers(t, o)) \/ Goto(t, "row")
      BY <1>10, RecoverableTyped DEF Look
    <2>. QED  BY <1>1, <2>1, MoveKinds
  <1>11. CASE Row(t)
    BY <1>1, <1>11, RowMoves DEF Moves
  <1>12. CASE SetTimer(t)
    BY <1>1, <1>12 DEF SetTimer
  <1>13. CASE SetRetry(t)
    <2>1. task[t].at = "retry"
      BY <1>13 DEF SetRetry
    <2>2. (task[t].result = "retry" /\ Goto(t, "count")) \/ End(t)
      BY <1>13 DEF SetRetry
    <2>3. task[t].result = "retry" => task[t].retry < MaxRetries
      BY <1>1, <2>1 DEF Shaped, RetryLeft
    <2>. QED  BY <1>1, <2>1, <2>2, <2>3, MoveKinds
  <1>14. CASE Insert(t)
    <2>1. (task[t].enabled => task[t].next # 0) /\ task[t].at = "insert"
      BY <1>1, <1>14 DEF Insert, Shaped
    <2>2. End(t) \/ Goto(t, "timer")
      BY <1>14 DEF Insert
    <2>. QED  BY <1>1, <2>1, <2>2, MoveKinds
  <1>15. CASE Read(t) \/ Write(t)
    BY <1>1, <1>15, ReadMoves, WriteMoves DEF Moves
  <1>16. CASE Delete(t)
    BY <1>1, <1>16 DEF Delete, GivesUp
  <1>17. CASE List(t)
    BY <1>1, <1>17, ListMoves
  <1>18. CASE Recover(t)
    <2>1. (task[t].enabled => task[t].next # 0) /\ task[t].at = "recover"
      BY <1>1, <1>18 DEF Recover, Shaped
    <2>2. (\E o \in Occs : Recovers(t, o)) \/ Goto(t, "missed") \/ Goto(t, "timer")
      BY <1>18, RecoverableTyped DEF Recover
    <2>. QED  BY <1>1, <2>1, <2>2, MoveKinds
  <1>19. CASE Missed(t)
    <2>1. Goto(t, "row")
      BY <1>19 DEF Missed
    <2>. QED  BY <1>1, <2>1, MoveKinds
  <1>. QED
    BY <1>2, <1>3, <1>4, <1>5, <1>6, <1>7, <1>8, <1>9, <1>10, <1>11, <1>12, <1>13,
       <1>14, <1>15, <1>16, <1>17, <1>18, <1>19 DEF Works, Step, Serves

------------------------------------------------------------------------------
(* The steps that begin a task, and those that do not touch one.           *)

(* A tick or a manual run, a request, a resume or a start, in an idle task *)
(* of a process that is up then.                                           *)
Begins(p) == \/ Fire(p) \/ RunNow(p) \/ UpdateJob(p) \/ RemoveJob(p) \/ Resume(p)
             \/ Restart(p)

Quiet == \/ TimePasses \/ (\E o \in Occs : Expire(o))
         \/ \E p \in Procs : UserTurn(p) \/ UserTurnEnds(p)

LEMMA NextCases ==
  ASSUME Next
  PROVE  \/ Quiet
         \/ \E t \in Workers : Works(t)
         \/ \E p \in Procs : Begins(p) \/ Crash(p)
  <1>1. \A t : (t \in Tasks /\ Step(t)) \/ (t \in Procs /\ Serves(t))
                 => t \in Workers /\ Works(t)
    BY DEF Works, Workers
  <1>. QED  BY <1>1, Constants DEF Next, Upsetting, Quiet, Begins

(* What begins, and where.                                                 *)
Begun(p, w, v) ==
  /\ w \in Workers /\ v \in Task /\ task[w].at = "idle" /\ Becomes(w, v)
  /\ v.proc = p /\ p \in up' /\ (w \in Procs => w = p) /\ ~Holds(v)
  /\ v.at \in {"load", "prepare", "read", "delete", "list"}
  /\ \/ Fire(p) /\ v.at = "load" /\ v.what = "tick" /\ v.occ \in Occs
     \/ RunNow(p) /\ v.at = "prepare" /\ v.what = "now"
     \/ UpdateJob(p) /\ v.at = "read" /\ v.what = "edit"
     \/ RemoveJob(p) /\ v.at = "delete" /\ v.what = "remove"
     \/ Resume(p) /\ v.at = "list" /\ v.what = "resume" /\ v.enabled
     \/ Restart(p) /\ v.at = "list" /\ v.what = "init" /\ v.enabled

LEMMA BeginsWith ==
  ASSUME TypeInv, NEW p \in Procs, Begins(p)
  PROVE  \E w, v : Begun(p, w, v)
  <1>. DEFINE Is(v, a, x) == /\ v \in Task /\ v.at = a /\ v.proc = p /\ v.what = x
                             /\ v.enabled
  <1>1. Idle \in Task /\ Idle.enabled /\ Idle.what = "tick"
    BY Constants DEF Idle
  <1>2. /\ {"load", "prepare", "read", "delete", "list"} \subseteq Stages
        /\ {"tick", "now", "edit", "remove", "resume", "init"} \subseteq Whats
    BY DEF Stages, Whats
  <1>3. ASSUME NEW q, MayStart, Spawn(q)
        PROVE  \E w \in Workers : /\ task[w].at = "idle" /\ Becomes(w, q)
                                  /\ (w \in Procs => w = p)
    BY <1>3, CronAssumption DEF MayStart, Spawn, Workers
  <1>4. CASE Fire(p)
    <2>. DEFINE o == timer[p].occ
                v == [Idle EXCEPT !.at = "load", !.proc = p, !.occ = o]
    <2>1. o \in 0 .. MaxOcc + 1 /\ o \in Occs
      <3>1. timer[p] \in Timer /\ Armed(timer[p]) /\ timer[p].kind # "none"
        BY <1>4 DEF Fire, TypeInv, TypeOK, TimerInv
      <3>. QED  BY <3>1, OccsTyped DEF Armed, Timer
    <2>2. MayStart /\ Spawn(v) /\ p \in up /\ up' = up
      BY <1>4 DEF Fire
    <2>3. Is(v, "load", "tick") /\ v.occ = o
      BY <1>1, <1>2, <2>1 DEF Task
    <2>4. PICK w \in Workers : /\ task[w].at = "idle" /\ Becomes(w, v)
                               /\ (w \in Procs => w = p)
      BY <1>3, <2>2
    <2>. HIDE DEF v, o
    <2>5. Begun(p, w, v)
      BY <1>4, <2>1, <2>2, <2>3, <2>4 DEF Begun, Holds, Leased
    <2>. QED  BY <2>5
  <1>5. CASE RunNow(p)
    <2>. DEFINE v == [Idle EXCEPT !.at = "prepare", !.proc = p, !.what = "now"]
    <2>1. MayStart /\ Spawn(v) /\ p \in up /\ up' = up
      BY <1>5 DEF RunNow
    <2>2. Is(v, "prepare", "now")
      BY <1>1, <1>2 DEF Task
    <2>3. PICK w \in Workers : /\ task[w].at = "idle" /\ Becomes(w, v)
                               /\ (w \in Procs => w = p)
      BY <1>3, <2>1
    <2>. HIDE DEF v
    <2>4. Begun(p, w, v)
      BY <1>5, <2>1, <2>2, <2>3 DEF Begun, Holds, Leased
    <2>. QED  BY <2>4
  <1>6. ASSUME NEW a \in {"read", "delete", "list"},
               NEW x \in {"edit", "remove", "resume"},
               Asked(p, [Idle EXCEPT !.at = a, !.what = x]), up' = up,
               \/ UpdateJob(p) /\ a = "read" /\ x = "edit"
               \/ RemoveJob(p) /\ a = "delete" /\ x = "remove"
               \/ Resume(p) /\ a = "list" /\ x = "resume"
        PROVE  \E w, v : Begun(p, w, v)
    <2>. DEFINE u == [Idle EXCEPT !.at = a, !.what = x]
                v == [u EXCEPT !.proc = p]
    <2>1. /\ u \in Task /\ u.at = a /\ u.what = x /\ u.enabled
      BY <1>1, <1>2 DEF Task
    <2>2. task[p].at = "idle" /\ p \in up /\ Becomes(p, v)
      BY <1>6, Zenon DEF Asked
    <2>. HIDE DEF u
    <2>3. Is(v, a, x)
      BY <2>1 DEF Task
    <2>4. p \in Workers
      BY DEF Workers
    <2>. HIDE DEF v
    <2>5. Begun(p, p, v)
      BY <1>6, <2>2, <2>3, <2>4 DEF Begun, Holds, Leased
    <2>. QED  BY <2>5
  <1>7. CASE UpdateJob(p)
    <2>1. Asked(p, [Idle EXCEPT !.at = "read", !.what = "edit"]) /\ up' = up
      BY <1>7 DEF UpdateJob
    <2>. QED  BY <1>6, <1>7, <2>1
  <1>8. CASE RemoveJob(p)
    <2>1. Asked(p, [Idle EXCEPT !.at = "delete", !.what = "remove"]) /\ up' = up
      BY <1>8 DEF RemoveJob
    <2>. QED  BY <1>6, <1>8, <2>1
  <1>9. CASE Resume(p)
    <2>1. Asked(p, [Idle EXCEPT !.at = "list", !.what = "resume"]) /\ up' = up
      BY <1>9 DEF Resume
    <2>. QED  BY <1>6, <1>9, <2>1
  <1>10. CASE Restart(p)
    <2>. DEFINE v == [Idle EXCEPT !.at = "list", !.proc = p, !.what = "init"]
    <2>1. p \in Workers /\ task[p].at = "idle"
      BY <1>10 DEF Restart, TypeInv, TaskInv, Shaped, Workers
    <2>2. p \in up' /\ Becomes(p, v)
      BY <1>10 DEF Restart
    <2>3. Is(v, "list", "init")
      BY <1>1, <1>2 DEF Task
    <2>. HIDE DEF v
    <2>4. Begun(p, p, v)
      BY <1>10, <2>1, <2>2, <2>3 DEF Begun, Holds, Leased
    <2>. QED  BY <2>4
  <1>. QED  BY <1>4, <1>5, <1>7, <1>8, <1>9, <1>10 DEF Begins

(* How the tasks change with each step.                                    *)
LEMMA TaskWorks ==
  ASSUME TypeInv, NEW t, Works(t)
  PROVE  /\ task' \in [Workers -> Task] /\ TaskInv'
         /\ Moved(task[t], task'[t])
         /\ \A u \in Workers \ {t} : task'[u] = task[u]
  <1>1. t \in Workers /\ up' = up /\ TypeOK /\ TaskInv
    BY WorksFrame DEF TypeInv
  <1>2. PICK v \in Task : Becomes(t, v) /\ Shaped(t, v) /\ Moved(task[t], v)
    BY StepMoves DEF Moves
  <1>3. Shaped(t, v)'
    BY <1>1, <1>2 DEF Shaped
  <1>4. up \subseteq up'
    BY <1>1
  <1>. QED  BY <1>1, <1>2, <1>3, <1>4, Put

LEMMA TaskBegins ==
  ASSUME TypeInv, NEW p \in Procs, Begins(p), NEW w, NEW v, Begun(p, w, v)
  PROVE  /\ task' \in [Workers -> Task] /\ TaskInv'
         /\ task'[w] = v /\ \A u \in Workers \ {w} : task'[u] = task[u]
  <1>1. w \in Workers /\ v \in Task /\ Becomes(w, v) /\ TypeOK /\ TaskInv
    BY DEF Begun, TypeInv
  <1>2. up \subseteq up'
    BY DEF Begins, Fire, RunNow, UpdateJob, RemoveJob, Resume, Restart
  <1>3. Shaped(w, v)'
    BY DEF Begun, Shaped, RetryLeft
  <1>. QED  BY <1>1, <1>2, <1>3, Put

LEMMA TaskCrash ==
  ASSUME TypeInv, NEW p \in Procs, Crash(p)
  PROVE  /\ task' \in [Workers -> Task] /\ TaskInv'
         /\ \A u \in Workers : task'[u] = Idle
                                 \/ (task'[u] = task[u] /\ task[u].proc # p)
  <1>1. /\ task' = [t \in Workers |-> IF task[t].proc = p THEN Idle ELSE task[t]]
        /\ up' = up \ {p} /\ TypeOK /\ TaskInv
    BY DEF Crash, TypeInv
  <1>2. task' \in [Workers -> Task]
    BY <1>1, Constants DEF TypeOK
  <1>3. ASSUME NEW u \in Workers
        PROVE  /\ task'[u] = Idle \/ (task'[u] = task[u] /\ task[u].proc # p)
               /\ Shaped(u, task[u])'
    <2>1. CASE task[u].proc = p
      <3>1. task'[u] = Idle
        BY <1>1, <2>1
      <3>. QED  BY <3>1, Constants DEF Shaped, RetryLeft
    <2>2. CASE task[u].proc # p
      <3>1. task'[u] = task[u] /\ Shaped(u, task[u])
        BY <1>1, <2>2 DEF TaskInv
      <3>. QED  BY <1>1, <2>2, <3>1 DEF Shaped
    <2>. QED  BY <2>1, <2>2
  <1>. QED  BY <1>2, <1>3 DEF TaskInv

LEMMA QuietFrame ==
  ASSUME Quiet
  PROVE  UNCHANGED <<task, up, job, timer, watch, crossed>>
  BY DEF Quiet, TimePasses, Expire, UserTurn, UserTurnEnds

LEMMA TaskStep ==
  ASSUME TypeInv, Next
  PROVE  /\ task' \in [Workers -> Task] /\ TaskInv'
         /\ up' \in SUBSET Procs
  <1>1. TypeOK /\ TaskInv
    BY DEF TypeInv
  <1>2. CASE Quiet
    BY <1>1, <1>2, QuietFrame DEF TypeOK, TaskInv, Shaped
  <1>3. ASSUME NEW t, Works(t)
        PROVE  /\ task' \in [Workers -> Task] /\ TaskInv'
               /\ up' \in SUBSET Procs
    BY <1>1, <1>3, TaskWorks, WorksFrame DEF TypeOK
  <1>4. ASSUME NEW p \in Procs, Begins(p)
        PROVE  /\ task' \in [Workers -> Task] /\ TaskInv'
               /\ up' \in SUBSET Procs
    <2>1. up' \in SUBSET Procs
      BY <1>1, <1>4 DEF TypeOK, Begins, Fire, RunNow, UpdateJob, RemoveJob, Resume,
                        Restart
    <2>2. PICK w, v : Begun(p, w, v)
      BY <1>4, BeginsWith
    <2>. QED  BY <1>4, <2>1, <2>2, TaskBegins
  <1>5. ASSUME NEW p \in Procs, Crash(p)
        PROVE  /\ task' \in [Workers -> Task] /\ TaskInv'
               /\ up' \in SUBSET Procs
    BY <1>1, <1>5, TaskCrash DEF TypeOK, Crash
  <1>. QED  BY <1>2, <1>3, <1>4, <1>5, NextCases

(* Nothing happens before the job is created but that processes start, and *)
(* find no job.                                                            *)
LEMMA FreshStep ==
  ASSUME TypeInv, Next
  PROVE  FreshInv'
  <1>1. TypeOK /\ FreshInv
    BY DEF TypeInv
  <1>. SUFFICES ASSUME NEW p \in Workers, (task[p].at = "insert")'
                PROVE  /\ \A t \in Workers \ {p} : task'[t].at \in {"idle", "list"}
                       /\ \A r \in Procs : timer'[r].kind = "none" /\ ~watch'[r]
                       /\ ~job'.exists
    BY DEF FreshInv
  <1>2. CASE Quiet
    BY <1>1, <1>2, QuietFrame DEF FreshInv
  <1>3. ASSUME NEW t, Works(t)
        PROVE  /\ \A u \in Workers \ {p} : task'[u].at \in {"idle", "list"}
               /\ \A r \in Procs : timer'[r].kind = "none" /\ ~watch'[r]
               /\ ~job'.exists
    <2>1. /\ t \in Workers /\ task[t].at # "idle" /\ task'[t].at # "insert"
          /\ \A u \in Workers \ {t} : task'[u] = task[u]
      BY <1>3, WorksFrame, TaskWorks DEF Moved
    <2>2. t # p /\ task[p].at = "insert"
      BY <2>1
    <2>3. task[t].at = "list" /\ ~job.exists
      BY <1>1, <2>1, <2>2 DEF FreshInv
    <2>4. List(t)
      BY <1>3, <2>3 DEF Works, Step, Load, Claim, Prepare, Execute, TurnEnds, Settle,
         Count, Update, Look, Row, SetTimer, SetRetry, Serves, Insert, Read, Write,
         Delete, Recover, Missed
    <2>5. End(t) /\ UNCHANGED <<timer, watch, job>>
      BY <2>3, <2>4 DEF List
    <2>6. task'[t].at = "idle"
      BY <1>1, <2>1, <2>5, Constants DEF End, Becomes, TypeOK
    <2>. QED  BY <1>1, <2>1, <2>2, <2>5, <2>6 DEF FreshInv
  <1>4. ASSUME NEW r \in Procs, Begins(r)
        PROVE  /\ \A u \in Workers \ {p} : task'[u].at \in {"idle", "list"}
               /\ \A s \in Procs : timer'[s].kind = "none" /\ ~watch'[s]
               /\ ~job'.exists
    <2>1. PICK w, v : Begun(r, w, v)
      BY <1>4, BeginsWith
    <2>2. task'[w] = v /\ \A u \in Workers \ {w} : task'[u] = task[u]
      BY <1>4, <2>1, TaskBegins
    <2>3. w # p /\ task[p].at = "insert"
      BY <2>1, <2>2 DEF Begun
    <2>4. timer[r].kind = "none" /\ ~job.exists
      BY <1>1, <2>3 DEF FreshInv
    <2>5. Restart(r) /\ v.at = "list"
      BY <2>1, <2>4 DEF Begun, Fire, RunNow, UpdateJob, RemoveJob, Resume, Asked
    <2>6. UNCHANGED <<timer, watch, job>>
      BY <2>5 DEF Restart
    <2>. QED  BY <1>1, <2>1, <2>2, <2>3, <2>5, <2>6 DEF FreshInv, Begun
  <1>5. ASSUME NEW r \in Procs, Crash(r)
        PROVE  /\ \A u \in Workers \ {p} : task'[u].at \in {"idle", "list"}
               /\ \A s \in Procs : timer'[s].kind = "none" /\ ~watch'[s]
               /\ ~job'.exists
    <2>1. /\ timer' = [timer EXCEPT ![r] = NoTimer] /\ watch' = [watch EXCEPT ![r] = FALSE]
          /\ job' = job
      BY <1>5 DEF Crash
    <2>2. \A u \in Workers : task'[u] = Idle \/ task'[u] = task[u]
      BY <1>5, TaskCrash
    <2>3. task[p].at = "insert"
      BY <2>2, Constants
    <2>4. \A u \in Workers \ {p} : task'[u].at \in {"idle", "list"}
      BY <1>1, <2>2, <2>3, Constants DEF FreshInv
    <2>5. \A s \in Procs : timer'[s].kind = "none"
      BY <1>1, <2>1, <2>3, Constants DEF FreshInv, TypeOK
    <2>6. \A s \in Procs : ~watch'[s]
      BY Zenon, <1>1, <2>1, <2>3 DEF FreshInv, TypeOK
    <2>. QED  BY <1>1, <2>1, <2>3, <2>4, <2>5, <2>6 DEF FreshInv
  <1>. QED  BY <1>2, <1>3, <1>4, <1>5, NextCases

------------------------------------------------------------------------------
(* The types.                                                              *)

(* The steps that write the row of the job.                                *)
WritesJob(t) == \/ Count(t) \/ Update(t) \/ Missed(t) \/ Row(t) \/ Insert(t)
                \/ Write(t) \/ Delete(t)

LEMMA JobFrame ==
  ASSUME Next
  PROVE  job' = job \/ \E t \in Workers : Works(t) /\ WritesJob(t)
  <1>1. ASSUME NEW t \in Workers, Works(t), ~WritesJob(t)
        PROVE  job' = job
    BY <1>1 DEF Works, WritesJob, Step, Serves, Load, Claim, Prepare, Execute, TurnEnds,
                Settle, Look, SetTimer, SetRetry, Read, List, Recover
  <1>2. ASSUME NEW p \in Procs, Begins(p) \/ Crash(p)
        PROVE  job' = job
    BY <1>2 DEF Begins, Fire, RunNow, UpdateJob, RemoveJob, Resume, Restart, Crash
  <1>. QED  BY <1>1, <1>2, NextCases, QuietFrame

(* The count of retries stays within max_retries, and what is rescheduled, *)
(* edited or created has a next run.                                       *)
LEMMA JobStep ==
  ASSUME TypeInv, Next
  PROVE  job' \in Job /\ NextInv'
  <1>1. TypeOK /\ job \in Job /\ NextInv /\ 0 \in 0 .. MaxRetries
    BY CronAssumption DEF TypeInv, TypeOK
  <1>2. CASE job' = job
    BY <1>1, <1>2 DEF NextInv
  <1>3. ASSUME NEW t \in Workers, Works(t), WritesJob(t)
        PROVE  job' \in Job /\ NextInv'
    <2>1. task[t] \in Task /\ Shaped(t, task[t])
      BY <1>1 DEF TypeOK, TypeInv, TaskInv
    <2>2. ASSUME NEW n \in 0 .. MaxRetries, Retries(t, n)
          PROVE  job' \in Job /\ NextInv'
      BY <1>1, <2>2 DEF Retries, Job, NextInv
    <2>3. CASE Count(t)
      <3>1. task[t].retry \in 0 .. MaxRetries /\ task[t].retry < MaxRetries
        BY <2>1, <2>3 DEF Count, Task, Shaped, RetryLeft
      <3>2. task[t].retry + 1 \in 0 .. MaxRetries
        BY <3>1, CronAssumption
      <3>. QED  BY <2>2, <2>3, <3>2 DEF Count
    <2>4. CASE Update(t) \/ Missed(t)
      BY <1>1, <2>2, <2>4 DEF Update, Missed
    <2>5. CASE Row(t)
      <3>1. CASE job' = job
        BY <1>2, <3>1
      <3>2. ASSUME NEW v \in Task, Shaped(t, v), v.at = "timer",
                   v.enabled = (task[t].sched # "At"),
                   job' = [job EXCEPT !.enabled = @ /\ v.enabled, !.next = v.next]
            PROVE  job' \in Job /\ NextInv'
        <4>. DEFINE b == job.enabled /\ v.enabled
        <4>1. b \in BOOLEAN /\ (b => v.enabled) /\ v.next \in 0 .. MaxOcc + 1
          BY <3>2 DEF Task
        <4>2. v.enabled => v.next # 0
          BY <3>2 DEF Shaped
        <4>3. job' = [job EXCEPT !.enabled = b, !.next = v.next]
          BY <3>2
        <4>. HIDE DEF b
        <4>. QED  BY <1>1, <4>1, <4>2, <4>3 DEF Job, NextInv
      <3>. QED  BY <2>5, <3>1, <3>2, RowMoves
    <2>6. CASE Insert(t) \/ Delete(t)
      BY <1>1, <2>6 DEF Insert, Delete, Job, NextInv
    <2>7. CASE Write(t)
      <3>. DEFINE b == IF "enabled" \in task[t].sets THEN task[t].enabled
                                                     ELSE job.enabled
                  s == IF "sched" \in task[t].sets THEN task[t].sched ELSE job.sched
                  n == IF task[t].sets = {} THEN job.next ELSE task[t].next
      <3>1. /\ b \in BOOLEAN /\ s \in Kinds /\ n \in 0 .. MaxOcc + 1
        BY <1>1, <2>1 DEF Task, Job
      <3>2. b => n # 0
        BY <1>1, <2>1, <2>7 DEF Write, Shaped, NextInv
      <3>3. job' = job \/ job' = [job EXCEPT !.enabled = b, !.sched = s, !.next = n]
        BY <2>7 DEF Write
      <3>. HIDE DEF b, s, n
      <3>. QED  BY <1>1, <1>2, <3>1, <3>2, <3>3 DEF Job, NextInv
    <2>. QED  BY <1>3, <2>3, <2>4, <2>5, <2>6, <2>7 DEF WritesJob
  <1>. QED  BY <1>2, <1>3, JobFrame

(* The steps that write runs.                                              *)
LEMMA RunFrame ==
  ASSUME Next
  PROVE  \/ run' = run
         \/ \E t \in Workers : Works(t) /\ (Claim(t) \/ Settle(t) \/ Delete(t))
         \/ \E o \in Occs : Expire(o)
         \/ \E p \in Procs : Crash(p)
  <1>1. ASSUME NEW t \in Workers, Works(t), ~Claim(t), ~Settle(t), ~Delete(t)
        PROVE  run' = run
    BY <1>1 DEF Works, Step, Serves, Load, Prepare, Execute, TurnEnds, Count, Update,
                Look, Row, SetTimer, SetRetry, Insert, Read, Write, List, Recover, Missed
  <1>2. ASSUME NEW p \in Procs, Begins(p)
        PROVE  run' = run
    BY <1>2 DEF Begins, Fire, RunNow, UpdateJob, RemoveJob, Resume, Restart
  <1>3. Quiet => run' = run \/ \E o \in Occs : Expire(o)
    BY DEF Quiet, TimePasses, UserTurn, UserTurnEnds
  <1>. QED  BY <1>1, <1>2, <1>3, NextCases

LEMMA RunStep ==
  ASSUME TypeInv, Next
  PROVE  run' \in [Occs -> Run]
  <1>1. TypeOK /\ run \in [Occs -> Run]
    BY DEF TypeInv, TypeOK
  <1>2. ASSUME NEW o \in Occs, NEW x \in Run, run' = [run EXCEPT ![o] = x]
        PROVE  run' \in [Occs -> Run]
    BY <1>1, <1>2
  <1>3. ASSUME NEW t \in Workers, Works(t), Claim(t)
        PROVE  run' \in [Occs -> Run]
    <2>. DEFINE o == task[t].occ
                mine == [status |-> "running", owner |-> task[t].proc,
                         expired |-> FALSE]
                skip == [run[o] EXCEPT !.status = "skipped"]
    <2>1. o \in Occs /\ task[t].proc \in Procs
      <3>1. Shaped(t, task[t]) /\ task[t].at = "claim"
        BY <1>3 DEF Claim, TypeInv, TaskInv
      <3>. QED  BY <1>3, <3>1, WorksFrame DEF Shaped
    <2>2. mine \in Run
      BY <2>1 DEF Run
    <2>3. skip \in Run
      BY <1>1, <2>1 DEF Run
    <2>4. \/ run' = run \/ run' = [run EXCEPT ![o] = mine]
          \/ run' = [run EXCEPT ![o] = skip]
      BY <1>3 DEF Claim
    <2>. HIDE DEF mine, skip, o
    <2>. QED  BY <1>1, <1>2, <2>1, <2>2, <2>3, <2>4
  <1>4. ASSUME NEW t \in Workers, Works(t), Settle(t)
        PROVE  run' \in [Occs -> Run]
    <2>1. /\ task[t].occ \in Occs /\ task[t].result \in {"done", "skipped", "retry"}
      BY <1>4 DEF Settle, TypeInv, TaskInv, Shaped
    <2>2. ASSUME NEW s \in {"retrying", "done", "skipped"}
          PROVE  [NoRun EXCEPT !.status = s] \in Run
      BY DEF NoRun, Run
    <2>3. \/ run' = run
          \/ \E s \in {"retrying", "done", "skipped"} :
               run' = [run EXCEPT ![task[t].occ] = [NoRun EXCEPT !.status = s]]
      BY <1>4, <2>1 DEF Settle
    <2>. QED  BY <1>1, <1>2, <2>1, <2>2, <2>3
  <1>5. ASSUME NEW t \in Workers, Delete(t)
        PROVE  run' \in [Occs -> Run]
    BY <1>1, <1>5, Constants DEF Delete
  <1>6. ASSUME NEW o \in Occs, Expire(o)
        PROVE  run' \in [Occs -> Run]
    <2>. DEFINE x == [run[o] EXCEPT !.expired = TRUE]
    <2>1. x \in Run /\ run' = [run EXCEPT ![o] = x]
      BY <1>1, <1>6 DEF Expire, Run
    <2>. HIDE DEF x
    <2>. QED  BY <1>2, <2>1
  <1>7. ASSUME NEW p \in Procs, Crash(p)
        PROVE  run' \in [Occs -> Run]
    <2>1. ASSUME NEW o \in Occs
          PROVE  [run[o] EXCEPT !.owner = Gone] \in Run
      BY <1>1 DEF Run
    <2>. QED  BY <1>1, <1>7, <2>1 DEF Crash
  <1>. QED  BY <1>1, <1>3, <1>4, <1>5, <1>6, <1>7, RunFrame

(* A timer is set for an occurrence.                                       *)
LEMMA TimerStep ==
  ASSUME TypeInv, Next
  PROVE  timer' \in [Procs -> Timer] /\ TimerInv'
  <1>1. TypeOK /\ timer \in [Procs -> Timer] /\ TimerInv
    BY DEF TypeInv, TypeOK
  <1>2. CASE timer' = timer
    BY <1>1, <1>2 DEF TimerInv
  <1>3. ASSUME NEW p \in Procs, NEW m \in Timer, Armed(m), timer' = [timer EXCEPT ![p] = m]
        PROVE  timer' \in [Procs -> Timer] /\ TimerInv'
    <2>1. \A r \in Procs : timer'[r] = m \/ timer'[r] = timer[r]
      BY <1>1, <1>3
    <2>. QED  BY <1>1, <1>3, <2>1 DEF TimerInv
  <1>4. NoTimer \in Timer /\ Armed(NoTimer)
    BY Constants DEF Armed
  <1>5. ASSUME NEW t, Works(t)
        PROVE  timer' \in [Procs -> Timer] /\ TimerInv'
    <2>1. task[t] \in Task /\ Shaped(t, task[t]) /\ task[t].proc \in Procs
      BY <1>1, <1>5, WorksFrame DEF TypeOK, TypeInv, TaskInv
    <2>2. CASE SetTimer(t)
      <3>. DEFINE m == ScheduleJob(task[t].enabled, task[t].sched, task[t].next)
      <3>1. m \in Timer /\ Armed(m)
        BY <2>1, ScheduleTyped DEF Task
      <3>2. timer' = [timer EXCEPT ![task[t].proc] = m]
        BY <2>2 DEF SetTimer
      <3>. HIDE DEF m
      <3>. QED  BY <1>3, <2>1, <3>1, <3>2
    <2>3. CASE SetRetry(t)
      <3>1. task[t].next \in Occs /\ timer' = [timer EXCEPT ![task[t].proc] = Once(task[t].next)]
        BY <2>1, <2>3 DEF SetRetry, Shaped
      <3>. QED  BY <1>3, <2>1, <3>1, OnceTyped
    <2>4. CASE Load(t)
      BY <1>2, <1>3, <1>4, <2>1, <2>4 DEF Load
    <2>5. CASE ~SetTimer(t) /\ ~SetRetry(t) /\ ~Load(t)
      BY <1>2, <1>5, <2>5 DEF Works, Step, Serves, Claim, Prepare, Execute, TurnEnds,
         Settle, Count, Update, Look, Row, Insert, Read, Write, Delete, List, Recover,
         Missed
    <2>. QED  BY <2>2, <2>3, <2>4, <2>5
  <1>6. ASSUME NEW p \in Procs, Fire(p)
        PROVE  timer' \in [Procs -> Timer] /\ TimerInv'
    <2>. DEFINE m == timer[p]
                every == [m EXCEPT !.occ = Later(@)]
                cron == [m EXCEPT !.occ = NextRun]
    <2>1. m \in Timer /\ m.kind \in {"once", "At", "Every", "Cron"}
      BY <1>1, <1>6 DEF Fire, Timer, Kinds
    <2>2. every \in Timer /\ Armed(every)
      <3>1. m.occ \in 0 .. MaxOcc + 1
        BY <2>1 DEF Timer
      <3>. QED  BY <2>1, <3>1, LaterTyped DEF Timer, Armed
    <2>3. cron \in Timer /\ Armed(cron)
      BY <1>1, <2>1, NextRunTyped DEF Timer, Armed
    <2>4. \/ timer' = [timer EXCEPT ![p] = NoTimer]
          \/ timer' = [timer EXCEPT ![p] = every]
          \/ timer' = [timer EXCEPT ![p] = cron]
      BY <1>6, <2>1 DEF Fire
    <2>. HIDE DEF every, cron
    <2>. QED  BY <1>3, <1>4, <2>2, <2>3, <2>4
  <1>7. ASSUME NEW p \in Procs, RemoveJob(p) \/ Crash(p)
        PROVE  timer' \in [Procs -> Timer] /\ TimerInv'
    BY <1>3, <1>4, <1>7 DEF RemoveJob, Crash
  <1>8. ASSUME NEW p \in Procs, RunNow(p) \/ UpdateJob(p) \/ Resume(p) \/ Restart(p)
        PROVE  timer' = timer
    BY <1>8 DEF RunNow, UpdateJob, Resume, Restart
  <1>. QED  BY <1>2, <1>5, <1>6, <1>7, <1>8, NextCases, QuietFrame DEF Begins

(* Whether a process watches, and whether an edit crossed a task, is a     *)
(* Boolean.                                                                *)
LEMMA HistoryStep ==
  ASSUME TypeInv, Next
  PROVE  watch' \in [Procs -> BOOLEAN] /\ crossed' \in BOOLEAN
  <1>1. TypeOK /\ watch \in [Procs -> BOOLEAN] /\ crossed \in BOOLEAN
    BY DEF TypeInv, TypeOK
  <1>2. ASSUME NEW p, NEW b \in BOOLEAN, watch' = [watch EXCEPT ![p] = b]
        PROVE  watch' \in [Procs -> BOOLEAN]
    BY <1>1, <1>2
  <1>3. ASSUME NEW t, Works(t)
        PROVE  watch' \in [Procs -> BOOLEAN] /\ crossed' \in BOOLEAN
    <2>1. task[t].proc \in Procs
      BY <1>3, WorksFrame
    <2>2. CASE SetTimer(t)
      <3>. DEFINE m == ScheduleJob(task[t].enabled, task[t].sched, task[t].next)
                  b == m.kind # "none"
                         \/ (watch[task[t].proc] /\ task[t].result # "failed")
      <3>1. b \in BOOLEAN
        OBVIOUS
      <3>2. watch' = [watch EXCEPT ![task[t].proc] = b] /\ crossed' = crossed
        BY <2>2 DEF SetTimer
      <3>. HIDE DEF b
      <3>. QED  BY <1>1, <1>2, <3>1, <3>2
    <2>3. CASE SetRetry(t)
      BY <1>1, <1>2, <2>3 DEF SetRetry
    <2>4. CASE GivesUp(t) /\ crossed' = crossed
      <3>. DEFINE b == watch[task[t].proc] /\ timer[task[t].proc].kind # "none"
      <3>1. b \in BOOLEAN
        BY <1>1, <2>1
      <3>2. watch' = [watch EXCEPT ![task[t].proc] = b]
        BY <2>4 DEF GivesUp
      <3>. HIDE DEF b
      <3>. QED  BY <1>1, <1>2, <2>4, <3>1, <3>2
    <2>5. CASE Write(t)
      BY <1>1, <2>5 DEF Write
    <2>6. \/ UNCHANGED <<watch, crossed>> \/ SetTimer(t) \/ SetRetry(t) \/ Write(t)
          \/ GivesUp(t) /\ crossed' = crossed
      BY <1>3 DEF Works, Step, Serves, Load, Claim, Prepare, Execute, TurnEnds,
         Settle, Count, Update, Look, Row, Insert, Read, Delete, List, Recover, Missed
    <2>. QED  BY <1>1, <2>2, <2>3, <2>4, <2>5, <2>6
  <1>4. ASSUME NEW p \in Procs, Begins(p)
        PROVE  UNCHANGED <<watch, crossed>>
    BY <1>4 DEF Begins, Fire, RunNow, UpdateJob, RemoveJob, Resume, Restart
  <1>5. ASSUME NEW p \in Procs, Crash(p)
        PROVE  watch' \in [Procs -> BOOLEAN] /\ crossed' = crossed
    BY <1>2, <1>5 DEF Crash
  <1>. QED  BY <1>1, <1>3, <1>4, <1>5, NextCases, QuietFrame

(* A conversation is held by one task, or by the user, at a time.          *)
LEMMA TurnStep ==
  ASSUME TypeInv, Next
  PROVE  turn' \in [Procs -> Tasks \cup {Free, User}]
  <1>1. turn \in [Procs -> Tasks \cup {Free, User}]
    BY DEF TypeInv, TypeOK
  <1>2. ASSUME NEW p, NEW x \in Tasks \cup {Free, User}, turn' = [turn EXCEPT ![p] = x]
        PROVE  turn' \in [Procs -> Tasks \cup {Free, User}]
    BY <1>1, <1>2
  <1>3. ASSUME NEW t \in Tasks, Step(t)
        PROVE  turn' \in [Procs -> Tasks \cup {Free, User}]
    <2>1. CASE Execute(t)
      BY <1>1, <1>2, <2>1 DEF Execute
    <2>2. CASE TurnEnds(t)
      BY <1>2, <2>2 DEF TurnEnds
    <2>. QED
      BY <1>1, <1>3, <2>1, <2>2 DEF Step, Load, Claim, Prepare, Settle, Count, Update,
                                    Look, Row, SetTimer, SetRetry
  <1>4. ASSUME NEW p, Serves(p) \/ Begins(p)
        PROVE  turn' = turn
    BY <1>4 DEF Serves, Insert, Read, Write, Delete, List, Recover, Missed, Row,
                SetTimer, SetRetry, Begins, Fire, RunNow, UpdateJob, RemoveJob, Resume,
                Restart
  <1>5. ASSUME NEW p, UserTurn(p) \/ UserTurnEnds(p) \/ Crash(p)
        PROVE  turn' \in [Procs -> Tasks \cup {Free, User}]
    BY <1>2, <1>5 DEF UserTurn, UserTurnEnds, Crash
  <1>6. TimePasses \/ (\E o \in Occs : Expire(o)) => turn' = turn
    BY DEF TimePasses, Expire
  <1>. QED  BY <1>1, <1>3, <1>4, <1>5, <1>6, NextCases DEF Quiet, Works

LEMMA CountersStep ==
  ASSUME TypeInv, Next
  PROVE  due' \in 0 .. MaxOcc /\ upsets' \in 0 .. MaxUpsets
  <1>1. due \in 0 .. MaxOcc /\ upsets \in 0 .. MaxUpsets /\ MaxOcc \in Nat
        /\ MaxUpsets \in Nat
    BY CronAssumption DEF TypeInv, TypeOK
  <1>2. Upset => upsets' \in 0 .. MaxUpsets
    BY <1>1 DEF Upset
  <1>3. ASSUME NEW t, Works(t)
        PROVE  due' = due /\ (upsets' = upsets \/ Upset)
    BY <1>3 DEF Works, Step, Serves, Load, Claim, Prepare, Execute, TurnEnds, Settle,
       Count, Update, Look, Row, SetTimer, SetRetry, Insert, Read, Write, Delete, List,
       Recover, Missed, GivesUp, Fails, MissesRow, Retries
  <1>4. ASSUME NEW p, Begins(p) \/ Crash(p)
        PROVE  due' = due /\ (upsets' = upsets \/ Upset)
    BY <1>4 DEF Begins, Fire, RunNow, UpdateJob, RemoveJob, Resume, Restart, Crash, Asked
  <1>5. Quiet => (due' = due \/ TimePasses) /\ (upsets' = upsets \/ Upset)
    BY DEF Quiet, Expire, UserTurn, UserTurnEnds, TimePasses
  <1>6. TimePasses => due' \in 0 .. MaxOcc
    BY <1>1 DEF TimePasses
  <1>. QED  BY <1>1, <1>2, <1>3, <1>4, <1>5, <1>6, NextCases

LEMMA TypeInvInit == Init => TypeInv
  <1>. SUFFICES ASSUME Init
                PROVE  TypeInv
    OBVIOUS
  <1>1. PICK s \in Schedules :
          job = [exists |-> FALSE, enabled |-> TRUE, sched |-> s, next |-> 1,
                 retry |-> 0, queue |-> s \in Queued]
    BY DEF Init
  <1>2. s \in Kinds /\ 1 \in 0 .. MaxOcc + 1 /\ 0 \in 0 .. MaxRetries
        /\ 0 \in 0 .. MaxUpsets /\ 0 \in 0 .. MaxOcc
    BY CronAssumption DEF Kinds
  <1>3. /\ job \in Job /\ job.sched = s /\ NextInv /\ ~job.exists
    BY <1>1, <1>2 DEF Job, NextInv
  <1>4. PICK p \in up \cap UpsetProcs :
          task = [t \in Workers |->
            IF t = p THEN [Idle EXCEPT !.at = "insert", !.proc = p, !.what = "create",
                                       !.sched = job.sched, !.next = 1]
                     ELSE Idle]
    BY DEF Init
  <1>. DEFINE v == [Idle EXCEPT !.at = "insert", !.proc = p, !.what = "create",
                                !.sched = job.sched, !.next = 1]
  <1>5. p \in Procs /\ p \in up /\ p \in Workers
    BY <1>4, CronAssumption DEF Workers
  <1>6. "insert" \in Stages /\ "create" \in Whats
    BY DEF Stages, Whats
  <1>7. /\ v \in Task /\ v.at = "insert" /\ v.proc = p /\ v.what = "create"
        /\ v.next = 1 /\ v.enabled
    <2>1. Idle \in Task /\ Idle.enabled
      BY Constants DEF Idle
    <2>. QED  BY <1>2, <1>3, <1>5, <1>6, <2>1 DEF Task
  <1>. HIDE DEF v
  <1>8. \A t \in Workers : task[t] = IF t = p THEN v ELSE Idle
    BY <1>4 DEF v
  <1>9. task \in [Workers -> Task]
    BY <1>4, <1>7, Constants DEF v
  <1>10. TaskInv
    <2>1. Shaped(p, v)
      BY <1>5, <1>7 DEF Shaped, RetryLeft
    <2>. QED  BY <1>8, <2>1, Constants DEF TaskInv
  <1>11. FreshInv
    <2>1. \A t \in Workers \ {p} : task[t].at = "idle"
      BY <1>8, Constants
    <2>2. \A r \in Procs : timer[r].kind = "none" /\ ~watch[r]
      BY Constants DEF Init
    <2>. QED  BY <1>3, <2>1, <2>2 DEF FreshInv
  <1>12. TypeOK /\ TimerInv
    BY <1>2, <1>3, <1>9, Constants DEF Init, TypeOK, TimerInv, Armed
  <1>. QED  BY <1>3, <1>10, <1>11, <1>12 DEF TypeInv

LEMMA TypeInvStep == TypeInv /\ [Next]_vars => TypeInv'
  <1>1. ASSUME TypeInv, Next
        PROVE  TypeInv'
    BY <1>1, TaskStep, FreshStep, JobStep, RunStep, TimerStep, HistoryStep, TurnStep,
       CountersStep DEF TypeInv, TypeOK
  <1>2. ASSUME TypeInv, UNCHANGED vars
        PROVE  TypeInv'
    BY <1>2 DEF vars, TypeInv, TypeOK, TaskInv, Shaped, TimerInv, NextInv, FreshInv
  <1>. QED  BY <1>1, <1>2

(* Every variable of the scheduler keeps its type, and retry_count stays   *)
(* within max_retries (handle_busy): for any number of processes, tasks    *)
(* and occurrences, whatever database calls fail.                          *)
THEOREM CronTypeCorrect == Spec => []TypeOK
  <1>1. TypeInv => TypeOK
    BY DEF TypeInv
  <1>. QED  BY <1>1, TypeInvInit, TypeInvStep, PTL DEF Spec

------------------------------------------------------------------------------
(* The lease.                                                              *)

(* A job comes to exist when it is created, and at no other time.          *)
LEMMA Created ==
  ASSUME TypeInv, Next, job'.exists, ~job.exists
  PROVE  \E p \in Workers : Works(p) /\ Insert(p)
  <1>1. job \in Job
    BY DEF TypeInv, TypeOK
  <1>2. PICK t \in Workers : Works(t) /\ WritesJob(t)
    BY JobFrame
  <1>3. ASSUME ~Insert(t)
        PROVE  job'.exists = job.exists \/ ~job'.exists
    <2>1. CASE Row(t)
      <3>1. CASE job' = job
        BY <3>1
      <3>2. ASSUME NEW v \in Task,
                   job' = [job EXCEPT !.enabled = @ /\ v.enabled, !.next = v.next]
            PROVE  job'.exists = job.exists
        BY <1>1, <3>2 DEF Job
      <3>. QED  BY <2>1, <3>1, <3>2, RowMoves
    <2>2. CASE Count(t) \/ Update(t) \/ Missed(t)
      BY <1>1, <2>2 DEF Count, Update, Missed, Retries, Job
    <2>3. CASE Write(t) \/ Delete(t)
      BY <1>1, <2>3 DEF Write, Delete, Job
    <2>. QED  BY <1>2, <1>3, <2>1, <2>2, <2>3 DEF WritesJob
  <1>. QED  BY <1>2, <1>3

(* Then no task is at work but processes that start.                       *)
LEMMA CreatedAlone ==
  ASSUME TypeInv, Next, job'.exists, ~job.exists
  PROVE  /\ \A t \in Workers : ~Holds(task'[t])
         /\ \A p \in Procs : ~watch'[p]
  <1>1. PICK p \in Workers : Works(p) /\ Insert(p)
    BY Created
  <1>2. task[p].at = "insert" /\ watch' = watch
    BY <1>1 DEF Insert
  <1>3. /\ Moved(task[p], task'[p])
        /\ \A u \in Workers \ {p} : task'[u] = task[u]
    BY <1>1, TaskWorks
  <1>4. ~Holds(task'[p])
    BY <1>2, <1>3 DEF Moved, Holds, Leased
  <1>5. \A u \in Workers \ {p} : ~Holds(task'[u])
    BY <1>2, <1>3 DEF TypeInv, FreshInv, Holds, Leased
  <1>6. \A r \in Procs : ~watch'[r]
    BY Zenon, <1>2 DEF TypeInv, FreshInv
  <1>. QED  BY <1>4, <1>5, <1>6

(* A tick that goes on under the lease it holds.                           *)
Kept(u) == Holds(task'[u]) => /\ Holds(task[u]) /\ task'[u].occ = task[u].occ
                              /\ task'[u].proc = task[u].proc

LEMMA LeaseFrame ==
  ASSUME LeaseInv, \A u \in Tasks : Kept(u), job.exists, run' = run
  PROVE  LeaseInv'
  <1>. SUFFICES ASSUME job'.exists, NEW t \in Tasks, Holds(task'[t])
                PROVE  /\ HoldsLease(task[t])'
                       /\ \A s \in Tasks \ {t} : Holds(task'[s])
                                                   => task'[s].occ # task'[t].occ
    BY DEF LeaseInv, Holds
  <1>. QED  BY DEF LeaseInv, Kept, HoldsLease

(* A row that nobody holds a lease on may change.                          *)
LeasedNext(t) == HoldsLease(task[t])'

LEMMA LeaseElsewhere ==
  ASSUME TypeInv, LeaseInv, job.exists, NEW t \in Tasks, NEW o \in Occs, NEW x \in Run,
         run' = [run EXCEPT ![o] = x],
         \A u \in Tasks \ {t} : task'[u] = task[u] /\ (Holds(task[u]) => task[u].occ # o),
         Holds(task'[t]) => LeasedNext(t) /\ task'[t].occ = o
  PROVE  LeaseInv'
  <1>1. \A u \in Tasks \ {t} : Holds(task'[u]) => HoldsLease(task[u])'
    BY DEF LeaseInv, HoldsLease, TypeInv, TypeOK
  <1>2. ASSUME NEW u \in Tasks, NEW w \in Tasks \ {u}, Holds(task'[u]), Holds(task'[w])
        PROVE  task'[w].occ # task'[u].occ
    BY <1>2 DEF LeaseInv
  <1>3. \A u \in Tasks : Holds(task'[u]) => HoldsLease(task[u])'
    BY <1>1 DEF LeasedNext
  <1>. QED  BY <1>2, <1>3 DEF LeaseInv, Holds

LEMMA LeaseClaim ==
  ASSUME TypeInv, LeaseInv, job.exists, NEW t \in Tasks, Works(t), Claim(t)
  PROVE  LeaseInv'
  <1>. DEFINE o == task[t].occ
              mine == [status |-> "running", owner |-> task[t].proc, expired |-> FALSE]
              skip == [run[o] EXCEPT !.status = "skipped"]
  <1>1. /\ t \in Workers /\ Tasks \subseteq Workers
        /\ \A u \in Tasks \ {t} : task'[u] = task[u]
        /\ Moved(task[t], task'[t])
    BY TaskWorks DEF Workers
  <1>2. TypeOK /\ task[t].at = "claim" /\ task[t].proc \in Procs /\ o \in Occs
    <2>1. task[t].at = "claim"
      BY DEF Claim
    <2>. QED  BY <1>1, <2>1, WorksFrame DEF TypeInv, TaskInv, Shaped
  <1>3. ~Holds(Idle) /\ task[t].at # "idle" /\ task' \in [Workers -> Task]
    BY <1>2, Constants, TaskWorks
  <1>4. ASSUME End(t) \/ GoOn(t, "look") \/ GoOn(t, "update")
        PROVE  ~Holds(task'[t])
    <2>1. CASE End(t)
      BY <1>1, <1>2, <1>3, <2>1 DEF End, Becomes, TypeOK
    <2>2. ASSUME NEW a \in {"look", "update"}, GoOn(t, a)
          PROVE  ~Holds(task'[t])
      <3>1. a \in Stages
        BY DEF Stages
      <3>2. PICK v \in Task : Becomes(t, v) /\ v.at = a
        BY <1>1, <1>2, <2>2, <3>1, GoOnBut
      <3>3. task'[t] = v
        BY <1>1, <1>2, <3>2 DEF Becomes, TypeOK
      <3>. QED  BY <3>2, <3>3 DEF Holds, Leased
    <2>. QED  BY <1>4, <2>1, <2>2
  <1>5. CASE /\ MayReclaim(o) \/ run[o].status = "none"
             /\ run' = [run EXCEPT ![o] = mine]
    <2>1. mine \in Run
      BY <1>2 DEF Run
    <2>2. Holds(task'[t]) => LeasedNext(t) /\ task'[t].occ = o
      BY <1>1, <1>2, <1>5 DEF Moved, LeasedNext, HoldsLease, TypeOK
    <2>3. \A u \in Tasks \ {t} : Holds(task[u]) => task[u].occ # o
      BY <1>5 DEF LeaseInv, HoldsLease, MayReclaim
    <2>4. \A u \in Tasks \ {t} : task'[u] = task[u] /\ (Holds(task[u]) => task[u].occ # o)
      BY <1>1, <2>3
    <2>5. run' = [run EXCEPT ![o] = mine]
      BY <1>5
    <2>. HIDE DEF mine, o
    <2>. QED  BY <1>2, <2>1, <2>2, <2>4, <2>5, LeaseElsewhere
  <1>6. CASE run' = run /\ ~Holds(task'[t])
    BY <1>1, <1>6, LeaseFrame DEF Kept
  <1>7. CASE /\ run[o].status = "none" /\ ~Holds(task'[t])
             /\ run' = [run EXCEPT ![o] = skip]
    <2>1. skip \in Run
      BY <1>2 DEF TypeOK, Run
    <2>2. \A u \in Tasks \ {t} : Holds(task[u]) => task[u].occ # o
      BY <1>7 DEF LeaseInv, HoldsLease
    <2>3. \A u \in Tasks \ {t} : task'[u] = task[u] /\ (Holds(task[u]) => task[u].occ # o)
      BY <1>1, <2>2
    <2>4. run' = [run EXCEPT ![o] = skip] /\ ~Holds(task'[t])
      BY <1>7
    <2>. HIDE DEF skip, o
    <2>. QED  BY <1>2, <2>1, <2>3, <2>4, LeaseElsewhere
  <1>8. \/ /\ MayReclaim(o) \/ run[o].status = "none"
           /\ run' = [run EXCEPT ![o] = mine]
        \/ run' = run /\ (End(t) \/ GoOn(t, "look"))
        \/ /\ run[o].status = "none" /\ GoOn(t, "update")
           /\ run' = [run EXCEPT ![o] = skip]
    BY DEF Claim, GivesUp
  <1>. QED  BY <1>4, <1>5, <1>6, <1>7, <1>8

LEMMA LeaseSettle ==
  ASSUME TypeInv, LeaseInv, job.exists, NEW t \in Tasks, Works(t), Settle(t)
  PROVE  LeaseInv'
  <1>. DEFINE o == task[t].occ
  <1>1. /\ t \in Workers /\ Tasks \subseteq Workers
        /\ \A u \in Tasks \ {t} : task'[u] = task[u]
        /\ Moved(task[t], task'[t])
    BY TaskWorks DEF Workers
  <1>2. /\ o \in Occs /\ Holds(task[t]) /\ ~Holds(task'[t])
        /\ task[t].result \in {"done", "skipped", "retry"}
    <2>1. task[t].at = "settle" /\ Shaped(t, task[t])
      BY <1>1 DEF Settle, TypeInv, TaskInv
    <2>. QED  BY <1>1, <2>1 DEF Shaped, Moved, Holds, Leased
  <1>3. CASE run' = run
    BY <1>1, <1>2, <1>3, LeaseFrame DEF Kept
  <1>4. CASE run' # run
    <2>1. \E s \in {"retrying", "done", "skipped"} :
            run' = [run EXCEPT ![o] = [NoRun EXCEPT !.status = s]]
      BY <1>2, <1>4 DEF Settle
    <2>2. \A s \in {"retrying", "done", "skipped"} : [NoRun EXCEPT !.status = s] \in Run
      BY DEF NoRun, Run
    <2>3. PICK x \in Run : run' = [run EXCEPT ![o] = x]
      BY <2>1, <2>2
    <2>4. \A u \in Tasks \ {t} : Holds(task[u]) => task[u].occ # o
      BY <1>2 DEF LeaseInv
    <2>5. \A u \in Tasks \ {t} : task'[u] = task[u] /\ (Holds(task[u]) => task[u].occ # o)
      BY <1>1, <2>4
    <2>. HIDE DEF o
    <2>. QED  BY <1>2, <2>3, <2>5, LeaseElsewhere
  <1>. QED  BY <1>3, <1>4

LEMMA LeaseCrash ==
  ASSUME TypeInv, LeaseInv, job.exists, NEW p \in Procs, Crash(p)
  PROVE  LeaseInv'
  <1>1. /\ Tasks \subseteq Workers
        /\ run' = [o \in Occs |-> IF run[o].owner = p
                                  THEN [run[o] EXCEPT !.owner = Gone] ELSE run[o]]
    BY DEF Crash, Workers
  <1>2. \A t \in Tasks : Holds(task'[t]) => task'[t] = task[t] /\ task[t].proc # p
    BY <1>1, TaskCrash, Constants
  <1>. SUFFICES ASSUME NEW t \in Tasks, Holds(task'[t])
                PROVE  /\ HoldsLease(task[t])'
                       /\ \A s \in Tasks \ {t} : Holds(task'[s])
                                                   => task'[s].occ # task'[t].occ
    BY DEF LeaseInv, Holds
  <1>3. task[t].occ \in Occs
    BY <1>1, <1>2 DEF Holds, Leased, TypeInv, TaskInv, Shaped
  <1>4. run[task[t].occ].owner = task[t].proc /\ HoldsLease(task[t])
    BY <1>2 DEF LeaseInv, HoldsLease
  <1>5. HoldsLease(task[t])'
    BY <1>1, <1>2, <1>3, <1>4 DEF HoldsLease
  <1>. QED  BY <1>2, <1>5 DEF LeaseInv

LEMMA LeaseExpire ==
  ASSUME TypeInv, LeaseInv, NEW o \in Occs, Expire(o)
  PROVE  LeaseInv'
  <1>1. task' = task /\ job' = job /\ run' = [run EXCEPT ![o].expired = TRUE] /\ ~Beats(o)
    BY DEF Expire
  <1>2. ASSUME job.exists, NEW t \in Tasks, Holds(task[t])
        PROVE  task[t].occ # o
    BY <1>1, <1>2 DEF Beats, LeaseInv, HoldsLease, Holds, Leased
  <1>3. ASSUME job.exists, NEW t \in Tasks, Holds(task[t])
        PROVE  HoldsLease(task[t])'
    BY <1>1, <1>2, <1>3 DEF LeaseInv, HoldsLease, TypeInv, TypeOK
  <1>. QED  BY <1>1, <1>3 DEF LeaseInv, Holds

LEMMA LeaseStep ==
  ASSUME TypeInv, LeaseInv, [Next]_vars
  PROVE  LeaseInv'
  <1>1. CASE UNCHANGED vars
    BY <1>1 DEF vars, LeaseInv, Holds, HoldsLease
  <1>2. CASE ~job'.exists
    BY <1>2 DEF LeaseInv
  <1>3. CASE Next /\ job'.exists /\ ~job.exists
    BY <1>3, CreatedAlone DEF LeaseInv, Workers, Holds
  <1>. SUFFICES ASSUME Next, job'.exists, job.exists
                PROVE  LeaseInv'
    BY <1>1, <1>2, <1>3
  <1>4. Tasks \subseteq Workers /\ Procs \subseteq Workers /\ Tasks \cap Procs = {}
    BY CronAssumption DEF Workers
  <1>5. ASSUME NEW t \in Tasks, Step(t)
        PROVE  LeaseInv'
    <2>1. Works(t)
      BY <1>5 DEF Works
    <2>2. Moved(task[t], task'[t]) /\ \A u \in Workers \ {t} : task'[u] = task[u]
      BY <2>1, TaskWorks
    <2>3. CASE ~Claim(t) /\ ~Settle(t)
      <3>1. run' = run /\ task[t].at # "claim"
        BY <1>5, <2>3 DEF Step, Load, Prepare, Execute, TurnEnds, Count, Update, Look,
                          Row, SetTimer, SetRetry
      <3>2. \A u \in Tasks : Kept(u)
        BY <1>4, <2>2, <3>1 DEF Kept, Moved
      <3>. QED  BY <3>1, <3>2, LeaseFrame
    <2>. QED  BY <2>1, <2>3, LeaseClaim, LeaseSettle
  <1>6. ASSUME NEW p \in Procs, Serves(p)
        PROVE  LeaseInv'
    <2>1. \A u \in Workers \ {p} : task'[u] = task[u]
      BY <1>6, TaskWorks DEF Works
    <2>2. run' = run
      <3>1. ~Delete(p) \/ run' = run
        BY DEF Delete, TypeInv, TypeOK, Job
      <3>. QED  BY <1>6, <3>1 DEF Serves, Insert, Read, Write, List, Recover, Missed, Row,
                                  SetTimer, SetRetry
    <2>3. \A u \in Tasks : Kept(u)
      BY <1>4, <2>1 DEF Kept
    <2>. QED  BY <2>2, <2>3, LeaseFrame
  <1>7. ASSUME NEW p \in Procs, Begins(p)
        PROVE  LeaseInv'
    <2>1. PICK w, v : Begun(p, w, v)
      BY <1>7, BeginsWith
    <2>2. task'[w] = v /\ ~Holds(v) /\ \A u \in Workers \ {w} : task'[u] = task[u]
      BY <1>7, <2>1, TaskBegins DEF Begun
    <2>3. run' = run
      BY <1>7 DEF Begins, Fire, RunNow, UpdateJob, RemoveJob, Resume, Restart
    <2>4. \A u \in Tasks : Kept(u)
      BY <1>4, <2>2 DEF Kept
    <2>. QED  BY <2>3, <2>4, LeaseFrame
  <1>8. CASE Quiet /\ run' = run
    <2>1. \A u \in Tasks : Kept(u)
      BY <1>8, QuietFrame DEF Kept
    <2>. QED  BY <1>8, <2>1, LeaseFrame
  <1>9. Quiet => run' = run \/ \E o \in Occs : Expire(o)
    BY DEF Quiet, TimePasses, UserTurn, UserTurnEnds
  <1>. QED
    BY <1>5, <1>6, <1>7, <1>8, <1>9, LeaseCrash, LeaseExpire, NextCases DEF Works

(* An occurrence is executed by one tick of one process at a time, and by  *)
(* one that holds its lease (claim_run, finish_run and defer_run of        *)
(* sqlite_cron.rs, the heartbeat of service.rs): for any number of         *)
(* processes that fire at once, retry, fail, crash and take each other     *)
(* over.                                                                   *)
THEOREM LeaseCorrect == Spec => []RunsUnderLease
  <1>1. Init => LeaseInv
    BY DEF Init, LeaseInv
  <1>2. Spec => [](TypeInv /\ LeaseInv)
    BY <1>1, TypeInvInit, TypeInvStep, LeaseStep, PTL DEF Spec
  <1>3. TypeInv /\ LeaseInv => RunsUnderLease
    <2>. SUFFICES ASSUME TypeInv, LeaseInv, job.exists, NEW t \in Tasks,
                         task[t].at \in {"execute", "running"}, Ticks(task[t])
                  PROVE  /\ HoldsLease(task[t])
                         /\ \A s \in Tasks \ {t} :
                              task[s].at \in {"execute", "running"} /\ Ticks(task[s])
                                => task[s].occ # task[t].occ
      BY DEF RunsUnderLease, HoldsLease
    <2>. QED  BY DEF LeaseInv, Holds, Leased, Ticks
  <1>. QED  BY <1>2, <1>3, PTL

------------------------------------------------------------------------------
(* The job is watched.                                                     *)

(* A job that is on after a step was on before it, unless the step created *)
(* it: an edit that turns it on counts as one that crossed.                *)
LEMMA WasOn ==
  ASSUME TypeInv, Next, On', job.exists
  PROVE  On
  <1>1. /\ job \in Job /\ crossed \in BOOLEAN /\ job'.exists /\ job'.enabled
        /\ ~crossed'
    BY DEF TypeInv, TypeOK, On
  <1>2. ~crossed
    <2>1. ASSUME NEW t, Works(t)
          PROVE  crossed' = crossed \/ Write(t)
      BY <2>1 DEF Works, Step, Serves, Load, Claim, Prepare, Execute, TurnEnds, Settle,
         Count, Update, Look, Row, SetTimer, SetRetry, Insert, Read, Delete, List,
         Recover, Missed
    <2>2. ASSUME NEW t, Write(t), crossed
          PROVE  FALSE
      BY <1>1, <2>2 DEF Write
    <2>3. ASSUME NEW p, Begins(p) \/ Crash(p)
          PROVE  crossed' = crossed
      BY <2>3 DEF Begins, Fire, RunNow, UpdateJob, RemoveJob, Resume, Restart, Crash
    <2>. QED  BY <1>1, <2>1, <2>2, <2>3, NextCases, QuietFrame
  <1>3. job.enabled
    <2>1. CASE job' = job
      BY <1>1, <2>1
    <2>2. ASSUME NEW t \in Workers, Works(t), WritesJob(t)
          PROVE  job.enabled
      <3>1. CASE Row(t)
        <4>1. CASE job' = job
          BY <1>1, <4>1
        <4>2. ASSUME NEW v \in Task,
                     job' = [job EXCEPT !.enabled = @ /\ v.enabled, !.next = v.next]
              PROVE  job.enabled
          BY <1>1, <4>2 DEF Job
        <4>. QED  BY <3>1, <4>1, <4>2, RowMoves
      <3>2. CASE Write(t)
        <4>. DEFINE b == IF "enabled" \in task[t].sets THEN task[t].enabled
                                                       ELSE job.enabled
                    s == IF "sched" \in task[t].sets THEN task[t].sched ELSE job.sched
                    n == IF task[t].sets = {} THEN job.next ELSE task[t].next
        <4>1. "enabled" \in task[t].sets => ~Write(t) \/ job.enabled \/ job' = job
          BY <1>1 DEF Write
        <4>2. job' = job \/ job' = [job EXCEPT !.enabled = b, !.sched = s, !.next = n]
          BY <3>2 DEF Write
        <4>3. "enabled" \notin task[t].sets => b = job.enabled
          OBVIOUS
        <4>. HIDE DEF b, s, n
        <4>4. job'.enabled = job.enabled \/ job'.enabled = b
          BY <1>1, <4>2 DEF Job
        <4>. QED  BY <1>1, <3>2, <4>1, <4>3, <4>4
      <3>3. CASE Count(t) \/ Update(t) \/ Missed(t) \/ Insert(t) \/ Delete(t)
        BY <1>1, <3>3 DEF Count, Update, Missed, Retries, Insert, Delete, Job
      <3>. QED  BY <2>2, <3>1, <3>2, <3>3 DEF WritesJob
    <2>. QED  BY <2>1, <2>2, JobFrame
  <1>. QED  BY <1>2, <1>3 DEF On

(* What a task is to set the timer from says that the job is on.           *)
LEMMA ReadyWorks ==
  ASSUME TypeInv, ReadyInv, On', On, Next, NEW t, Works(t)
  PROVE  Ready(task'[t])
  <1>1. /\ t \in Workers /\ task[t] \in Task /\ Shaped(t, task[t]) /\ Ready(task[t])
        /\ Moved(task[t], task'[t]) /\ TypeOK
        /\ job \in Job /\ job'.enabled /\ job.enabled
    BY WorksFrame, TaskWorks DEF TypeInv, TypeOK, TaskInv, ReadyInv, On
  <1>2. ASSUME NEW v \in Task, Becomes(t, v)
        PROVE  task'[t] = v
    BY <1>1, <1>2 DEF Becomes, TypeOK
  <1>3. CASE Row(t)
    <2>1. CASE End(t)
      BY <1>1, <1>2, <2>1, Constants DEF End, Ready
    <2>2. ASSUME NEW v \in Task, Becomes(t, v), v.at = "timer",
                 v.result = "failed" \/ job' = [job EXCEPT !.enabled = @ /\ v.enabled,
                                                          !.next = v.next]
          PROVE  Ready(task'[t])
      <3>1. v.result # "failed" => v.enabled
        BY <1>1, <2>2 DEF Job
      <3>2. task'[t] = v
        BY <1>2, <2>2
      <3>. QED  BY <2>2, <3>1, <3>2 DEF Ready
    <2>. QED  BY <1>1, <1>3, <2>1, <2>2, RowMoves
  <1>4. CASE Write(t)
    <2>1. CASE End(t)
      BY <1>1, <1>2, <2>1, Constants DEF End, Ready
    <2>2. ASSUME ~End(t), NEW v \in Task, Becomes(t, v), v.at = "timer",
                 v.enabled = task[t].enabled
          PROVE  Ready(task'[t])
      <3>. DEFINE q == task[t]
                  b == IF "enabled" \in q.sets THEN q.enabled ELSE job.enabled
                  s == IF "sched" \in q.sets THEN q.sched ELSE job.sched
                  n == IF q.sets = {} THEN job.next ELSE q.next
      <3>1. q.at = "write" /\ job' = [job EXCEPT !.enabled = b, !.sched = s, !.next = n]
        BY <1>4, <2>2 DEF Write
      <3>2. "enabled" \in q.sets => b = q.enabled
        OBVIOUS
      <3>3. q.enabled \/ "enabled" \in q.sets
        BY <1>1, <3>1 DEF Ready
      <3>. HIDE DEF b, s, n
      <3>4. b
        BY <1>1, <3>1 DEF Job
      <3>5. task'[t] = v
        BY <1>2, <2>2
      <3>. QED  BY <2>2, <3>2, <3>3, <3>4, <3>5 DEF Ready
    <2>. QED  BY <1>1, <1>4, <2>1, <2>2, WriteMoves
  <1>5. CASE Read(t)
    <2>1. CASE End(t)
      BY <1>1, <1>2, <2>1, Constants DEF End, Ready
    <2>2. ASSUME NEW v \in Task, Becomes(t, v), v.at = "write",
                 "enabled" \in v.sets \/ v.enabled = job.enabled
          PROVE  Ready(task'[t])
      BY <1>1, <1>2, <2>2 DEF Ready
    <2>. QED  BY <1>1, <1>5, <2>1, <2>2, ReadMoves
  <1>6. ASSUME task[t].at \in {"insert", "recover"}, task'[t].at = "timer"
        PROVE  task'[t].enabled
    <2>1. (\E o \in Occs : Recovers(t, o)) \/ Goto(t, "missed") \/ Goto(t, "timer")
            \/ End(t)
      <3>1. Insert(t) \/ Recover(t)
        BY <1>6 DEF Works, Step, Load, Claim, Prepare, Execute, TurnEnds, Settle, Count,
           Update, Look, Row, SetTimer, SetRetry, Serves, Read, Write, Delete, List,
           Missed
      <3>. QED  BY <3>1, RecoverableTyped DEF Insert, Recover
    <2>2. ASSUME NEW a \in {"missed", "timer"}, Goto(t, a)
          PROVE  task'[t].enabled
      <3>1. a \in Stages
        BY DEF Stages
      <3>2. PICK v \in Task : Becomes(t, v) /\ But(v, task[t], a)
        BY <1>1, <2>2, <3>1, GotoBut
      <3>. QED  BY <1>1, <1>2, <1>6, <3>2 DEF But, Shaped
    <2>3. ASSUME NEW o \in Occs, Recovers(t, o)
          PROVE  FALSE
      BY <1>1, <1>2, <1>6, <2>3, RecoversBut
    <2>4. ~End(t)
      BY <1>2, <1>6, Constants DEF End
    <2>. QED  BY <2>1, <2>2, <2>3, <2>4
  <1>7. task[t].at = "row" => Row(t)
    BY DEF Works, Step, Load, Claim, Prepare, Execute, TurnEnds, Settle, Count,
       Update, Look, SetTimer, SetRetry, Serves, Insert, Read, Write, Delete, List,
       Recover, Missed
  <1>8. task[t].at = "write" => Write(t)
    BY DEF Works, Step, Load, Claim, Prepare, Execute, TurnEnds, Settle, Count,
       Update, Look, Row, SetTimer, SetRetry, Serves, Insert, Read, Delete, List,
       Recover, Missed
  <1>9. task[t].at = "read" => Read(t)
    BY DEF Works, Step, Load, Claim, Prepare, Execute, TurnEnds, Settle, Count,
       Update, Look, Row, SetTimer, SetRetry, Serves, Insert, Write, Delete, List,
       Recover, Missed
  <1>. QED  BY <1>1, <1>3, <1>4, <1>5, <1>6, <1>7, <1>8, <1>9 DEF Moved, Ready

LEMMA ReadyStep ==
  ASSUME TypeInv, ReadyInv, [Next]_vars
  PROVE  ReadyInv'
  <1>1. CASE UNCHANGED vars
    BY <1>1 DEF vars, ReadyInv, On, Ready
  <1>. SUFFICES ASSUME Next, On', NEW u \in Workers
                PROVE  Ready(task'[u])
    BY <1>1 DEF ReadyInv, Ready
  <1>2. CASE ~job.exists
    <2>1. PICK p \in Workers : Works(p) /\ Insert(p)
      BY <1>2, Created DEF On
    <2>2. /\ task[p].at = "insert" /\ Shaped(p, task[p]) /\ task[p] \in Task /\ TypeOK
          /\ \A w \in Workers \ {p} : task'[w] = task[w]
                                        /\ task[w].at \in {"idle", "list"}
      BY <2>1, TaskWorks DEF Insert, TypeInv, TypeOK, TaskInv, FreshInv
    <2>3. CASE u # p
      BY <2>2, <2>3 DEF Ready
    <2>4. CASE u = p
      <3>1. Goto(p, "timer") \/ End(p)
        BY <2>1 DEF Insert
      <3>2. ASSUME NEW v \in Task, Becomes(p, v)
            PROVE  task'[p] = v
        BY <2>2, <3>2 DEF Becomes, TypeOK
      <3>3. CASE End(p)
        BY <2>4, <3>2, <3>3, Constants DEF End, Ready
      <3>4. CASE Goto(p, "timer")
        <4>1. "timer" \in Stages
          BY DEF Stages
        <4>2. PICK v \in Task : Becomes(p, v) /\ But(v, task[p], "timer")
          BY <2>2, <3>4, <4>1, GotoBut
        <4>. QED  BY <2>2, <2>4, <3>2, <4>2 DEF But, Shaped, Ready
      <3>. QED  BY <3>1, <3>3, <3>4
    <2>. QED  BY <2>3, <2>4
  <1>3. CASE job.exists
    <2>1. On
      BY <1>3, WasOn
    <2>2. Ready(task[u])
      BY <2>1 DEF ReadyInv
    <2>3. CASE Quiet
      BY <2>2, <2>3, QuietFrame
    <2>4. ASSUME NEW t, Works(t)
          PROVE  Ready(task'[u])
      BY <2>1, <2>2, <2>4, TaskWorks, ReadyWorks
    <2>5. ASSUME NEW p \in Procs, Begins(p)
          PROVE  Ready(task'[u])
      <3>1. PICK w, v : Begun(p, w, v)
        BY <2>5, BeginsWith
      <3>2. task'[w] = v /\ \A x \in Workers \ {w} : task'[x] = task[x]
        BY <2>5, <3>1, TaskBegins
      <3>. QED  BY <2>2, <3>1, <3>2 DEF Begun, Ready
    <2>6. ASSUME NEW p \in Procs, Crash(p)
          PROVE  Ready(task'[u])
      BY <2>2, <2>6, TaskCrash, Constants DEF Ready
    <2>. QED  BY <2>3, <2>4, <2>5, <2>6, NextCases
  <1>. QED  BY <1>2, <1>3

(* What a task becomes.                                                    *)
LEMMA StageNow ==
  ASSUME TypeInv, NEW t \in Workers
  PROVE  /\ \A a \in Stages : Goto(t, a) \/ GoOn(t, a) => task'[t].at = a
         /\ \A r \in Results : Result(t, r) => task'[t].at = "settle"
         /\ \A o \in Occs : Recovers(t, o) => task'[t].at = "retry"
  <1>1. TypeOK /\ \A v : Becomes(t, v) => task'[t] = v
    BY DEF TypeInv, TypeOK, Becomes
  <1>. QED  BY <1>1, GotoBut, GoOnBut, ResultEnds, RecoversBut DEF But

(* A step of a task sets the timer of its process; or fails, and the       *)
(* process no longer counts as watching unless it has a timer; or leaves   *)
(* the timers alone, and a task that watches goes on.                      *)
LEMMA StepWatches ==
  ASSUME TypeInv, LeaseInv, On, On', NEW t, Works(t)
  PROVE  \/ SetTimer(t) \/ SetRetry(t)
         \/ GivesUp(t) /\ timer' = timer
         \/ /\ UNCHANGED <<timer, watch>>
            /\ Watching(task[t]) => task'[t].at # "idle"
  <1>. DEFINE Stays == Watching(task[t]) => task'[t].at # "idle"
              Good == \/ SetTimer(t) \/ SetRetry(t)
                      \/ GivesUp(t) /\ timer' = timer
                      \/ UNCHANGED <<timer, watch>> /\ Stays
  <1>1. /\ t \in Workers /\ TypeOK /\ task[t] \in Task /\ Shaped(t, task[t])
        /\ job.exists /\ job.enabled /\ job'.exists
    BY WorksFrame DEF TypeInv, TypeOK, TaskInv, On
  <1>2. ASSUME NEW a \in Stages \ {"idle"}, Goto(t, a) \/ GoOn(t, a)
        PROVE  Stays
    BY <1>1, <1>2, StageNow
  <1>3. ASSUME NEW r \in Results, Result(t, r)
        PROVE  Stays
    BY <1>1, <1>3, StageNow
  <1>4. ASSUME NEW o \in Occs, Recovers(t, o)
        PROVE  Stays
    BY <1>1, <1>4, StageNow
  <1>5. ASSUME NEW v \in Task, v.at # "idle", Becomes(t, v)
        PROVE  Stays
    BY <1>1, <1>5 DEF Becomes, TypeOK
  <1>6. {"prepare", "execute", "running", "update", "look", "row", "timer", "missed"}
          \subseteq Stages \ {"idle"}
    BY DEF Stages
  <1>7. BusyResult(t) \in Results /\ "done" \in Results
    BY <1>1, BusyTyped DEF Results
  <1>8. ~Watching(task[t]) => Stays
    OBVIOUS
  <1>. HIDE DEF Stays
  <1>. SUFFICES Good
    BY DEF Stays
  <1>9. CASE Load(t)
    <2>. DEFINE v == [task[t] EXCEPT !.at = "claim", !.sched = job.sched,
                                     !.retry = job.retry]
    <2>1. v \in Task /\ v.at = "claim"
      BY <1>1, <1>9 DEF TypeOK, Job, Task, Stages
    <2>2. \/ Becomes(t, v) /\ UNCHANGED <<timer, watch>>
          \/ GivesUp(t) /\ timer' = timer
      BY <1>1, <1>9 DEF Load
    <2>. HIDE DEF v
    <2>. QED  BY <1>5, <2>1, <2>2
  <1>10. CASE Claim(t)
    <2>1. \/ /\ UNCHANGED <<timer, watch>>
             /\ Goto(t, "prepare") \/ GoOn(t, "look") \/ GoOn(t, "update")
          \/ GivesUp(t) /\ timer' = timer
      BY <1>1, <1>10 DEF Claim
    <2>. QED  BY <1>2, <1>6, <2>1
  <1>11. CASE Prepare(t) \/ Execute(t) \/ TurnEnds(t)
    <2>1. task[t].what # "remove"
      BY <1>1, <1>11 DEF Prepare, Execute, TurnEnds, Shaped
    <2>2. UNCHANGED <<timer, watch>>
      BY <1>11 DEF Prepare, Execute, TurnEnds
    <2>3. \/ Goto(t, "execute") \/ Goto(t, "running") \/ Goto(t, "update")
          \/ Result(t, BusyResult(t)) \/ Result(t, "done") \/ ~Ticks(task[t])
      BY Zenon, <1>11 DEF Prepare, Execute, TurnEnds
    <2>4. ~Ticks(task[t]) => Stays
      BY <1>8, <2>1 DEF Ticks, Watching
    <2>. QED  BY <1>2, <1>3, <1>6, <1>7, <2>2, <2>3, <2>4
  <1>12. CASE Settle(t)
    <2>1. t \in Tasks /\ task[t].at = "settle" /\ task[t].what = "tick"
      <3>1. task[t].at = "settle"
        BY <1>12 DEF Settle
      <3>2. ~Serves(t)
        BY <3>1 DEF Serves, Insert, Read, Write, Delete, List, Recover, Missed, Row,
                    SetTimer, SetRetry
      <3>. QED  BY <1>1, <3>1, <3>2 DEF Works, Shaped
    <2>2. run[task[t].occ].status = "running" /\ run[task[t].occ].owner = task[t].proc
      BY <1>1, <2>1 DEF LeaseInv, Holds, HoldsLease, Leased
    <2>. DEFINE v == [task[t] EXCEPT !.at = "retry", !.occ = 0, !.next = task[t].occ,
                                     !.sched = "At"]
    <2>3. v \in Task /\ v.at = "retry"
      <3>1. task[t].occ \in 0 .. MaxOcc + 1 /\ 0 \in 0 .. MaxOcc + 1
        BY <1>1, CronAssumption DEF Task
      <3>. QED  BY <1>1, <3>1 DEF Task, Stages, Kinds
    <2>4. \/ UNCHANGED <<timer, watch>> /\ (Becomes(t, v) \/ GoOn(t, "update"))
          \/ GivesUp(t) /\ timer' = timer
      BY <1>1, <1>12, <2>2 DEF Settle
    <2>. HIDE DEF v
    <2>. QED  BY <1>2, <1>5, <1>6, <2>3, <2>4
  <1>13. CASE Count(t)
    BY <1>8, <1>13 DEF Count, Watching
  <1>14. CASE Update(t)
    <2>1. task[t].what # "remove" /\ UNCHANGED <<timer, watch>>
      BY <1>1, <1>14 DEF Update, Shaped
    <2>2. Goto(t, "look") \/ ~Watching(task[t])
      BY <1>14, <2>1 DEF Update, Ticks, Watching
    <2>. QED  BY <1>2, <1>6, <1>8, <2>1, <2>2
  <1>15. CASE Look(t)
    <2>1. (\E o \in Occs : Recovers(t, o)) \/ Goto(t, "row")
      BY <1>15, RecoverableTyped DEF Look
    <2>. QED  BY <1>2, <1>4, <1>6, <1>15, <2>1 DEF Look
  <1>16. CASE Row(t)
    <2>1. CASE task[t].what = "resume"
      BY <1>8, <1>16, <2>1 DEF Row, Watching
    <2>2. CASE task[t].what # "resume"
      <3>1. UNCHANGED <<timer, watch>>
        BY <1>16 DEF Row
      <3>2. PICK v \in Task : Becomes(t, v) /\ v.at = "timer"
        BY <1>1, <1>16, <2>2, RowMoves
      <3>. QED  BY <1>5, <3>1, <3>2
    <2>. QED  BY <2>1, <2>2
  <1>17. CASE Insert(t) \/ Read(t) \/ Write(t) \/ List(t)
    <2>1. UNCHANGED <<timer, watch>>
      BY <1>17 DEF Insert, Read, Write, List
    <2>2. ~Watching(task[t])
      BY <1>1, <1>17 DEF Insert, Read, Write, List, Shaped, Watching
    <2>. QED  BY <1>8, <2>1, <2>2
  <1>18. CASE Delete(t)
    <2>1. GivesUp(t) /\ timer' = timer
      <3>1. job \in Job
        BY <1>1 DEF TypeOK
      <3>. QED  BY <1>1, <1>18, <3>1 DEF Delete, Job
    <2>. QED  BY <2>1
  <1>19. CASE Recover(t)
    <2>1. (\E o \in Occs : Recovers(t, o)) \/ Goto(t, "missed") \/ Goto(t, "timer")
      BY <1>19, RecoverableTyped DEF Recover
    <2>. QED  BY <1>2, <1>4, <1>6, <1>19, <2>1 DEF Recover
  <1>20. CASE Missed(t)
    BY <1>2, <1>6, <1>20 DEF Missed
  <1>. QED
    BY <1>9, <1>10, <1>11, <1>12, <1>13, <1>14, <1>15, <1>16, <1>17, <1>18, <1>19,
       <1>20 DEF Works, Step, Serves

(* A process goes on being watched through the step of a task.             *)
LEMMA WatchWorks ==
  ASSUME TypeInv, LeaseInv, ReadyInv, WatchInv, Next, On, On', NEW t, Works(t),
         NEW r \in up', watch'[r]
  PROVE  Watched(r)'
  <1>. DEFINE p == task[t].proc
  <1>1. /\ t \in Workers /\ p \in Procs /\ p \in up /\ up' = up /\ r \in Procs
        /\ TypeOK /\ task[t] \in Task /\ Shaped(t, task[t]) /\ Ready(task[t])
        /\ Moved(task[t], task'[t])
        /\ \A u \in Workers \ {t} : task'[u] = task[u]
    BY WorksFrame, TaskWorks DEF TypeInv, TypeOK, TaskInv, ReadyInv
  <1>2. watch[r] => Watched(r)
    BY <1>1 DEF WatchInv
  <1>3. ASSUME timer'[r] = timer[r], watch[r],
               p = r /\ Watching(task[t]) => task'[t].at \notin {"idle", "count"}
        PROVE  Watched(r)'
    <2>1. CASE timer[r].kind # "none"
      BY <1>3, <2>1 DEF Watched
    <2>2. ASSUME NEW u \in Workers, task[u].proc = r, Watching(task[u])
          PROVE  task'[u].proc = r /\ Watching(task'[u])
      <3>1. CASE u # t
        BY <1>1, <2>2, <3>1
      <3>2. CASE u = t
        BY <1>1, <1>3, <2>2, <3>2 DEF Moved, Watching
      <3>. QED  BY <3>1, <3>2
    <2>. QED  BY <1>2, <1>3, <2>1, <2>2 DEF Watched, Watching
  <1>. HIDE DEF p
  <1>4. CASE SetTimer(t)
    <2>. DEFINE m == ScheduleJob(task[t].enabled, task[t].sched, task[t].next)
                b == m.kind # "none" \/ (watch[p] /\ task[t].result # "failed")
    <2>1. /\ timer' = [timer EXCEPT ![p] = m] /\ watch' = [watch EXCEPT ![p] = b]
          /\ task[t].at = "timer"
      BY <1>4 DEF SetTimer, p
    <2>2. task[t].result # "failed" => m.kind # "none"
      <3>1. /\ task[t].enabled \in BOOLEAN /\ task[t].sched \in Kinds
            /\ task[t].next \in 0 .. MaxOcc + 1
        BY <1>1 DEF Task
      <3>. QED  BY <1>1, <2>1, <3>1, ScheduleTyped DEF Ready, Shaped
    <2>3. b => m.kind # "none"
      BY <2>2
    <2>. HIDE DEF m, b
    <2>4. CASE r = p
      <3>1. watch'[p] = b /\ timer'[p] = m
        BY <1>1, <2>1 DEF TypeOK
      <3>2. timer'[r].kind # "none"
        BY <2>3, <2>4, <3>1
      <3>. QED  BY <3>2 DEF Watched
    <2>5. CASE r # p
      <3>1. watch'[r] = watch[r] /\ timer'[r] = timer[r]
        BY <1>1, <2>1, <2>5 DEF TypeOK
      <3>. QED  BY <1>3, <2>5, <3>1
    <2>. QED  BY <2>4, <2>5
  <1>5. CASE SetRetry(t)
    <2>1. /\ timer' = [timer EXCEPT ![p] = Once(task[t].next)]
          /\ watch' = [watch EXCEPT ![p] = TRUE] /\ task[t].at = "retry"
      BY <1>5 DEF SetRetry, p
    <2>2. Once(task[t].next).kind # "none"
      BY <1>1, <2>1, OnceTyped DEF Shaped
    <2>3. CASE r = p
      <3>1. timer'[r].kind # "none"
        BY <1>1, <2>1, <2>2, <2>3 DEF TypeOK
      <3>. QED  BY <3>1 DEF Watched
    <2>4. CASE r # p
      <3>1. watch'[r] = watch[r] /\ timer'[r] = timer[r]
        BY <1>1, <2>1, <2>4 DEF TypeOK
      <3>. QED  BY <1>3, <2>4, <3>1
    <2>. QED  BY <2>3, <2>4
  <1>6. CASE GivesUp(t) /\ timer' = timer
    <2>. DEFINE b == watch[p] /\ timer[p].kind # "none"
    <2>1. watch' = [watch EXCEPT ![p] = b]
      BY <1>6 DEF GivesUp, p
    <2>2. b => timer[p].kind # "none"
      OBVIOUS
    <2>. HIDE DEF b
    <2>3. CASE r = p
      <3>1. watch'[p] = b
        BY <1>1, <2>1 DEF TypeOK
      <3>2. timer'[r].kind # "none"
        BY <1>6, <2>2, <2>3, <3>1
      <3>. QED  BY <3>2 DEF Watched
    <2>4. CASE r # p
      <3>1. watch'[r] = watch[r]
        BY <1>1, <2>1, <2>4 DEF TypeOK
      <3>. QED  BY <1>3, <1>6, <2>4, <3>1
    <2>. QED  BY <2>3, <2>4
  <1>7. CASE /\ UNCHANGED <<timer, watch>> /\ ~SetRetry(t)
             /\ Watching(task[t]) => task'[t].at # "idle"
    <2>1. task'[t].at # "count"
      <3>1. task[t].at = "retry" => SetRetry(t)
        BY DEF Works, Step, Load, Claim, Prepare, Execute, TurnEnds, Settle, Count,
           Update, Look, Row, SetTimer, Serves, Insert, Read, Write, Delete, List,
           Recover, Missed
      <3>. QED  BY <1>1, <1>7, <3>1 DEF Moved
    <2>. QED  BY <1>3, <1>7, <2>1
  <1>. QED  BY <1>4, <1>5, <1>6, <1>7, StepWatches

LEMMA WatchStep ==
  ASSUME TypeInv, LeaseInv, ReadyInv, WatchInv, [Next]_vars
  PROVE  WatchInv'
  <1>1. CASE UNCHANGED vars
    BY <1>1 DEF vars, WatchInv, On, Watched, Watching
  <1>. SUFFICES ASSUME Next
                PROVE  WatchInv'
    BY <1>1
  <1>2. TypeOK /\ up \subseteq Procs /\ up' \subseteq Procs
    BY TaskStep DEF TypeInv, TypeOK
  <1>3. \A r \in Procs \ up' : ~watch'[r]
    <2>1. ASSUME NEW t, Works(t), NEW r \in Procs, r # task[t].proc
          PROVE  watch'[r] = watch[r]
      <3>1. \/ watch' = watch
            \/ \E b : watch' = [watch EXCEPT ![task[t].proc] = b]
        BY <2>1 DEF Works, Step, Serves, Load, Claim, Prepare, Execute, TurnEnds,
           Settle, Count, Update, Look, Row, SetTimer, SetRetry, Insert, Read, Write,
           Delete, List, Recover, Missed, GivesUp
      <3>. QED  BY <1>2, <2>1, <3>1 DEF TypeOK
    <2>2. ASSUME NEW t, Works(t)
          PROVE  \A r \in Procs \ up' : ~watch'[r]
      <3>1. up' = up /\ task[t].proc \in up
        BY <2>2, WorksFrame
      <3>. QED  BY Zenon, <2>1, <2>2, <3>1 DEF WatchInv
    <2>3. ASSUME NEW p \in Procs, Begins(p)
          PROVE  \A r \in Procs \ up' : ~watch'[r]
      <3>1. watch' = watch /\ up \subseteq up'
        BY <2>3 DEF Begins, Fire, RunNow, UpdateJob, RemoveJob, Resume, Restart
      <3>. QED  BY <3>1 DEF WatchInv
    <2>4. ASSUME NEW p \in Procs, Crash(p)
          PROVE  \A r \in Procs \ up' : ~watch'[r]
      <3>1. watch' = [watch EXCEPT ![p] = FALSE] /\ up' = up \ {p}
        BY <2>4 DEF Crash
      <3>2. \A r \in Procs : watch'[r] = IF r = p THEN FALSE ELSE watch[r]
        BY <1>2, <3>1 DEF TypeOK
      <3>. QED  BY <3>1, <3>2 DEF WatchInv
    <2>5. Quiet => \A r \in Procs \ up' : ~watch'[r]
      BY QuietFrame DEF WatchInv
    <2>. QED  BY <2>2, <2>3, <2>4, <2>5, NextCases
  <1>. SUFFICES ASSUME On', NEW r \in up', watch'[r]
                PROVE  Watched(r)'
    BY <1>3 DEF WatchInv
  <1>4. job.exists
    BY <1>2, CreatedAlone DEF On
  <1>5. On
    BY <1>4, WasOn
  <1>6. r \in Procs /\ (r \in up /\ watch[r] => Watched(r))
    BY <1>2, <1>5 DEF WatchInv
  <1>7. CASE Quiet
    <2>1. UNCHANGED <<task, up, timer, watch>>
      BY <1>7, QuietFrame
    <2>. QED  BY <1>6, <2>1 DEF Watched, Watching
  <1>8. ASSUME NEW p \in Procs, Begins(p)
        PROVE  Watched(r)'
    <2>1. PICK w, v : Begun(p, w, v)
      BY <1>8, BeginsWith
    <2>2. /\ w \in Workers /\ task[w].at = "idle"
          /\ task'[w] = v /\ \A u \in Workers \ {w} : task'[u] = task[u]
      BY <1>8, <2>1, TaskBegins DEF Begun
    <2>3. watch' = watch
      BY <1>8 DEF Begins, Fire, RunNow, UpdateJob, RemoveJob, Resume, Restart
    <2>4. watch[r]
      BY <2>3
    <2>5. Watched(r)
      BY Zenon, <1>6, <2>4 DEF WatchInv
    <2>6. ASSUME NEW u \in Workers, task[u].proc = r, Watching(task[u])
          PROVE  task'[u].proc = r /\ Watching(task'[u])
      <3>1. task[w].proc = NoProc /\ NoProc \notin Procs
        BY <2>2, CronAssumption DEF TypeInv, TaskInv, Shaped
      <3>. QED  BY <1>6, <2>2, <2>6, <3>1
    <2>7. ASSUME timer'[r] = timer[r]
          PROVE  Watched(r)'
      BY <2>5, <2>6, <2>7 DEF Watched, Watching
    <2>8. ASSUME r = p, v.proc = p, Watching(v)
          PROVE  Watched(r)'
      BY <2>2, <2>8 DEF Watched, Watching
    <2>9. v.proc = p /\ v.at # "count"
      BY <2>1 DEF Begun
    <2>10. CASE Fire(p) /\ v.what = "tick"
      <3>1. r # p => timer'[r] = timer[r]
        BY <1>2, <1>6, <2>10 DEF Fire, TypeOK
      <3>. QED  BY <2>7, <2>8, <2>9, <2>10, <3>1 DEF Watching
    <2>11. CASE RemoveJob(p) /\ v.what = "remove"
      <3>1. r # p => timer'[r] = timer[r]
        BY <1>2, <1>6, <2>11 DEF RemoveJob, TypeOK
      <3>. QED  BY <2>7, <2>8, <2>9, <2>11, <3>1 DEF Watching
    <2>12. CASE RunNow(p) \/ UpdateJob(p) \/ Resume(p) \/ Restart(p)
      BY <2>7, <2>12 DEF RunNow, UpdateJob, Resume, Restart
    <2>. QED  BY <2>1, <2>10, <2>11, <2>12 DEF Begun
  <1>9. ASSUME NEW p \in Procs, Crash(p)
        PROVE  Watched(r)'
    <2>1. /\ up' = up \ {p} /\ timer' = [timer EXCEPT ![p] = NoTimer]
          /\ watch' = [watch EXCEPT ![p] = FALSE]
          /\ task' = [t \in Workers |-> IF task[t].proc = p THEN Idle ELSE task[t]]
      BY <1>9 DEF Crash
    <2>2. r # p /\ r \in up /\ timer'[r] = timer[r] /\ watch'[r] = watch[r]
      BY <1>2, <1>6, <2>1 DEF TypeOK
    <2>3. Watched(r)
      BY <1>6, <2>2
    <2>4. ASSUME NEW u \in Workers, task[u].proc = r
          PROVE  task'[u] = task[u]
      BY <2>1, <2>2, <2>4
    <2>. QED  BY <2>2, <2>3, <2>4 DEF Watched, Watching
  <1>. QED  BY <1>5, <1>7, <1>8, <1>9, WatchWorks, NextCases

(* A process that has set a timer for a job that is on does not forget it  *)
(* unless a failed database call made it (reschedule_after_execution,      *)
(* handle_busy, init, handle_system_resume, update_job and remove_job of   *)
(* service.rs): it has a timer, or a tick or a removal under way, through  *)
(* any number of ticks, deferred runs, resumes with stale rows, renames,   *)
(* restarts and concurrent processes.                                      *)
THEOREM WatchCorrect == Spec => []JobIsWatched
  <1>1. Init => ReadyInv /\ LeaseInv /\ WatchInv
    <2>. SUFFICES ASSUME Init
                  PROVE  ReadyInv /\ LeaseInv /\ WatchInv
      OBVIOUS
    <2>1. PICK s \in Schedules :
            job = [exists |-> FALSE, enabled |-> TRUE, sched |-> s, next |-> 1,
                   retry |-> 0, queue |-> s \in Queued]
      BY DEF Init
    <2>2. ~job.exists
      BY <2>1
    <2>3. watch = [p \in Procs |-> FALSE]
      BY DEF Init
    <2>4. \A p \in Procs : watch[p] = FALSE
      BY <2>3
    <2>5. ReadyInv /\ LeaseInv
      BY <2>2 DEF ReadyInv, LeaseInv, On
    <2>. QED  BY Zenon, <2>2, <2>4, <2>5 DEF WatchInv, On
  <1>2. Spec => [](TypeInv /\ LeaseInv /\ ReadyInv /\ WatchInv)
    BY <1>1, TypeInvInit, TypeInvStep, LeaseStep, ReadyStep, WatchStep, PTL DEF Spec
  <1>3. WatchInv => JobIsWatched
    BY DEF WatchInv, JobIsWatched, On, Watched, Watching
  <1>. QED  BY <1>2, <1>3, PTL

==============================================================================
