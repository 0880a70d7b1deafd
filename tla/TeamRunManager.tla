---------------------------- MODULE TeamRunManager ---------------------------
(***************************************************************************)
(* TeamRunManager (crates/aionui-team/src/team_run/manager.rs): the at     *)
(* most one user-visible run of a team session.  The manager has its own   *)
(* mutex and holds one Option<TeamRunRecord>; each operator below is what  *)
(* one critical section does to that record.                               *)
(*                                                                         *)
(* Run ids (generate_id) are numbered in the order they are generated.     *)
(* The fields that only decorate the payload (source, target, timestamps,  *)
(* cancel reason, user-intervention flag, the last summary) are left out.  *)
(***************************************************************************)
EXTENDS Naturals

CONSTANT MaxRuns       \* how many runs a behaviour may create

ASSUME MaxRunsAssumption == MaxRuns \in Nat

RunIds == 1 .. MaxRuns
NoRun  == 0            \* team_run_id: None

ActiveStatus == {"Accepted", "Running", "Cancelling"}
RunStatus    == ActiveStatus \cup {"Completed", "Failed", "Cancelled", "None"}

(* TeamRunRecord; the record with id NoRun stands for the Option's None.   *)
TeamRunRecord ==
  [id : RunIds \cup {NoRun}, status : RunStatus, accepted : BOOLEAN]

NoRunRecord == [id |-> NoRun, status |-> "None", accepted |-> FALSE]

(* RunWorkSummary, reduced to what apply_work_summary looks at: does the   *)
(* run have a failed intent, a running batch, any unfinished work or lease *)
(* at all (the negation of no_work).                                       *)
RunWorkSummary ==
  [run : RunIds \cup {NoRun}, failed : BOOLEAN, running : BOOLEAN,
   work : BOOLEAN]

IsActive(r) == r.status \in ActiveStatus

CurrentActiveRunId(r) == IF IsActive(r) THEN r.id ELSE NoRun

(* Mutant: every user enqueue opens a run.                                 *)
BindAlwaysFresh(r, fresh) ==
  [id |-> fresh, status |-> "Accepted", accepted |-> FALSE]

(* bind_user_enqueue: join the active run, or replace the record by a new  *)
(* run whose acceptance has not been announced yet.                        *)
BindUserEnqueue(r, fresh) ==
  IF IsActive(r)
  THEN r
  ELSE [id |-> fresh, status |-> "Accepted", accepted |-> FALSE]

(* The status apply_work_summary gives to a run.                           *)
StatusAfter(r, s) ==
  CASE s.failed            -> "Failed"
    [] ~s.failed /\ ~s.work -> IF r.status = "Cancelling" THEN "Cancelled"
                                                          ELSE "Completed"
    [] ~s.failed /\ s.work  -> IF s.running THEN "Running" ELSE r.status

(* apply_work_summary: ignored unless the summary is about this run.       *)
ApplyWorkSummary(r, s) ==
  IF r.id = NoRun \/ r.id # s.run
  THEN r
  ELSE [id |-> r.id, status |-> StatusAfter(r, s), accepted |-> TRUE]

(* begin_cancel, for a run that is active.                                 *)
BeginCancelOf(r) == [r EXCEPT !.status = "Cancelling"]

(* abort_binding: forget the run the aborted lease was bound to.           *)
AbortBinding(r, id) == IF r.id # NoRun /\ r.id = id THEN NoRunRecord ELSE r
==============================================================================
