-------------------------- MODULE ConversationTurns ---------------------------
(***************************************************************************)
(* The turns of one conversation (crates/aionui-conversation/src): requests *)
(* for a turn (send_message_inner of a user, run_agent_turn of a cron job, *)
(* run_agent_turn of a team, whose adapter waits for a busy conversation), *)
(* the orchestrator and the stream relay that carry one out                *)
(* (turn_orchestrator.rs, stream_relay.rs), user cancellations with their  *)
(* drain timer, deletions, and the shutdown of the server.  Each step is   *)
(* what a task does between two awaits, and the tasks run in parallel: two *)
(* calls of the runtime state are two steps where it matters (cancel).     *)
(*                                                                         *)
(* The agent is external: it shows output or not, ends its stream in any   *)
(* way, or hangs until it is killed.  The task manager (WorkerTaskManager) *)
(* is reduced to the one agent it holds for the conversation.              *)
(***************************************************************************)
EXTENDS ConversationRuntime

CONSTANTS Cancels,     \* calls of cancel
          Deletes,     \* calls of delete
          Callers,     \* who may make the requests: a set of functions
          MaxUpsets    \* bound: cancellations, deletions and shutdowns

ASSUME CallersAssumption ==
  Callers \subseteq [Requests -> {"user", "cron", "team"}]

VARIABLES
  caller,   \* caller[r]: who makes the request; send_message refuses a user
            \* in a conversation of a team
  row,      \* the conversation's row exists
  agent,    \* the task map holds an agent for the conversation
  killed,   \* the agent the active turn got was killed
  req,      \* req[r]: a request for a turn, and the turn once it is claimed;
            \* seen: the user was shown some of it, told: errors shown (history)
  cancel,   \* cancel[k]: a call of cancel and the turn it names
  del       \* del[d]: a call of delete, had: there was an active turn

turnVars == <<caller, row, agent, killed, req, cancel, del>>
vars == <<runtimeVars, turnVars>>

(* The stages of a turn that holds the claim, in order.                    *)
Holding == {"insert", "build", "send", "relay", "settle", "decide",
            "tell", "evict", "release"}
Waiting == {"arm", "check", "asleep"}
Stages  == {"new", "start", "claim"} \cup Holding \cup Waiting
             \cup {"notify", "done"}

NewRequest == [at |-> "new", lifecycle |-> "Active", count |-> 0, replayed |-> FALSE,
               clean |-> TRUE, spoke |-> FALSE, defer |-> FALSE, deferred |-> FALSE,
               terminal |-> "Finish", responses |-> FALSE, failed |-> FALSE,
               woken |-> FALSE, seen |-> FALSE, told |-> 0]

Init ==
  /\ RuntimeInit
  /\ caller \in Callers
  /\ row = TRUE /\ agent = FALSE /\ killed = FALSE
  /\ req = [r \in Requests |-> NewRequest]
  /\ cancel = [k \in Cancels |-> [at |-> "new", turn |-> NoTurn]]
  /\ del = [d \in Deletes |-> [at |-> "new", had |-> FALSE]]

Upsets == Cardinality({k \in Cancels : cancel[k].at # "new"})
            + Cardinality({d \in Deletes : del[d].at # "new"})
            + IF shuttingDown THEN 1 ELSE 0

Goto(r, at) == req' = [req EXCEPT ![r].at = at]

(* Errors shown with the failure tip, if the policy and the row let it be  *)
(* stored.                                                                 *)
Tip(r) == req[r].told + IF Allows("SendFailureTip") /\ row THEN 1 ELSE 0

(* kill and kill_and_wait: whatever agent the map holds.                   *)
KillAgent == agent' = FALSE /\ killed' = (killed \/ agent)

------------------------------------------------------------------------------
(* Claiming a turn.                                                        *)

Lookup(r) ==
  /\ req[r].at \in {"new", "start"}
  /\ Goto(r, IF row THEN "claim" ELSE "done")
  /\ UNCHANGED <<runtimeVars, caller, row, agent, killed, cancel, del>>

(* The team adapter stores no user message; it retries one refusal.        *)
Claim(r) ==
  /\ req[r].at = "claim"
  /\ \/ /\ TryClaimTurn(r)
        /\ Goto(r, IF caller[r] = "team" THEN "build" ELSE "insert")
     \/ /\ ~MayClaim
        /\ Goto(r, IF caller[r] = "team" /\ AlreadyRunning THEN "arm"
                                                           ELSE "done")
        /\ UNCHANGED runtimeVars
  /\ UNCHANGED <<caller, row, agent, killed, cancel, del>>

(* wait_until_unclaimed: register for the notification, look, sleep.       *)
Arm(r) ==
  /\ req[r].at = "arm"
  /\ req' = [req EXCEPT ![r].at = "check", ![r].woken = FALSE]
  /\ UNCHANGED <<runtimeVars, caller, row, agent, killed, cancel, del>>

(* Mutant: waits for a release without a look at the claim first.          *)
SleepUnseeing(r) ==
  /\ req[r].at = "check"
  /\ Goto(r, "asleep")
  /\ UNCHANGED <<runtimeVars, caller, row, agent, killed, cancel, del>>

Check(r) ==
  /\ req[r].at = "check"
  /\ Goto(r, IF turn = NoTurn THEN "start" ELSE "asleep")
  /\ UNCHANGED <<runtimeVars, caller, row, agent, killed, cancel, del>>

WakeUp(r) ==
  /\ req[r].at = "asleep" /\ req[r].woken
  /\ Goto(r, "arm")
  /\ UNCHANGED <<runtimeVars, caller, row, agent, killed, cancel, del>>

(* The user message is not stored in a cancelling conversation: a user's   *)
(* turn ends there, a cron job's goes on.  A row that is gone fails the    *)
(* insert and drops the claim.                                             *)
Insert(r) ==
  /\ req[r].at = "insert"
  /\ Goto(r, IF IF Allows("UserMessage") THEN row ELSE caller[r] = "cron"
             THEN "build" ELSE "release")
  /\ UNCHANGED <<runtimeVars, caller, row, agent, killed, cancel, del>>

------------------------------------------------------------------------------
(* An attempt: run_attempt.                                                *)

(* get_or_build_task: the agent of the map, or a new one.                  *)
Build(r) ==
  /\ req[r].at = "build"
  /\ agent' = TRUE /\ killed' = FALSE
  /\ req' = [req EXCEPT ![r].at = "send", ![r].count = 0]
  /\ UNCHANGED <<runtimeVars, caller, row, cancel, del>>

(* The options or the build fail; so may the workspace of a built agent,  *)
(* or the mode a cron job asks for before every message.                   *)
BuildFails(r) ==
  /\ \/ req[r].at = "build"
     \/ req[r].at = "send" /\ (req[r].count = 0 \/ caller[r] = "cron")
  /\ req' = [req EXCEPT ![r].at = "release", ![r].failed = TRUE, ![r].told = Tip(r)]
  /\ UNCHANGED <<runtimeVars, caller, row, agent, killed, cancel, del>>

(* The lifecycle is read here, before the relay runs, and used after it.   *)
Send(r) ==
  /\ req[r].at = "send"
  /\ req' = [req EXCEPT ![r].at = "relay", ![r].lifecycle = Lifecycle,
                        ![r].spoke = FALSE,
                        ![r].defer = /\ ~req[r].replayed
                                     /\ Lifecycle = "Active"
                                     /\ req[r].clean]
  /\ UNCHANGED <<runtimeVars, caller, row, agent, killed, cancel, del>>

(* A text, a thought, a tool call: skipped while the row is being deleted. *)
Output(r) ==
  /\ req[r].at = "relay" /\ ~req[r].spoke
  /\ ~deleting
  /\ req' = [req EXCEPT ![r].spoke = TRUE, ![r].seen = TRUE]
  /\ UNCHANGED <<runtimeVars, caller, row, agent, killed, cancel, del>>

(* Mutant: the summary of the last relay replaces the turn's.              *)
RelayForgets(r, terminal, responses) ==
  LET deferred == req[r].defer /\ terminal = "Retryable" /\ ~req[r].spoke
  IN  /\ req[r].at = "relay"
      /\ responses => req[r].spoke /\ ~deleting
      /\ req' = [req EXCEPT
           ![r].at = "settle", ![r].terminal = terminal, ![r].responses = responses,
           ![r].deferred = deferred, ![r].clean = ~req[r].spoke,
           ![r].spoke = FALSE, ![r].defer = FALSE,
           ![r].told = IF IsError(terminal) /\ ~deferred THEN @ + 1 ELSE @]
      /\ UNCHANGED <<runtimeVars, caller, row, agent, killed, cancel, del>>

(* The stream ends, or the send fails and its error is injected.  A clean  *)
(* retryable error is held back for a replay; system responses come from   *)
(* text that was shown.                                                    *)
RelayEnds(r, terminal, responses) ==
  LET deferred == req[r].defer /\ terminal = "Retryable" /\ ~req[r].spoke
  IN  /\ req[r].at = "relay"
      /\ responses => req[r].spoke /\ ~deleting
      /\ req' = [req EXCEPT
           ![r].at = "settle", ![r].terminal = terminal, ![r].responses = responses,
           ![r].deferred = deferred, ![r].clean = @ /\ ~req[r].spoke,
           ![r].spoke = FALSE, ![r].defer = FALSE,
           ![r].told = IF IsError(terminal) /\ ~deferred THEN @ + 1 ELSE @]
      /\ UNCHANGED <<runtimeVars, caller, row, agent, killed, cancel, del>>

(* After the session key was stored: continue with the system responses.   *)
Settle(r) ==
  LET q == req[r]
  IN  /\ q.at = "settle"
      /\ req' = [req EXCEPT ![r] =
                   IF Continues(q.lifecycle, q.terminal, q.responses, q.count)
                   THEN [q EXCEPT !.at = "send", !.count = @ + 1,
                                  !.responses = FALSE, !.terminal = "Finish"]
                   ELSE [q EXCEPT !.at = "decide", !.count = 0,
                                  !.responses = FALSE, !.lifecycle = "Active"]]
      /\ UNCHANGED <<runtimeVars, caller, row, agent, killed, cancel, del>>

(* run_user_turn after an attempt: a fresh lifecycle says whether to       *)
(* replay once, on a new agent, or to end the turn.                        *)
Decide(r) ==
  LET q == req[r]
      replay == AutoReplays(Lifecycle, q.terminal, q.clean, q.replayed)
  IN  /\ q.at = "decide"
      /\ req' = [req EXCEPT ![r] =
           IF replay
           THEN [q EXCEPT !.at = "evict", !.replayed = TRUE, !.deferred = FALSE]
           ELSE IF IsError(q.terminal)
           THEN [q EXCEPT !.at = "tell", !.failed = TRUE, !.lifecycle = Lifecycle]
           ELSE [q EXCEPT !.at = "release"]]
      /\ UNCHANGED <<runtimeVars, caller, row, agent, killed, cancel, del>>

(* Mutant: the tip does not ask whether the error was held back.           *)
TellAgain(r) ==
  /\ req[r].at = "tell"
  /\ req' = [req EXCEPT
       ![r].told = Tip(r),
       ![r].at = IF Evicts(req[r].lifecycle, req[r].terminal) THEN "evict"
                                                             ELSE "release"]
  /\ UNCHANGED <<runtimeVars, caller, row, agent, killed, cancel, del>>

(* An error that was held back is shown now.                               *)
Tell(r) ==
  /\ req[r].at = "tell"
  /\ req' = [req EXCEPT
       ![r].told = IF req[r].deferred THEN Tip(r) ELSE @,
       ![r].at = IF Evicts(req[r].lifecycle, req[r].terminal) THEN "evict"
                                                             ELSE "release"]
  /\ UNCHANGED <<runtimeVars, caller, row, agent, killed, cancel, del>>

(* evict_acp_task_after_terminal_error                                     *)
Evict(r) ==
  /\ req[r].at = "evict"
  /\ KillAgent
  /\ Goto(r, IF req[r].failed THEN "release" ELSE "build")
  /\ UNCHANGED <<runtimeVars, caller, row, cancel, del>>

------------------------------------------------------------------------------
(* Ending a turn.                                                          *)

Release(r) ==
  /\ req[r].at = "release"
  /\ req' = [req EXCEPT ![r] = [NewRequest EXCEPT !.at = "notify",
                                                 !.failed = req[r].failed,
                                                 !.told = req[r].told]]
  /\ ReleaseTurn(r)
  /\ UNCHANGED <<caller, row, agent, killed, cancel, del>>

(* notify_waiters, after the lock is dropped; turn.completed, which is     *)
(* broadcast next, changes nothing here.                                   *)
Notify(r) ==
  /\ req[r].at = "notify"
  /\ req' = [q \in Requests |->
               IF q = r THEN [NewRequest EXCEPT !.at = "done"]
               ELSE [req[q] EXCEPT !.woken = @ \/ req[q].at \in {"check", "asleep"}]]
  /\ UNCHANGED <<runtimeVars, caller, row, agent, killed, cancel, del>>

------------------------------------------------------------------------------
(* cancel: of the turn the user saw, if it is the active one and has an    *)
(* agent.                                                                  *)

CancelTurn(k, r) ==
  /\ cancel[k].at = "new" /\ row /\ Upsets < MaxUpsets
  /\ req[r].at \in Holding \cup {"notify", "done"}
  /\ cancel' = [cancel EXCEPT ![k] =
       [at |-> IF turn = r /\ agent THEN "mark" ELSE "done", turn |-> r]]
  /\ UNCHANGED <<runtimeVars, caller, row, agent, killed, req, del>>

CancelMarks(k) ==
  /\ cancel[k].at = "mark"
  /\ MarkCancelling
  /\ cancel' = [cancel EXCEPT ![k].at = "ask"]
  /\ UNCHANGED <<caller, row, agent, killed, req, del>>

CancelAsks(k) ==
  /\ cancel[k].at = "ask"
  /\ \/ /\ cancel' = [cancel EXCEPT ![k].at = "drain"]
        /\ UNCHANGED runtimeVars
     \/ /\ cancel' = [cancel EXCEPT ![k].at = "failed"]
        /\ ClearCancelling
  /\ UNCHANGED <<caller, row, agent, killed, req, del>>

(* ACP_CANCEL_DRAIN_TIMEOUT has passed.                                    *)
DrainTimeout(k) ==
  /\ cancel[k].at = "drain"
  /\ cancel' = [cancel EXCEPT ![k].at =
                  IF turn = cancel[k].turn /\ cancelling THEN "kill" ELSE "done"]
  /\ UNCHANGED <<runtimeVars, caller, row, agent, killed, req, del>>

(* Mutant: the drain timer only reports.                                   *)
CancelWarns(k) ==
  /\ cancel[k].at = "kill"
  /\ cancel' = [cancel EXCEPT ![k].at = "done"]
  /\ UNCHANGED <<runtimeVars, caller, row, agent, killed, req, del>>

(* The turn will still get itself an agent, its first or a replay's.       *)
GetsAgent(r) == \/ req[r].at \in {"insert", "build"}
                \/ req[r].at = "evict" /\ ~req[r].failed

CancelKills(k) ==
  /\ cancel[k].at = "kill"
  /\ KillAgent
  /\ cancel' = [cancel EXCEPT ![k].at =
                  IF GetsAgent(cancel[k].turn) THEN "early" ELSE "done"]
  /\ UNCHANGED <<runtimeVars, caller, row, req, del>>

------------------------------------------------------------------------------
(* delete: mark, run the hooks (the task manager's kills the agent),       *)
(* delete the row, and clear the mark unless an active turn will.          *)

DeleteMarks(d) ==
  /\ del[d].at = "new" /\ row /\ Upsets < MaxUpsets
  /\ MarkDeleting
  /\ del' = [del EXCEPT ![d] = [at |-> "hooks", had |-> turn # NoTurn]]
  /\ UNCHANGED <<caller, row, agent, killed, req, cancel>>

DeleteHooks(d) ==
  /\ del[d].at = "hooks"
  /\ KillAgent
  /\ del' = [del EXCEPT ![d].at = "row"]
  /\ UNCHANGED <<runtimeVars, caller, row, req, cancel>>

DeleteRow(d) ==
  /\ del[d].at = "row"
  /\ \/ /\ row' = FALSE
        /\ UNCHANGED runtimeVars
        /\ del' = [del EXCEPT ![d].at = IF del[d].had THEN "done" ELSE "clear"]
     \/ /\ ClearDeleting
        /\ UNCHANGED row
        /\ del' = [del EXCEPT ![d].at = "failed"]
  /\ UNCHANGED <<caller, agent, killed, req, cancel>>

DeleteClears(d) ==
  /\ del[d].at = "clear"
  /\ ClearDeleting
  /\ del' = [del EXCEPT ![d].at = "done"]
  /\ UNCHANGED <<caller, row, agent, killed, req, cancel>>

(* The server shuts down: no new turns, then every agent is killed.        *)
Shutdown ==
  /\ ~shuttingDown /\ Upsets < MaxUpsets
  /\ MarkShuttingDown
  /\ UNCHANGED turnVars

ShutdownKills ==
  /\ shuttingDown /\ agent
  /\ KillAgent
  /\ UNCHANGED <<runtimeVars, caller, row, req, cancel, del>>

------------------------------------------------------------------------------
(* What the tasks of a request do by themselves; a relay ends by itself    *)
(* only when its agent was killed.                                         *)
Proceeds(r) ==
  \/ req[r].at = "start" /\ Lookup(r)
  \/ Claim(r) \/ Arm(r) \/ Check(r) \/ WakeUp(r) \/ Insert(r)
  \/ Build(r) \/ BuildFails(r) \/ Send(r) \/ Settle(r) \/ Decide(r)
  \/ Tell(r) \/ Evict(r)
  \/ Release(r) \/ Notify(r)
  \/ /\ killed
     /\ \E t \in Terminals, b \in BOOLEAN : RelayEnds(r, t, b)

Turns(r) ==
  \/ Lookup(r)
  \/ Proceeds(r)
  \/ Output(r)
  \/ \E t \in Terminals, b \in BOOLEAN : RelayEnds(r, t, b)

CancelProceeds(k) ==
  CancelMarks(k) \/ CancelAsks(k) \/ DrainTimeout(k) \/ CancelKills(k)

DeleteProceeds(d) == DeleteHooks(d) \/ DeleteRow(d) \/ DeleteClears(d)

Next ==
  \/ \E r \in Requests : Turns(r)
  \/ \E k \in Cancels : CancelProceeds(k) \/ \E r \in Requests : CancelTurn(k, r)
  \/ \E d \in Deletes : DeleteMarks(d) \/ DeleteProceeds(d)
  \/ Shutdown \/ ShutdownKills

Spec == Init /\ [][Next]_vars

(* Spawned tasks are polled until they end and timers fire; agents may     *)
(* hang, and nobody has to ask for anything.                               *)
FairSpec == /\ Spec
            /\ WF_vars(\/ \E r \in Requests : Proceeds(r)
                       \/ \E k \in Cancels : CancelProceeds(k)
                       \/ \E d \in Deletes : DeleteProceeds(d))

------------------------------------------------------------------------------
Request == [at : Stages, lifecycle : Lifecycles, count : 0 .. MaxContinuations,
            replayed : BOOLEAN, clean : BOOLEAN, spoke : BOOLEAN, defer : BOOLEAN,
            deferred : BOOLEAN, terminal : Terminals, responses : BOOLEAN,
            failed : BOOLEAN, woken : BOOLEAN, seen : BOOLEAN, told : Nat]

CancelCall == [at : {"new", "mark", "ask", "drain", "kill", "early", "done", "failed"},
               turn : Requests \cup {NoTurn}]
DeleteCall == [at : {"new", "hooks", "row", "clear", "done", "failed"},
               had : BOOLEAN]

(* Every variable has the type of the field it models; a turn continues at *)
(* most MaxContinuations times.                                            *)
TypeOK ==
  /\ turn \in Requests \cup {NoTurn} /\ caller \in Callers
  /\ deleting \in BOOLEAN /\ cancelling \in BOOLEAN /\ shuttingDown \in BOOLEAN
  /\ row \in BOOLEAN /\ agent \in BOOLEAN /\ killed \in BOOLEAN
  /\ req \in [Requests -> Request]
  /\ cancel \in [Cancels -> CancelCall]
  /\ del \in [Deletes -> DeleteCall]

(* A conversation runs one turn at a time, and the claim names it: however *)
(* claims, releases, deletions and retries interleave, the stages that     *)
(* talk to the agent and write messages belong to the active turn alone.   *)
OneTurnAtATime == \A r \in Requests : req[r].at \in Holding <=> turn = r

(* A conversation is never left marked as being deleted: the mark stands   *)
(* only while a deletion is under way or a turn is there to clear it.      *)
DeletingMarkIsOwned ==
  deleting => \/ turn # NoTurn
              \/ \E d \in Deletes : del[d].at \in {"hooks", "row", "clear"}

(* A turn is replayed only if the user has seen nothing of it, over all    *)
(* its continuations.                                                      *)
ReplayIsUnseen == [][\A r \in Requests :
                       req'[r].replayed /\ ~req[r].replayed => ~req[r].seen]_vars

(* Nobody has cancelled, deleted or shut anything down.                    *)
Undisturbed == /\ \A k \in Cancels : cancel[k].at = "new"
               /\ \A d \in Deletes : del[d].at = "new"
               /\ ~shuttingDown

(* A cancellation or deletion that failed took its mark back.              *)
Withdrawn == \/ \E k \in Cancels : cancel[k].at = "failed"
             \/ \E d \in Deletes : del[d].at = "failed"

(* The user is told of a failed turn once: an error held back for a replay *)
(* is shown when there is none, hidden when the replay succeeds, and never *)
(* shown twice.  A cancelled, deleted or shut down turn may end silently;  *)
(* one whose cancellation or deletion failed half way is not covered.      *)
ErrorToldOnce ==
  \A r \in Requests : ~Withdrawn =>
    /\ req[r].told <= 1
    /\ req[r].at = "notify" /\ ~req[r].failed => req[r].told = 0
    /\ req[r].at = "notify" /\ req[r].failed /\ Undisturbed => req[r].told = 1

(* wait_until_unclaimed misses no release: who sleeps sleeps for a turn    *)
(* that is still active, or is about to be woken.                          *)
NoMissedRelease ==
  \A r \in Requests : req[r].at = "asleep" =>
    \/ turn # NoTurn \/ req[r].woken
    \/ \E q \in Requests : req[q].at = "notify"

(* A cancelled turn ends even if its agent ignores the request: the drain  *)
(* timer kills the agent, unless it fires before the turn, or its replay,  *)
(* got the agent.                                                          *)
CancelEndsTurn ==
  \A k \in Cancels, r \in Requests :
    cancel[k].at = "drain" /\ cancel[k].turn = r
      ~> turn # r \/ cancel[k].at = "early"

------------------------------------------------------------------------------
(* "the WebSocket stream, DB row, and client-side message index all agree" *)
(* (send_message_inner): a sent message is stored, unless its conversation *)
(* is gone or the message itself was cancelled.                            *)
SentIsStored ==
  [][\A r \in Requests : req[r].at = "insert" /\ req'[r].at = "release"
       => ~row \/ \E k \in Cancels : cancel[k].turn = r]_vars
==============================================================================
