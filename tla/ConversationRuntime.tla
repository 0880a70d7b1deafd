-------------------------- MODULE ConversationRuntime --------------------------
(***************************************************************************)
(* ConversationRuntimeStateService and the policies that read it           *)
(* (crates/aionui-conversation/src/runtime_state.rs,                       *)
(* runtime_persistence.rs, turn_continuation_policy.rs,                    *)
(* turn_recovery_policy.rs, agent_health_policy.rs), for one conversation. *)
(* Everything is under one mutex, so each method is atomic.  The agent is  *)
(* an ACP agent; the other kind is neither replayed, evicted nor killed by *)
(* the drain timer.                                                        *)
(***************************************************************************)
EXTENDS Naturals, FiniteSets

CONSTANTS Requests,          \* requests for a turn, each with its own turn id
          NoTurn,            \* active_turns has no entry
          MaxContinuations   \* MAX_SYSTEM_RESPONSE_CONTINUATIONS_PER_TURN

ASSUME RuntimeAssumption == NoTurn \notin Requests /\ MaxContinuations \in Nat

VARIABLES
  turn,          \* active_turns
  deleting,      \* deleting_conversations
  cancelling,    \* cancelling_conversations
  shuttingDown   \* shutting_down

runtimeVars == <<turn, deleting, cancelling, shuttingDown>>

RuntimeInit == /\ turn = NoTurn
               /\ deleting = FALSE /\ cancelling = FALSE
               /\ shuttingDown = FALSE

Lifecycles == {"Active", "Cancelling", "Deleting", "ShuttingDown"}

(* lifecycle_for                                                           *)
Lifecycle == CASE shuttingDown                              -> "ShuttingDown"
               [] ~shuttingDown /\ deleting                 -> "Deleting"
               [] ~shuttingDown /\ ~deleting /\ cancelling  -> "Cancelling"
               [] ~shuttingDown /\ ~deleting /\ ~cancelling -> "Active"

(* Mutant: a turn that is running does not reject the claim.               *)
MayClaimOver == ~shuttingDown /\ ~deleting

(* try_claim_turn                                                          *)
MayClaim == ~shuttingDown /\ ~deleting /\ turn = NoTurn

TryClaimTurn(r) ==
  /\ MayClaim
  /\ turn' = r
  /\ UNCHANGED <<deleting, cancelling, shuttingDown>>

(* Busy with "already running", the one refusal the team adapter retries.  *)
AlreadyRunning == ~shuttingDown /\ ~deleting /\ turn # NoTurn

(* Mutant: the marks outlive the turn.                                     *)
ReleaseKeepingMarks(r) ==
  /\ turn' = IF turn = r THEN NoTurn ELSE turn
  /\ UNCHANGED <<deleting, cancelling, shuttingDown>>

(* release: ignored unless r is the active turn; clears both marks.        *)
ReleaseTurn(r) ==
  /\ IF turn = r THEN turn' = NoTurn /\ deleting' = FALSE /\ cancelling' = FALSE
                 ELSE UNCHANGED <<turn, deleting, cancelling>>
  /\ UNCHANGED shuttingDown

MarkDeleting   == deleting' = TRUE /\ UNCHANGED <<turn, cancelling, shuttingDown>>
ClearDeleting  == deleting' = FALSE /\ UNCHANGED <<turn, cancelling, shuttingDown>>
MarkCancelling == cancelling' = TRUE /\ UNCHANGED <<turn, deleting, shuttingDown>>
ClearCancelling ==
  cancelling' = FALSE /\ UNCHANGED <<turn, deleting, shuttingDown>>
MarkShuttingDown ==
  shuttingDown' = TRUE /\ UNCHANGED <<turn, deleting, cancelling>>

------------------------------------------------------------------------------
(* RuntimePersistenceCoordinator::decide.  Stream stands for every kind of *)
(* write the relay makes, SendFailureTip for it and the recovery writes.   *)
WriteKind == {"UserMessage", "Stream", "ConversationFinished",
              "SendFailureTip"}

Allows(kind) ==
  \/ Lifecycle = "Active"
  \/ Lifecycle \in {"Deleting", "ShuttingDown"} /\ kind = "UserMessage"
  \/ Lifecycle = "Cancelling" /\ kind \in {"Stream", "ConversationFinished"}

(* How a relay ends: RelayTerminal with the error's retryable flag.  A     *)
(* model that is not found is Fatal whatever its flag says: it is neither  *)
(* held back nor replayed.                                                 *)
Terminals == {"Finish", "ChannelClosed", "Retryable", "Fatal"}
IsError(terminal) == terminal \in {"Retryable", "Fatal"}

(* Mutant: the limit is checked one continuation too late.                 *)
ContinuesOnceMore(lifecycle, terminal, responses, count) ==
  /\ lifecycle = "Active"
  /\ ~IsError(terminal)
  /\ responses
  /\ count <= MaxContinuations

(* TurnContinuationPolicy::decide                                          *)
Continues(lifecycle, terminal, responses, count) ==
  /\ lifecycle = "Active"
  /\ ~IsError(terminal)
  /\ responses
  /\ count < MaxContinuations

(* TurnRecoveryPolicy::decide                                              *)
AutoReplays(lifecycle, terminal, clean, replayed) ==
  /\ lifecycle = "Active"
  /\ terminal = "Retryable"
  /\ clean
  /\ ~replayed

(* AgentHealthPolicy::decide                                               *)
Evicts(lifecycle, terminal) ==
  lifecycle \notin {"Deleting", "ShuttingDown"} /\ IsError(terminal)
==============================================================================
