--------------------------- MODULE MemberLifecycle ---------------------------
(***************************************************************************)
(* The life of the members of a team session: the attach tasks             *)
(* (crates/aionui-team/src/session.rs, attach_member_runtime), the calls   *)
(* of remove_agent, add_agent, ensure_session and stop_session (service.rs)*)
(* and the bootstrap of a session that replaces a stopped one, on top of   *)
(* MemberRuntimeRegistry, the EventLoopRegistry (event_loop.rs) and the    *)
(* agents of the members' conversations.                                   *)
(*                                                                         *)
(* The registry, the event loops and the attach tasks are those of one     *)
(* session, "A".  When it has stopped, ensure_session may bootstrap        *)
(* session "B"; of B only the agents it builds are modelled.               *)
(*                                                                         *)
(* A task's program counter names the next step of the function it runs.   *)
(* A step ends where the function awaits or leaves a critical section.     *)
(* The membership lock (add_agent_locks) is held over awaits only by the   *)
(* bootstrap, which holds the ensure lock (ensure_session_locks) too; a    *)
(* stale cleanup holds the ensure lock while it waits.                     *)
(*                                                                         *)
(* Agents live in cells, as in WorkerTaskManager: slot[m] is the cell the  *)
(* task manager's map has for m's conversation, and a task that got hold   *)
(* of a cell keeps it.  No turn of a conversation builds an agent here,    *)
(* spawn_agent is not modelled, and an attach or a removal whose task is   *)
(* dropped half-way, slot constraints, notifications and status events are *)
(* left out.                                                               *)
(***************************************************************************)
EXTENDS MemberRuntimeRegistry, FiniteSets

CONSTANTS Initial,      \* the members session A was bootstrapped with
          Removers,     \* the tasks that call remove_agent
          Faults,       \* the database calls that may fail
          MaxEvictions, \* how many agents are evicted from outside
          MaxBoots      \* how often a replacement session is bootstrapped

ASSUME LifecycleAssumption ==
  /\ Members # {}
  /\ Initial \subseteq Members /\ IsFiniteSet(Initial)
  /\ Faults \subseteq {"persist", "load", "welcome", "delete"}
  /\ MaxEvictions \in Nat
  /\ MaxBoots \in Nat

NoCell == 0

Cell == [member : Members, state : {"empty", "building", "built"},
         dead : BOOLEAN, by : {"A", "B"}]

AttachPc == {"spawned", "killing", "warming", "slot", "init", "building",
             "built", "owned", "registered", "committed", "unregister",
             "stale", "failed", "reaping", "reapingFailed", "failing", "done"}
RemovePc == {"idle", "joined", "unloop", "kill", "killing", "persist",
             "second", "kill2", "killing2", "finish", "hook", "delete"}
BootPc   == {"no", "kill", "killing", "slot", "init", "building", "cleanup",
             "cleaning"}

Attach == [pc : AttachPc, registered : BOOLEAN, cell : Nat]
Remove == [pc : RemovePc, member : Members, lease : Nat,
           captured : {"A", "B", "none"}, current : {"A", "B", "none"},
           cell : Nat]
Boot   == [pc : BootPc, todo : SUBSET Members, cell : Nat, member : Members,
           made : Nat]

VARIABLES
  members,       \* the agents of the persisted team
  convs,         \* members whose conversation has a row
  published,     \* the session in the service's map: "A", "B" or "none"
  stopping,      \* the next step of TeamSession::stop, "no" if none
  loops,         \* members with an event loop in A's EventLoopRegistry
  loopsStopped,  \* its lifecycle flag
  slot,          \* slot[m]: m's cell in the task manager's map
  cells,         \* all cells
  evicted,       \* how many agents were evicted
  lost,          \* members whose agent was evicted and not attached since
  attach,        \* attach[o]: the task of attach operation o
  remove,        \* remove[r]: the call of remove_agent r makes
  boot           \* the bootstrap of session B

agentVars == <<slot, cells>>
teamVars  == <<members, convs, published>>
loopVars  == <<loops, loopsStopped>>
vars == <<registryVars, teamVars, stopping, loopVars, agentVars, evicted,
          lost, attach, remove, boot>>

NoAttach == [pc |-> "done", registered |-> FALSE, cell |-> NoCell]
NoRemove == [pc |-> "idle", member |-> CHOOSE m \in Members : TRUE,
             lease |-> NoOp, captured |-> "none", current |-> "none",
             cell |-> NoCell]
NoBoot   == [pc |-> "no", todo |-> {}, cell |-> NoCell,
             member |-> CHOOSE m \in Members : TRUE, made |-> 0]

(* ensure_session has bootstrapped session A: every initial member has an  *)
(* agent and an event loop and was seeded ready.                           *)
Init ==
  /\ entry = [m \in Members |->
                [kind |-> IF m \in Initial THEN "Ready" ELSE "Absent", op |-> NoOp]]
  /\ ops = <<>>
  /\ stopped = FALSE
  /\ members = Initial
  /\ convs = Initial
  /\ published = "A"
  /\ stopping = "no"
  /\ loops = Initial
  /\ loopsStopped = FALSE
  /\ \E order \in [1 .. Cardinality(Initial) -> Initial] :
       /\ \A m \in Initial : \E i \in DOMAIN order : order[i] = m
       /\ cells = [i \in DOMAIN order |-> [member |-> order[i], state |-> "built",
                                           dead |-> FALSE, by |-> "A"]]
       /\ slot = [m \in Members |-> IF m \in Initial
                    THEN CHOOSE i \in DOMAIN order : order[i] = m ELSE NoCell]
  /\ evicted = 0
  /\ lost = {}
  /\ attach = [o \in 1 .. MaxOps |-> NoAttach]
  /\ remove = [r \in Removers |-> NoRemove]
  /\ boot = NoBoot

------------------------------------------------------------------------------
(* The task manager and its cells.                                         *)

Built(i) == i # NoCell /\ cells[i].state = "built"

Killed(i) == IF Built(i) THEN [cells EXCEPT ![i].dead = TRUE] ELSE cells

(* kill_and_wait, as far as its call goes: the slot leaves the map, and an *)
(* agent in it is killed.  What is left to wait for is Unbuilt(m).         *)
TakeSlot(m) ==
  /\ slot' = [slot EXCEPT ![m] = NoCell]
  /\ cells' = Killed(slot[m])

Unbuilt(m) == IF Built(slot[m]) THEN NoCell ELSE slot[m]

(* Mutant: a build that failed is waited for like one under way.           *)
JoinBuilt(i) ==
  /\ i # NoCell => cells[i].state = "built"
  /\ cells' = Killed(i)
  /\ UNCHANGED slot

(* The rest of kill_and_wait: the build ends, its agent is killed.         *)
Join(i) ==
  /\ i # NoCell => cells[i].state # "building"
  /\ cells' = Killed(i)
  /\ UNCHANGED slot

(* The slot of m, allocated for a builder of session s if it is not there. *)
Obtain(m, s) ==
  IF slot[m] # NoCell
  THEN UNCHANGED agentVars
  ELSE /\ cells' = Append(cells, [member |-> m, state |-> "empty",
                                  dead |-> FALSE, by |-> s])
       /\ slot' = [slot EXCEPT ![m] = Len(cells) + 1]

(* The factory starts in cell i, for session s.                            *)
StartBuild(i, s) ==
  /\ cells[i].state = "empty"
  /\ cells' = [cells EXCEPT ![i].state = "building", ![i].by = s]
  /\ UNCHANGED slot

EndBuild(i, state) ==
  /\ cells' = [cells EXCEPT ![i].state = state]
  /\ UNCHANGED slot

(* An agent is evicted by the idle scanner or after an agent error.        *)
Evict(m) ==
  /\ evicted < MaxEvictions
  /\ Built(slot[m])
  /\ TakeSlot(m)
  /\ evicted' = evicted + 1
  /\ lost' = lost \cup {m}
  /\ UNCHANGED <<registryVars, teamVars, stopping, loopVars, attach, remove, boot>>

------------------------------------------------------------------------------
(* Who starts an attach.                                                   *)

MembershipFree == boot.pc = "no"
EnsureFree == /\ boot.pc = "no"
              /\ \A o \in DOMAIN attach :
                   attach[o].pc \notin {"reaping", "reapingFailed"}

Spawn(o) == attach' = [attach EXCEPT ![o] = [NoAttach EXCEPT !.pc = "spawned"]]

(* add_agent: a new member has a slot id of its own.  If its welcome       *)
(* message cannot be written, the call fails and drops the reservation.    *)
AddAgent(m) ==
  /\ MembershipFree
  /\ m \notin members \cup convs
  /\ \A o \in DOMAIN ops : ops[o].member # m
  /\ members' = members \cup {m}
  /\ convs' = convs \cup {m}
  /\ IF published = "A" /\ ~stopped
     THEN /\ ReserveAttach(m, FALSE)
          /\ \/ Spawn(NextOp)
             \/ "welcome" \in Faults /\ UNCHANGED attach
     ELSE UNCHANGED <<registryVars, attach>>
  /\ UNCHANGED <<published, stopping, loopVars, agentVars, evicted, lost, remove, boot>>

(* ensure_session with A published: reserve_member_runtime_reconciliation  *)
(* starts an attach of a member that is not ready or lost its agent.       *)
Ensure(m) ==
  /\ MembershipFree
  /\ published = "A"
  /\ m \in members
  /\ IF entry[m].kind = "Ready"
     THEN ~Built(slot[m]) /\ ReserveRepair(m)
     ELSE ReserveAttach(m, TRUE)
  /\ Spawn(NextOp)
  /\ UNCHANGED <<teamVars, stopping, loopVars, agentVars, evicted, lost, remove, boot>>

------------------------------------------------------------------------------
(* attach_member_runtime, for operation o.                                 *)

At(o, pc) == o \in DOMAIN ops /\ attach[o].pc = pc

Goto(o, pc) == attach' = [attach EXCEPT ![o].pc = pc]

attachRest == <<teamVars, stopping, evicted, lost, remove, boot>>

(* attach_agent_process: the configuration cannot be written, or the old   *)
(* agent is killed.                                                        *)
AttachKills(o) ==
  /\ At(o, "spawned")
  /\ \/ Goto(o, "failed") /\ UNCHANGED agentVars
     \/ /\ TakeSlot(ops[o].member)
        /\ attach' = [attach EXCEPT ![o].pc = "killing",
                                    ![o].cell = Unbuilt(ops[o].member)]
  /\ lost' = lost \ {ops[o].member}
  /\ UNCHANGED <<registryVars, teamVars, stopping, loopVars, evicted, remove, boot>>

AttachJoins(o) ==
  /\ At(o, "killing")
  /\ Join(attach[o].cell)
  /\ Goto(o, "warming")
  /\ UNCHANGED <<registryVars, loopVars, attachRest>>

(* warmup_agent_process: reads the conversation and takes the agent that   *)
(* is there, or asks for one with get_or_build_task.                       *)
AttachReads(o) ==
  /\ At(o, "warming")
  /\ Goto(o, IF ops[o].member \notin convs THEN "failed"
             ELSE IF Built(slot[ops[o].member]) THEN "built" ELSE "slot")
  /\ UNCHANGED <<registryVars, loopVars, agentVars, attachRest>>

AttachObtains(o) ==
  /\ At(o, "slot")
  /\ Obtain(ops[o].member, "A")
  /\ attach' = [attach EXCEPT ![o].cell = slot'[ops[o].member], ![o].pc = "init"]
  /\ UNCHANGED <<registryVars, loopVars, attachRest>>

AttachInits(o) ==
  LET i == attach[o].cell
  IN  /\ At(o, "init")
      /\ \/ Built(i) /\ Goto(o, "built") /\ UNCHANGED agentVars
         \/ StartBuild(i, "A") /\ Goto(o, "building")
      /\ UNCHANGED <<registryVars, loopVars, attachRest>>

AttachBuilds(o) ==
  /\ At(o, "building")
  /\ \/ EndBuild(attach[o].cell, "built") /\ Goto(o, "built")
     \/ EndBuild(attach[o].cell, "empty") /\ Goto(o, "failed")
  /\ UNCHANGED <<registryVars, loopVars, attachRest>>

(* owns_attach                                                             *)
AttachChecks(o) ==
  /\ At(o, "built")
  /\ Goto(o, IF OwnsAttach(o) THEN "owned" ELSE "stale")
  /\ UNCHANGED <<registryVars, loopVars, agentVars, attachRest>>

(* Mutant: the attach relies on a loop that may not be there.              *)
AttachAssumesLoop(o) ==
  /\ At(o, "owned")
  /\ Goto(o, IF loopsStopped THEN "failed" ELSE "registered")
  /\ UNCHANGED <<registryVars, loopVars, agentVars, attachRest>>

(* has, then register_event_loop: a loop that is there stays.              *)
AttachRegisters(o) ==
  LET m == ops[o].member
      fresh == m \notin loops /\ ~loopsStopped
  IN  /\ At(o, "owned")
      /\ attach' = [attach EXCEPT
                      ![o].pc = IF m \in loops \/ fresh THEN "registered" ELSE "failed",
                      ![o].registered = fresh]
      /\ loops' = IF fresh THEN loops \cup {m} ELSE loops
      /\ UNCHANGED <<registryVars, loopsStopped, agentVars, attachRest>>

(* commit_ready                                                            *)
AttachCommits(o) ==
  /\ At(o, "registered")
  /\ \/ CommitReady(o) /\ Goto(o, "committed")
     \/ ~OwnsAttach(o) /\ Goto(o, "unregister") /\ UNCHANGED registryVars
  /\ UNCHANGED <<loopVars, agentVars, attachRest>>

(* publish_member_runtime_ready_if_current                                 *)
AttachPublishes(o) ==
  /\ At(o, "committed")
  /\ Goto(o, IF published = "A" THEN "done" ELSE "unregister")
  /\ UNCHANGED <<registryVars, loopVars, agentVars, attachRest>>

(* A stale attach removes the event loop it registered.                    *)
AttachUnregisters(o) ==
  /\ At(o, "unregister")
  /\ loops' = IF attach[o].registered THEN loops \ {ops[o].member} ELSE loops
  /\ Goto(o, "stale")
  /\ UNCHANGED <<registryVars, loopsStopped, agentVars, attachRest>>

(* Mutant: a stale attach leaves the agent it built.                       *)
AttachCleansFailed(o) ==
  LET failed == At(o, "failed")
  IN  /\ failed \/ At(o, "stale")
      /\ EnsureFree
      /\ IF published = "B" \/ ~failed
         THEN /\ Goto(o, IF failed THEN "failing" ELSE "done")
              /\ UNCHANGED agentVars
         ELSE /\ TakeSlot(ops[o].member)
              /\ attach' = [attach EXCEPT ![o].pc = "reapingFailed",
                                          ![o].cell = Unbuilt(ops[o].member)]
      /\ UNCHANGED <<registryVars, loopVars, attachRest>>

(* cleanup_stale_member_runtime_task, unless another session is published. *)
AttachCleans(o) ==
  LET failed == At(o, "failed")
  IN  /\ failed \/ At(o, "stale")
      /\ EnsureFree
      /\ IF published = "B"
         THEN /\ Goto(o, IF failed THEN "failing" ELSE "done")
              /\ UNCHANGED agentVars
         ELSE /\ TakeSlot(ops[o].member)
              /\ attach' = [attach EXCEPT
                              ![o].pc = IF failed THEN "reapingFailed" ELSE "reaping",
                              ![o].cell = Unbuilt(ops[o].member)]
      /\ UNCHANGED <<registryVars, loopVars, attachRest>>

AttachReaps(o) ==
  /\ At(o, "reaping") \/ At(o, "reapingFailed")
  /\ Join(attach[o].cell)
  /\ Goto(o, IF At(o, "reaping") THEN "done" ELSE "failing")
  /\ UNCHANGED <<registryVars, loopVars, attachRest>>

(* Mutant: a failed attach is not recorded.                                *)
AttachFailsSilently(o) ==
  /\ At(o, "failing")
  /\ UNCHANGED registryVars
  /\ Goto(o, "done")
  /\ UNCHANGED <<loopVars, agentVars, attachRest>>

(* commit_failed                                                           *)
AttachFails(o) ==
  /\ At(o, "failing")
  /\ \/ CommitFailed(o)
     \/ ~OwnsAttach(o) /\ UNCHANGED registryVars
  /\ Goto(o, "done")
  /\ UNCHANGED <<loopVars, agentVars, attachRest>>

AttachStep(o) ==
  \/ AttachKills(o) \/ AttachJoins(o) \/ AttachReads(o) \/ AttachObtains(o)
  \/ AttachInits(o) \/ AttachBuilds(o) \/ AttachChecks(o) \/ AttachRegisters(o)
  \/ AttachCommits(o) \/ AttachPublishes(o) \/ AttachUnregisters(o)
  \/ AttachCleans(o) \/ AttachReaps(o) \/ AttachFails(o)

------------------------------------------------------------------------------
(* remove_agent, called by r.                                              *)

To(r, pc) == remove' = [remove EXCEPT ![r].pc = pc]

removeRest == <<stopping, evicted, lost, attach, boot>>

(* begin_remove under the membership lock.  Without a session, in a        *)
(* stopped one and in B the call goes on without a lease of A.             *)
RemoveBegins(r, m) ==
  /\ remove[r].pc = "idle"
  /\ MembershipFree
  /\ m \in members
  /\ LET call == [NoRemove EXCEPT !.member = m, !.captured = published]
         inA  == published = "A" /\ ~stopped
     IN  \/ /\ inA /\ BeginRemove(m)
            /\ remove' = [remove EXCEPT ![r] = [call EXCEPT !.pc = "unloop",
                                                           !.lease = NextOp]]
         \/ /\ inA /\ entry[m].kind = "Removing"
            /\ remove' = [remove EXCEPT ![r] = [call EXCEPT !.pc = "joined",
                                                           !.lease = entry[m].op]]
            /\ UNCHANGED registryVars
         \/ /\ ~inA \/ entry[m].kind = "Absent"
            /\ remove' = [remove EXCEPT ![r] = [call EXCEPT !.pc = "unloop"]]
            /\ UNCHANGED registryVars
  /\ UNCHANGED <<teamVars, loopVars, agentVars, removeRest>>

(* A removal that is under way is joined.                                  *)
RemoveJoins(r) ==
  /\ remove[r].pc = "joined"
  /\ ops[remove[r].lease].signal # "Pending"
  /\ To(r, "idle")
  /\ UNCHANGED <<registryVars, teamVars, loopVars, agentVars, removeRest>>

(* event_loops().remove, of the session captured first.                    *)
RemoveUnloops(r) ==
  /\ remove[r].pc = "unloop"
  /\ loops' = IF remove[r].captured = "A" THEN loops \ {remove[r].member} ELSE loops
  /\ To(r, "kill")
  /\ UNCHANGED <<registryVars, teamVars, loopsStopped, agentVars, removeRest>>

RemoveKills(r) ==
  /\ remove[r].pc \in {"kill", "kill2"}
  /\ TakeSlot(remove[r].member)
  /\ remove' = [remove EXCEPT
                  ![r].pc = IF @ = "kill" THEN "killing" ELSE "killing2",
                  ![r].cell = Unbuilt(remove[r].member)]
  /\ UNCHANGED <<registryVars, teamVars, loopVars, removeRest>>

RemoveWaits(r) ==
  /\ remove[r].pc \in {"killing", "killing2"}
  /\ Join(remove[r].cell)
  /\ To(r, IF remove[r].pc = "killing" THEN "persist" ELSE "finish")
  /\ UNCHANGED <<registryVars, teamVars, loopVars, removeRest>>

(* The membership is persisted; if that fails, the member must be attached *)
(* again.  If the team cannot even be loaded, the call just ends.          *)
RemovePersists(r) ==
  LET o == remove[r].lease
  IN  /\ remove[r].pc = "persist"
      /\ MembershipFree
      /\ \/ /\ members' = members \ {remove[r].member}
            /\ To(r, "second")
            /\ UNCHANGED registryVars
         \/ /\ "persist" \in Faults
            /\ \/ o # NoOp /\ RestoreAttachRequired(o)
               \/ /\ o # NoOp => stopped \/ ~Owns(o, "Removing")
                  /\ UNCHANGED registryVars
            /\ To(r, "idle")
            /\ UNCHANGED members
         \/ /\ "load" \in Faults
            /\ To(r, "idle")
            /\ UNCHANGED <<registryVars, members>>
      /\ UNCHANGED <<convs, published, loopVars, agentVars, removeRest>>

(* The session published now is cleaned up again: an attach may have come  *)
(* in between.                                                             *)
RemoveAgain(r) ==
  /\ remove[r].pc = "second"
  /\ remove' = [remove EXCEPT
                  ![r].current = published,
                  ![r].pc = IF published = "none" THEN "hook" ELSE "kill2"]
  /\ loops' = IF published = "A" THEN loops \ {remove[r].member} ELSE loops
  /\ UNCHANGED <<registryVars, teamVars, loopsStopped, agentVars, removeRest>>

(* finish_remove                                                           *)
RemoveFinishes(r) ==
  LET o == remove[r].lease
      ours == o # NoOp /\ remove[r].captured = remove[r].current
  IN  /\ remove[r].pc = "finish"
      /\ \/ ours /\ FinishRemove(o)
         \/ ~(ours /\ ~stopped /\ Owns(o, "Removing")) /\ UNCHANGED registryVars
      /\ To(r, "hook")
      /\ UNCHANGED <<teamVars, loopVars, agentVars, removeRest>>

(* delete_team_conversation: the hook of the task manager kills the agent  *)
(* with kill, which does not wait for a build under way.                   *)
RemoveHook(r) ==
  /\ remove[r].pc = "hook"
  /\ TakeSlot(remove[r].member)
  /\ To(r, "delete")
  /\ UNCHANGED <<registryVars, teamVars, loopVars, removeRest>>

(* The conversation's row is deleted, if possible.                         *)
RemoveDeletes(r) ==
  /\ remove[r].pc = "delete"
  /\ \/ convs' = convs \ {remove[r].member}
     \/ "delete" \in Faults /\ UNCHANGED convs
  /\ To(r, "idle")
  /\ UNCHANGED <<registryVars, members, published, loopVars, agentVars, removeRest>>

RemoveStep(r) ==
  \/ RemoveJoins(r) \/ RemoveUnloops(r) \/ RemoveKills(r) \/ RemoveWaits(r)
  \/ RemovePersists(r) \/ RemoveAgain(r) \/ RemoveFinishes(r)
  \/ RemoveHook(r) \/ RemoveDeletes(r)

------------------------------------------------------------------------------
(* stop_session: the session leaves the map, then stop runs.               *)

StopSession ==
  /\ published = "A"
  /\ published' = "none"
  /\ stopping' = "registry"
  /\ UNCHANGED <<registryVars, members, convs, loopVars, agentVars, evicted,
                 lost, attach, remove, boot>>

StopStep ==
  /\ \/ /\ stopping = "registry"
        /\ StopRegistry
        /\ stopping' = "loops"
        /\ UNCHANGED loopVars
     \/ /\ stopping = "loops"
        /\ loops' = {}
        /\ loopsStopped' = TRUE
        /\ stopping' = "no"
        /\ UNCHANGED registryVars
  /\ UNCHANGED <<teamVars, agentVars, evicted, lost, attach, remove, boot>>

------------------------------------------------------------------------------
(* ensure_session without a session: B attaches every member, under both   *)
(* locks, and is published.  If one fails, everything is killed again.     *)
(* The members are attached one after the other here, a few at a time in   *)
(* the code.                                                               *)

bootRest == <<registryVars, members, convs, stopping, loopVars, evicted, lost,
              attach, remove>>

BootBegins ==
  /\ published = "none"
  /\ MembershipFree /\ EnsureFree
  /\ boot.made < MaxBoots
  /\ boot' = [NoBoot EXCEPT !.pc = "kill", !.todo = members, !.made = boot.made + 1]
  /\ UNCHANGED <<bootRest, published, agentVars>>

BootKills ==
  /\ boot.pc \in {"kill", "cleanup"}
  /\ \E m \in boot.todo :
       /\ TakeSlot(m)
       /\ boot' = [boot EXCEPT
                     !.pc = IF boot.pc = "kill" THEN "killing" ELSE "cleaning",
                     !.cell = Unbuilt(m), !.member = m, !.todo = @ \ {m}]
  /\ UNCHANGED <<bootRest, published>>

BootJoins ==
  /\ boot.pc \in {"killing", "cleaning"}
  /\ Join(boot.cell)
  /\ boot' = [boot EXCEPT !.pc = IF boot.pc = "killing" THEN "slot" ELSE "cleanup"]
  /\ UNCHANGED <<bootRest, published>>

BootObtains ==
  /\ boot.pc = "slot"
  /\ Obtain(boot.member, "B")
  /\ boot' = [boot EXCEPT !.pc = "init", !.cell = slot'[boot.member]]
  /\ UNCHANGED <<bootRest, published>>

BootInits ==
  /\ boot.pc = "init"
  /\ \/ /\ Built(boot.cell)
        /\ boot' = [boot EXCEPT !.pc = "kill"]
        /\ UNCHANGED agentVars
     \/ /\ StartBuild(boot.cell, "B")
        /\ boot' = [boot EXCEPT !.pc = "building"]
  /\ UNCHANGED <<bootRest, published>>

BootFailed == [boot EXCEPT !.pc = "cleanup", !.todo = members]

BootBuilds ==
  /\ boot.pc = "building"
  /\ \/ EndBuild(boot.cell, "built") /\ boot' = [boot EXCEPT !.pc = "kill"]
     \/ EndBuild(boot.cell, "empty") /\ boot' = BootFailed
  /\ UNCHANGED <<bootRest, published>>

(* The configuration of a member cannot be written.                        *)
BootFails ==
  /\ boot.pc = "kill" /\ boot.todo # {}
  /\ boot' = BootFailed
  /\ UNCHANGED <<bootRest, published, agentVars>>

(* All members are attached and B is published, or all are killed again.   *)
BootEnds ==
  /\ boot.pc \in {"kill", "cleanup"} /\ boot.todo = {}
  /\ published' = IF boot.pc = "kill" THEN "B" ELSE published
  /\ boot' = [NoBoot EXCEPT !.made = boot.made]
  /\ UNCHANGED <<bootRest, agentVars>>

BootStep == \/ BootKills \/ BootJoins \/ BootObtains \/ BootInits
            \/ BootBuilds \/ BootFails \/ BootEnds

------------------------------------------------------------------------------
Next ==
  \/ \E m \in Members : AddAgent(m) \/ Ensure(m) \/ Evict(m)
  \/ \E o \in DOMAIN ops : AttachStep(o)
  \/ \E r \in Removers, m \in Members : RemoveBegins(r, m)
  \/ \E r \in Removers : RemoveStep(r)
  \/ StopSession \/ StopStep
  \/ BootBegins \/ BootStep

Spec == Init /\ [][Next]_vars

(* A task that was spawned and a handler that was called are polled until  *)
(* they end, and a factory comes to an end.                                *)
FairSpec ==
  /\ Spec
  /\ \A o \in 1 .. MaxOps : WF_vars(o \in DOMAIN ops /\ AttachStep(o))
  /\ \A r \in Removers : WF_vars(RemoveStep(r))
  /\ WF_vars(StopStep)
  /\ WF_vars(BootStep)

------------------------------------------------------------------------------
(* Every variable has the type of the field it models.                     *)
LifecycleTypeOK ==
  /\ RegistryTypeOK
  /\ members \subseteq Members /\ convs \subseteq Members
  /\ published \in {"A", "B", "none"}
  /\ stopping \in {"no", "registry", "loops"}
  /\ loops \subseteq Members /\ loopsStopped \in BOOLEAN
  /\ slot \in [Members -> Nat] /\ cells \in Seq(Cell)
  /\ evicted \in Nat /\ lost \subseteq Members
  /\ attach \in [1 .. MaxOps -> Attach]
  /\ remove \in [Removers -> Remove]
  /\ boot \in Boot

(* No task works on m.                                                     *)
Quiet(m) ==
  /\ \A o \in DOMAIN ops : ops[o].member = m => attach[o].pc = "done"
  /\ \A r \in Removers : remove[r].member = m => remove[r].pc = "idle"
  /\ boot.pc = "no"
  /\ stopping = "no"

(* A member that was removed leaves nothing behind: whatever attach was    *)
(* under way when it was removed, once all tasks ended there is no event   *)
(* loop that would run turns for it and no agent in the task manager.      *)
RemovedLeavesNothing ==
  \A m \in Members \ members : Quiet(m) => m \notin loops /\ slot[m] = NoCell

(* A member the registry calls ready has an event loop, and an agent that  *)
(* lives unless it was evicted: whatever else works on it at the moment.   *)
ReadyIsServed ==
  \A m \in Members :
    published = "A" /\ entry[m].kind = "Ready" =>
      m \in loops /\ (m \notin lost => Built(slot[m]))

(* The steps of an attach that may still decide its operation.             *)
Deciding == {"spawned", "killing", "warming", "slot", "init", "building",
             "built", "owned", "registered", "failed", "reapingFailed", "failing"}

(* The steps of a removal that has not given up its lease.                 *)
Holding == {"unloop", "kill", "killing", "persist", "second", "kill2",
            "killing2", "finish"}

(* An operation without an outcome has an owner at work: the attach task   *)
(* or the removal that was given its lease, short of the step that decides *)
(* it, or a stop that is about to tell everyone.  So no early return of    *)
(* these functions leaves behind an operation nobody will decide, but for  *)
(* the two faults "load" and "welcome".                                    *)
OwnerAtWork ==
  \A o \in DOMAIN ops : ops[o].signal = "Pending" =>
    \/ ops[o].lease = "attach" /\ attach[o].pc \in Deciding
    \/ /\ ops[o].lease = "remove"
       /\ \E r \in Removers : remove[r].lease = o /\ remove[r].pc \in Holding
    \/ stopping = "registry"

(* What the leases and the end of A rest on: a removal's lease is an       *)
(* operation of A, and what is published once A has gone is never A.       *)
LeasesKnown ==
  \A r \in Removers :
    /\ remove[r].lease # NoOp => remove[r].lease \in DOMAIN ops
    /\ remove[r].pc \in Holding /\ remove[r].lease # NoOp => remove[r].captured = "A"
    /\ remove[r].pc \in {"kill2", "killing2", "finish"} =>
         remove[r].current = "A" \/ published # "A"

(* Every operation has a task of its own.                                  *)
OpsBounded == Len(ops) <= MaxOps

(* A stopped registry is empty; A leaves the map before its registry       *)
(* stops, and only then B is bootstrapped.                                 *)
StopOrder ==
  /\ stopped => \A m \in Members : entry[m].kind = "Absent"
  /\ published # "A" => stopping = "registry" \/ stopped
  /\ boot.pc # "no" => published = "none"

LifecycleInv == /\ LifecycleTypeOK
                /\ RegistryInv
                /\ OpsBounded
                /\ LeasesKnown
                /\ StopOrder
                /\ OwnerAtWork

(* "stale_cleanup_does_not_kill_replacement_runtime": once B is published, *)
(* the attach tasks that A left behind do not kill the agents B built.     *)
StaleSparesReplacement ==
  [][\A o \in DOMAIN ops, i \in DOMAIN cells :
       /\ published = "B" /\ cells[i].by = "B" /\ Built(i) /\ ~cells[i].dead
       /\ attach'[o] # attach[o]
       => ~cells'[i].dead]_vars

(* Everyone who waits for an attach or a removal gets an answer: the task  *)
(* that owns the operation, or whoever displaced it, decides it.           *)
OperationsDecided ==
  \A o \in 1 .. MaxOps :
    (o \in DOMAIN ops) ~> (o \in DOMAIN ops /\ ops[o].signal # "Pending")
==============================================================================
