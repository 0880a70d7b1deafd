-------------------------- MODULE WorkerTaskManager --------------------------
(***************************************************************************)
(* WorkerTaskManagerImpl (crates/aionui-ai-agent/src/task_manager.rs): the *)
(* agent processes of the conversations, with the scanner that kills idle  *)
(* ones (idle_scanner.rs), the foreground leases that protect them         *)
(* (active_lease.rs) and the runtime tokens they are built with.           *)
(*                                                                         *)
(* The manager maps a conversation to a slot, an Arc<OnceCell>.  A call    *)
(* that got hold of a slot keeps it although the map may lose it.  There   *)
(* is no lock: each operation on the map, on a cell or on the tokens is a  *)
(* step, and the steps of the calls interleave.  call[p].pc names the next *)
(* step of the call task p makes.  Calls of p follow one another; the      *)
(* conversation service (ensure_runtime_agent, send_message) issues a      *)
(* token, if the conversation belongs to a team, before get_or_build_task. *)
(*                                                                         *)
(* A cell is external: tokio's OnceCell lets one initialiser run, makes    *)
(* the others wait and stays empty when the initialiser fails or its       *)
(* caller is dropped.  Waiters are served in any order here.  An agent is  *)
(* dead once it is told to stop; the wait for its process to exit is not   *)
(* modelled.  All agents are ACP agents.                                   *)
(***************************************************************************)
EXTENDS RuntimeTokenService, Sequences, FiniteSets

CONSTANTS Callers,    \* the tasks that call the manager
          Teams,      \* the conversations that belong to a team
          Versions,   \* runtime context versions requested, 0 for none
          Calls,      \* the methods called
          MaxCalls    \* how many calls a behaviour may make

Removal == {"kill", "kill_and_wait", "clear", "scan"}

ASSUME ManagerAssumption ==
  /\ Conversations # {} /\ Teams \subseteq Conversations
  /\ Versions \subseteq Nat
  /\ Calls \subseteq Removal \cup {"get"}
  /\ MaxCalls \in Nat

NoCell == 0

(* What became of the agent of a built cell: finished or just built and    *)
(* recently active, finished and idle past the threshold, in a turn,       *)
(* killed.                                                                 *)
Agent == {"fresh", "idle", "running", "dead"}

CellState == {"empty", "building", "built"}

Cell == [conv : Conversations, state : CellState, version : Nat, token : Nat,
         agent : Agent]

Pc == {"idle", "find", "purge", "insert", "check", "slot", "init", "build",
       "remove", "dispose"}

(* A call: of which method, its next step, the conversation, the runtime   *)
(* context and token of a build, where issue goes back to, the cell it     *)
(* holds, and the keys it will remove and the cells it will wait for.      *)
Call == [op : Removal \cup {"get"}, pc : Pc, conv : Conversations, version : Nat,
         token : Nat, back : {"check", "slot"}, cell : Nat,
         keys : SUBSET Conversations, waits : SUBSET Nat]

VARIABLES
  tasks,      \* tasks[c]: the slot of c in the map, a number of cells
  cells,      \* the cells allocated so far
  call,       \* call[p]: the call p makes
  made,       \* how many calls were made
  abandoned   \* cells a removal took while no build of theirs was waited for

vars == <<tokenVars, tasks, cells, call, made, abandoned>>

NoCall == [op |-> "get", pc |-> "idle", conv |-> CHOOSE c \in Conversations : TRUE,
           version |-> 0, token |-> NoToken, back |-> "check",
           cell |-> NoCell, keys |-> {}, waits |-> {}]

Init ==
  /\ TokenInit
  /\ tasks = [c \in Conversations |-> NoCell]
  /\ cells = <<>>
  /\ call = [p \in Callers |-> NoCall]
  /\ made = 0
  /\ abandoned = {}

------------------------------------------------------------------------------
Built(i) == i # NoCell /\ cells[i].state = "built"

(* get_task: the slot of c holds an agent.                                 *)
GetTask(c) == Built(tasks[c])

(* satisfies                                                               *)
Satisfies(actual, requested) == actual >= requested

Continue(p, pc) == call' = [call EXCEPT ![p].pc = pc]
Return(p) == call' = [call EXCEPT ![p] = NoCall]

Begin(p, c) ==
  /\ call[p].pc = "idle"
  /\ made < MaxCalls
  /\ made' = made + 1
  /\ call' = [call EXCEPT ![p] = c]
  /\ UNCHANGED <<tokenVars, tasks, cells, abandoned>>

(* A caller wants the agent of c.  ensure_runtime_agent takes the one that *)
(* is there; send_message asks for it all the same.                        *)
BeginGet(p) ==
  \E c \in Conversations, v \in Versions :
    /\ "get" \in Calls
    /\ Begin(p, [NoCall EXCEPT !.conv = c, !.version = v,
                               !.pc = IF c \in Teams THEN "find" ELSE "check"])

(* kill (the deletion of a conversation calls it) and kill_and_wait.       *)
BeginKill(p) ==
  \E c \in Conversations, op \in Calls \cap {"kill", "kill_and_wait"} :
    Begin(p, [NoCall EXCEPT !.op = op, !.pc = "remove", !.keys = {c}])

(* clear, at shutdown: the keys of the map at this moment.                 *)
BeginClear(p) ==
  /\ "clear" \in Calls
  /\ Begin(p, [NoCall EXCEPT !.op = "clear", !.pc = "remove",
                 !.keys = {c \in Conversations : tasks[c] # NoCell}])

(* collect_idle, when the conversations leased have a foreground lease.    *)
CollectIdle(leased) ==
  {c \in Conversations \ leased : GetTask(c) /\ cells[tasks[c]].agent = "idle"}

(* scan_and_cleanup: what is idle now is killed by kill_and_wait later.    *)
(* Leases are renewed by clients and expire by the clock: any may be held. *)
BeginScan(p) ==
  \E leased \in SUBSET Conversations :
    /\ "scan" \in Calls
    /\ CollectIdle(leased) # {}
    /\ Begin(p, [NoCall EXCEPT !.op = "scan", !.pc = "remove",
                               !.keys = CollectIdle(leased)])

------------------------------------------------------------------------------
(* issue, step by step.                                                    *)

FindToken(p) ==
  LET c == call[p].conv
  IN  /\ call[p].pc = "find"
      /\ \/ /\ ExistingToken(c) = {}
            /\ issued' = GeneratedToken
            /\ call' = [call EXCEPT ![p].token = GeneratedToken, ![p].pc = "purge"]
         \/ \E t \in ExistingToken(c) :
              /\ call' = [call EXCEPT ![p].token = t, ![p].pc = call[p].back]
              /\ UNCHANGED issued
      /\ UNCHANGED <<tokens, tasks, cells, made, abandoned>>

PurgeTokens(p) ==
  /\ call[p].pc = "purge"
  /\ InvalidateConversation(call[p].conv)
  /\ Continue(p, "insert")
  /\ UNCHANGED <<tasks, cells, made, abandoned>>

InsertIssued(p) ==
  /\ call[p].pc = "insert"
  /\ InsertToken(call[p].conv, call[p].token)
  /\ Continue(p, call[p].back)
  /\ UNCHANGED <<tasks, cells, made, abandoned>>

------------------------------------------------------------------------------
(* get_or_build_task                                                       *)

(* An agent with too old a context is killed first.                        *)
CheckCapabilities(p) ==
  LET s == tasks[call[p].conv]
      outdated == Built(s) /\ ~Satisfies(cells[s].version, call[p].version)
  IN  /\ call[p].pc = "check"
      /\ call' = [call EXCEPT ![p].pc = IF outdated THEN "remove" ELSE "slot",
                              ![p].keys = IF outdated THEN {call[p].conv} ELSE {},
                              ![p].back = IF outdated THEN "slot" ELSE @]
      /\ UNCHANGED <<tokenVars, tasks, cells, made, abandoned>>

(* tasks.entry(..).or_insert_with(..).clone()                              *)
ObtainSlot(p) ==
  LET c == call[p].conv
      fresh == Len(cells) + 1
  IN  /\ call[p].pc = "slot"
      /\ IF tasks[c] # NoCell
         THEN UNCHANGED <<tasks, cells>>
         ELSE /\ tasks' = [tasks EXCEPT ![c] = fresh]
              /\ cells' = Append(cells, [conv |-> c, state |-> "empty",
                                         version |-> 0, token |-> NoToken,
                                         agent |-> "fresh"])
      /\ call' = [call EXCEPT ![p].cell = tasks'[c], ![p].pc = "init"]
      /\ UNCHANGED <<tokenVars, made, abandoned>>

(* get_or_try_init, when the cell holds an agent.                          *)
TakeBuilt(p) ==
  /\ call[p].pc = "init"
  /\ Built(call[p].cell)
  /\ Return(p)
  /\ UNCHANGED <<tokenVars, tasks, cells, made, abandoned>>

(* get_or_try_init, when it runs the factory.                              *)
StartBuild(p) ==
  /\ call[p].pc = "init"
  /\ cells[call[p].cell].state = "empty"
  /\ cells' = [cells EXCEPT ![call[p].cell].state = "building",
                            ![call[p].cell].version = call[p].version,
                            ![call[p].cell].token = call[p].token]
  /\ Continue(p, "build")
  /\ UNCHANGED <<tokenVars, tasks, made, abandoned>>

(* Mutant: a failed build does not release the cell.                       *)
EndBuildKeepsCell(p) ==
  /\ call[p].pc = "build"
  /\ \E state \in {"built", "building"} :
       cells' = [cells EXCEPT ![call[p].cell].state = state]
  /\ Return(p)
  /\ UNCHANGED <<tokenVars, tasks, made, abandoned>>

(* The factory yields an agent, or fails, or its caller is dropped.        *)
EndBuild(p) ==
  /\ call[p].pc = "build"
  /\ \E state \in {"built", "empty"} :
       cells' = [cells EXCEPT ![call[p].cell].state = state]
  /\ Return(p)
  /\ UNCHANGED <<tokenVars, tasks, made, abandoned>>

------------------------------------------------------------------------------
(* kill, kill_and_wait and clear.                                          *)

(* What follows the removal of a slot: get_or_build_task gets a new token  *)
(* for a team conversation, the others go on with the next key.            *)
AfterKill(p) ==
  IF call[p].op # "get" THEN "remove"
  ELSE IF call[p].conv \in Teams THEN "find" ELSE "slot"

(* Mutant: the slot is looked up, not removed.                             *)
LookupSlot(p) ==
  /\ call[p].pc = "remove"
  /\ \E c \in call[p].keys :
       call' = [call EXCEPT ![p].keys = @ \ {c}, ![p].cell = tasks[c],
                            ![p].pc = IF tasks[c] = NoCell THEN AfterKill(p)
                                                           ELSE "dispose"]
  /\ UNCHANGED <<tokenVars, tasks, cells, made, abandoned>>

(* Mutant: a key that was removed is looked up as if it were there.        *)
RemoveSlotForgets(p) ==
  /\ call[p].pc = "remove"
  /\ \E c \in call[p].keys :
       /\ tasks' = [d \in Conversations \ {c} |-> tasks[d]]
       /\ call' = [call EXCEPT ![p].keys = @ \ {c}, ![p].cell = tasks[c],
                               ![p].pc = IF tasks[c] = NoCell THEN AfterKill(p)
                                                              ELSE "dispose"]
  /\ UNCHANGED <<tokenVars, cells, made, abandoned>>

(* tasks.remove(key), for the next key.                                    *)
RemoveSlot(p) ==
  /\ call[p].pc = "remove"
  /\ \E c \in call[p].keys :
       /\ tasks' = [tasks EXCEPT ![c] = NoCell]
       /\ call' = [call EXCEPT ![p].keys = @ \ {c}, ![p].cell = tasks[c],
                               ![p].pc = IF tasks[c] = NoCell THEN AfterKill(p)
                                                              ELSE "dispose"]
  /\ UNCHANGED <<tokenVars, cells, made, abandoned>>

(* The removed slot: its tokens are revoked, its agent is told to stop.    *)
(* kill_and_wait also waits for a slot that holds no agent yet; kill and   *)
(* clear forget it.                                                        *)
DisposeSlot(p) ==
  LET i == call[p].cell
      waits == call[p].op \in {"kill_and_wait", "scan"} /\ ~Built(i)
  IN  /\ call[p].pc = "dispose"
      /\ InvalidateConversation(cells[i].conv)
      /\ cells' = IF Built(i) THEN [cells EXCEPT ![i].agent = "dead"] ELSE cells
      /\ abandoned' = IF Built(i) \/ waits THEN abandoned ELSE abandoned \cup {i}
      /\ call' = [call EXCEPT ![p].cell = NoCell, ![p].pc = AfterKill(p),
                              ![p].waits = IF waits THEN @ \cup {i} ELSE @]
      /\ UNCHANGED <<tasks, made>>

(* Mutant: kill_and_wait waits for the build but does not kill its result. *)
AwaitBuildOnly(p) ==
  /\ call[p].pc = "remove"
  /\ call[p].keys = {}
  /\ \E i \in call[p].waits :
       /\ cells[i].state # "building"
       /\ call' = [call EXCEPT ![p].waits = @ \ {i}]
  /\ UNCHANGED <<tokenVars, tasks, cells, made, abandoned>>

(* The get_or_try_init of kill_and_wait: it returns when no build is under *)
(* way, and kills the agent if there is one.                               *)
AwaitBuild(p) ==
  /\ call[p].pc = "remove"
  /\ call[p].keys = {}
  /\ \E i \in call[p].waits :
       /\ cells[i].state # "building"
       /\ cells' = IF Built(i) THEN [cells EXCEPT ![i].agent = "dead"] ELSE cells
       /\ abandoned' = IF Built(i) THEN abandoned ELSE abandoned \cup {i}
       /\ call' = [call EXCEPT ![p].waits = @ \ {i}]
  /\ UNCHANGED <<tokenVars, tasks, made>>

EndRemoval(p) ==
  /\ call[p].pc = "remove"
  /\ call[p].keys = {}
  /\ call[p].waits = {}
  /\ Return(p)
  /\ UNCHANGED <<tokenVars, tasks, cells, made, abandoned>>

------------------------------------------------------------------------------
(* What happens to agents while the manager looks on.  Only a scan looks   *)
(* at it.                                                                  *)

(* Whoever holds the agent starts or finishes a turn, or it grows idle.    *)
AgentMoves(i) ==
  /\ "scan" \in Calls
  /\ Built(i)
  /\ \E next \in {<<"fresh", "running">>, <<"idle", "running">>,
                   <<"running", "fresh">>, <<"fresh", "idle">>} :
       /\ cells[i].agent = next[1]
       /\ cells' = [cells EXCEPT ![i].agent = next[2]]
  /\ UNCHANGED <<tokenVars, tasks, call, made, abandoned>>

Step(p) ==
  \/ FindToken(p) \/ PurgeTokens(p) \/ InsertIssued(p)
  \/ CheckCapabilities(p) \/ ObtainSlot(p)
  \/ TakeBuilt(p) \/ StartBuild(p) \/ EndBuild(p)
  \/ RemoveSlot(p) \/ DisposeSlot(p) \/ AwaitBuild(p) \/ EndRemoval(p)

Next ==
  \/ \E p \in Callers : BeginGet(p) \/ BeginKill(p) \/ BeginClear(p) \/ BeginScan(p)
  \/ \E p \in Callers : Step(p)
  \/ \E i \in DOMAIN cells : AgentMoves(i)

Spec == Init /\ [][Next]_vars

(* A task that was started is polled until it ends, and the factory comes  *)
(* to an end: its steps have timeouts.                                     *)
FairSpec == Spec /\ \A p \in Callers : WF_vars(Step(p))

------------------------------------------------------------------------------
(* Every variable has the type of the field it models.                     *)
TypeOK ==
  /\ issued \in Nat
  /\ tokens \in [Conversations -> SUBSET (1 .. issued)]
  /\ tasks \in [Conversations -> 0 .. Len(cells)]
  /\ cells \in Seq(Cell)
  /\ abandoned \subseteq DOMAIN cells
  /\ made \in 0 .. MaxCalls
  /\ call \in [Callers -> Call]
  /\ \A p \in Callers : call[p].cell <= Len(cells) /\ call[p].waits \subseteq DOMAIN cells

(* The map never offers an agent that was killed: get_task and a caller of *)
(* get_or_build_task that comes later find a live one or build one.        *)
MapHoldsLiveAgents ==
  \A c \in Conversations : tasks[c] # NoCell =>
    cells[tasks[c]].conv = c /\ cells[tasks[c]].agent # "dead"

Alive(i) == Built(i) /\ cells[i].agent # "dead"

(* Someone is about to tell agent i to stop.                               *)
BeingKilled(i) ==
  \E p \in Callers : \/ i \in call[p].waits
                     \/ call[p].pc = "dispose" /\ call[p].cell = i

(* Every agent that lives can still be found in the map, or is about to be *)
(* killed: "the factory runs at most once per conversation", so that no    *)
(* CLI process is "leaking".                                               *)
NoLeakedAgent ==
  \A i \in DOMAIN cells : Alive(i) =>
    tasks[cells[i].conv] = i \/ BeingKilled(i)

(* An agent leaks only when its slot was taken before it was built: by     *)
(* kill or clear, or by a kill_and_wait that found no build under way.     *)
(* Whatever was built, or was being built when kill_and_wait came, is      *)
(* killed however the build and the other calls interleave.                *)
OnlyAbandonedLeak ==
  \A i \in DOMAIN cells : Alive(i) =>
    tasks[cells[i].conv] = i \/ BeingKilled(i) \/ i \in abandoned

(* Every call comes to an end: whoever waits for a cell is woken when the  *)
(* build ends, whether it yields an agent or fails or its caller is        *)
(* dropped, and whatever is removed from the map meanwhile.                *)
CallsEnd == \A p \in Callers : call[p].pc # "idle" ~> call[p].pc = "idle"
==============================================================================
