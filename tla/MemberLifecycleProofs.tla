------------------------ MODULE MemberLifecycleProofs ------------------------
(***************************************************************************)
(* Whoever was given an operation of the member registry works on it until *)
(* it is decided (OwnerAtWork), for any members, any number of tasks and   *)
(* any interleaving.  LifecycleInv is inductive: that an attach or a       *)
(* removal which gives up unheard has lost its entry to someone who gave   *)
(* the answer rests on the invariant of the registry, and that a removal   *)
(* which finds another session published need not answer rests on the      *)
(* order in which a session stops (StopOrder, LeasesKnown).                *)
(***************************************************************************)
EXTENDS MemberLifecycle, MemberRuntimeRegistryProofs, FiniteSetTheorems

(* LifecycleInv but for OwnerAtWork: what holds whatever call fails.       *)
LifecycleCore == /\ LifecycleTypeOK
                 /\ RegistryInv
                 /\ OpsBounded
                 /\ LeasesKnown
                 /\ StopOrder

------------------------------------------------------------------------------
(* Types of what the tasks hold.                                           *)

AgentType == slot \in [Members -> Nat] /\ cells \in Seq(Cell)

(* A cell stays a cell when one of its fields is assigned.                 *)
LEMMA CellAssigned ==
  ASSUME cells \in Seq(Cell), NEW i, NEW st \in {"empty", "building", "built"},
         NEW s \in {"A", "B"}
  PROVE  /\ [cells EXCEPT ![i].dead = TRUE] \in Seq(Cell)
         /\ [cells EXCEPT ![i].state = st] \in Seq(Cell)
         /\ [cells EXCEPT ![i].state = st, ![i].by = s] \in Seq(Cell)
<1>1. \A c \in Cell : /\ [c EXCEPT !.dead = TRUE] \in Cell
                      /\ [c EXCEPT !.state = st] \in Cell
                      /\ [c EXCEPT !.state = st, !.by = s] \in Cell
  BY DEF Cell
<1> DEFINE d == [cells EXCEPT ![i].dead = TRUE]
           e == [cells EXCEPT ![i].state = st]
           f == [cells EXCEPT ![i].state = st, ![i].by = s]
<1>2. \A k \in DOMAIN cells : cells[k] \in Cell
  OBVIOUS
<1>3. \A k \in DOMAIN cells : d[k] \in Cell /\ e[k] \in Cell /\ f[k] \in Cell
  BY <1>1, <1>2
<1>4. DOMAIN d = 1 .. Len(cells) /\ DOMAIN e = 1 .. Len(cells)
      /\ DOMAIN f = 1 .. Len(cells) /\ Len(cells) \in Nat
  OBVIOUS
<1> HIDE DEF d, e, f
<1>5. ASSUME NEW g, DOMAIN g = 1 .. Len(cells), g = [k \in DOMAIN g |-> g[k]],
             \A k \in 1 .. Len(cells) : g[k] \in Cell
      PROVE  g \in Seq(Cell)
  <2>1. g \in [1 .. Len(cells) -> Cell]
    BY <1>5
  <2> QED BY <1>4, <2>1
<1>6. d \in Seq(Cell)
  BY <1>3, <1>4, <1>5 DEF d
<1>7. e \in Seq(Cell)
  BY <1>3, <1>4, <1>5 DEF e
<1>8. f \in Seq(Cell)
  BY <1>3, <1>4, <1>5 DEF f
<1> QED BY <1>6, <1>7, <1>8 DEF d, e, f

(* What the operations of the task manager do to the types of its state.   *)
LEMMA AgentSteps ==
  ASSUME AgentType
  PROVE  /\ \A m \in Members : TakeSlot(m) => AgentType'
         /\ \A m \in Members : Unbuilt(m) \in Nat
         /\ \A i : Join(i) => AgentType'
         /\ \A m \in Members, s \in {"A", "B"} :
              Obtain(m, s) => AgentType' /\ slot'[m] \in Nat
         /\ \A i : \A s \in {"A", "B"} : StartBuild(i, s) => AgentType'
         /\ \A i : \A st \in {"empty", "built"} : EndBuild(i, st) => AgentType'
<1>1. \A i : Killed(i) \in Seq(Cell)
  BY CellAssigned DEF Killed, AgentType
<1>2. ASSUME NEW m \in Members, TakeSlot(m) PROVE AgentType'
  BY <1>1, <1>2 DEF TakeSlot, AgentType, NoCell
<1>3. ASSUME NEW m \in Members PROVE Unbuilt(m) \in Nat
  BY DEF Unbuilt, AgentType, NoCell
<1>4. ASSUME NEW i, Join(i) PROVE AgentType'
  BY <1>1, <1>4 DEF Join, AgentType
<1>5. ASSUME NEW m \in Members, NEW s \in {"A", "B"}, Obtain(m, s)
      PROVE  AgentType' /\ slot'[m] \in Nat
  <2> DEFINE c == [member |-> m, state |-> "empty", dead |-> FALSE, by |-> s]
  <2>1. c \in Cell
    BY DEF Cell
  <2>2. CASE slot[m] # NoCell
    BY <1>5, <2>2 DEF Obtain, AgentType, agentVars
  <2>3. CASE slot[m] = NoCell
    <3>1. cells' = Append(cells, c) /\ slot' = [slot EXCEPT ![m] = Len(cells) + 1]
      BY <1>5, <2>3 DEF Obtain
    <3> HIDE DEF c
    <3>2. cells \in Seq(Cell) /\ Len(cells) + 1 \in Nat /\ slot \in [Members -> Nat]
      BY DEF AgentType
    <3> QED BY <2>1, <3>1, <3>2 DEF AgentType
  <2> QED BY <2>2, <2>3
<1>6. ASSUME NEW i, NEW s \in {"A", "B"}, StartBuild(i, s) PROVE AgentType'
  BY <1>6, CellAssigned DEF StartBuild, AgentType
<1>7. ASSUME NEW i, NEW st \in {"empty", "built"}, EndBuild(i, st)
      PROVE  AgentType'
  BY <1>7, CellAssigned DEF EndBuild, AgentType
<1> QED BY <1>2, <1>3, <1>4, <1>5, <1>6, <1>7

(* Assignments to the record of an attach task.                            *)
LEMMA AttachAssigned ==
  ASSUME attach \in [1 .. MaxOps -> Attach], NEW o, NEW pc \in AttachPc,
         NEW c \in Nat, NEW b \in BOOLEAN
  PROVE  /\ [attach EXCEPT ![o].pc = pc] \in [1 .. MaxOps -> Attach]
         /\ [attach EXCEPT ![o].pc = pc, ![o].cell = c] \in [1 .. MaxOps -> Attach]
         /\ [attach EXCEPT ![o].cell = c, ![o].pc = pc] \in [1 .. MaxOps -> Attach]
         /\ [attach EXCEPT ![o].pc = pc, ![o].registered = b] \in [1 .. MaxOps -> Attach]
         /\ [attach EXCEPT ![o] = [NoAttach EXCEPT !.pc = pc]] \in [1 .. MaxOps -> Attach]
<1>1. \A a \in Attach : /\ [a EXCEPT !.pc = pc] \in Attach
                        /\ [a EXCEPT !.pc = pc, !.cell = c] \in Attach
                        /\ [a EXCEPT !.cell = c, !.pc = pc] \in Attach
                        /\ [a EXCEPT !.pc = pc, !.registered = b] \in Attach
  BY DEF Attach
<1>2. NoAttach \in Attach
  BY DEF NoAttach, Attach, AttachPc, NoCell
<1>3. [NoAttach EXCEPT !.pc = pc] \in Attach
  BY <1>1, <1>2
<1> HIDE DEF NoAttach, Attach
<1> QED BY <1>1, <1>3

(* Assignments to the record of a removal.                                 *)
LEMMA RemoveAssigned ==
  ASSUME remove \in [Removers -> Remove], NEW r, NEW pc \in RemovePc,
         NEW c \in Nat, NEW s \in {"A", "B", "none"}
  PROVE  /\ [remove EXCEPT ![r].pc = pc] \in [Removers -> Remove]
         /\ [remove EXCEPT ![r].pc = pc, ![r].cell = c] \in [Removers -> Remove]
         /\ [remove EXCEPT ![r].current = s, ![r].pc = pc] \in [Removers -> Remove]
<1>1. \A a \in Remove : /\ [a EXCEPT !.pc = pc] \in Remove
                        /\ [a EXCEPT !.pc = pc, !.cell = c] \in Remove
                        /\ [a EXCEPT !.current = s, !.pc = pc] \in Remove
  BY DEF Remove
<1> QED BY <1>1

TeamType == /\ members \subseteq Members /\ convs \subseteq Members
            /\ published \in {"A", "B", "none"}
            /\ stopping \in {"no", "registry", "loops"}
            /\ loops \subseteq Members /\ loopsStopped \in BOOLEAN
            /\ evicted \in Nat /\ lost \subseteq Members

TasksType == /\ TeamType
             /\ AgentType
             /\ attach \in [1 .. MaxOps -> Attach]
             /\ remove \in [Removers -> Remove]
             /\ boot \in Boot

(* The type invariant, part by part.                                       *)
LEMMA TypeParts == LifecycleTypeOK <=> RegistryTypeOK /\ TasksType
BY DEF LifecycleTypeOK, TasksType, TeamType, AgentType

(* An attach task keeps the types.                                         *)
LEMMA AttachTypes ==
  ASSUME TasksType, RegistryTypeOK, NEW o \in DOMAIN ops, AttachStep(o)
  PROVE  TasksType'
<1> DEFINE m == ops[o].member
<1>1. m \in Members
  BY OpsTyped DEF RegistryTypeOK
<1> HIDE DEF m
<1>2. TeamType /\ AgentType /\ attach \in [1 .. MaxOps -> Attach]
  BY DEF TasksType
<1>3. ASSUME NEW pc \in AttachPc, Goto(o, pc)
      PROVE  attach' \in [1 .. MaxOps -> Attach]
  BY <1>2, <1>3, AttachAssigned DEF Goto
<1>4. ASSUME attach' \in [1 .. MaxOps -> Attach], AgentType', TeamType',
             UNCHANGED <<remove, boot>>
      PROVE  TasksType'
  BY <1>4 DEF TasksType
<1>5. ASSUME UNCHANGED attachRest, UNCHANGED loopsStopped, loops' \subseteq Members
      PROVE  TeamType' /\ UNCHANGED <<remove, boot>>
  BY <1>2, <1>5 DEF TeamType, attachRest, teamVars
<1>6. UNCHANGED loopVars => UNCHANGED loopsStopped /\ loops' \subseteq Members
  BY <1>2 DEF loopVars, TeamType
<1>7. UNCHANGED agentVars => AgentType'
  BY <1>2 DEF agentVars, AgentType
<1>8. /\ "spawned" \in AttachPc /\ "killing" \in AttachPc /\ "warming" \in AttachPc
      /\ "slot" \in AttachPc /\ "init" \in AttachPc /\ "building" \in AttachPc
      /\ "built" \in AttachPc /\ "owned" \in AttachPc /\ "registered" \in AttachPc
      /\ "committed" \in AttachPc /\ "unregister" \in AttachPc /\ "stale" \in AttachPc
      /\ "failed" \in AttachPc /\ "reaping" \in AttachPc /\ "failing" \in AttachPc
      /\ "reapingFailed" \in AttachPc /\ "done" \in AttachPc
  BY DEF AttachPc
<1>9. CASE AttachKills(o)
  <2>1. TeamType' /\ UNCHANGED <<remove, boot>>
    BY <1>2, <1>9 DEF AttachKills, TeamType, teamVars, loopVars
  <2>2. CASE Goto(o, "failed") /\ UNCHANGED agentVars
    BY <1>3, <1>4, <1>7, <1>8, <2>1, <2>2
  <2>3. CASE /\ TakeSlot(m)
             /\ attach' = [attach EXCEPT ![o].pc = "killing", ![o].cell = Unbuilt(m)]
    <3>1. AgentType' /\ Unbuilt(m) \in Nat
      BY <1>1, <1>2, <2>3, AgentSteps
    <3>2. attach' \in [1 .. MaxOps -> Attach]
      BY <1>2, <1>8, <2>3, <3>1, AttachAssigned
    <3> QED BY <1>4, <2>1, <3>1, <3>2
  <2> QED BY <1>9, <2>2, <2>3 DEF AttachKills, m
<1>10. CASE AttachJoins(o)
  BY <1>2, <1>3, <1>4, <1>5, <1>6, <1>8, <1>10, AgentSteps DEF AttachJoins
<1>11. CASE AttachReads(o)
  BY <1>3, <1>4, <1>5, <1>6, <1>7, <1>8, <1>11 DEF AttachReads
<1>12. CASE AttachObtains(o)
  <2>1. AgentType' /\ slot'[m] \in Nat
    BY <1>1, <1>2, <1>12, AgentSteps DEF AttachObtains, m
  <2>2. attach' \in [1 .. MaxOps -> Attach]
    BY <1>2, <1>8, <1>12, <2>1, AttachAssigned DEF AttachObtains, m
  <2> QED BY <1>4, <1>5, <1>6, <1>12, <2>1, <2>2 DEF AttachObtains
<1>13. CASE AttachInits(o)
  <2>1. AgentType'
    <3>1. UNCHANGED agentVars \/ StartBuild(attach[o].cell, "A")
      BY <1>13 DEF AttachInits
    <3>2. \A i : StartBuild(i, "A") => AgentType'
      BY <1>2, AgentSteps
    <3> QED BY <1>7, <3>1, <3>2
  <2> QED BY <1>3, <1>4, <1>5, <1>6, <1>8, <1>13, <2>1 DEF AttachInits
<1>14. CASE AttachBuilds(o)
  <2>1. AgentType'
    <3>1. EndBuild(attach[o].cell, "built") \/ EndBuild(attach[o].cell, "empty")
      BY <1>14 DEF AttachBuilds
    <3>2. \A i : EndBuild(i, "built") \/ EndBuild(i, "empty") => AgentType'
      BY <1>2, AgentSteps
    <3> QED BY <3>1, <3>2
  <2> QED BY <1>3, <1>4, <1>5, <1>6, <1>8, <1>14, <2>1 DEF AttachBuilds
<1>15. CASE AttachChecks(o)
  BY <1>3, <1>4, <1>5, <1>6, <1>7, <1>8, <1>15 DEF AttachChecks
<1>16. CASE AttachRegisters(o)
  <2>1. attach' \in [1 .. MaxOps -> Attach]
    <3>1. PICK pc \in AttachPc, b \in BOOLEAN :
            attach' = [attach EXCEPT ![o].pc = pc, ![o].registered = b]
      BY <1>8, <1>16 DEF AttachRegisters
    <3>2. NoCell \in Nat
      BY DEF NoCell
    <3> QED BY <1>2, <3>1, <3>2, AttachAssigned
  <2>2. loops' \subseteq Members
    BY <1>1, <1>2, <1>16 DEF AttachRegisters, TeamType, m
  <2> QED BY <1>4, <1>5, <1>7, <1>16, <2>1, <2>2 DEF AttachRegisters
<1>17. CASE AttachCommits(o)
  BY <1>3, <1>4, <1>5, <1>6, <1>7, <1>8, <1>17 DEF AttachCommits
<1>18. CASE AttachPublishes(o)
  BY <1>3, <1>4, <1>5, <1>6, <1>7, <1>8, <1>18 DEF AttachPublishes
<1>19. CASE AttachUnregisters(o)
  <2>1. loops' \subseteq Members
    BY <1>2, <1>19 DEF AttachUnregisters, TeamType
  <2> QED BY <1>3, <1>4, <1>5, <1>7, <1>8, <1>19, <2>1 DEF AttachUnregisters
<1>20. CASE AttachCleans(o)
  <2>1. TeamType' /\ UNCHANGED <<remove, boot>>
    BY <1>5, <1>6, <1>20 DEF AttachCleans
  <2>2. CASE /\ Goto(o, IF At(o, "failed") THEN "failing" ELSE "done")
             /\ UNCHANGED agentVars
    BY <1>3, <1>4, <1>7, <1>8, <2>1, <2>2
  <2>3. CASE /\ TakeSlot(m)
             /\ attach' = [attach EXCEPT
                             ![o].pc = IF At(o, "failed") THEN "reapingFailed"
                                                          ELSE "reaping",
                             ![o].cell = Unbuilt(m)]
    <3>1. AgentType' /\ Unbuilt(m) \in Nat
      BY <1>1, <1>2, <2>3, AgentSteps
    <3>2. attach' \in [1 .. MaxOps -> Attach]
      BY <1>2, <1>8, <2>3, <3>1, AttachAssigned
    <3> QED BY <1>4, <2>1, <3>1, <3>2
  <2> QED BY <1>20, <2>2, <2>3 DEF AttachCleans, m
<1>21. CASE AttachReaps(o)
  BY <1>2, <1>3, <1>4, <1>5, <1>6, <1>8, <1>21, AgentSteps DEF AttachReaps
<1>22. CASE AttachFails(o)
  BY <1>3, <1>4, <1>5, <1>6, <1>7, <1>8, <1>22 DEF AttachFails
<1> QED BY <1>9, <1>10, <1>11, <1>12, <1>13, <1>14, <1>15, <1>16, <1>17, <1>18,
           <1>19, <1>20, <1>21, <1>22 DEF AttachStep

(* A removal keeps the types.                                              *)
LEMMA RemoveTypes ==
  ASSUME TasksType, NEW r \in Removers, RemoveStep(r)
  PROVE  TasksType'
<1> DEFINE m == remove[r].member
<1>1. /\ TeamType /\ AgentType /\ remove \in [Removers -> Remove]
      /\ remove[r] \in Remove
  BY DEF TasksType
<1>2. m \in Members
  BY <1>1 DEF Remove
<1> HIDE DEF m
<1>3. ASSUME NEW pc \in RemovePc, To(r, pc)
      PROVE  remove' \in [Removers -> Remove]
  BY <1>1, <1>3, RemoveAssigned DEF To
<1>4. ASSUME remove' \in [Removers -> Remove], AgentType', UNCHANGED removeRest,
             loops' \subseteq Members, UNCHANGED loopsStopped,
             members' \subseteq Members, convs' \subseteq Members,
             UNCHANGED published
      PROVE  TasksType'
  BY <1>1, <1>4 DEF TasksType, TeamType, removeRest
<1>5. UNCHANGED loopVars => UNCHANGED loopsStopped /\ loops' \subseteq Members
  BY <1>1 DEF loopVars, TeamType
<1>6. UNCHANGED agentVars => AgentType'
  BY <1>1 DEF agentVars, AgentType
<1>7. UNCHANGED teamVars => /\ members' \subseteq Members /\ convs' \subseteq Members
                            /\ UNCHANGED published
  BY <1>1 DEF teamVars, TeamType
<1>8. /\ "idle" \in RemovePc /\ "kill" \in RemovePc /\ "killing" \in RemovePc
      /\ "persist" \in RemovePc /\ "second" \in RemovePc /\ "kill2" \in RemovePc
      /\ "killing2" \in RemovePc /\ "finish" \in RemovePc /\ "hook" \in RemovePc
      /\ "delete" \in RemovePc
  BY DEF RemovePc
<1>9. CASE RemoveJoins(r)
  BY <1>3, <1>4, <1>5, <1>6, <1>7, <1>8, <1>9 DEF RemoveJoins
<1>10. CASE RemoveUnloops(r)
  <2>1. loops' \subseteq Members
    BY <1>1, <1>10 DEF RemoveUnloops, TeamType
  <2> QED BY <1>3, <1>4, <1>6, <1>7, <1>8, <1>10, <2>1 DEF RemoveUnloops
<1>11. CASE RemoveKills(r)
  <2>1. AgentType' /\ Unbuilt(m) \in Nat
    BY <1>1, <1>2, <1>11, AgentSteps DEF RemoveKills, m
  <2>2. PICK pc \in RemovePc :
          remove' = [remove EXCEPT ![r].pc = pc, ![r].cell = Unbuilt(m)]
    BY <1>8, <1>11 DEF RemoveKills, m
  <2>3. remove' \in [Removers -> Remove]
    BY <1>1, <2>1, <2>2, RemoveAssigned
  <2> QED BY <1>4, <1>5, <1>7, <1>11, <2>1, <2>3 DEF RemoveKills
<1>12. CASE RemoveWaits(r)
  BY <1>1, <1>3, <1>4, <1>5, <1>7, <1>8, <1>12, AgentSteps DEF RemoveWaits
<1>13. CASE RemovePersists(r)
  <2>1. members' \subseteq Members /\ convs' \subseteq Members /\ UNCHANGED published
    BY <1>1, <1>13 DEF RemovePersists, TeamType
  <2>2. remove' \in [Removers -> Remove]
    BY <1>3, <1>8, <1>13 DEF RemovePersists
  <2> QED BY <1>4, <1>5, <1>6, <1>13, <2>1, <2>2 DEF RemovePersists
<1>14. CASE RemoveAgain(r)
  <2>1. loops' \subseteq Members /\ published \in {"A", "B", "none"}
    BY <1>1, <1>14 DEF RemoveAgain, TeamType
  <2>2. PICK pc \in RemovePc :
          remove' = [remove EXCEPT ![r].current = published, ![r].pc = pc]
    BY <1>8, <1>14 DEF RemoveAgain
  <2>3. remove' \in [Removers -> Remove]
    BY <1>1, <2>1, <2>2, RemoveAssigned
  <2> QED BY <1>4, <1>6, <1>7, <1>14, <2>1, <2>3 DEF RemoveAgain
<1>15. CASE RemoveFinishes(r)
  BY <1>3, <1>4, <1>5, <1>6, <1>7, <1>8, <1>15 DEF RemoveFinishes
<1>16. CASE RemoveHook(r)
  BY <1>1, <1>2, <1>3, <1>4, <1>5, <1>7, <1>8, <1>16, AgentSteps DEF RemoveHook, m
<1>17. CASE RemoveDeletes(r)
  <2>1. members' \subseteq Members /\ convs' \subseteq Members /\ UNCHANGED published
    BY <1>1, <1>17 DEF RemoveDeletes, TeamType
  <2> QED BY <1>3, <1>4, <1>5, <1>6, <1>8, <1>17, <2>1 DEF RemoveDeletes
<1> QED BY <1>9, <1>10, <1>11, <1>12, <1>13, <1>14, <1>15, <1>16, <1>17
        DEF RemoveStep

(* The bootstrap of a replacement keeps the types.                         *)
LEMMA BootTypes ==
  ASSUME TasksType, BootBegins \/ BootStep
  PROVE  TasksType'
<1>1. /\ TeamType /\ AgentType /\ boot \in Boot /\ members \subseteq Members
      /\ boot.made \in Nat /\ boot.cell \in Nat /\ boot.member \in Members
      /\ boot.todo \subseteq Members
  BY DEF TasksType, TeamType, Boot
<1>2. ASSUME boot' \in Boot, AgentType', UNCHANGED bootRest, published' \in {"A", "B", "none"}
      PROVE  TasksType'
  BY <1>2 DEF TasksType, TeamType, bootRest, loopVars
<1>3. UNCHANGED published => published' \in {"A", "B", "none"}
  BY <1>1 DEF TeamType
<1>4. UNCHANGED agentVars => AgentType'
  BY <1>1 DEF agentVars, AgentType
<1>5. /\ \A pc \in BootPc : [boot EXCEPT !.pc = pc] \in Boot
      /\ \A pc \in BootPc, t \in SUBSET Members :
           [boot EXCEPT !.pc = pc, !.todo = t] \in Boot
      /\ \A pc \in BootPc, c \in Nat : [boot EXCEPT !.pc = pc, !.cell = c] \in Boot
      /\ \A pc \in BootPc, c \in Nat, n \in Members, t \in SUBSET Members :
           [boot EXCEPT !.pc = pc, !.cell = c, !.member = n, !.todo = t] \in Boot
  BY <1>1 DEF Boot
<1>6. NoBoot \in Boot
  <2>1. (CHOOSE n \in Members : TRUE) \in Members
    BY <1>1
  <2> QED BY <2>1 DEF NoBoot, Boot, BootPc, NoCell
<1>7. /\ "no" \in BootPc /\ "kill" \in BootPc /\ "killing" \in BootPc
      /\ "slot" \in BootPc /\ "init" \in BootPc /\ "building" \in BootPc
      /\ "cleanup" \in BootPc /\ "cleaning" \in BootPc
  BY DEF BootPc
<1>8. CASE BootBegins
  <2>1. boot' \in Boot
    <3>1. boot.made + 1 \in Nat /\ members \in SUBSET Members
      BY <1>1
    <3> QED BY <1>6, <1>7, <1>8, <3>1 DEF BootBegins, Boot
  <2> QED BY <1>2, <1>3, <1>4, <1>8, <2>1 DEF BootBegins
<1>9. CASE BootKills
  <2>1. PICK n \in boot.todo :
          /\ TakeSlot(n)
          /\ boot' = [boot EXCEPT
                        !.pc = IF boot.pc = "kill" THEN "killing" ELSE "cleaning",
                        !.cell = Unbuilt(n), !.member = n, !.todo = @ \ {n}]
    BY <1>9 DEF BootKills
  <2>2. n \in Members /\ boot.todo \ {n} \in SUBSET Members
    BY <1>1
  <2>3. AgentType' /\ Unbuilt(n) \in Nat
    BY <1>1, <2>1, <2>2, AgentSteps
  <2>4. PICK pc \in BootPc :
          boot' = [boot EXCEPT !.pc = pc, !.cell = Unbuilt(n), !.member = n,
                               !.todo = boot.todo \ {n}]
    BY <1>7, <2>1
  <2>5. boot' \in Boot
    BY <1>5, <2>2, <2>3, <2>4
  <2> QED BY <1>2, <1>3, <1>9, <2>3, <2>5 DEF BootKills
<1>10. CASE BootJoins
  <2>1. AgentType'
    BY <1>1, <1>10, AgentSteps DEF BootJoins
  <2>2. boot' \in Boot
    <3>1. PICK pc \in BootPc : boot' = [boot EXCEPT !.pc = pc]
      BY <1>7, <1>10 DEF BootJoins
    <3> QED BY <1>5, <3>1
  <2> QED BY <1>2, <1>3, <1>10, <2>1, <2>2 DEF BootJoins
<1>11. CASE BootObtains
  <2>1. AgentType' /\ slot'[boot.member] \in Nat
    <3>1. "B" \in {"A", "B"} /\ Obtain(boot.member, "B")
      BY <1>11 DEF BootObtains
    <3> QED BY <1>1, <3>1, AgentSteps
  <2>2. boot' \in Boot
    <3>1. boot' = [boot EXCEPT !.pc = "init", !.cell = slot'[boot.member]]
      BY <1>11 DEF BootObtains
    <3> QED BY <1>1, <1>7, <2>1, <3>1 DEF Boot
  <2> QED BY <1>2, <1>3, <1>11, <2>1, <2>2 DEF BootObtains
<1>12. CASE BootInits
  <2>1. AgentType'
    <3>1. UNCHANGED agentVars \/ StartBuild(boot.cell, "B")
      BY <1>12 DEF BootInits
    <3>2. \A i : StartBuild(i, "B") => AgentType'
      BY <1>1, AgentSteps
    <3> QED BY <1>4, <3>1, <3>2
  <2>2. boot' \in Boot
    <3>1. PICK pc \in BootPc : boot' = [boot EXCEPT !.pc = pc]
      BY <1>7, <1>12 DEF BootInits
    <3> QED BY <1>5, <3>1
  <2> QED BY <1>2, <1>3, <1>12, <2>1, <2>2 DEF BootInits
<1>13. CASE BootBuilds
  <2>1. AgentType'
    <3>1. EndBuild(boot.cell, "built") \/ EndBuild(boot.cell, "empty")
      BY <1>13 DEF BootBuilds
    <3>2. \A i : EndBuild(i, "built") \/ EndBuild(i, "empty") => AgentType'
      BY <1>1, AgentSteps
    <3> QED BY <3>1, <3>2
  <2>2. boot' \in Boot
    <3>1. \/ boot' = [boot EXCEPT !.pc = "kill"]
          \/ boot' = [boot EXCEPT !.pc = "cleanup", !.todo = members]
      BY <1>13 DEF BootBuilds, BootFailed
    <3>2. members \in SUBSET Members
      BY <1>1
    <3> QED BY <1>5, <1>7, <3>1, <3>2
  <2> QED BY <1>2, <1>3, <1>13, <2>1, <2>2 DEF BootBuilds
<1>14. CASE BootFails
  <2>1. boot' \in Boot
    BY <1>1, <1>5, <1>7, <1>14 DEF BootFails, BootFailed
  <2> QED BY <1>2, <1>3, <1>4, <1>14, <2>1 DEF BootFails
<1>15. CASE BootEnds
  <2>1. boot' \in Boot
    BY <1>1, <1>6, <1>15 DEF BootEnds, Boot
  <2>2. published' \in {"A", "B", "none"}
    BY <1>1, <1>15 DEF BootEnds, TeamType
  <2> QED BY <1>2, <1>4, <1>15, <2>1, <2>2 DEF BootEnds
<1> QED BY <1>8, <1>9, <1>10, <1>11, <1>12, <1>13, <1>14, <1>15 DEF BootStep

(* Whoever starts an operation, evicts an agent or stops the session keeps *)
(* the types.                                                              *)
LEMMA CallTypes ==
  ASSUME TasksType, RegistryTypeOK,
         \/ \E m \in Members : AddAgent(m) \/ Ensure(m) \/ Evict(m)
         \/ \E r \in Removers, m \in Members : RemoveBegins(r, m)
         \/ StopSession \/ StopStep
  PROVE  TasksType'
<1>1. /\ TeamType /\ AgentType /\ remove \in [Removers -> Remove]
      /\ attach \in [1 .. MaxOps -> Attach] /\ boot \in Boot
  BY DEF TasksType
<1>2. \A o : Spawn(o) => attach' \in [1 .. MaxOps -> Attach]
  <2>1. "spawned" \in AttachPc /\ NoCell \in Nat
    BY DEF AttachPc, NoCell
  <2>2. TRUE \in BOOLEAN
    OBVIOUS
  <2>3. ASSUME NEW o, Spawn(o)
        PROVE  attach' \in [1 .. MaxOps -> Attach]
    BY <1>1, <2>1, <2>2, <2>3, AttachAssigned DEF Spawn
  <2> QED BY <2>3
<1>3. ASSUME NEW m \in Members, AddAgent(m) PROVE TasksType'
  <2>1. attach' \in [1 .. MaxOps -> Attach]
    BY <1>1, <1>2, <1>3 DEF AddAgent
  <2>2. TeamType' /\ AgentType'
    BY <1>1, <1>3 DEF AddAgent, TeamType, AgentType, loopVars, agentVars
  <2> QED BY <1>1, <1>3, <2>1, <2>2 DEF AddAgent, TasksType
<1>4. ASSUME NEW m \in Members, Ensure(m) PROVE TasksType'
  <2>1. attach' \in [1 .. MaxOps -> Attach]
    BY <1>2, <1>4 DEF Ensure
  <2>2. TeamType' /\ AgentType'
    BY <1>1, <1>4 DEF Ensure, TeamType, AgentType, teamVars, loopVars, agentVars
  <2> QED BY <1>1, <1>4, <2>1, <2>2 DEF Ensure, TasksType
<1>5. ASSUME NEW m \in Members, Evict(m) PROVE TasksType'
  <2>1. AgentType'
    BY <1>1, <1>5, AgentSteps DEF Evict
  <2>2. TeamType'
    BY <1>1, <1>5 DEF Evict, TeamType, teamVars, loopVars
  <2> QED BY <1>1, <1>5, <2>1, <2>2 DEF Evict, TasksType
<1>6. ASSUME NEW r \in Removers, NEW m \in Members, RemoveBegins(r, m)
      PROVE  TasksType'
  <2> DEFINE c == [NoRemove EXCEPT !.member = m, !.captured = published]
  <2>1. c \in Remove
    <3>1. published \in {"A", "B", "none"}
      BY <1>1 DEF TeamType
    <3> QED BY <3>1 DEF NoRemove, Remove, RemovePc, NoOp, NoCell
  <2>2. \A pc \in RemovePc, l \in Nat :
          [c EXCEPT !.pc = pc, !.lease = l] \in Remove /\ [c EXCEPT !.pc = pc] \in Remove
    BY <2>1 DEF Remove
  <2>3. entry[m].op \in Nat /\ NextOp \in Nat
    <3>1. entry[m] \in Entry /\ Len(ops) \in Nat
      BY DEF RegistryTypeOK
    <3> QED BY <3>1 DEF Entry, NextOp
  <2>4. "unloop" \in RemovePc /\ "joined" \in RemovePc
    BY DEF RemovePc
  <2>5. \/ remove' = [remove EXCEPT ![r] = [c EXCEPT !.pc = "unloop", !.lease = NextOp]]
        \/ remove' = [remove EXCEPT ![r] = [c EXCEPT !.pc = "joined", !.lease = entry[m].op]]
        \/ remove' = [remove EXCEPT ![r] = [c EXCEPT !.pc = "unloop"]]
    BY <1>6 DEF RemoveBegins
  <2> HIDE DEF c
  <2>6. remove' \in [Removers -> Remove]
    BY <1>1, <2>2, <2>3, <2>4, <2>5
  <2>7. TeamType' /\ AgentType'
    BY <1>1, <1>6 DEF RemoveBegins, TeamType, AgentType, teamVars, loopVars,
                      agentVars, removeRest
  <2> QED BY <1>1, <1>6, <2>6, <2>7 DEF RemoveBegins, TasksType, removeRest
<1>7. CASE StopSession \/ StopStep
  <2>1. TeamType' /\ AgentType'
    BY <1>1, <1>7 DEF StopSession, StopStep, TeamType, AgentType, teamVars,
                      loopVars, agentVars
  <2> QED BY <1>1, <1>7, <2>1 DEF StopSession, StopStep, TasksType
<1> QED BY <1>3, <1>4, <1>5, <1>6, <1>7

(* Every step keeps the types of the tasks.                                *)
LEMMA TasksTypeStep ==
  ASSUME TasksType, RegistryTypeOK, [Next]_vars
  PROVE  TasksType'
<1>1. CASE UNCHANGED vars
  BY <1>1 DEF vars, TasksType, TeamType, AgentType, teamVars, loopVars, agentVars
<1> QED BY <1>1, AttachTypes, RemoveTypes, BootTypes, CallTypes DEF Next

------------------------------------------------------------------------------
(* Every step is a step of the registry.                                   *)

(* A step of the tasks is an operation of the registry or leaves it alone. *)
LEMMA StepOfRegistry ==
  ASSUME LeasesKnown, [Next]_vars
  PROVE  [RegistryNext]_registryVars
<1>1. CASE UNCHANGED vars
  BY <1>1 DEF vars
<1>2. ASSUME NEW m \in Members, AddAgent(m) \/ Ensure(m) \/ Evict(m)
      PROVE  [RegistryNext]_registryVars
  <2>1. \/ ReserveAttach(m, FALSE) \/ ReserveAttach(m, TRUE) \/ ReserveRepair(m)
        \/ UNCHANGED registryVars
    BY <1>2 DEF AddAgent, Ensure, Evict
  <2> QED BY <2>1 DEF RegistryNext
<1>3. ASSUME NEW o \in DOMAIN ops, AttachStep(o)
      PROVE  [RegistryNext]_registryVars
  <2>1. CommitReady(o) \/ CommitFailed(o) \/ UNCHANGED registryVars
    BY <1>3 DEF AttachStep, AttachKills, AttachJoins, AttachReads, AttachObtains,
                AttachInits, AttachBuilds, AttachChecks, AttachRegisters,
                AttachCommits, AttachPublishes, AttachUnregisters, AttachCleans,
                AttachReaps, AttachFails
  <2> QED BY <2>1 DEF RegistryNext
<1>4. ASSUME NEW r \in Removers, NEW m \in Members, RemoveBegins(r, m)
      PROVE  [RegistryNext]_registryVars
  <2>1. BeginRemove(m) \/ UNCHANGED registryVars
    BY <1>4 DEF RemoveBegins
  <2> QED BY <2>1 DEF RegistryNext
<1>5. ASSUME NEW r \in Removers, RemoveStep(r)
      PROVE  [RegistryNext]_registryVars
  <2>1. \/ remove[r].lease # NoOp /\ (\/ RestoreAttachRequired(remove[r].lease)
                                      \/ FinishRemove(remove[r].lease))
        \/ UNCHANGED registryVars
    BY <1>5 DEF RemoveStep, RemoveJoins, RemoveUnloops, RemoveKills, RemoveWaits,
                RemovePersists, RemoveAgain, RemoveFinishes, RemoveHook,
                RemoveDeletes
  <2>2. remove[r].lease # NoOp => remove[r].lease \in DOMAIN ops
    BY DEF LeasesKnown
  <2> QED BY <2>1, <2>2 DEF RegistryNext
<1>6. CASE StopSession \/ StopStep
  BY <1>6 DEF StopSession, StopStep, RegistryNext
<1>7. CASE BootBegins \/ BootStep
  BY <1>7 DEF BootBegins, BootStep, BootKills, BootJoins, BootObtains, BootInits,
              BootBuilds, BootFails, BootEnds, bootRest
<1> QED BY <1>1, <1>2, <1>3, <1>4, <1>5, <1>6, <1>7 DEF Next

(* Operations are only added, one at a time; none loses its member or  *)
(* its lease, and one that is pending was pending or is new.               *)
LEMMA OpsGrow ==
  ASSUME RegistryInv, [RegistryNext]_registryVars
  PROVE  /\ DOMAIN ops \subseteq DOMAIN ops'
         /\ \A k \in DOMAIN ops : ops'[k].member = ops[k].member
         /\ \A k \in DOMAIN ops : ops'[k].lease = ops[k].lease
         /\ \A k \in DOMAIN ops : ops'[k].signal = "Pending" => ops[k].signal = "Pending"
         /\ Len(ops) <= MaxOps => Len(ops') <= MaxOps
<1> DEFINE Grown == /\ DOMAIN ops \subseteq DOMAIN ops'
                    /\ \A k \in DOMAIN ops : ops'[k].member = ops[k].member
                    /\ \A k \in DOMAIN ops : ops'[k].lease = ops[k].lease
                    /\ \A k \in DOMAIN ops :
                         ops'[k].signal = "Pending" => ops[k].signal = "Pending"
                    /\ Len(ops) <= MaxOps => Len(ops') <= MaxOps
<1>1. ops \in Seq(Operation) /\ EntriesNameTheirOps /\ MaxOps \in Nat
      /\ Outcome = {"Ready", "Failed", "Removed", "SessionStopped"}
  BY RegistryAssumption DEF RegistryInv, RegistryTypeOK, Outcome
<1>2. ASSUME NEW o \in DOMAIN ops, NEW out \in Outcome
      PROVE  LET os == Answered(ops, o, out)
             IN  /\ os \in Seq(Operation) /\ DOMAIN os = DOMAIN ops /\ Len(os) = Len(ops)
                 /\ \A k \in DOMAIN ops : os[k].member = ops[k].member
                 /\ \A k \in DOMAIN ops : os[k].lease = ops[k].lease
                 /\ \A k \in DOMAIN ops :
                      os[k].signal = "Pending" => ops[k].signal = "Pending"
  <2> DEFINE os == Answered(ops, o, out)
  <2>1. out # "Pending"
    BY <1>1
  <2> HIDE DEF os
  <2>2. /\ os \in Seq(Operation) /\ DOMAIN os = DOMAIN ops /\ Len(os) = Len(ops)
        /\ os[o].signal = out
        /\ \A k \in DOMAIN ops : /\ os[k].member = ops[k].member
                                 /\ os[k].lease = ops[k].lease
                                 /\ k # o => os[k] = ops[k]
    <3>1. ops \in Seq(Operation)
      BY <1>1
    <3> QED BY <3>1, AnsweredProps, Zenon DEF os
  <2>3. \A k \in DOMAIN ops : os[k].signal = "Pending" => ops[k].signal = "Pending"
    BY <2>1, <2>2
  <2> QED BY <2>2, <2>3 DEF os
<1>3. ASSUME NEW o \in DOMAIN ops,
             \/ CommitReady(o) \/ CommitFailed(o)
             \/ FinishRemove(o) \/ RestoreAttachRequired(o)
      PROVE  Grown
  <2>1. PICK out \in Outcome : ops' = Answered(ops, o, out)
    BY <1>1, <1>3 DEF CommitReady, CommitFailed, FinishRemove,
                      RestoreAttachRequired
  <2> QED BY <1>2, <2>1
<1>4. ASSUME NEW z \in Members, NEW retry \in BOOLEAN,
             ReserveAttach(z, retry) \/ ReserveRepair(z)
      PROVE  Grown
  <2>1. Len(ops) < MaxOps /\ ops' = Append(ops, Started(z, "attach"))
    BY <1>4 DEF ReserveAttach, ReserveRepair, StartAttach
  <2> QED BY <1>1, <2>1, AppendProps
<1>5. ASSUME NEW z \in Members, BeginRemove(z)
      PROVE  Grown
  <2> DEFINE os == IF entry[z].kind = "Attaching"
                   THEN Answered(ops, entry[z].op, "Removed") ELSE ops
  <2>1. ops' = Append(os, Started(z, "remove")) /\ Len(ops) < MaxOps
    BY <1>5 DEF BeginRemove
  <2>2. /\ os \in Seq(Operation) /\ DOMAIN os = DOMAIN ops /\ Len(os) = Len(ops)
        /\ \A k \in DOMAIN ops : os[k].member = ops[k].member
        /\ \A k \in DOMAIN ops : os[k].lease = ops[k].lease
        /\ \A k \in DOMAIN ops : os[k].signal = "Pending" => ops[k].signal = "Pending"
    <3>1. CASE entry[z].kind = "Attaching"
      <4>1. entry[z].op \in DOMAIN ops
        BY <1>1, <3>1 DEF EntriesNameTheirOps, SenderKind, OwnedKind
      <4>2. "Removed" \in Outcome
        BY <1>1
      <4> QED BY <1>2, <3>1, <4>1, <4>2
    <3>2. CASE entry[z].kind # "Attaching"
      BY <1>1, <3>2
    <3> QED BY <3>1, <3>2
  <2> HIDE DEF os
  <2> QED BY <1>1, <2>1, <2>2, AppendProps
<1>6. CASE StopRegistry
  <2>1. /\ DOMAIN ops' = DOMAIN ops
        /\ \A k \in DOMAIN ops : \/ ops'[k] = [ops[k] EXCEPT !.signal = "SessionStopped"]
                                 \/ ops'[k] = ops[k]
    BY <1>6 DEF StopRegistry
  <2>2. \A k \in DOMAIN ops : ops[k] \in Operation
    BY <1>1
  <2>3. Len(ops') = Len(ops)
    <3>1. ops' = [k \in 1 .. Len(ops) |-> ops'[k]] /\ Len(ops) \in Nat
      BY <1>1, <1>6 DEF StopRegistry
    <3> QED BY <3>1
  <2> QED BY <2>1, <2>2, <2>3 DEF Operation
<1>7. CASE (\E z \in Members : SeedReady(z)) \/ UNCHANGED registryVars
  BY <1>7 DEF SeedReady, registryVars
<1>8. Grown
  BY <1>3, <1>4, <1>5, <1>6, <1>7 DEF RegistryNext
<1> QED BY <1>8

(* A stopped registry stays as it is, and one that stops is empty.         *)
LEMMA StoppedStays ==
  ASSUME [RegistryNext]_registryVars,
         stopped => \A m \in Members : entry[m].kind = "Absent"
  PROVE  /\ stopped => stopped'
         /\ stopped' => \A m \in Members : entry'[m].kind = "Absent"
<1>1. stopped => UNCHANGED registryVars
  BY DEF RegistryNext, SeedReady, ReserveAttach, ReserveRepair, CommitReady,
         CommitFailed, BeginRemove, FinishRemove, RestoreAttachRequired,
         StopRegistry
<1>2. ~stopped => StopRegistry \/ stopped' = stopped
  BY DEF RegistryNext, SeedReady, ReserveAttach, ReserveRepair, StartAttach,
         CommitReady, CommitFailed, BeginRemove, FinishRemove,
         RestoreAttachRequired, registryVars
<1>3. StopRegistry => \A m \in Members : entry'[m].kind = "Absent"
  BY DEF StopRegistry
<1> QED BY <1>1, <1>2, <1>3 DEF registryVars

------------------------------------------------------------------------------
(* The order in which session A ends.                                      *)

(* What is published changes from A to none to B only.                     *)
LEMMA PublishedSteps ==
  ASSUME StopOrder, [Next]_vars
  PROVE  /\ published' # published => \/ StopSession
                                      \/ BootEnds /\ published = "none" /\ published' = "B"
         /\ published # "A" => published' # "A"
<1>1. published' # published => StopSession \/ BootEnds
  BY DEF Next, vars, AddAgent, Ensure, Evict, AttachStep, AttachKills,
         AttachJoins, AttachReads, AttachObtains, AttachInits, AttachBuilds,
         AttachChecks, AttachRegisters, AttachCommits, AttachPublishes,
         AttachUnregisters, AttachCleans, AttachReaps, AttachFails, RemoveBegins,
         RemoveStep, RemoveJoins, RemoveUnloops, RemoveKills, RemoveWaits,
         RemovePersists, RemoveAgain, RemoveFinishes, RemoveHook, RemoveDeletes,
         StopStep, BootBegins, BootStep, BootKills, BootJoins, BootObtains,
         BootInits, BootBuilds, BootFails, attachRest, teamVars
<1>2. ASSUME BootEnds, published' # published
      PROVE  published = "none" /\ published' = "B"
  <2>1. boot.pc # "no" /\ published' = "B"
    BY <1>2 DEF BootEnds
  <2> QED BY <2>1 DEF StopOrder
<1> QED BY <1>1, <1>2 DEF StopSession

(* A stop that was begun goes on until the registry is stopped.            *)
LEMMA StoppingSteps ==
  ASSUME [Next]_vars, stopping = "registry"
  PROVE  stopping' = "registry" \/ stopped'
<1>1. stopping' # stopping => StopSession \/ StopStep
  BY DEF Next, vars, AddAgent, Ensure, Evict, AttachStep, AttachKills,
         AttachJoins, AttachReads, AttachObtains, AttachInits, AttachBuilds,
         AttachChecks, AttachRegisters, AttachCommits, AttachPublishes,
         AttachUnregisters, AttachCleans, AttachReaps, AttachFails, RemoveBegins,
         RemoveStep, RemoveJoins, RemoveUnloops, RemoveKills, RemoveWaits,
         RemovePersists, RemoveAgain, RemoveFinishes, RemoveHook, RemoveDeletes,
         BootBegins, BootStep, BootKills, BootJoins, BootObtains, BootEnds,
         BootInits, BootBuilds, BootFails, attachRest, removeRest, bootRest
<1> QED BY <1>1 DEF StopSession, StopStep, StopRegistry

(* A replacement is bootstrapped only when nothing is published.           *)
LEMMA BootingSteps ==
  ASSUME StopOrder, [Next]_vars, boot'.pc # "no"
  PROVE  published' = "none"
<1>1. boot' # boot => BootBegins \/ BootStep
  BY DEF Next, vars, AddAgent, Ensure, Evict, AttachStep, AttachKills,
         AttachJoins, AttachReads, AttachObtains, AttachInits, AttachBuilds,
         AttachChecks, AttachRegisters, AttachCommits, AttachPublishes,
         AttachUnregisters, AttachCleans, AttachReaps, AttachFails, RemoveBegins,
         RemoveStep, RemoveJoins, RemoveUnloops, RemoveKills, RemoveWaits,
         RemovePersists, RemoveAgain, RemoveFinishes, RemoveHook, RemoveDeletes,
         StopSession, StopStep, attachRest, removeRest
<1>2. CASE BootBegins
  BY <1>2 DEF BootBegins
<1>3. CASE BootEnds
  BY <1>3 DEF BootEnds, NoBoot
<1>4. CASE BootKills \/ BootJoins \/ BootObtains \/ BootInits \/ BootBuilds \/ BootFails
  BY <1>4 DEF BootKills, BootJoins, BootObtains, BootInits, BootBuilds, BootFails,
              StopOrder
<1>5. CASE boot' = boot
  <2>1. published = "none" /\ ~BootEnds /\ ~StopSession
    BY <1>5 DEF StopOrder, BootEnds, NoBoot, StopSession
  <2> QED BY <2>1, PublishedSteps
<1> QED BY <1>1, <1>2, <1>3, <1>4, <1>5 DEF BootStep

(* A session that was replaced has stopped, or is about to.                *)
LEMMA StopOrderStep ==
  ASSUME StopOrder, LeasesKnown, [Next]_vars
  PROVE  StopOrder'
<1>1. /\ stopped => stopped'
      /\ stopped' => \A m \in Members : entry'[m].kind = "Absent"
  BY StepOfRegistry, StoppedStays DEF StopOrder
<1>2. ASSUME published' # "A"
      PROVE  stopping' = "registry" \/ stopped'
  <2>1. CASE published = "A"
    BY <1>2, <2>1, PublishedSteps DEF StopSession
  <2>2. CASE published # "A"
    BY <1>1, <2>2, StoppingSteps DEF StopOrder
  <2> QED BY <2>1, <2>2
<1> QED BY <1>1, <1>2, BootingSteps DEF StopOrder

------------------------------------------------------------------------------
(* Leases of removals.                                                     *)

Finishing == {"kill2", "killing2", "finish"}

(* What a step of a removal does to its record.                            *)
LEMMA RemoveEffect ==
  ASSUME TasksType, NEW q \in Removers, RemoveStep(q)
  PROVE  /\ \A r \in Removers : r # q => remove'[r] = remove[r]
         /\ remove'[q].lease = remove[q].lease
         /\ remove'[q].captured = remove[q].captured
         /\ remove'[q].pc \in Holding => remove[q].pc \in Holding
         /\ remove'[q].pc \in Finishing =>
              \/ remove[q].pc \in Finishing /\ remove'[q].current = remove[q].current
              \/ remove'[q].current = published
<1>1. remove \in [Removers -> Remove] /\ remove[q] \in Remove
  BY DEF TasksType
<1>2. \/ /\ \E pc : remove' = [remove EXCEPT ![q].pc = pc]
         /\ remove[q].pc \in Finishing \/ remove'[q].pc \notin Finishing
         /\ remove[q].pc \in Holding \/ remove'[q].pc \notin Holding
      \/ /\ \E pc, c : remove' = [remove EXCEPT ![q].pc = pc, ![q].cell = c]
         /\ remove[q].pc \in Finishing \/ remove'[q].pc \notin Finishing
         /\ remove[q].pc \in Holding
      \/ /\ \E pc : remove' = [remove EXCEPT ![q].current = published, ![q].pc = pc]
         /\ remove[q].pc \in Holding
  <2>1. CASE RemoveJoins(q) \/ RemoveHook(q) \/ RemoveDeletes(q)
    BY <1>1, <2>1 DEF RemoveJoins, RemoveHook, RemoveDeletes, To, Holding, Finishing, Remove
  <2>2. CASE RemoveUnloops(q) \/ RemovePersists(q)
    BY <1>1, <2>2 DEF RemoveUnloops, RemovePersists, To, Holding, Finishing, Remove
  <2>3. CASE RemoveWaits(q)
    <3>1. \E pc : remove' = [remove EXCEPT ![q].pc = pc]
      BY <2>3 DEF RemoveWaits, To
    <3> QED BY <1>1, <2>3, <3>1 DEF RemoveWaits, To, Holding, Finishing, Remove
  <2>4. CASE RemoveFinishes(q)
    BY <1>1, <2>4 DEF RemoveFinishes, To, Holding, Finishing, Remove
  <2>5. CASE RemoveKills(q)
    <3>1. \E pc, c : remove' = [remove EXCEPT ![q].pc = pc, ![q].cell = c]
      BY <2>5 DEF RemoveKills
    <3> QED BY <1>1, <2>5, <3>1 DEF RemoveKills, Holding, Finishing, Remove
  <2>6. CASE RemoveAgain(q)
    BY <2>6 DEF RemoveAgain, Holding
  <2> QED BY <2>1, <2>2, <2>3, <2>4, <2>5, <2>6, RemoveStep(q) DEF RemoveStep
<1>3. CASE /\ \E pc : remove' = [remove EXCEPT ![q].pc = pc]
           /\ remove[q].pc \in Finishing \/ remove'[q].pc \notin Finishing
           /\ remove[q].pc \in Holding \/ remove'[q].pc \notin Holding
  <2>1. PICK pc : remove' = [remove EXCEPT ![q].pc = pc]
    BY <1>3
  <2>2. remove'[q] = [remove[q] EXCEPT !.pc = pc]
        /\ \A r \in Removers : r # q => remove'[r] = remove[r]
    BY <1>1, <2>1
  <2>3. /\ remove'[q].lease = remove[q].lease
        /\ remove'[q].captured = remove[q].captured
        /\ remove'[q].current = remove[q].current
    BY <1>1, <2>2 DEF Remove
  <2> QED BY <1>3, <2>2, <2>3
<1>4. CASE /\ \E pc, c : remove' = [remove EXCEPT ![q].pc = pc, ![q].cell = c]
           /\ remove[q].pc \in Finishing \/ remove'[q].pc \notin Finishing
           /\ remove[q].pc \in Holding
  <2>1. PICK pc, c : remove' = [remove EXCEPT ![q].pc = pc, ![q].cell = c]
    BY <1>4
  <2>2. remove'[q] = [remove[q] EXCEPT !.pc = pc, !.cell = c]
        /\ \A r \in Removers : r # q => remove'[r] = remove[r]
    BY <1>1, <2>1
  <2>3. /\ remove'[q].lease = remove[q].lease
        /\ remove'[q].captured = remove[q].captured
        /\ remove'[q].current = remove[q].current
    BY <1>1, <2>2 DEF Remove
  <2> QED BY <1>4, <2>2, <2>3
<1>5. CASE /\ \E pc : remove' = [remove EXCEPT ![q].current = published, ![q].pc = pc]
           /\ remove[q].pc \in Holding
  <2>1. PICK pc : remove' = [remove EXCEPT ![q].current = published, ![q].pc = pc]
    BY <1>5
  <2>2. remove'[q] = [remove[q] EXCEPT !.current = published, !.pc = pc]
        /\ \A r \in Removers : r # q => remove'[r] = remove[r]
    BY <1>1, <2>1
  <2>3. /\ remove'[q].lease = remove[q].lease
        /\ remove'[q].captured = remove[q].captured
        /\ remove'[q].current = published
    BY <1>1, <2>2 DEF Remove
  <2> QED BY <1>5, <2>2, <2>3
<1> QED BY <1>2, <1>3, <1>4, <1>5

(* What the start of a removal does to its record.                         *)
LEMMA BeginEffect ==
  ASSUME TasksType, NEW q \in Removers, NEW m \in Members, RemoveBegins(q, m)
  PROVE  /\ remove[q].pc = "idle"
         /\ \A r \in Removers : r # q => remove'[r] = remove[r]
         /\ remove'[q].pc \notin Finishing
         /\ \/ /\ BeginRemove(m) /\ published = "A"
               /\ remove'[q].pc = "unloop" /\ remove'[q].lease = NextOp
               /\ remove'[q].captured = "A"
            \/ /\ UNCHANGED registryVars
               /\ entry[m].kind = "Removing" /\ remove'[q].pc = "joined"
               /\ remove'[q].lease = entry[m].op
            \/ /\ UNCHANGED registryVars
               /\ remove'[q].pc = "unloop" /\ remove'[q].lease = NoOp
<1> DEFINE c == [NoRemove EXCEPT !.member = m, !.captured = published]
<1>1. remove \in [Removers -> Remove]
  BY DEF TasksType
<1>3. \/ /\ BeginRemove(m) /\ published = "A"
         /\ remove' = [remove EXCEPT ![q] = [c EXCEPT !.pc = "unloop", !.lease = NextOp]]
      \/ /\ UNCHANGED registryVars /\ entry[m].kind = "Removing"
         /\ remove' = [remove EXCEPT ![q] = [c EXCEPT !.pc = "joined", !.lease = entry[m].op]]
      \/ /\ UNCHANGED registryVars
         /\ remove' = [remove EXCEPT ![q] = [c EXCEPT !.pc = "unloop"]]
  BY DEF RemoveBegins
<1>4. remove[q].pc = "idle"
  BY DEF RemoveBegins
<1>2. c \in Remove /\ c.captured = published /\ c.lease = NoOp
  <2>1. NoRemove \in Remove
    BY DEF NoRemove, Remove, RemovePc, NoOp, NoCell
  <2>2. published \in {"A", "B", "none"}
    BY DEF TasksType, TeamType
  <2>3. NoRemove.lease = NoOp
    BY DEF NoRemove
  <2> QED BY <2>1, <2>2, <2>3 DEF Remove
<1> HIDE DEF c
<1>9. ASSUME NEW pc, NEW l
      PROVE  /\ [c EXCEPT !.pc = pc, !.lease = l].pc = pc
             /\ [c EXCEPT !.pc = pc, !.lease = l].lease = l
             /\ [c EXCEPT !.pc = pc, !.lease = l].captured = published
             /\ [c EXCEPT !.pc = pc].pc = pc
             /\ [c EXCEPT !.pc = pc].lease = NoOp
  BY <1>2 DEF Remove
<1>5. ASSUME NEW v, remove' = [remove EXCEPT ![q] = v]
      PROVE  remove'[q] = v /\ \A r \in Removers : r # q => remove'[r] = remove[r]
  BY <1>1, <1>5
<1>6. CASE /\ BeginRemove(m) /\ published = "A"
           /\ remove' = [remove EXCEPT ![q] = [c EXCEPT !.pc = "unloop", !.lease = NextOp]]
  <2>1. /\ remove'[q] = [c EXCEPT !.pc = "unloop", !.lease = NextOp]
        /\ \A r \in Removers : r # q => remove'[r] = remove[r]
    BY <1>5, <1>6
  <2>2. remove'[q].pc = "unloop" /\ remove'[q].lease = NextOp
        /\ remove'[q].captured = published
    BY <1>9, <2>1
  <2> QED BY <1>4, <1>6, <2>1, <2>2 DEF Finishing
<1>7. CASE /\ UNCHANGED registryVars /\ entry[m].kind = "Removing"
           /\ remove' = [remove EXCEPT ![q] = [c EXCEPT !.pc = "joined", !.lease = entry[m].op]]
  <2>1. /\ remove'[q] = [c EXCEPT !.pc = "joined", !.lease = entry[m].op]
        /\ \A r \in Removers : r # q => remove'[r] = remove[r]
    BY <1>5, <1>7
  <2>2. remove'[q].pc = "joined" /\ remove'[q].lease = entry[m].op
    BY <1>9, <2>1
  <2> QED BY <1>4, <1>7, <2>1, <2>2 DEF Finishing
<1>8. CASE /\ UNCHANGED registryVars
           /\ remove' = [remove EXCEPT ![q] = [c EXCEPT !.pc = "unloop"]]
  <2>1. /\ remove'[q] = [c EXCEPT !.pc = "unloop"]
        /\ \A r \in Removers : r # q => remove'[r] = remove[r]
    BY <1>5, <1>8
  <2>2. remove'[q].pc = "unloop" /\ remove'[q].lease = NoOp
    BY <1>9, <2>1
  <2> QED BY <1>4, <1>8, <2>1, <2>2 DEF Finishing
<1> QED BY <1>3, <1>6, <1>7, <1>8

(* Only calls of remove_agent touch the records of removals.               *)
LEMMA RemoveUntouched ==
  ASSUME [Next]_vars
  PROVE  \/ remove' = remove
         \/ \E q \in Removers, m \in Members : RemoveBegins(q, m)
         \/ \E q \in Removers : RemoveStep(q)
BY DEF Next, vars, AddAgent, Ensure, Evict, AttachStep, AttachKills,
       AttachJoins, AttachReads, AttachObtains, AttachInits, AttachBuilds,
       AttachChecks, AttachRegisters, AttachCommits, AttachPublishes,
       AttachUnregisters, AttachCleans, AttachReaps, AttachFails, StopSession,
       StopStep, BootBegins, BootStep, BootKills, BootJoins, BootObtains,
       BootInits, BootBuilds, BootFails, BootEnds, attachRest, bootRest

(* A removal's lease stays an operation of A.                              *)
LEMMA LeasesKnownStep ==
  ASSUME LifecycleCore, [Next]_vars
  PROVE  LeasesKnown'
<1>1. /\ TasksType /\ RegistryInv /\ LeasesKnown /\ StopOrder
      /\ EntriesNameTheirOps /\ ops \in Seq(Operation)
  BY TypeParts DEF LifecycleCore, RegistryInv, RegistryTypeOK
<1>2. DOMAIN ops \subseteq DOMAIN ops' /\ (published # "A" => published' # "A")
  BY <1>1, StepOfRegistry, OpsGrow, PublishedSteps
<1> DEFINE Known(r) ==
      /\ remove'[r].lease # NoOp => remove'[r].lease \in DOMAIN ops'
      /\ remove'[r].pc \in Holding /\ remove'[r].lease # NoOp => remove'[r].captured = "A"
      /\ remove'[r].pc \in Finishing => remove'[r].current = "A" \/ published' # "A"
<1>3. ASSUME NEW r \in Removers, remove'[r] = remove[r]
      PROVE  Known(r)
  BY <1>1, <1>2, <1>3 DEF LeasesKnown, Finishing
<1>4. ASSUME NEW q \in Removers, RemoveStep(q), NEW r \in Removers
      PROVE  Known(r)
  <2>1. CASE r # q
    BY <1>1, <1>3, <1>4, <2>1, RemoveEffect
  <2>2. CASE r = q
    <3>1. /\ remove'[r].lease = remove[r].lease
          /\ remove'[r].captured = remove[r].captured
          /\ remove'[r].pc \in Holding => remove[r].pc \in Holding
          /\ remove'[r].pc \in Finishing =>
               \/ remove[r].pc \in Finishing /\ remove'[r].current = remove[r].current
               \/ remove'[r].current = published
      BY <1>1, <1>4, <2>2, RemoveEffect
    <3> QED BY <1>1, <1>2, <3>1 DEF LeasesKnown, Finishing
  <2> QED BY <2>1, <2>2
<1>5. ASSUME NEW q \in Removers, NEW m \in Members, RemoveBegins(q, m),
             NEW r \in Removers
      PROVE  Known(r)
  <2>1. CASE r # q
    BY <1>1, <1>3, <1>5, <2>1, BeginEffect
  <2>2. CASE r = q
    <3>1. CASE /\ BeginRemove(m) /\ remove'[r].lease = NextOp
               /\ remove'[r].pc = "unloop" /\ remove'[r].captured = "A"
      <4>1. NextOp \in DOMAIN ops'
        <5> DEFINE os == IF entry[m].kind = "Attaching"
                         THEN Answered(ops, entry[m].op, "Removed") ELSE ops
        <5>1. ops' = Append(os, Started(m, "remove"))
          BY <3>1 DEF BeginRemove
        <5>2. os \in Seq(Operation) /\ Len(os) = Len(ops)
          <6>1. CASE entry[m].kind = "Attaching"
            <7>1. entry[m].op \in DOMAIN ops /\ "Removed" \in Outcome
              BY <1>1, <6>1 DEF EntriesNameTheirOps, SenderKind, OwnedKind, Outcome
            <7> QED BY <1>1, <6>1, <7>1, AnsweredProps
          <6> QED BY <1>1, <6>1
        <5> HIDE DEF os
        <5> QED BY <1>1, <5>1, <5>2, AppendProps DEF NextOp
      <4> QED BY <3>1, <4>1 DEF Finishing
    <3>2. CASE /\ entry[m].kind = "Removing" /\ remove'[r].pc = "joined"
               /\ remove'[r].lease = entry[m].op
      <4>1. entry[m].op \in DOMAIN ops
        BY <1>1, <3>2 DEF EntriesNameTheirOps, SenderKind, OwnedKind
      <4> QED BY <1>2, <3>2, <4>1 DEF Holding, Finishing
    <3>3. CASE remove'[r].pc = "unloop" /\ remove'[r].lease = NoOp
      BY <3>3 DEF Finishing
    <3> QED BY <1>1, <1>5, <2>2, <3>1, <3>2, <3>3, BeginEffect
  <2> QED BY <2>1, <2>2
<1>6. ASSUME NEW r \in Removers PROVE Known(r)
  BY <1>3, <1>4, <1>5, RemoveUntouched
<1> QED BY <1>6 DEF LeasesKnown, Finishing
------------------------------------------------------------------------------
(* The owners of the operations.                                           *)

(* An operation without an outcome holds its member's entry, in a registry *)
(* that has not stopped.                                                   *)
LEMMA PendingOwns ==
  ASSUME RegistryInv, StopOrder, NEW o \in DOMAIN ops, ops[o].signal = "Pending"
  PROVE  /\ ~stopped
         /\ \/ ops[o].lease = "attach" /\ Owns(o, "Attaching")
            \/ ops[o].lease = "remove" /\ Owns(o, "Removing")
<1> DEFINE m == ops[o].member
<1>1. m \in Members
  BY OpsTyped DEF RegistryInv, RegistryTypeOK
<1>2. entry[m].kind \in OwnedKind /\ entry[m].op = o
  BY DEF RegistryInv, PendingIsOwned
<1>3. /\ entry[m].kind = "Attaching" => ops[o].lease = "attach"
      /\ entry[m].kind = "Removing" => ops[o].lease = "remove"
  BY <1>1, <1>2 DEF RegistryInv, EntriesNameTheirOps, SenderKind
<1>4. entry[m] \in Entry
  BY <1>1 DEF RegistryInv, RegistryTypeOK
<1>5. entry[m] = [kind |-> entry[m].kind, op |-> entry[m].op]
  BY <1>4 DEF Entry
<1>6. ~stopped
  BY <1>1, <1>2 DEF StopOrder, OwnedKind
<1> QED BY <1>2, <1>3, <1>5, <1>6 DEF OwnedKind, Owns

(* Whoever answers an operation leaves it answered.                        *)
LEMMA AnswerIsNotPending ==
  ASSUME RegistryInv, NEW o \in DOMAIN ops,
         \/ CommitReady(o) \/ CommitFailed(o)
         \/ FinishRemove(o) \/ RestoreAttachRequired(o)
  PROVE  ops'[o].signal # "Pending"
<1>1. ops \in Seq(Operation)
  BY DEF RegistryInv, RegistryTypeOK
<1>2. PICK out \in Outcome : ops' = Answered(ops, o, out)
  BY DEF CommitReady, CommitFailed, FinishRemove, RestoreAttachRequired, Outcome
<1>3. ops'[o].signal = out
  BY <1>1, <1>2, AnsweredProps
<1> QED BY <1>3 DEF Outcome

(* Only an attach task and whoever starts one touch its record.            *)
LEMMA AttachUntouched ==
  ASSUME [Next]_vars
  PROVE  \/ attach' = attach
         \/ Spawn(NextOp)
         \/ \E o \in DOMAIN ops : AttachStep(o)
BY DEF Next, vars, AddAgent, Ensure, Evict, RemoveBegins, RemoveStep, RemoveJoins,
       RemoveUnloops, RemoveKills, RemoveWaits, RemovePersists, RemoveAgain,
       RemoveFinishes, RemoveHook, RemoveDeletes, removeRest, StopSession,
       StopStep, BootBegins, BootStep, BootKills, BootJoins, BootObtains,
       BootInits, BootBuilds, BootFails, BootEnds, bootRest

(* An attach task changes its own record only.                             *)
LEMMA AttachOwn ==
  ASSUME TasksType, NEW q \in DOMAIN ops, AttachStep(q), NEW o \in 1 .. MaxOps, o # q
  PROVE  attach'[o] = attach[o]
<1>1. attach \in [1 .. MaxOps -> Attach]
  BY DEF TasksType
<1>2. ASSUME NEW pc, NEW c, NEW b,
             \/ attach' = [attach EXCEPT ![q].pc = pc]
             \/ attach' = [attach EXCEPT ![q].pc = pc, ![q].cell = c]
             \/ attach' = [attach EXCEPT ![q].cell = c, ![q].pc = pc]
             \/ attach' = [attach EXCEPT ![q].pc = pc, ![q].registered = b]
      PROVE  attach'[o] = attach[o]
  BY <1>1, <1>2
<1>3. CASE AttachKills(q) \/ AttachCleans(q)
  BY <1>2, <1>3 DEF AttachKills, AttachCleans, Goto
<1>4. CASE AttachObtains(q)
  BY <1>2, <1>4 DEF AttachObtains
<1>5. CASE AttachRegisters(q)
  BY <1>2, <1>5 DEF AttachRegisters
<1>6. CASE \/ AttachJoins(q) \/ AttachReads(q) \/ AttachInits(q) \/ AttachBuilds(q)
           \/ AttachChecks(q) \/ AttachCommits(q) \/ AttachPublishes(q)
           \/ AttachUnregisters(q) \/ AttachReaps(q) \/ AttachFails(q)
  <2>1. \E pc : Goto(q, pc)
    BY <1>6 DEF AttachJoins, AttachReads, AttachInits, AttachBuilds, AttachChecks,
                AttachCommits, AttachPublishes, AttachUnregisters, AttachReaps,
                AttachFails
  <2> QED BY <1>2, <2>1 DEF Goto
<1> QED BY <1>3, <1>4, <1>5, <1>6 DEF AttachStep

(* An attach that owns its entry stays short of the step that decides it,  *)
(* or decides it.                                                          *)
LEMMA AttachKept ==
  ASSUME TasksType, RegistryInv, OpsBounded, [Next]_vars, NEW o \in DOMAIN ops,
         OwnsAttach(o), attach[o].pc \in Deciding, ops'[o].signal = "Pending"
  PROVE  attach'[o].pc \in Deciding
<1>1. /\ attach \in [1 .. MaxOps -> Attach] /\ o \in 1 .. MaxOps
      /\ attach[o] \in Attach /\ NextOp # o
  <2>1. ops \in Seq(Operation) /\ MaxOps \in Nat
    BY RegistryAssumption DEF RegistryInv, RegistryTypeOK
  <2> QED BY <2>1 DEF TasksType, OpsBounded, NextOp
<1>2. ASSUME Spawn(NextOp) PROVE attach'[o] = attach[o]
  BY <1>1, <1>2 DEF Spawn
<1>3. ASSUME AttachStep(o) PROVE attach'[o].pc \in Deciding
  <2>1. ASSUME NEW pc, Goto(o, pc) PROVE attach'[o].pc = pc
    BY <1>1, <2>1 DEF Goto, Attach
  <2>2. ASSUME NEW pc, NEW c, attach' = [attach EXCEPT ![o].pc = pc, ![o].cell = c]
        PROVE  attach'[o].pc = pc
    BY <1>1, <2>2 DEF Attach
  <2>3. CASE AttachKills(o)
    BY <2>1, <2>2, <2>3 DEF AttachKills, Deciding
  <2>4. CASE AttachJoins(o)
    BY <2>1, <2>4 DEF AttachJoins, Deciding
  <2>5. CASE AttachReads(o)
    BY <2>1, <2>5 DEF AttachReads, Deciding
  <2>6. CASE AttachObtains(o)
    <3>1. attach'[o].pc = "init"
      BY <1>1, <2>6 DEF AttachObtains, Attach
    <3> QED BY <3>1 DEF Deciding
  <2>7. CASE AttachInits(o)
    BY <2>1, <2>7 DEF AttachInits, Deciding
  <2>8. CASE AttachBuilds(o)
    BY <2>1, <2>8 DEF AttachBuilds, Deciding
  <2>9. CASE AttachChecks(o)
    BY <2>1, <2>9 DEF AttachChecks, Deciding
  <2>10. CASE AttachRegisters(o)
    <3>1. attach'[o].pc \in {"registered", "failed"}
      BY <1>1, <2>10 DEF AttachRegisters, Attach
    <3> QED BY <3>1 DEF Deciding
  <2>11. CASE AttachCommits(o)
    BY <2>11, AnswerIsNotPending DEF AttachCommits
  <2>12. CASE AttachPublishes(o) \/ AttachUnregisters(o)
    BY <2>12 DEF AttachPublishes, AttachUnregisters, At, Deciding
  <2>13. CASE AttachCleans(o)
    <3>1. At(o, "failed")
      BY <2>13 DEF AttachCleans, At, Deciding
    <3> QED BY <2>1, <2>2, <2>13, <3>1 DEF AttachCleans, Deciding
  <2>14. CASE AttachReaps(o)
    <3>1. ~At(o, "reaping")
      BY DEF At, Deciding
    <3> QED BY <2>1, <2>14, <3>1 DEF AttachReaps, Deciding
  <2>15. CASE AttachFails(o)
    BY <2>15, AnswerIsNotPending DEF AttachFails
  <2> QED BY <1>3, <2>3, <2>4, <2>5, <2>6, <2>7, <2>8, <2>9, <2>10, <2>11, <2>12,
             <2>13, <2>14, <2>15 DEF AttachStep
<1> QED BY <1>1, <1>2, <1>3, AttachUntouched, AttachOwn

(* A removal that owns its entry holds on to its lease until it decides.   *)
LEMMA RemoveKept ==
  ASSUME Faults \cap {"load", "welcome"} = {}, TasksType, RegistryInv, LeasesKnown,
         [Next]_vars, NEW o \in DOMAIN ops, NEW r \in Removers,
         ~stopped, Owns(o, "Removing"), published = "A",
         remove[r].lease = o, remove[r].pc \in Holding, ops'[o].signal = "Pending"
  PROVE  remove'[r].lease = o /\ remove'[r].pc \in Holding
<1>1. /\ remove \in [Removers -> Remove] /\ remove[r] \in Remove
      /\ o # NoOp /\ "load" \notin Faults
  BY DEF TasksType, RegistryInv, RegistryTypeOK, NoOp
<1>2. remove[r].captured = "A"
      /\ (remove[r].pc \in Finishing => remove[r].current = "A")
  BY <1>1 DEF LeasesKnown, Finishing
<1>3. ASSUME RemoveStep(r) PROVE remove'[r].pc \in Holding
  <2>1. ASSUME NEW pc, To(r, pc) PROVE remove'[r].pc = pc
    BY <1>1, <2>1 DEF To, Remove
  <2>2. CASE RemoveJoins(r) \/ RemoveHook(r) \/ RemoveDeletes(r)
    BY <2>2 DEF RemoveJoins, RemoveHook, RemoveDeletes, Holding
  <2>3. CASE RemoveUnloops(r)
    BY <2>1, <2>3 DEF RemoveUnloops, Holding
  <2>4. CASE RemoveKills(r)
    <3>1. remove'[r].pc \in {"killing", "killing2"}
      BY <1>1, <2>4 DEF RemoveKills, Remove
    <3> QED BY <3>1 DEF Holding
  <2>5. CASE RemoveWaits(r)
    BY <2>1, <2>5 DEF RemoveWaits, Holding
  <2>6. CASE RemovePersists(r)
    <3>1. To(r, "second")
      BY <1>1, <2>6, AnswerIsNotPending DEF RemovePersists
    <3> QED BY <2>1, <3>1 DEF Holding
  <2>7. CASE RemoveAgain(r)
    <3>1. remove'[r].pc = "kill2"
      BY <1>1, <2>7 DEF RemoveAgain, Remove
    <3> QED BY <3>1 DEF Holding
  <2>8. CASE RemoveFinishes(r)
    <3>1. remove[r].captured = remove[r].current
      BY <1>2, <2>8 DEF RemoveFinishes, Finishing
    <3> QED BY <1>1, <2>8, <3>1, AnswerIsNotPending DEF RemoveFinishes
  <2> QED BY <1>3, <2>2, <2>3, <2>4, <2>5, <2>6, <2>7, <2>8 DEF RemoveStep
<1>4. ASSUME NEW q \in Removers, RemoveStep(q)
      PROVE  remove'[r].lease = o /\ remove'[r].pc \in Holding
  <2>1. CASE q = r
    BY <1>3, <1>4, <2>1, RemoveEffect
  <2>2. CASE q # r
    BY <1>4, <2>2, RemoveEffect
  <2> QED BY <2>1, <2>2
<1>5. ASSUME NEW q \in Removers, NEW m \in Members, RemoveBegins(q, m)
      PROVE  remove'[r].lease = o /\ remove'[r].pc \in Holding
  <2>1. remove[q].pc = "idle" /\ (q # r => remove'[r] = remove[r])
    BY <1>5, BeginEffect
  <2> QED BY <2>1 DEF Holding
<1> QED BY <1>4, <1>5, RemoveUntouched
(* Where a new operation comes from: a call that reserved an attach and    *)
(* spawned its task, or a removal that was given its lease.                *)
LEMMA NewOperation ==
  ASSUME Faults \cap {"load", "welcome"} = {}, TasksType, RegistryInv, [Next]_vars,
         NEW o \in DOMAIN ops', o \notin DOMAIN ops
  PROVE  \/ ops'[o].lease = "attach" /\ attach'[o].pc \in Deciding
         \/ /\ ops'[o].lease = "remove"
            /\ \E r \in Removers : remove'[r].lease = o /\ remove'[r].pc \in Holding
<1>1. /\ ops \in Seq(Operation) /\ attach \in [1 .. MaxOps -> Attach]
      /\ EntriesNameTheirOps /\ "welcome" \notin Faults /\ MaxOps \in Nat
  BY RegistryAssumption DEF RegistryInv, RegistryTypeOK, TasksType
<1>2. ASSUME NEW m \in Members, StartAttach(m), Spawn(NextOp)
      PROVE  ops'[o].lease = "attach" /\ attach'[o].pc \in Deciding
  <2>1. Len(ops) < MaxOps /\ ops' = Append(ops, Started(m, "attach"))
    BY <1>2 DEF StartAttach
  <2>2. o = NextOp /\ NextOp \in 1 .. MaxOps /\ ops'[o] = Started(m, "attach")
    BY <1>1, <2>1, AppendProps DEF NextOp
  <2>3. attach'[o] = [NoAttach EXCEPT !.pc = "spawned"]
    BY <1>1, <1>2, <2>2 DEF Spawn
  <2>4. attach'[o].pc = "spawned"
    BY <2>3 DEF NoAttach
  <2> QED BY <2>2, <2>4 DEF Started, Deciding
<1>3. ASSUME NEW q \in Removers, NEW m \in Members, RemoveBegins(q, m)
      PROVE  /\ ops'[o].lease = "remove"
             /\ remove'[q].lease = o /\ remove'[q].pc \in Holding
  <2>1. ops' # ops
    BY DEF RegistryInv
  <2>2. /\ BeginRemove(m) /\ remove'[q].pc = "unloop" /\ remove'[q].lease = NextOp
    BY <1>3, <2>1, BeginEffect DEF registryVars
  <2> DEFINE os == IF entry[m].kind = "Attaching"
                   THEN Answered(ops, entry[m].op, "Removed") ELSE ops
  <2>3. ops' = Append(os, Started(m, "remove"))
    BY <2>2 DEF BeginRemove
  <2>4. os \in Seq(Operation) /\ Len(os) = Len(ops) /\ DOMAIN os = DOMAIN ops
    <3>1. CASE entry[m].kind = "Attaching"
      <4>1. entry[m].op \in DOMAIN ops /\ "Removed" \in Outcome
        BY <1>1, <3>1 DEF EntriesNameTheirOps, SenderKind, OwnedKind, Outcome
      <4> QED BY <1>1, <3>1, <4>1, AnsweredProps
    <3> QED BY <1>1, <3>1
  <2> HIDE DEF os
  <2>5. o = NextOp /\ ops'[o] = Started(m, "remove")
    BY <2>3, <2>4, AppendProps DEF NextOp
  <2> QED BY <2>2, <2>5 DEF Started, Holding
<1>4. ASSUME NEW m \in Members, AddAgent(m) \/ Ensure(m) \/ Evict(m)
      PROVE  ops'[o].lease = "attach" /\ attach'[o].pc \in Deciding
  <2>1. ops' # ops
    OBVIOUS
  <2>2. StartAttach(m) /\ Spawn(NextOp)
    BY <1>1, <1>4, <2>1 DEF AddAgent, Ensure, Evict, ReserveAttach, ReserveRepair,
                            registryVars
  <2> QED BY <1>2, <2>2
<1>5. DOMAIN ops' # DOMAIN ops
  OBVIOUS
<1>6. ASSUME NEW k \in DOMAIN ops, AttachStep(k) PROVE FALSE
  <2>1. CommitReady(k) \/ CommitFailed(k) \/ ops' = ops
    BY <1>6 DEF AttachStep, AttachKills, AttachJoins, AttachReads, AttachObtains,
                AttachInits, AttachBuilds, AttachChecks, AttachRegisters,
                AttachCommits, AttachPublishes, AttachUnregisters, AttachCleans,
                AttachReaps, AttachFails, registryVars
  <2> QED BY <1>5, <2>1 DEF CommitReady, CommitFailed, Answered
<1>7. ASSUME NEW r \in Removers, RemoveStep(r) PROVE FALSE
  <2>1. \/ RestoreAttachRequired(remove[r].lease) \/ FinishRemove(remove[r].lease)
        \/ ops' = ops
    BY <1>7 DEF RemoveStep, RemoveJoins, RemoveUnloops, RemoveKills, RemoveWaits,
                RemovePersists, RemoveAgain, RemoveFinishes, RemoveHook,
                RemoveDeletes, registryVars
  <2> QED BY <1>5, <2>1 DEF RestoreAttachRequired, FinishRemove, Answered
<1>8. ~(StopSession \/ StopStep)
  BY <1>5 DEF StopSession, StopStep, StopRegistry, registryVars
<1>9. ~(BootBegins \/ BootStep \/ UNCHANGED vars)
  BY <1>5 DEF BootBegins, BootStep, BootKills, BootJoins, BootObtains, BootInits,
              BootBuilds, BootFails, BootEnds, bootRest, registryVars, vars
<1> QED BY <1>3, <1>4, <1>6, <1>7, <1>8, <1>9 DEF Next

(* Owners stay at work.                                                    *)
LEMMA OwnerAtWorkStep ==
  ASSUME Faults \cap {"load", "welcome"} = {}, LifecycleCore, LifecycleCore',
         OwnerAtWork, [Next]_vars
  PROVE  OwnerAtWork'
<1>1. TasksType /\ RegistryInv /\ OpsBounded /\ LeasesKnown /\ StopOrder
  BY TypeParts DEF LifecycleCore
<1>2. RegistryInv' /\ StopOrder'
  BY DEF LifecycleCore
<1>3. ASSUME NEW o \in DOMAIN ops', ops'[o].signal = "Pending"
      PROVE  ~stopped'
  <2>1. ops' \in Seq(Operation)
    BY <1>2 DEF RegistryInv, RegistryTypeOK
  <2>2. ops'[o].member \in Members
    BY <2>1, OpsTyped
  <2>3. entry'[ops'[o].member].kind \in OwnedKind
    BY <1>2, <1>3 DEF RegistryInv, PendingIsOwned
  <2> QED BY <1>2, <2>2, <2>3 DEF StopOrder, OwnedKind
<1>4. ASSUME NEW o \in DOMAIN ops', ops'[o].signal = "Pending"
      PROVE  \/ ops'[o].lease = "attach" /\ attach'[o].pc \in Deciding
             \/ /\ ops'[o].lease = "remove"
                /\ \E r \in Removers : remove'[r].lease = o /\ remove'[r].pc \in Holding
             \/ stopping' = "registry"
  <2>1. CASE o \notin DOMAIN ops
    BY <1>1, <2>1, NewOperation
  <2>2. CASE o \in DOMAIN ops
    <3>1. ops[o].signal = "Pending" /\ ops'[o].lease = ops[o].lease
      BY <1>1, <1>4, <2>2, StepOfRegistry, OpsGrow
    <3>2. /\ ~stopped
          /\ \/ ops[o].lease = "attach" /\ Owns(o, "Attaching")
             \/ ops[o].lease = "remove" /\ Owns(o, "Removing")
      BY <1>1, <2>2, <3>1, PendingOwns
    <3>3. CASE stopping = "registry"
      BY <1>3, <1>4, <3>3, StoppingSteps
    <3>4. CASE stopping # "registry" /\ ops[o].lease = "attach"
      <4>1. OwnsAttach(o) /\ attach[o].pc \in Deciding
        BY <2>2, <3>1, <3>2, <3>4 DEF OwnsAttach, OwnerAtWork
      <4> QED BY <1>1, <1>4, <2>2, <3>1, <3>4, <4>1, AttachKept
    <3>5. CASE stopping # "registry" /\ ops[o].lease = "remove"
      <4>1. PICK r \in Removers : remove[r].lease = o /\ remove[r].pc \in Holding
        BY <2>2, <3>1, <3>5 DEF OwnerAtWork
      <4>2. published = "A" /\ Owns(o, "Removing")
        BY <1>1, <3>2, <3>5 DEF StopOrder
      <4>3. remove'[r].lease = o /\ remove'[r].pc \in Holding
        BY <1>1, <1>4, <2>2, <3>2, <4>1, <4>2, RemoveKept
      <4> QED BY <3>1, <3>5, <4>3
    <3> QED BY <3>2, <3>3, <3>4, <3>5
  <2> QED BY <2>1, <2>2
<1> QED BY <1>4 DEF OwnerAtWork

------------------------------------------------------------------------------
(* The theorems.                                                           *)

(* A session that was bootstrapped satisfies the invariant.                *)
LEMMA LifecycleInit == Init => LifecycleCore /\ OwnerAtWork
<1> SUFFICES ASSUME Init PROVE LifecycleCore /\ OwnerAtWork
  OBVIOUS
<1>1. /\ DOMAIN ops = {} /\ ops = <<>> /\ stopped = FALSE /\ published = "A"
      /\ boot = NoBoot
  BY DEF Init
<1>2. ASSUME NEW m \in Members
      PROVE  /\ entry[m].kind \in {"Ready", "Absent"} /\ entry[m].op = NoOp
             /\ entry[m] \in Entry
  <2>1. entry[m] = [kind |-> IF m \in Initial THEN "Ready" ELSE "Absent", op |-> NoOp]
    BY DEF Init
  <2> QED BY <2>1 DEF Entry, EntryKind, NoOp
<1>3. RegistryTypeOK
  <2>1. entry \in [Members -> Entry]
    <3>1. entry = [m \in Members |-> entry[m]]
      BY DEF Init
    <3> QED BY <1>2, <3>1
  <2>2. ops \in Seq(Operation)
    BY <1>1
  <2>3. stopped \in BOOLEAN
    BY <1>1
  <2> QED BY <2>1, <2>2, <2>3 DEF RegistryTypeOK
<1>4. RegistryInv
  BY <1>1, <1>2, <1>3 DEF RegistryInv, EntriesNameTheirOps, PendingIsOwned,
                          NewestOwns, SenderKind, OwnedKind
<1>5. AgentType
  <2>1. PICK order \in [1 .. Cardinality(Initial) -> Initial] :
          /\ \A m \in Initial : \E i \in DOMAIN order : order[i] = m
          /\ cells = [i \in DOMAIN order |-> [member |-> order[i], state |-> "built",
                                              dead |-> FALSE, by |-> "A"]]
          /\ slot = [m \in Members |-> IF m \in Initial
                       THEN CHOOSE i \in DOMAIN order : order[i] = m ELSE NoCell]
    BY DEF Init
  <2>2. Cardinality(Initial) \in Nat /\ Initial \subseteq Members
    BY LifecycleAssumption, FS_CardinalityType
  <2>3. DOMAIN order = 1 .. Cardinality(Initial)
    OBVIOUS
  <2>4. cells \in [1 .. Cardinality(Initial) -> Cell]
    <3>1. \A i \in DOMAIN order : [member |-> order[i], state |-> "built",
                                   dead |-> FALSE, by |-> "A"] \in Cell
      BY <2>2 DEF Cell
    <3> QED BY <2>1, <2>3, <3>1
  <2>5. cells \in Seq(Cell)
    BY <2>2, <2>4
  <2>6. \A m \in Members : slot[m] \in Nat
    <3>1. ASSUME NEW m \in Initial
          PROVE  (CHOOSE i \in DOMAIN order : order[i] = m) \in DOMAIN order
      BY <2>1
    <3>2. DOMAIN order \subseteq Nat
      BY <2>2, <2>3
    <3> QED BY <2>1, <3>1, <3>2 DEF NoCell
  <2> QED BY <2>1, <2>5, <2>6 DEF AgentType
<1>6. NoAttach \in Attach
  BY DEF NoAttach, Attach, AttachPc, NoCell
<1>7. (CHOOSE m \in Members : TRUE) \in Members
  BY LifecycleAssumption
<1>8. NoRemove \in Remove /\ NoRemove.pc = "idle" /\ NoRemove.lease = NoOp
  BY <1>7 DEF NoRemove, Remove, RemovePc, NoCell, NoOp
<1>9. NoBoot \in Boot /\ NoBoot.pc = "no"
  BY <1>7 DEF NoBoot, Boot, BootPc, NoCell
<1>10. TeamType
  BY LifecycleAssumption DEF Init, TeamType
<1>11. attach \in [1 .. MaxOps -> Attach] /\ remove \in [Removers -> Remove]
       /\ \A r \in Removers : remove[r] = NoRemove
  BY <1>6, <1>8 DEF Init
<1>12. TasksType
  BY <1>1, <1>5, <1>9, <1>10, <1>11 DEF TasksType
<1>13. LeasesKnown
  BY <1>8, <1>11 DEF LeasesKnown, Holding
<1>14. StopOrder /\ OpsBounded
  <2>1. Len(ops) = 0 /\ MaxOps \in Nat
    BY <1>1, RegistryAssumption
  <2> QED BY <1>1, <1>9, <2>1 DEF StopOrder, OpsBounded
<1>15. OwnerAtWork
  BY <1>1 DEF OwnerAtWork
<1> QED BY <1>3, <1>4, <1>12, <1>13, <1>14, <1>15, TypeParts DEF LifecycleCore

(* Every step keeps what does not depend on the faults.                    *)
LEMMA LifecycleCoreStep == LifecycleCore /\ [Next]_vars => LifecycleCore'
<1> SUFFICES ASSUME LifecycleCore, [Next]_vars PROVE LifecycleCore'
  OBVIOUS
<1>1. /\ TasksType /\ RegistryInv /\ RegistryTypeOK /\ OpsBounded
      /\ LeasesKnown /\ StopOrder
  BY TypeParts DEF LifecycleCore
<1>2. [RegistryNext]_registryVars
  BY <1>1, StepOfRegistry
<1>3. RegistryInv'
  BY <1>1, <1>2, RegistryInvStep
<1>4. LifecycleTypeOK'
  <2>1. TasksType' /\ RegistryTypeOK'
    BY <1>1, <1>3, TasksTypeStep DEF RegistryInv
  <2> QED BY <2>1 DEF LifecycleTypeOK, TasksType, TeamType, AgentType
<1>5. OpsBounded'
  BY <1>1, <1>2, OpsGrow DEF OpsBounded
<1>6. LeasesKnown' /\ StopOrder'
  BY <1>1, LeasesKnownStep, StopOrderStep
<1> QED BY <1>3, <1>4, <1>5, <1>6 DEF LifecycleCore

(* Whatever database call fails: the types, the invariant of the registry, *)
(* the leases of the removals and the order in which a session stops hold  *)
(* in every reachable state.                                               *)
THEOREM LifecycleCoreHolds == Spec => []LifecycleCore
<1>1. Init => LifecycleCore
  BY LifecycleInit
<1> QED BY <1>1, LifecycleCoreStep, PTL DEF Spec

(* If the team can be loaded and the welcome message written, the whole    *)
(* invariant holds in every reachable state.                               *)
THEOREM LifecycleCorrect ==
  ASSUME Faults \cap {"load", "welcome"} = {}
  PROVE  Spec => []LifecycleInv
<1>1. Init => LifecycleCore /\ OwnerAtWork
  BY LifecycleInit
<1>2. LifecycleCore /\ OwnerAtWork /\ [Next]_vars => LifecycleCore' /\ OwnerAtWork'
  BY LifecycleCoreStep, OwnerAtWorkStep
<1>3. LifecycleCore /\ OwnerAtWork => LifecycleInv
  BY DEF LifecycleCore, LifecycleInv
<1> QED BY <1>1, <1>2, <1>3, PTL DEF Spec

(* Under the same assumption nobody ever waits for an attach or a removal  *)
(* whose owner has gone: every early return of attach_member_runtime and   *)
(* remove_agent decides the operation first, or has lost it to someone who *)
(* decided it.                                                             *)
THEOREM NoAbandonedOperation ==
  ASSUME Faults \cap {"load", "welcome"} = {}
  PROVE  Spec => []OwnerAtWork
<1>1. LifecycleInv => OwnerAtWork
  BY DEF LifecycleInv
<1> QED BY <1>1, LifecycleCorrect, PTL

(* Every variable has the type of what it models, in every reachable       *)
(* state: the cells that attach tasks, removals and the bootstrap hold,    *)
(* their program counters, the session in the service's map.               *)
THEOREM LifecycleTypeCorrect == Spec => []LifecycleTypeOK
<1>1. LifecycleCore => LifecycleTypeOK
  BY DEF LifecycleCore
<1> QED BY <1>1, LifecycleCoreHolds, PTL

(* The tasks use the registry only through its operations: from the        *)
(* registry a bootstrap has seeded, every step of a task, a call, a stop   *)
(* or a replacement is one operation of member_runtime.rs or leaves the    *)
(* registry alone.                                                         *)
THEOREM TasksUseRegistry == Spec => [][RegistryNext]_registryVars
<1>1. LifecycleCore /\ [Next]_vars => [RegistryNext]_registryVars
  BY StepOfRegistry DEF LifecycleCore
<1> QED BY <1>1, LifecycleCoreHolds, PTL DEF Spec

(* Whatever tasks, stops and replacements do to the registry between them, *)
(* no caller waits for an operation that lost its entry, and the entry of  *)
(* a member names the last operation begun on it.                          *)
THEOREM RegistryKept == Spec => [](PendingIsOwned /\ NewestOwns)
<1>1. LifecycleCore => PendingIsOwned /\ NewestOwns
  BY DEF LifecycleCore, RegistryInv
<1> QED BY <1>1, LifecycleCoreHolds, PTL

(* No removal, stop or replacement changes what the callers that joined an *)
(* attach or a removal were told.                                          *)
THEOREM OutcomesStayFinal == Spec => OutcomeIsFinal
<1>1. LifecycleCore => RegistryInv
  BY DEF LifecycleCore
<1>2. RegistryInv /\ [RegistryNext]_registryVars =>
      [\A o \in DOMAIN ops : ops[o].signal # "Pending" =>
         o \in DOMAIN ops' /\ ops'[o] = ops[o]]_registryVars
  BY OutcomeStep
<1> QED BY <1>1, <1>2, LifecycleCoreHolds, TasksUseRegistry, PTL DEF OutcomeIsFinal

------------------------------------------------------------------------------
(* What becomes of members that are removed or ready: RemovedLeavesNothing *)
(* and ReadyIsServed.  The steps of the tasks are first brought to one     *)
(* form, the step of the task and what it does to the registry, the loops, *)
(* the map and the cells.                                                  *)

(* The cells keep what was built in them.                                  *)
SameStates == /\ DOMAIN cells \subseteq DOMAIN cells'
              /\ \A i \in DOMAIN cells : cells'[i].state = cells[i].state

SameSlots == slot' = slot /\ SameStates

(* The slot of m leaves the map.                                           *)
Frees(m) == /\ slot'[m] = NoCell
            /\ \A n \in Members : n # m => slot'[n] = slot[n]
            /\ SameStates

(* m has a slot, the one it had if it had one.                             *)
Gets(m) == /\ slot'[m] # NoCell
           /\ slot[m] # NoCell => slot'[m] = slot[m]
           /\ slot[m] = NoCell => slot'[m] \in DOMAIN cells'
           /\ \A n \in Members : n # m => slot'[n] = slot[n]
           /\ SameStates

(* The state of cell i alone changes.                                      *)
SetsState(i, st) == /\ slot' = slot
                    /\ DOMAIN cells' = DOMAIN cells
                    /\ i \in DOMAIN cells => cells'[i].state = st
                    /\ \A k \in DOMAIN cells : k # i => cells'[k].state = cells[k].state

(* A cell without an agent stays one when its agent is killed.             *)
LEMMA KillsKeepStates ==
  ASSUME AgentType, NEW i, cells' = Killed(i)
  PROVE  SameStates
<1>1. cells \in Seq(Cell)
  BY DEF AgentType
<1>2. ASSUME NEW k \in DOMAIN cells, cells' = [cells EXCEPT ![i].dead = TRUE]
      PROVE  cells'[k].state = cells[k].state
  <2>1. cells[k] \in Cell
    BY <1>1
  <2> QED BY <1>2, <2>1 DEF Cell
<1> QED BY <1>1, <1>2 DEF Killed, SameStates

(* The operations of the task manager in these terms.                      *)
LEMMA SlotEffects ==
  ASSUME AgentType
  PROVE  /\ \A m \in Members : TakeSlot(m) => Frees(m)
         /\ \A i : Join(i) => SameSlots
         /\ UNCHANGED agentVars => SameSlots
         /\ \A m \in Members, s \in {"A", "B"} : Obtain(m, s) => Gets(m)
         /\ \A i, s : StartBuild(i, s) => SetsState(i, "building")
         /\ \A i, st : EndBuild(i, st) => SetsState(i, st)
<1>1. cells \in Seq(Cell) /\ slot \in [Members -> Nat]
  BY DEF AgentType
<1>2. ASSUME NEW m \in Members, TakeSlot(m) PROVE Frees(m)
  <2>1. SameStates
    BY <1>2, KillsKeepStates DEF TakeSlot
  <2> QED BY <1>1, <1>2, <2>1 DEF TakeSlot, Frees
<1>3. ASSUME NEW i, Join(i) PROVE SameSlots
  BY <1>3, KillsKeepStates DEF Join, SameSlots
<1>4. ASSUME UNCHANGED agentVars PROVE SameSlots
  BY <1>4 DEF agentVars, SameSlots, SameStates
<1>5. ASSUME NEW m \in Members, NEW s \in {"A", "B"}, Obtain(m, s) PROVE Gets(m)
  <2>1. CASE slot[m] # NoCell
    BY <1>5, <2>1 DEF Obtain, agentVars, Gets, SameStates
  <2>2. CASE slot[m] = NoCell
    <3> DEFINE c == [member |-> m, state |-> "empty", dead |-> FALSE, by |-> s]
    <3>1. cells' = Append(cells, c) /\ slot' = [slot EXCEPT ![m] = Len(cells) + 1]
      BY <1>5, <2>2 DEF Obtain
    <3> HIDE DEF c
    <3>2. /\ Len(cells) + 1 # NoCell /\ Len(cells) + 1 \in DOMAIN cells'
          /\ DOMAIN cells \subseteq DOMAIN cells'
          /\ \A i \in DOMAIN cells : cells'[i] = cells[i]
      BY <1>1, <3>1 DEF NoCell
    <3> QED BY <1>1, <2>2, <3>1, <3>2 DEF Gets, SameStates
  <2> QED BY <2>1, <2>2
<1>6. ASSUME NEW i, NEW s, StartBuild(i, s) PROVE SetsState(i, "building")
  <2>1. \A k \in DOMAIN cells : cells[k] \in Cell
    BY <1>1
  <2>2. UNCHANGED slot /\ DOMAIN cells' = DOMAIN cells
    BY <1>6 DEF StartBuild
  <2>3. i \in DOMAIN cells => cells'[i].state = "building"
    BY <1>6, <2>1 DEF StartBuild, Cell
  <2>4. \A k \in DOMAIN cells : k # i => cells'[k] = cells[k]
    BY <1>6 DEF StartBuild
  <2> QED BY <2>2, <2>3, <2>4 DEF SetsState
<1>7. ASSUME NEW i, NEW st, EndBuild(i, st) PROVE SetsState(i, st)
  <2>1. \A k \in DOMAIN cells : cells[k] \in Cell
    BY <1>1
  <2>2. UNCHANGED slot /\ DOMAIN cells' = DOMAIN cells
    BY <1>7 DEF EndBuild
  <2>3. i \in DOMAIN cells => cells'[i].state = st
    BY <1>7, <2>1 DEF EndBuild, Cell
  <2>4. \A k \in DOMAIN cells : k # i => cells'[k] = cells[k]
    BY <1>7 DEF EndBuild
  <2> QED BY <2>2, <2>3, <2>4 DEF SetsState
<1> QED BY <1>2, <1>3, <1>4, <1>5, <1>6, <1>7

(* The entry of m alone changes.                                           *)
SetsEntry(m, e) == /\ entry'[m] = e
                   /\ \A n \in Members : n # m => entry'[n] = entry[n]

(* The operations keep their members, and ns are new ones.                 *)
OpsKeep(ns) == /\ DOMAIN ops' = DOMAIN ops \cup ns
               /\ \A k \in DOMAIN ops : ops'[k].member = ops[k].member

SameRegistry == UNCHANGED <<entry, ops, stopped>>

(* The operations of the registry in these terms.                          *)
LEMMA RegistryEffects ==
  ASSUME RegistryInv
  PROVE  /\ \A m \in Members : StartAttach(m) =>
              /\ SetsEntry(m, [kind |-> "Attaching", op |-> NextOp])
              /\ OpsKeep({NextOp}) /\ NextOp \notin DOMAIN ops
              /\ ops'[NextOp].member = m
              /\ UNCHANGED stopped
         /\ \A m \in Members : BeginRemove(m) =>
              /\ SetsEntry(m, [kind |-> "Removing", op |-> NextOp])
              /\ OpsKeep({NextOp}) /\ NextOp \notin DOMAIN ops
              /\ ops'[NextOp].member = m
              /\ UNCHANGED stopped
         /\ \A o \in DOMAIN ops : CommitReady(o) =>
              /\ SetsEntry(ops[o].member, [kind |-> "Ready", op |-> NoOp])
              /\ OpsKeep({}) /\ UNCHANGED stopped
         /\ \A o \in DOMAIN ops : CommitFailed(o) \/ RestoreAttachRequired(o) =>
              /\ SetsEntry(ops[o].member, [kind |-> "Failed", op |-> o])
              /\ OpsKeep({}) /\ UNCHANGED stopped
         /\ \A o \in DOMAIN ops : FinishRemove(o) =>
              /\ SetsEntry(ops[o].member, [kind |-> "Absent", op |-> NoOp])
              /\ OpsKeep({}) /\ UNCHANGED stopped
<1>1. /\ ops \in Seq(Operation) /\ entry \in [Members -> Entry]
      /\ EntriesNameTheirOps
      /\ Outcome = {"Ready", "Failed", "Removed", "SessionStopped"}
  BY DEF RegistryInv, RegistryTypeOK, Outcome
<1>2. ASSUME NEW m \in Members, NEW e, entry' = [entry EXCEPT ![m] = e]
      PROVE  SetsEntry(m, e)
  BY <1>1, <1>2 DEF SetsEntry
<1>3. ASSUME NEW o \in DOMAIN ops, NEW out \in Outcome, ops' = Answered(ops, o, out)
      PROVE  OpsKeep({}) /\ ops[o].member \in Members
  <2> DEFINE a == Answered(ops, o, out)
  <2>1. /\ DOMAIN a = DOMAIN ops
        /\ \A k \in DOMAIN ops : a[k].member = ops[k].member
    <3>1. ops \in Seq(Operation)
      BY <1>1
    <3> QED BY <3>1, AnsweredProps, Zenon
  <2> HIDE DEF a
  <2> QED BY <1>1, <1>3, <2>1, OpsTyped DEF OpsKeep, a
<1>4. ASSUME NEW m \in Members, NEW lease \in {"attach", "remove"},
             NEW os \in Seq(Operation), DOMAIN os = DOMAIN ops, Len(os) = Len(ops),
             \A k \in DOMAIN ops : os[k].member = ops[k].member,
             ops' = Append(os, Started(m, lease))
      PROVE  /\ OpsKeep({NextOp}) /\ NextOp \notin DOMAIN ops
             /\ ops'[NextOp].member = m
  BY <1>4, AppendProps DEF OpsKeep, NextOp, Started
<1>5. ASSUME NEW m \in Members, StartAttach(m)
      PROVE  /\ SetsEntry(m, [kind |-> "Attaching", op |-> NextOp])
             /\ OpsKeep({NextOp}) /\ NextOp \notin DOMAIN ops
             /\ ops'[NextOp].member = m
             /\ UNCHANGED stopped
  BY <1>1, <1>2, <1>4, <1>5 DEF StartAttach
<1>6. ASSUME NEW m \in Members, BeginRemove(m)
      PROVE  /\ SetsEntry(m, [kind |-> "Removing", op |-> NextOp])
             /\ OpsKeep({NextOp}) /\ NextOp \notin DOMAIN ops
             /\ ops'[NextOp].member = m
             /\ UNCHANGED stopped
  <2> DEFINE os == IF entry[m].kind = "Attaching"
                   THEN Answered(ops, entry[m].op, "Removed") ELSE ops
  <2>1. /\ ops' = Append(os, Started(m, "remove")) /\ UNCHANGED stopped
        /\ entry' = [entry EXCEPT ![m] = [kind |-> "Removing", op |-> NextOp]]
    BY <1>6 DEF BeginRemove
  <2>2. /\ os \in Seq(Operation) /\ DOMAIN os = DOMAIN ops /\ Len(os) = Len(ops)
        /\ \A k \in DOMAIN ops : os[k].member = ops[k].member
    <3>1. CASE entry[m].kind = "Attaching"
      <4>1. entry[m].op \in DOMAIN ops /\ "Removed" \in Outcome
        BY <1>1, <3>1 DEF EntriesNameTheirOps, SenderKind, OwnedKind
      <4> QED BY <1>1, <3>1, <4>1, AnsweredProps
    <3> QED BY <1>1, <3>1
  <2> HIDE DEF os
  <2>3. SetsEntry(m, [kind |-> "Removing", op |-> NextOp])
    BY <1>2, <2>1
  <2> QED BY <1>4, <2>1, <2>2, <2>3
<1>7. ASSUME NEW o \in DOMAIN ops, CommitReady(o)
      PROVE  /\ SetsEntry(ops[o].member, [kind |-> "Ready", op |-> NoOp])
             /\ OpsKeep({}) /\ UNCHANGED stopped
  BY <1>1, <1>2, <1>3, <1>7 DEF CommitReady
<1>8. ASSUME NEW o \in DOMAIN ops, CommitFailed(o) \/ RestoreAttachRequired(o)
      PROVE  /\ SetsEntry(ops[o].member, [kind |-> "Failed", op |-> o])
             /\ OpsKeep({}) /\ UNCHANGED stopped
  BY <1>1, <1>2, <1>3, <1>8 DEF CommitFailed, RestoreAttachRequired
<1>9. ASSUME NEW o \in DOMAIN ops, FinishRemove(o)
      PROVE  /\ SetsEntry(ops[o].member, [kind |-> "Absent", op |-> NoOp])
             /\ OpsKeep({}) /\ UNCHANGED stopped
  BY <1>1, <1>2, <1>3, <1>9 DEF FinishRemove
<1> QED BY <1>5, <1>6, <1>7, <1>8, <1>9

(* The step of attach task o: from which to which stage of                 *)
(* attach_member_runtime, and what it does elsewhere.                      *)
Moves(o, from, to) == attach[o].pc = from /\ attach'[o].pc \in to

AttachMove(o) ==
  \/ /\ Moves(o, "spawned", {"failed", "killing"})
     /\ SameSlots \/ Frees(ops[o].member)
     /\ lost' = lost \ {ops[o].member} /\ loops' = loops /\ SameRegistry
  \/ /\ Moves(o, "killing", {"warming"})
     /\ SameSlots /\ UNCHANGED <<lost, loops>> /\ SameRegistry
  \/ /\ Moves(o, "warming", {"failed", "built", "slot"})
     /\ attach'[o].pc = "built" => Built(slot[ops[o].member])
     /\ SameSlots /\ UNCHANGED <<lost, loops>> /\ SameRegistry
  \/ /\ Moves(o, "slot", {"init"})
     /\ attach'[o].cell = slot'[ops[o].member]
     /\ Gets(ops[o].member) /\ UNCHANGED <<lost, loops>> /\ SameRegistry
  \/ /\ Moves(o, "init", {"built"}) /\ Built(attach[o].cell)
     /\ SameSlots /\ UNCHANGED <<lost, loops>> /\ SameRegistry
  \/ /\ Moves(o, "init", {"building"}) /\ attach'[o].cell = attach[o].cell
     /\ cells[attach[o].cell].state = "empty"
     /\ SetsState(attach[o].cell, "building")
     /\ UNCHANGED <<lost, loops>> /\ SameRegistry
  \/ /\ \/ Moves(o, "building", {"built"}) /\ SetsState(attach[o].cell, "built")
        \/ Moves(o, "building", {"failed"}) /\ SetsState(attach[o].cell, "empty")
     /\ UNCHANGED <<lost, loops>> /\ SameRegistry
  \/ /\ \/ Moves(o, "built", {"owned"})
        \/ Moves(o, "built", {"stale"}) /\ ~OwnsAttach(o)
     /\ SameSlots /\ UNCHANGED <<lost, loops>> /\ SameRegistry
  \/ /\ \/ /\ Moves(o, "owned", {"registered"}) /\ ops[o].member \in loops
           /\ loops' = loops
        \/ /\ Moves(o, "owned", {"registered"}) /\ attach'[o].registered
           /\ ~loopsStopped /\ loops' = loops \cup {ops[o].member}
        \/ Moves(o, "owned", {"failed"}) /\ loopsStopped /\ loops' = loops
     /\ SameSlots /\ UNCHANGED lost /\ SameRegistry
  \/ /\ \/ Moves(o, "registered", {"committed"}) /\ CommitReady(o)
        \/ /\ Moves(o, "registered", {"unregister"}) /\ ~OwnsAttach(o)
           /\ attach'[o].registered = attach[o].registered /\ SameRegistry
     /\ SameSlots /\ UNCHANGED <<lost, loops>>
  \/ /\ \/ Moves(o, "committed", {"done"}) /\ published = "A"
        \/ Moves(o, "committed", {"unregister"}) /\ published # "A"
     /\ SameSlots /\ UNCHANGED <<lost, loops>> /\ SameRegistry
  \/ /\ Moves(o, "unregister", {"stale"})
     /\ \/ attach[o].registered /\ loops' = loops \ {ops[o].member}
        \/ ~attach[o].registered /\ loops' = loops
     /\ SameSlots /\ UNCHANGED lost /\ SameRegistry
  \/ /\ \/ /\ Moves(o, "failed", {"reapingFailed"}) \/ Moves(o, "stale", {"reaping"})
           /\ Frees(ops[o].member)
        \/ /\ Moves(o, "failed", {"failing"}) \/ Moves(o, "stale", {"done"})
           /\ published = "B" /\ SameSlots
     /\ UNCHANGED <<lost, loops>> /\ SameRegistry
  \/ /\ Moves(o, "reapingFailed", {"failing"}) \/ Moves(o, "reaping", {"done"})
     /\ SameSlots /\ UNCHANGED <<lost, loops>> /\ SameRegistry
  \/ /\ Moves(o, "failing", {"done"})
     /\ CommitFailed(o) \/ SameRegistry
     /\ SameSlots /\ UNCHANGED <<lost, loops>>

(* What an attach task leaves alone.                                       *)
AttachFrame(o) == /\ UNCHANGED <<members, published, stopping, loopsStopped, remove, boot>>
                  /\ \A q \in 1 .. MaxOps : q # o => attach'[q] = attach[q]

LEMMA AttachMoves ==
  ASSUME TasksType, RegistryInv, OpsBounded, NEW o \in DOMAIN ops, AttachStep(o)
  PROVE  AttachMove(o) /\ AttachFrame(o)
<1>1. /\ attach \in [1 .. MaxOps -> Attach] /\ o \in 1 .. MaxOps
      /\ attach[o] \in Attach /\ ops[o].member \in Members /\ AgentType
  <2>1. ops \in Seq(Operation) /\ MaxOps \in Nat
    BY RegistryAssumption DEF RegistryInv, RegistryTypeOK
  <2>2. Len(ops) \in Nat /\ DOMAIN ops = 1 .. Len(ops)
    BY <2>1
  <2>3. o \in 1 .. MaxOps
    BY <2>1, <2>2 DEF OpsBounded
  <2>4. ops[o].member \in Members
    BY <2>1, OpsTyped
  <2> QED BY <2>3, <2>4 DEF TasksType
<1>2. ASSUME NEW pc, Goto(o, pc)
      PROVE  /\ attach'[o].pc = pc /\ attach'[o].cell = attach[o].cell
             /\ attach'[o].registered = attach[o].registered
  BY <1>1, <1>2 DEF Goto, Attach
<1>3. ASSUME NEW pc, NEW c,
             \/ attach' = [attach EXCEPT ![o].pc = pc, ![o].cell = c]
             \/ attach' = [attach EXCEPT ![o].cell = c, ![o].pc = pc]
      PROVE  attach'[o].pc = pc /\ attach'[o].cell = c
  <2>1. CASE attach' = [attach EXCEPT ![o].pc = pc, ![o].cell = c]
    BY <1>1, <2>1 DEF Attach
  <2>2. CASE attach' = [attach EXCEPT ![o].cell = c, ![o].pc = pc]
    BY <1>1, <2>2 DEF Attach
  <2> QED BY <1>3, <2>1, <2>2
<1>4. ASSUME NEW pc, NEW b, attach' = [attach EXCEPT ![o].pc = pc, ![o].registered = b]
      PROVE  attach'[o].pc = pc /\ attach'[o].registered = b
  BY <1>1, <1>4 DEF Attach
<1>5. UNCHANGED registryVars => SameRegistry
  BY DEF registryVars, SameRegistry
<1>6. UNCHANGED loopVars => UNCHANGED <<loops, loopsStopped>>
  BY DEF loopVars
<1>7. UNCHANGED attachRest =>
        UNCHANGED <<members, published, stopping, lost, remove, boot>>
  BY DEF attachRest, teamVars
<1>8. UNCHANGED agentVars => SameSlots
  BY <1>1, SlotEffects
<1>9. ASSUME NEW i, Join(i) PROVE SameSlots
  BY <1>1, <1>9, SlotEffects
<1>10. TakeSlot(ops[o].member) => Frees(ops[o].member)
  BY <1>1, SlotEffects
<1> DEFINE Rest == UNCHANGED <<members, published, stopping, loopsStopped, remove, boot>>
<1>11. ASSUME AttachKills(o) PROVE AttachMove(o) /\ Rest
  <2>1. UNCHANGED <<members, published>>
    BY <1>11 DEF AttachKills, teamVars
  <2>2. CASE Goto(o, "failed") /\ UNCHANGED agentVars
    BY <1>2, <1>5, <1>6, <1>8, <1>11, <2>1, <2>2 DEF AttachKills, At, AttachMove, Moves
  <2>3. CASE /\ TakeSlot(ops[o].member)
             /\ attach' = [attach EXCEPT ![o].pc = "killing",
                                         ![o].cell = Unbuilt(ops[o].member)]
    <3>1. attach'[o].pc = "killing"
      BY <1>3, <2>3
    <3> QED BY <1>5, <1>6, <1>10, <1>11, <2>1, <2>3, <3>1 DEF AttachKills, At, AttachMove, Moves
  <2> QED BY <1>11, <2>2, <2>3 DEF AttachKills
<1>12. ASSUME AttachJoins(o) PROVE AttachMove(o) /\ Rest
  BY <1>2, <1>5, <1>6, <1>7, <1>9, <1>12 DEF AttachJoins, At, AttachMove, Moves
<1>13. ASSUME AttachReads(o) PROVE AttachMove(o) /\ Rest
  BY <1>2, <1>5, <1>6, <1>7, <1>8, <1>13 DEF AttachReads, At, AttachMove, Moves
<1>14. ASSUME AttachObtains(o) PROVE AttachMove(o) /\ Rest
  <2>1. Gets(ops[o].member)
    BY <1>1, <1>14, SlotEffects DEF AttachObtains
  <2>2. attach'[o].pc = "init" /\ attach'[o].cell = slot'[ops[o].member]
    BY <1>3, <1>14 DEF AttachObtains
  <2> QED BY <1>5, <1>6, <1>7, <1>14, <2>1, <2>2 DEF AttachObtains, At, AttachMove, Moves
<1>15. ASSUME AttachInits(o) PROVE AttachMove(o) /\ Rest
  <2>1. CASE Built(attach[o].cell) /\ Goto(o, "built") /\ UNCHANGED agentVars
    BY <1>2, <1>5, <1>6, <1>7, <1>8, <1>15, <2>1 DEF AttachInits, At, AttachMove, Moves
  <2>2. CASE StartBuild(attach[o].cell, "A") /\ Goto(o, "building")
    <3>1. /\ SetsState(attach[o].cell, "building")
          /\ cells[attach[o].cell].state = "empty"
      BY <1>1, <2>2, SlotEffects DEF StartBuild
    <3> QED BY <1>2, <1>5, <1>6, <1>7, <1>15, <2>2, <3>1
            DEF AttachInits, At, AttachMove, Moves
  <2> QED BY <1>15, <2>1, <2>2 DEF AttachInits
<1>16. ASSUME AttachBuilds(o) PROVE AttachMove(o) /\ Rest
  <2>1. \A st : EndBuild(attach[o].cell, st) => SetsState(attach[o].cell, st)
    BY <1>1, SlotEffects
  <2> QED BY <1>2, <1>5, <1>6, <1>7, <1>16, <2>1 DEF AttachBuilds, At, AttachMove, Moves
<1>17. ASSUME AttachChecks(o) PROVE AttachMove(o) /\ Rest
  BY <1>2, <1>5, <1>6, <1>7, <1>8, <1>17 DEF AttachChecks, At, AttachMove, Moves
<1>18. ASSUME AttachRegisters(o) PROVE AttachMove(o) /\ Rest
  <2> DEFINE m == ops[o].member
             fresh == m \notin loops /\ ~loopsStopped
  <2>1. /\ attach'[o].pc = IF m \in loops \/ fresh THEN "registered" ELSE "failed"
        /\ attach'[o].registered = fresh
    BY <1>4, <1>18 DEF AttachRegisters
  <2>2. /\ attach[o].pc = "owned" /\ loops' = IF fresh THEN loops \cup {m} ELSE loops
        /\ SameRegistry /\ SameSlots /\ Rest /\ UNCHANGED lost
    BY <1>5, <1>7, <1>8, <1>18 DEF AttachRegisters, At
  <2>3. loopsStopped \in BOOLEAN
    BY DEF TasksType, TeamType
  <2> QED BY <2>1, <2>2, <2>3 DEF AttachMove, Moves
<1>19. ASSUME AttachCommits(o) PROVE AttachMove(o) /\ Rest
  BY <1>2, <1>5, <1>6, <1>7, <1>8, <1>19 DEF AttachCommits, At, AttachMove, Moves
<1>20. ASSUME AttachPublishes(o) PROVE AttachMove(o) /\ Rest
  BY <1>2, <1>5, <1>6, <1>7, <1>8, <1>20 DEF AttachPublishes, At, AttachMove, Moves
<1>21. ASSUME AttachUnregisters(o) PROVE AttachMove(o) /\ Rest
  <2>1. attach[o].registered \in BOOLEAN
    BY <1>1 DEF Attach
  <2> QED BY <1>2, <1>5, <1>7, <1>8, <1>21, <2>1 DEF AttachUnregisters, At, AttachMove, Moves
<1>22. ASSUME AttachCleans(o) PROVE AttachMove(o) /\ Rest
  <2>1. CASE published = "B"
    BY <1>2, <1>5, <1>6, <1>7, <1>8, <1>22, <2>1 DEF AttachCleans, At, AttachMove, Moves
  <2>2. CASE published # "B"
    <3>1. /\ TakeSlot(ops[o].member)
          /\ attach'[o].pc = IF At(o, "failed") THEN "reapingFailed" ELSE "reaping"
      BY <1>3, <1>22, <2>2 DEF AttachCleans
    <3> QED BY <1>5, <1>6, <1>7, <1>10, <1>22, <3>1 DEF AttachCleans, At, AttachMove, Moves
  <2> QED BY <2>1, <2>2
<1>23. ASSUME AttachReaps(o) PROVE AttachMove(o) /\ Rest
  BY <1>2, <1>5, <1>6, <1>7, <1>9, <1>23 DEF AttachReaps, At, AttachMove, Moves
<1>24. ASSUME AttachFails(o) PROVE AttachMove(o) /\ Rest
  BY <1>2, <1>5, <1>6, <1>7, <1>8, <1>24 DEF AttachFails, At, AttachMove, Moves
<1>25. AttachMove(o) /\ Rest
  <2> HIDE DEF Rest
  <2> QED BY <1>11, <1>12, <1>13, <1>14, <1>15, <1>16, <1>17, <1>18, <1>19, <1>20,
             <1>21, <1>22, <1>23, <1>24 DEF AttachStep
<1> QED BY <1>25, AttachOwn DEF AttachFrame

(* The step of removal r, likewise.                                        *)
Steps(r, from, to) == remove[r].pc = from /\ remove'[r].pc = to

RemoveMove(r) ==
  \/ /\ Steps(r, "joined", "idle")
     /\ SameSlots /\ UNCHANGED <<members, loops>> /\ SameRegistry
  \/ /\ Steps(r, "unloop", "kill")
     /\ loops' \in {loops, loops \ {remove[r].member}}
     /\ SameSlots /\ UNCHANGED members /\ SameRegistry
  \/ /\ Steps(r, "kill", "killing") \/ Steps(r, "kill2", "killing2")
     /\ Frees(remove[r].member) /\ UNCHANGED <<members, loops>> /\ SameRegistry
  \/ /\ Steps(r, "killing", "persist") \/ Steps(r, "killing2", "finish")
     /\ SameSlots /\ UNCHANGED <<members, loops>> /\ SameRegistry
  \/ /\ Steps(r, "persist", "second")
     /\ members' = members \ {remove[r].member}
     /\ SameSlots /\ UNCHANGED loops /\ SameRegistry
  \/ /\ Steps(r, "persist", "idle")
     /\ SameRegistry \/ /\ "persist" \in Faults /\ remove[r].lease # NoOp
                        /\ RestoreAttachRequired(remove[r].lease)
     /\ SameSlots /\ UNCHANGED <<members, loops>>
  \/ /\ \/ /\ Steps(r, "second", "kill2")
           /\ published = "A" => loops' = loops \ {remove[r].member}
        \/ Steps(r, "second", "hook") /\ published = "none"
     /\ loops' \in {loops, loops \ {remove[r].member}}
     /\ SameSlots /\ UNCHANGED members /\ SameRegistry
  \/ /\ Steps(r, "finish", "hook")
     /\ \/ remove[r].lease # NoOp /\ FinishRemove(remove[r].lease)
        \/ SameRegistry /\ \/ stopped \/ remove[r].lease = NoOp
                           \/ ~Owns(remove[r].lease, "Removing")
                           \/ remove[r].captured # remove[r].current
     /\ SameSlots /\ UNCHANGED <<members, loops>>
  \/ /\ Steps(r, "hook", "delete")
     /\ Frees(remove[r].member) /\ UNCHANGED <<members, loops>> /\ SameRegistry
  \/ /\ Steps(r, "delete", "idle")
     /\ SameSlots /\ UNCHANGED <<members, loops>> /\ SameRegistry

(* What a removal leaves alone.                                            *)
RemoveFrame(r) ==
  /\ UNCHANGED <<published, stopping, loopsStopped, lost, attach, boot>>
  /\ \A q \in Removers : q # r => remove'[q] = remove[q]
  /\ remove'[r].member = remove[r].member /\ remove'[r].lease = remove[r].lease

LEMMA RemoveMoves ==
  ASSUME TasksType, NEW r \in Removers, RemoveStep(r)
  PROVE  RemoveMove(r) /\ RemoveFrame(r)
<1>1. /\ remove \in [Removers -> Remove] /\ remove[r] \in Remove
      /\ remove[r].member \in Members /\ AgentType
  BY DEF TasksType, Remove
<1>2. ASSUME NEW pc, To(r, pc)
      PROVE  remove'[r].pc = pc /\ remove'[r].member = remove[r].member
  BY <1>1, <1>2 DEF To, Remove
<1>3. ASSUME NEW pc, NEW c, remove' = [remove EXCEPT ![r].pc = pc, ![r].cell = c]
      PROVE  remove'[r].pc = pc /\ remove'[r].member = remove[r].member
  BY <1>1, <1>3 DEF Remove
<1>4. ASSUME NEW pc, NEW c, remove' = [remove EXCEPT ![r].current = c, ![r].pc = pc]
      PROVE  remove'[r].pc = pc /\ remove'[r].member = remove[r].member
  BY <1>1, <1>4 DEF Remove
<1>5. UNCHANGED registryVars => SameRegistry
  BY DEF registryVars, SameRegistry
<1>6. UNCHANGED loopVars => UNCHANGED <<loops, loopsStopped>>
  BY DEF loopVars
<1>7. UNCHANGED removeRest => UNCHANGED <<stopping, lost, attach, boot>>
  BY DEF removeRest
<1>8. UNCHANGED teamVars => UNCHANGED <<members, published>>
  BY DEF teamVars
<1>9. UNCHANGED agentVars => SameSlots
  BY <1>1, SlotEffects
<1>10. ASSUME NEW i, Join(i) PROVE SameSlots
  BY <1>1, <1>10, SlotEffects
<1>11. TakeSlot(remove[r].member) => Frees(remove[r].member)
  BY <1>1, SlotEffects
<1> DEFINE Rest == /\ UNCHANGED <<published, stopping, loopsStopped, lost, attach, boot>>
                   /\ remove'[r].member = remove[r].member
<1>12. ASSUME RemoveJoins(r) PROVE RemoveMove(r) /\ Rest
  BY <1>2, <1>5, <1>6, <1>7, <1>8, <1>9, <1>12 DEF RemoveJoins, RemoveMove, Steps
<1>13. ASSUME RemoveUnloops(r) PROVE RemoveMove(r) /\ Rest
  BY <1>2, <1>5, <1>7, <1>8, <1>9, <1>13 DEF RemoveUnloops, RemoveMove, Steps
<1>14. ASSUME RemoveKills(r) PROVE RemoveMove(r) /\ Rest
  <2>1. /\ remove'[r].pc = IF remove[r].pc = "kill" THEN "killing" ELSE "killing2"
        /\ remove'[r].member = remove[r].member
    BY <1>1, <1>14 DEF RemoveKills, Remove
  <2> QED BY <1>5, <1>6, <1>7, <1>8, <1>11, <1>14, <2>1 DEF RemoveKills, RemoveMove, Steps
<1>15. ASSUME RemoveWaits(r) PROVE RemoveMove(r) /\ Rest
  BY <1>2, <1>5, <1>6, <1>7, <1>8, <1>10, <1>15 DEF RemoveWaits, RemoveMove, Steps
<1>16. ASSUME RemovePersists(r) PROVE RemoveMove(r) /\ Rest
  BY <1>2, <1>5, <1>6, <1>7, <1>9, <1>16 DEF RemovePersists, RemoveMove, Steps
<1>17. ASSUME RemoveAgain(r) PROVE RemoveMove(r) /\ Rest
  <2>1. /\ remove'[r].pc = IF published = "none" THEN "hook" ELSE "kill2"
        /\ remove'[r].member = remove[r].member
    BY <1>4, <1>17 DEF RemoveAgain
  <2> QED BY <1>5, <1>7, <1>8, <1>9, <1>17, <2>1 DEF RemoveAgain, RemoveMove, Steps
<1>18. ASSUME RemoveFinishes(r) PROVE RemoveMove(r) /\ Rest
  BY <1>2, <1>5, <1>6, <1>7, <1>8, <1>9, <1>18 DEF RemoveFinishes, RemoveMove, Steps
<1>19. ASSUME RemoveHook(r) PROVE RemoveMove(r) /\ Rest
  BY <1>2, <1>5, <1>6, <1>7, <1>8, <1>11, <1>19 DEF RemoveHook, RemoveMove, Steps
<1>20. ASSUME RemoveDeletes(r) PROVE RemoveMove(r) /\ Rest
  BY <1>2, <1>5, <1>6, <1>7, <1>9, <1>20 DEF RemoveDeletes, RemoveMove, Steps
<1>21. RemoveMove(r) /\ Rest
  <2> HIDE DEF Rest
  <2> QED BY <1>12, <1>13, <1>14, <1>15, <1>16, <1>17, <1>18, <1>19, <1>20 DEF RemoveStep
<1> QED BY <1>21, RemoveEffect DEF RemoveFrame

(* As long as A is published it has not begun to stop, and no replacement  *)
(* is bootstrapped.                                                        *)
SessionRuns == published = "A" =>
  ~stopped /\ stopping = "no" /\ ~loopsStopped /\ boot.pc = "no"

(* A member of the team has an entry in the registry; one that is no       *)
(* member is being removed or has been.                                    *)
MembersKnown == published = "A" => \A m \in Members :
  IF m \in members THEN entry[m].kind # "Absent"
                   ELSE entry[m].kind \in {"Absent", "Removing"}

(* The other steps of a running session.                                   *)
Rested == UNCHANGED <<published, stopping, loopsStopped, boot>>

IdleMove == /\ SameRegistry /\ SameSlots /\ Rested
            /\ UNCHANGED <<members, loops, lost, attach, remove>>

StartMove(m) ==
  /\ StartAttach(m)
  /\ \/ entry[m].kind \in {"Ready", "Failed"} /\ members' = members
     \/ members' = members \cup {m} /\ \A o \in DOMAIN ops : ops[o].member # m
  /\ \A q \in 1 .. MaxOps : q # NextOp => attach'[q] = attach[q]
  /\ attach'[NextOp] = attach[NextOp] \/ attach'[NextOp].pc = "spawned"
  /\ SameSlots /\ Rested /\ UNCHANGED <<loops, lost, remove>>

EvictMove(m) ==
  /\ Frees(m) /\ lost' = lost \cup {m}
  /\ SameRegistry /\ Rested /\ UNCHANGED <<members, loops, attach, remove>>

BeginMove(q, m) ==
  /\ remove[q].pc = "idle" /\ m \in members
  /\ \A r \in Removers : r # q => remove'[r] = remove[r]
  /\ \/ /\ BeginRemove(m)
        /\ remove'[q].pc = "unloop" /\ remove'[q].lease = NextOp /\ remove'[q].member = m
     \/ SameRegistry /\ remove'[q].pc = "joined"
  /\ SameSlots /\ Rested /\ UNCHANGED <<members, loops, lost, attach>>

RunningMove ==
  \/ IdleMove
  \/ \E m \in Members : StartMove(m) \/ EvictMove(m)
  \/ \E o \in DOMAIN ops : AttachMove(o) /\ AttachFrame(o)
  \/ \E q \in Removers, m \in Members : BeginMove(q, m)
  \/ \E r \in Removers : RemoveMove(r) /\ RemoveFrame(r)

LEMMA RunningSteps ==
  ASSUME LifecycleCore, SessionRuns, MembersKnown, [Next]_vars, published' = "A"
  PROVE  published = "A" /\ RunningMove
<1>1. /\ TasksType /\ RegistryInv /\ OpsBounded /\ LeasesKnown /\ StopOrder
      /\ AgentType /\ attach \in [1 .. MaxOps -> Attach]
  BY TypeParts DEF LifecycleCore, TasksType
<1>2. /\ published = "A" /\ ~stopped /\ stopping = "no" /\ ~loopsStopped
      /\ boot.pc = "no"
  BY <1>1, PublishedSteps DEF SessionRuns
<1>3. /\ ops \in Seq(Operation) /\ MaxOps \in Nat
      /\ Len(ops) \in Nat /\ DOMAIN ops = 1 .. Len(ops)
  BY <1>1, RegistryAssumption DEF RegistryInv, RegistryTypeOK
<1>4. UNCHANGED agentVars => SameSlots
  BY <1>1, SlotEffects
<1>5. UNCHANGED registryVars => SameRegistry
  BY DEF registryVars, SameRegistry
<1>6. UNCHANGED loopVars => UNCHANGED <<loops, loopsStopped>>
  BY DEF loopVars
<1>7. UNCHANGED teamVars => UNCHANGED <<members, published>>
  BY DEF teamVars
<1>8. UNCHANGED removeRest => UNCHANGED <<stopping, lost, attach, boot>>
  BY DEF removeRest
<1>9. CASE UNCHANGED vars
  BY <1>4, <1>5, <1>6, <1>7, <1>9 DEF vars, RunningMove, IdleMove, Rested
<1>10. ASSUME NEW m \in Members, Spawn(NextOp), Len(ops) < MaxOps
       PROVE  /\ \A q \in 1 .. MaxOps : q # NextOp => attach'[q] = attach[q]
              /\ attach'[NextOp].pc = "spawned"
  <2>1. NextOp \in 1 .. MaxOps
    BY <1>3, <1>10 DEF NextOp
  <2>2. attach'[NextOp] = [NoAttach EXCEPT !.pc = "spawned"]
    BY <1>1, <1>10, <2>1 DEF Spawn
  <2>3. attach'[NextOp].pc = "spawned"
    BY <2>2 DEF NoAttach
  <2> QED BY <1>1, <1>10, <2>3 DEF Spawn
<1>11. ASSUME NEW m \in Members, AddAgent(m) PROVE StartMove(m)
  <2>1. /\ StartAttach(m) /\ members' = members \cup {m}
        /\ \A o \in DOMAIN ops : ops[o].member # m
        /\ Spawn(NextOp) \/ UNCHANGED attach
        /\ SameSlots /\ Rested /\ UNCHANGED <<loops, lost, remove>>
    BY <1>2, <1>4, <1>6, <1>11 DEF AddAgent, ReserveAttach, Rested
  <2>2. Len(ops) < MaxOps
    BY <2>1 DEF StartAttach
  <2> QED BY <1>10, <2>1, <2>2 DEF StartMove
<1>12. ASSUME NEW m \in Members, Ensure(m) PROVE StartMove(m)
  <2>1. entry[m].kind # "Absent"
    BY <1>2, <1>12 DEF Ensure, MembersKnown
  <2>2. /\ StartAttach(m) /\ members' = members
        /\ entry[m].kind \in {"Ready", "Failed"}
        /\ Spawn(NextOp)
        /\ SameSlots /\ Rested /\ UNCHANGED <<loops, lost, remove>>
    BY <1>4, <1>6, <1>7, <1>12, <2>1 DEF Ensure, ReserveAttach, ReserveRepair, Rested
  <2>3. Len(ops) < MaxOps
    BY <2>2 DEF StartAttach
  <2> QED BY <1>10, <2>2, <2>3 DEF StartMove
<1>13. ASSUME NEW m \in Members, Evict(m) PROVE EvictMove(m)
  <2>1. Frees(m)
    BY <1>1, <1>13, SlotEffects DEF Evict
  <2> QED BY <1>5, <1>6, <1>7, <1>13, <2>1 DEF Evict, EvictMove, Rested
<1>14. ASSUME NEW o \in DOMAIN ops, AttachStep(o)
       PROVE  AttachMove(o) /\ AttachFrame(o)
  BY <1>1, <1>14, AttachMoves
<1>15. ASSUME NEW q \in Removers, NEW m \in Members, RemoveBegins(q, m)
       PROVE  BeginMove(q, m)
  <2>1. /\ m \in members /\ entry[m].kind # "Absent"
        /\ SameSlots /\ Rested /\ UNCHANGED <<members, loops, lost, attach>>
    BY <1>2, <1>4, <1>6, <1>7, <1>8, <1>15 DEF RemoveBegins, MembersKnown, Rested
  <2>2. /\ remove[q].pc = "idle"
        /\ \A r \in Removers : r # q => remove'[r] = remove[r]
    BY <1>1, <1>15, BeginEffect
  <2> DEFINE c == [NoRemove EXCEPT !.member = m, !.captured = published]
  <2>3. \/ /\ BeginRemove(m)
           /\ remove' = [remove EXCEPT ![q] = [c EXCEPT !.pc = "unloop", !.lease = NextOp]]
        \/ /\ UNCHANGED registryVars
           /\ remove' = [remove EXCEPT ![q] = [c EXCEPT !.pc = "joined", !.lease = entry[m].op]]
    BY <1>2, <1>15, <2>1 DEF RemoveBegins
  <2>4. remove \in [Removers -> Remove]
    BY <1>1 DEF TasksType
  <2>5. c \in [pc : {"idle"}, member : {m}, lease : {NoOp}, captured : {published},
               current : {"none"}, cell : {NoCell}]
    BY DEF NoRemove
  <2> HIDE DEF c
  <2>6. ASSUME NEW pc, NEW l
        PROVE  /\ [c EXCEPT !.pc = pc, !.lease = l].pc = pc
               /\ [c EXCEPT !.pc = pc, !.lease = l].lease = l
               /\ [c EXCEPT !.pc = pc, !.lease = l].member = m
    BY <2>5
  <2>7. CASE /\ BeginRemove(m)
             /\ remove' = [remove EXCEPT ![q] = [c EXCEPT !.pc = "unloop", !.lease = NextOp]]
    <3>1. remove'[q] = [c EXCEPT !.pc = "unloop", !.lease = NextOp]
      BY <2>4, <2>7
    <3>2. /\ remove'[q].pc = "unloop" /\ remove'[q].lease = NextOp
          /\ remove'[q].member = m
      BY <2>6, <3>1
    <3> QED BY <2>1, <2>2, <2>7, <3>2 DEF BeginMove
  <2>8. CASE /\ UNCHANGED registryVars
             /\ remove' = [remove EXCEPT ![q] = [c EXCEPT !.pc = "joined", !.lease = entry[m].op]]
    <3>1. remove'[q] = [c EXCEPT !.pc = "joined", !.lease = entry[m].op]
      BY <2>4, <2>8
    <3> QED BY <1>5, <2>1, <2>2, <2>6, <2>8, <3>1 DEF BeginMove
  <2> QED BY <2>3, <2>7, <2>8
<1>16. ASSUME NEW r \in Removers, RemoveStep(r)
       PROVE  RemoveMove(r) /\ RemoveFrame(r)
  BY <1>1, <1>16, RemoveMoves
<1>17. ~StopSession /\ ~StopStep /\ ~BootBegins /\ ~BootStep
  BY <1>2 DEF StopSession, StopStep, BootBegins, BootStep, BootKills, BootJoins,
              BootObtains, BootInits, BootBuilds, BootFails, BootEnds
<1> QED BY <1>2, <1>9, <1>11, <1>12, <1>13, <1>14, <1>15, <1>16, <1>17
        DEF Next, RunningMove

(* Where a removal stands that has a lease, and that has saved the team.   *)
Leased    == Holding \cup {"hook", "delete"}
Persisted == {"second", "kill2", "killing2", "finish", "hook", "delete"}

(* A removal has a lease of its own and holds its member's entry until it  *)
(* has finished; the member stays in the team until the removal takes it   *)
(* out, and out from then on.                                              *)
OwnRemoval(r) ==
  /\ remove[r].pc \in Leased =>
       /\ remove[r].lease \in DOMAIN ops
       /\ ops[remove[r].lease].member = remove[r].member
  /\ remove[r].pc \in Holding =>
       entry[remove[r].member] = [kind |-> "Removing", op |-> remove[r].lease]
  /\ remove[r].pc \in {"hook", "delete"} => entry[remove[r].member].kind = "Absent"
  /\ remove[r].pc \in Persisted => remove[r].member \notin members
  /\ remove[r].pc \in Leased \ Persisted => remove[r].member \in members

RemovalsOwn == published = "A" =>
  /\ \A r \in Removers : OwnRemoval(r)
  /\ \A q, r \in Removers : remove[q].pc \in Leased /\ remove[r].pc \in Leased
                            /\ remove[q].lease = remove[r].lease => q = r

RunningInv == /\ LifecycleCore
              /\ SessionRuns
              /\ MembersKnown
              /\ RemovalsOwn

(* What all steps of a running session have in common.                     *)
LEMMA RunningKeeps ==
  ASSUME RunningInv, [Next]_vars, published' = "A"
  PROVE  /\ published = "A" /\ RunningMove
         /\ ~stopped /\ UNCHANGED <<stopped, stopping, loopsStopped, boot>>
         /\ DOMAIN ops \subseteq DOMAIN ops'
         /\ \A o \in DOMAIN ops : ops'[o].member = ops[o].member
         /\ \A o \in DOMAIN ops : ops[o].member \in Members /\ o # NoOp /\ o \in 1 .. MaxOps
         /\ \A r \in Removers : remove[r].member \in Members
<1>1. /\ published = "A" /\ RunningMove /\ RegistryInv /\ ~stopped
      /\ LeasesKnown /\ OpsBounded /\ TasksType
  BY RunningSteps, TypeParts DEF RunningInv, LifecycleCore, SessionRuns
<1>2. /\ ops \in Seq(Operation) /\ MaxOps \in Nat
      /\ Len(ops) \in Nat /\ DOMAIN ops = 1 .. Len(ops) /\ Len(ops) <= MaxOps
  BY <1>1, RegistryAssumption DEF RegistryInv, RegistryTypeOK, OpsBounded
<1>3. \A o \in DOMAIN ops : ops[o].member \in Members /\ o # NoOp /\ o \in 1 .. MaxOps
  BY <1>2, OpsTyped DEF NoOp
<1> DEFINE Good == /\ UNCHANGED <<stopped, stopping, loopsStopped, boot>>
                   /\ DOMAIN ops \subseteq DOMAIN ops'
                   /\ \A o \in DOMAIN ops : ops'[o].member = ops[o].member
<1>4. ASSUME SameRegistry PROVE /\ UNCHANGED stopped
                                /\ DOMAIN ops \subseteq DOMAIN ops'
                                /\ \A o \in DOMAIN ops : ops'[o].member = ops[o].member
  BY <1>4 DEF SameRegistry
<1>5. ASSUME IdleMove PROVE Good
  BY <1>4, <1>5 DEF IdleMove, Rested
<1>6. ASSUME NEW m \in Members, StartMove(m) PROVE Good
  BY <1>1, <1>6, RegistryEffects DEF StartMove, Rested, OpsKeep
<1>7. ASSUME NEW m \in Members, EvictMove(m) PROVE Good
  BY <1>4, <1>7 DEF EvictMove, Rested
<1>8. ASSUME NEW o \in DOMAIN ops, AttachMove(o), AttachFrame(o) PROVE Good
  <2>1. CommitReady(o) \/ CommitFailed(o) \/ SameRegistry
    BY <1>8 DEF AttachMove
  <2>2. CASE CommitReady(o) \/ CommitFailed(o)
    <3>1. OpsKeep({}) /\ UNCHANGED stopped
      BY <1>1, <2>2, RegistryEffects
    <3> QED BY <1>8, <3>1 DEF AttachFrame, OpsKeep
  <2> QED BY <1>4, <1>8, <2>1, <2>2 DEF AttachFrame
<1>9. ASSUME NEW q \in Removers, NEW m \in Members, BeginMove(q, m) PROVE Good
  <2>1. BeginRemove(m) \/ SameRegistry
    BY <1>9 DEF BeginMove
  <2> QED BY <1>1, <1>4, <1>9, <2>1, RegistryEffects DEF BeginMove, Rested, OpsKeep
<1>10. ASSUME NEW r \in Removers, RemoveMove(r), RemoveFrame(r) PROVE Good
  <2> DEFINE o == remove[r].lease
  <2>1. \/ o # NoOp /\ (RestoreAttachRequired(o) \/ FinishRemove(o))
        \/ SameRegistry
    BY <1>10, Zenon DEF RemoveMove
  <2>2. CASE o # NoOp /\ (RestoreAttachRequired(o) \/ FinishRemove(o))
    <3>1. o \in DOMAIN ops
      BY <1>1, <2>2 DEF LeasesKnown
    <3>2. OpsKeep({}) /\ UNCHANGED stopped
      BY <1>1, <2>2, <3>1, RegistryEffects
    <3> QED BY <1>10, <3>2 DEF RemoveFrame, OpsKeep
  <2> QED BY <1>4, <1>10, <2>1, <2>2 DEF RemoveFrame
<1>11. Good
  <2> HIDE DEF Good
  <2> QED BY <1>1, <1>5, <1>6, <1>7, <1>8, <1>9, <1>10 DEF RunningMove
<1>12. \A r \in Removers : remove[r].member \in Members
  BY <1>1 DEF TasksType, Remove
<1> QED BY <1>1, <1>3, <1>11, <1>12

(* A move takes an entry from one kind to another: what MembersKnown and   *)
(* RemovalsOwn rest on.                                                    *)
LEMMA RunningEntries ==
  ASSUME RunningInv, [Next]_vars, published' = "A"
  PROVE  /\ \A m \in Members : StartMove(m) =>
              /\ SetsEntry(m, [kind |-> "Attaching", op |-> NextOp])
              /\ ops'[NextOp].member = m
              /\ entry[m].kind # "Removing"
              /\ m \in members'
              /\ \A n \in Members : n # m => (n \in members' <=> n \in members)
         /\ \A m \in Members : EvictMove(m) => SameRegistry
         /\ \A o \in DOMAIN ops : AttachMove(o) =>
              \/ SameRegistry
              \/ /\ \/ SetsEntry(ops[o].member, [kind |-> "Ready", op |-> NoOp])
                    \/ SetsEntry(ops[o].member, [kind |-> "Failed", op |-> o])
                 /\ entry[ops[o].member].kind = "Attaching"
         /\ \A q \in Removers, m \in Members : BeginMove(q, m) =>
              \/ /\ SetsEntry(m, [kind |-> "Removing", op |-> NextOp])
                 /\ ops'[NextOp].member = m /\ NextOp \notin DOMAIN ops
                 /\ NextOp \in DOMAIN ops'
                 /\ entry[m].kind # "Removing"
                 /\ remove'[q].pc = "unloop" /\ remove'[q].lease = NextOp
                 /\ remove'[q].member = m
              \/ SameRegistry /\ remove'[q].pc = "joined"
         /\ \A r \in Removers : RemoveMove(r) =>
              \/ SameRegistry /\ ~Steps(r, "finish", "hook")
              \/ /\ Steps(r, "persist", "idle")
                 /\ SetsEntry(remove[r].member, [kind |-> "Failed", op |-> remove[r].lease])
              \/ /\ Steps(r, "finish", "hook")
                 /\ SetsEntry(remove[r].member, [kind |-> "Absent", op |-> NoOp])
<1>1. /\ published = "A" /\ ~stopped /\ RegistryInv /\ LeasesKnown /\ MembersKnown
      /\ \A o \in DOMAIN ops : ops[o].member \in Members /\ o # NoOp
      /\ \A r \in Removers : remove[r].member \in Members
      /\ \A r \in Removers : OwnRemoval(r)
  BY RunningKeeps DEF RunningInv, LifecycleCore, RemovalsOwn
<1>2. ASSUME NEW m \in Members, StartMove(m)
      PROVE  /\ SetsEntry(m, [kind |-> "Attaching", op |-> NextOp])
             /\ ops'[NextOp].member = m
             /\ entry[m].kind # "Removing"
             /\ m \in members'
             /\ \A n \in Members : n # m => (n \in members' <=> n \in members)
  <2>1. /\ SetsEntry(m, [kind |-> "Attaching", op |-> NextOp])
        /\ ops'[NextOp].member = m
    BY <1>1, <1>2, RegistryEffects DEF StartMove
  <2>2. CASE entry[m].kind \in {"Ready", "Failed"} /\ members' = members
    <3>1. m \in members
      BY <1>1, <2>2 DEF MembersKnown
    <3> QED BY <2>1, <2>2, <3>1
  <2>3. CASE members' = members \cup {m} /\ \A o \in DOMAIN ops : ops[o].member # m
    <3>1. entry[m].kind # "Removing"
      BY <1>1, <2>3 DEF RegistryInv, EntriesNameTheirOps, SenderKind, OwnedKind
    <3> QED BY <2>1, <2>3, <3>1
  <2> QED BY <1>2, <2>2, <2>3 DEF StartMove
<1>3. ASSUME NEW o \in DOMAIN ops, AttachMove(o)
      PROVE  \/ SameRegistry
             \/ /\ \/ SetsEntry(ops[o].member, [kind |-> "Ready", op |-> NoOp])
                   \/ SetsEntry(ops[o].member, [kind |-> "Failed", op |-> o])
                /\ entry[ops[o].member].kind = "Attaching"
  <2>1. CommitReady(o) \/ CommitFailed(o) \/ SameRegistry
    BY <1>3, Zenon DEF AttachMove
  <2>2. CommitReady(o) \/ CommitFailed(o) => entry[ops[o].member].kind = "Attaching"
    BY DEF CommitReady, CommitFailed, Owns
  <2> QED BY <1>1, <2>1, <2>2, RegistryEffects
<1>4. ASSUME NEW q \in Removers, NEW m \in Members, BeginMove(q, m)
      PROVE  \/ /\ SetsEntry(m, [kind |-> "Removing", op |-> NextOp])
                /\ ops'[NextOp].member = m /\ NextOp \notin DOMAIN ops
                /\ NextOp \in DOMAIN ops'
                /\ entry[m].kind # "Removing"
                /\ remove'[q].pc = "unloop" /\ remove'[q].lease = NextOp
                /\ remove'[q].member = m
             \/ SameRegistry /\ remove'[q].pc = "joined"
  <2>1. BeginRemove(m) => entry[m].kind # "Removing"
    BY DEF BeginRemove
  <2> QED BY <1>1, <1>4, <2>1, RegistryEffects DEF BeginMove, OpsKeep
<1>5. ASSUME NEW r \in Removers, RemoveMove(r)
      PROVE  \/ SameRegistry /\ ~Steps(r, "finish", "hook")
             \/ /\ Steps(r, "persist", "idle")
                /\ SetsEntry(remove[r].member, [kind |-> "Failed", op |-> remove[r].lease])
             \/ /\ Steps(r, "finish", "hook")
                /\ SetsEntry(remove[r].member, [kind |-> "Absent", op |-> NoOp])
  <2> DEFINE o == remove[r].lease
  <2>1. \/ SameRegistry /\ ~Steps(r, "finish", "hook")
        \/ Steps(r, "persist", "idle") /\ o # NoOp /\ RestoreAttachRequired(o)
        \/ /\ Steps(r, "finish", "hook")
           /\ \/ o # NoOp /\ FinishRemove(o)
              \/ o = NoOp \/ ~Owns(o, "Removing") \/ remove[r].captured # remove[r].current
    BY <1>1, <1>5 DEF RemoveMove, Steps
  <2>2. ASSUME remove[r].pc \in {"persist", "finish"}
        PROVE  /\ o \in DOMAIN ops /\ ops[o].member = remove[r].member
               /\ o # NoOp /\ Owns(o, "Removing")
    BY <1>1, <2>2 DEF OwnRemoval, Leased, Holding, Owns
  <2>3. CASE Steps(r, "persist", "idle") /\ o # NoOp /\ RestoreAttachRequired(o)
    BY <1>1, <2>2, <2>3, RegistryEffects DEF Steps
  <2>4. CASE Steps(r, "finish", "hook")
    <3>1. remove[r].captured = "A" /\ remove[r].current = "A"
      BY <1>1, <2>2, <2>4 DEF Steps, LeasesKnown, Holding
    <3> QED BY <1>1, <2>1, <2>2, <2>4, <3>1, RegistryEffects DEF Steps
  <2> QED BY <2>1, <2>3, <2>4
<1> QED BY <1>2, <1>3, <1>4, <1>5 DEF EvictMove

LEMMA MembersKnownStep ==
  ASSUME RunningInv, [Next]_vars, published' = "A"
  PROVE  MembersKnown'
<1> DEFINE Known(m) == IF m \in members' THEN entry'[m].kind # "Absent"
                       ELSE entry'[m].kind \in {"Absent", "Removing"}
<1>1. /\ published = "A" /\ RunningMove
      /\ \A o \in DOMAIN ops : ops[o].member \in Members
      /\ \A r \in Removers : remove[r].member \in Members /\ OwnRemoval(r)
      /\ \A m \in Members : IF m \in members THEN entry[m].kind # "Absent"
                            ELSE entry[m].kind \in {"Absent", "Removing"}
  BY RunningKeeps DEF RunningInv, RemovalsOwn, MembersKnown
<1>2. ASSUME SameRegistry, UNCHANGED members PROVE \A m \in Members : Known(m)
  BY <1>1, <1>2 DEF SameRegistry
<1>3. ASSUME NEW m \in Members, StartMove(m) PROVE \A n \in Members : Known(n)
  <2>1. /\ SetsEntry(m, [kind |-> "Attaching", op |-> NextOp]) /\ m \in members'
        /\ \A n \in Members : n # m => (n \in members' <=> n \in members)
    BY <1>3, RunningEntries
  <2> QED BY <1>1, <2>1 DEF SetsEntry
<1>4. ASSUME NEW o \in DOMAIN ops, AttachMove(o), AttachFrame(o)
      PROVE  \A n \in Members : Known(n)
  <2>1. CASE SameRegistry
    BY <1>2, <1>4, <2>1 DEF AttachFrame
  <2>2. CASE /\ \/ SetsEntry(ops[o].member, [kind |-> "Ready", op |-> NoOp])
                \/ SetsEntry(ops[o].member, [kind |-> "Failed", op |-> o])
             /\ entry[ops[o].member].kind = "Attaching"
    <3>1. ops[o].member \in members
      BY <1>1, <2>2
    <3> QED BY <1>1, <1>4, <2>2, <3>1 DEF AttachFrame, SetsEntry
  <2> QED BY <1>4, <2>1, <2>2, RunningEntries
<1>5. ASSUME NEW q \in Removers, NEW m \in Members, BeginMove(q, m)
      PROVE  \A n \in Members : Known(n)
  <2>1. UNCHANGED members /\ m \in members
    BY <1>5 DEF BeginMove
  <2>2. SetsEntry(m, [kind |-> "Removing", op |-> NextOp]) \/ SameRegistry
    BY <1>5, RunningEntries
  <2> QED BY <1>1, <1>2, <2>1, <2>2 DEF SetsEntry
<1>6. ASSUME NEW r \in Removers, RemoveMove(r) PROVE \A n \in Members : Known(n)
  <2> DEFINE m == remove[r].member
  <2>1. \/ UNCHANGED members
        \/ Steps(r, "persist", "second") /\ members' = members \ {m}
    BY <1>6, Zenon DEF RemoveMove
  <2>2. \/ SameRegistry
        \/ /\ Steps(r, "persist", "idle")
           /\ SetsEntry(m, [kind |-> "Failed", op |-> remove[r].lease])
        \/ /\ Steps(r, "finish", "hook")
           /\ SetsEntry(m, [kind |-> "Absent", op |-> NoOp])
    BY <1>6, RunningEntries
  <2>3. /\ remove[r].pc = "persist" => m \in members /\ entry[m].kind = "Removing"
        /\ remove[r].pc = "finish" => m \notin members
    <3>1. OwnRemoval(r)
      BY <1>1
    <3>2. /\ remove[r].pc = "persist" => remove[r].pc \in Holding
          /\ remove[r].pc = "persist" => remove[r].pc \in Leased \ Persisted
          /\ remove[r].pc = "finish" => remove[r].pc \in Persisted
      BY DEF Leased, Holding, Persisted
    <3> QED BY <3>1, <3>2 DEF OwnRemoval
  <2>4. CASE SameRegistry /\ ~UNCHANGED members
    <3>1. entry' = entry /\ members' = members \ {m} /\ entry[m].kind = "Removing"
      BY <2>1, <2>3, <2>4 DEF SameRegistry, Steps
    <3> QED BY <1>1, <3>1
  <2>5. CASE /\ Steps(r, "persist", "idle")
             /\ SetsEntry(m, [kind |-> "Failed", op |-> remove[r].lease])
    BY <1>1, <2>1, <2>3, <2>5 DEF SetsEntry, Steps
  <2>6. CASE /\ Steps(r, "finish", "hook")
             /\ SetsEntry(m, [kind |-> "Absent", op |-> NoOp])
    BY <1>1, <2>1, <2>3, <2>6 DEF SetsEntry, Steps
  <2> QED BY <1>2, <2>2, <2>4, <2>5, <2>6
<1>7. \A m \in Members : Known(m)
  <2>1. IdleMove => SameRegistry /\ UNCHANGED members
    BY DEF IdleMove
  <2>2. \A m \in Members : EvictMove(m) => SameRegistry /\ UNCHANGED members
    BY DEF EvictMove
  <2> HIDE DEF Known
  <2> QED BY <1>1, <1>2, <1>3, <1>4, <1>5, <1>6, <2>1, <2>2 DEF RunningMove
<1> QED BY <1>7 DEF MembersKnown

LEMMA RemovalsOwnStep ==
  ASSUME RunningInv, [Next]_vars, published' = "A"
  PROVE  RemovalsOwn'
<1>1. /\ published = "A" /\ RunningMove
      /\ DOMAIN ops \subseteq DOMAIN ops'
      /\ \A o \in DOMAIN ops : ops'[o].member = ops[o].member
      /\ \A o \in DOMAIN ops : ops[o].member \in Members
      /\ \A r \in Removers : remove[r].member \in Members /\ OwnRemoval(r)
      /\ \A q, r \in Removers : remove[q].pc \in Leased /\ remove[r].pc \in Leased
                                /\ remove[q].lease = remove[r].lease => q = r
  BY RunningKeeps DEF RunningInv, RemovalsOwn
<1> DEFINE Own(r) ==
      /\ remove'[r].pc \in Leased =>
           /\ remove'[r].lease \in DOMAIN ops'
           /\ ops'[remove'[r].lease].member = remove'[r].member
      /\ remove'[r].pc \in Holding =>
           entry'[remove'[r].member] = [kind |-> "Removing", op |-> remove'[r].lease]
      /\ remove'[r].pc \in {"hook", "delete"} => entry'[remove'[r].member].kind = "Absent"
      /\ remove'[r].pc \in Persisted => remove'[r].member \notin members'
      /\ remove'[r].pc \in Leased \ Persisted => remove'[r].member \in members'
    Apart == \A q, r \in Removers : remove'[q].pc \in Leased /\ remove'[r].pc \in Leased
                                    /\ remove'[q].lease = remove'[r].lease => q = r
(* A removal is disturbed only by what happens to its own member.          *)
<1>2. ASSUME NEW r \in Removers, remove'[r] = remove[r],
             remove[r].pc \in Leased =>
               /\ entry'[remove[r].member] = entry[remove[r].member]
               /\ remove[r].member \in members' <=> remove[r].member \in members
      PROVE  Own(r)
  <2>1. remove[r].pc \in Leased => Own(r)
    BY <1>1, <1>2 DEF OwnRemoval
  <2>2. remove[r].pc \notin Leased => Own(r)
    BY <1>2 DEF Leased, Holding, Persisted
  <2> QED BY <2>1, <2>2
<1>3. ASSUME UNCHANGED remove PROVE Apart
  BY <1>1, <1>3
<1>4. ASSUME SameRegistry, UNCHANGED <<members, remove>>
      PROVE  \A r \in Removers : Own(r) /\ Apart
  <2> HIDE DEF Own, Apart
  <2> QED BY <1>2, <1>3, <1>4 DEF SameRegistry
(* The member of a removal with a lease has no other entry.                *)
<1>5. ASSUME NEW r \in Removers, remove[r].pc \in Leased
      PROVE  \/ entry[remove[r].member].kind = "Removing"
             \/ entry[remove[r].member].kind = "Absent" /\ remove[r].member \notin members
  <2>1. OwnRemoval(r)
    BY <1>1
  <2>2. CASE remove[r].pc \in Holding
    BY <2>1, <2>2 DEF OwnRemoval
  <2>3. CASE remove[r].pc \in {"hook", "delete"}
    BY <2>1, <2>3 DEF OwnRemoval, Persisted
  <2> QED BY <1>5, <2>2, <2>3 DEF Leased
<1>6. ASSUME NEW m \in Members, StartMove(m) PROVE \A r \in Removers : Own(r) /\ Apart
  <2>1. /\ SetsEntry(m, [kind |-> "Attaching", op |-> NextOp])
        /\ entry[m].kind # "Removing" /\ m \in members'
        /\ \A n \in Members : n # m => (n \in members' <=> n \in members)
        /\ ops'[NextOp].member = m /\ UNCHANGED remove
    BY <1>6, RunningEntries DEF StartMove
  <2>2. ASSUME NEW r \in Removers, remove[r].pc \in Leased
        PROVE  remove[r].member # m
    <3>1. /\ remove[r].lease \in DOMAIN ops
          /\ ops[remove[r].lease].member = remove[r].member
      BY <1>1, <2>2 DEF OwnRemoval
    <3>2. entry[m].kind \in {"Ready", "Failed"} \/ \A o \in DOMAIN ops : ops[o].member # m
      BY <1>6 DEF StartMove
    <3> QED BY <1>5, <2>2, <3>1, <3>2
  <2>3. ASSUME NEW r \in Removers PROVE Own(r)
    BY <1>1, <1>2, <2>1, <2>2, <2>3 DEF SetsEntry
  <2> QED BY <1>3, <2>1, <2>3
<1>7. ASSUME NEW o \in DOMAIN ops, AttachMove(o), AttachFrame(o)
      PROVE  \A r \in Removers : Own(r) /\ Apart
  <2>1. CASE SameRegistry
    BY <1>4, <1>7, <2>1 DEF AttachFrame
  <2>2. CASE /\ \/ SetsEntry(ops[o].member, [kind |-> "Ready", op |-> NoOp])
                \/ SetsEntry(ops[o].member, [kind |-> "Failed", op |-> o])
             /\ entry[ops[o].member].kind = "Attaching"
    <3>1. ASSUME NEW r \in Removers PROVE Own(r)
      <4>1. remove[r].pc \in Leased => remove[r].member # ops[o].member
        BY <1>5, <2>2
      <4> QED BY <1>1, <1>2, <1>7, <2>2, <4>1 DEF AttachFrame, SetsEntry
    <3> QED BY <1>3, <1>7, <3>1 DEF AttachFrame
  <2> QED BY <1>7, <2>1, <2>2, RunningEntries
<1>8. ASSUME NEW q \in Removers, NEW m \in Members, BeginMove(q, m)
      PROVE  \A r \in Removers : Own(r) /\ Apart
  <2>1. /\ UNCHANGED members /\ m \in members /\ remove[q].pc = "idle"
        /\ \A r \in Removers : r # q => remove'[r] = remove[r]
    BY <1>8 DEF BeginMove
  <2>2. CASE /\ SetsEntry(m, [kind |-> "Removing", op |-> NextOp])
             /\ ops'[NextOp].member = m /\ NextOp \notin DOMAIN ops
             /\ NextOp \in DOMAIN ops'
             /\ entry[m].kind # "Removing"
             /\ remove'[q].pc = "unloop" /\ remove'[q].lease = NextOp
             /\ remove'[q].member = m
    <3>1. ASSUME NEW r \in Removers, r # q PROVE Own(r)
      <4>1. remove[r].pc \in Leased => remove[r].member # m
        BY <1>5, <2>1, <2>2
      <4> QED BY <1>1, <1>2, <2>1, <2>2, <3>1, <4>1 DEF SetsEntry
    <3>2. Own(q)
      BY <2>1, <2>2 DEF Leased, Holding, Persisted, SetsEntry
    <3>3. \A r \in Removers : r # q /\ remove'[r].pc \in Leased => remove'[r].lease # NextOp
      BY <1>1, <2>1, <2>2 DEF OwnRemoval
    <3>4. Apart
      BY <1>1, <2>1, <2>2, <3>3
    <3> HIDE DEF Own, Apart
    <3> QED BY <3>1, <3>2, <3>4
  <2>3. CASE SameRegistry /\ remove'[q].pc = "joined"
    <3>1. \A r \in Removers : r # q => Own(r)
      BY <1>2, <2>1, <2>3 DEF SameRegistry
    <3>2. Own(q) /\ remove'[q].pc \notin Leased
      BY <2>3 DEF Leased, Holding, Persisted
    <3> QED BY <1>1, <2>1, <3>1, <3>2
  <2> QED BY <1>8, <2>2, <2>3, RunningEntries
<1>9. ASSUME NEW r \in Removers, RemoveMove(r), RemoveFrame(r)
      PROVE  \A q \in Removers : Own(q) /\ Apart
  <2> DEFINE m == remove[r].member
  <2>1. /\ OwnRemoval(r) /\ m \in Members
        /\ \A q \in Removers : q # r => remove'[q] = remove[q]
        /\ remove'[r].member = m /\ remove'[r].lease = remove[r].lease
    BY <1>1, <1>9 DEF RemoveFrame
  <2>2. \/ UNCHANGED members
        \/ Steps(r, "persist", "second") /\ members' = members \ {m}
    BY <1>9, Zenon DEF RemoveMove
  <2>3. \/ SameRegistry /\ ~Steps(r, "finish", "hook")
        \/ /\ Steps(r, "persist", "idle")
           /\ SetsEntry(m, [kind |-> "Failed", op |-> remove[r].lease])
        \/ /\ Steps(r, "finish", "hook")
           /\ SetsEntry(m, [kind |-> "Absent", op |-> NoOp])
    BY <1>9, RunningEntries
  <2>4. ASSUME NEW q \in Removers, q # r PROVE Own(q)
    <3>1. CASE SameRegistry /\ UNCHANGED members
      BY <1>2, <2>1, <2>4, <3>1 DEF SameRegistry
    <3>2. CASE ~(SameRegistry /\ UNCHANGED members)
      <4>1. remove[r].pc \in {"persist", "finish"}
        BY <2>2, <2>3, <3>2 DEF Steps
      <4>2. /\ remove[r].pc \in Leased
            /\ entry[m] = [kind |-> "Removing", op |-> remove[r].lease]
        BY <2>1, <4>1 DEF OwnRemoval, Leased, Holding
      <4>3. ASSUME remove[q].pc \in Leased PROVE remove[q].member # m
        <5>1. OwnRemoval(q)
          BY <1>1
        <5>2. CASE remove[q].pc \in Holding
          <6>1. remove[q].lease # remove[r].lease
            BY <1>1, <2>4, <4>2, <4>3
          <6> QED BY <4>2, <5>1, <5>2, <6>1 DEF OwnRemoval
        <5>3. CASE remove[q].pc \in {"hook", "delete"}
          BY <4>2, <5>1, <5>3 DEF OwnRemoval
        <5> QED BY <4>3, <5>2, <5>3 DEF Leased
      <4>4. \A n \in Members : n # m => /\ entry'[n] = entry[n]
                                        /\ n \in members' <=> n \in members
        BY <2>2, <2>3 DEF SameRegistry, SetsEntry
      <4> QED BY <1>1, <1>2, <2>1, <2>4, <4>3, <4>4
    <3> QED BY <3>1, <3>2
  <2>5. remove'[r].pc \in Leased => remove[r].pc \in Leased
    BY <1>9 DEF RemoveMove, Steps, Leased, Holding
  <2>6. Apart
    BY <1>1, <2>1, <2>5
  <2>7. Own(r)
    <3>1. remove'[r].pc \in Leased =>
            /\ remove'[r].lease \in DOMAIN ops'
            /\ ops'[remove'[r].lease].member = remove'[r].member
      BY <1>1, <2>1, <2>5 DEF OwnRemoval
    <3>2. /\ remove'[r].pc \in Holding => remove[r].pc \in Holding /\ SameRegistry
          /\ remove'[r].pc \in {"hook", "delete"} =>
               \/ remove[r].pc = "hook" /\ SameRegistry
               \/ SetsEntry(m, [kind |-> "Absent", op |-> NoOp])
          /\ remove'[r].pc \in Persisted =>
               remove[r].pc \in Persisted \/ members' = members \ {m}
          /\ remove'[r].pc \in Leased \ Persisted =>
               remove[r].pc \in Leased \ Persisted /\ UNCHANGED members
      <4>1. \/ remove[r].pc = "joined" /\ remove'[r].pc = "idle"
            \/ remove[r].pc \in Leased \ Persisted /\ remove[r].pc \in Holding
               /\ UNCHANGED members
               /\ \/ remove'[r].pc \in {"kill", "killing", "persist"} /\ SameRegistry
                  \/ remove'[r].pc = "idle"
            \/ Steps(r, "persist", "second") /\ members' = members \ {m} /\ SameRegistry
            \/ /\ remove[r].pc \in {"second", "kill2", "killing2"}
               /\ remove'[r].pc \in {"kill2", "killing2", "finish"} /\ SameRegistry
            \/ Steps(r, "finish", "hook") /\ SetsEntry(m, [kind |-> "Absent", op |-> NoOp])
            \/ Steps(r, "hook", "delete") /\ SameRegistry
            \/ Steps(r, "delete", "idle")
        BY <1>1, <1>9, <2>3 DEF RemoveMove, Steps, Leased, Holding, Persisted
      <4> QED BY <4>1 DEF Steps, Leased, Holding, Persisted
    <3>3. remove[r].pc \in Persisted => m \notin members'
      BY <2>1, <2>2 DEF OwnRemoval
    <3> QED BY <2>1, <3>1, <3>2, <3>3 DEF OwnRemoval, SetsEntry, SameRegistry
  <2> HIDE DEF Own, Apart
  <2> QED BY <2>4, <2>6, <2>7
<1>10. \A r \in Removers : Own(r) /\ Apart
  <2>1. IdleMove => SameRegistry /\ UNCHANGED <<members, remove>>
    BY DEF IdleMove
  <2>2. \A m \in Members : EvictMove(m) => SameRegistry /\ UNCHANGED <<members, remove>>
    BY DEF EvictMove
  <2> HIDE DEF Own, Apart
  <2> QED BY <1>1, <1>4, <1>6, <1>7, <1>8, <1>9, <2>1, <2>2 DEF RunningMove
<1> QED BY <1>3, <1>10 DEF RemovalsOwn, OwnRemoval

LEMMA RunningInit == Init => RunningInv
<1> SUFFICES ASSUME Init PROVE RunningInv
  OBVIOUS
<1>1. LifecycleCore
  BY LifecycleInit
<1>2. SessionRuns
  BY DEF Init, SessionRuns, NoBoot
<1>3. MembersKnown
  BY DEF Init, MembersKnown
<1>4. \A r \in Removers : remove[r].pc = "idle"
  BY DEF Init, NoRemove
<1>5. RemovalsOwn
  BY <1>4 DEF RemovalsOwn, OwnRemoval, Leased, Persisted, Holding
<1> QED BY <1>1, <1>2, <1>3, <1>5 DEF RunningInv

LEMMA RunningInvStep == RunningInv /\ [Next]_vars => RunningInv'
<1> SUFFICES ASSUME RunningInv, [Next]_vars PROVE RunningInv'
  OBVIOUS
<1>1. LifecycleCore'
  BY LifecycleCoreStep DEF RunningInv
<1>2. CASE published' = "A"
  <2>1. SessionRuns'
    BY <1>2, RunningKeeps DEF RunningInv, SessionRuns
  <2> QED BY <1>1, <1>2, <2>1, MembersKnownStep, RemovalsOwnStep DEF RunningInv
<1>3. CASE published' # "A"
  BY <1>1, <1>3 DEF RunningInv, SessionRuns, MembersKnown, RemovalsOwn
<1> QED BY <1>2, <1>3

(* Event loops run only until the session has stopped.                     *)
LoopsEnd == /\ loopsStopped => loops = {}
            /\ published # "A" => stopping \in {"registry", "loops"} \/ loopsStopped

(* In a session that has not stopped, the event loop of a member that was  *)
(* removed is one the removal is about to stop a second time, or one that  *)
(* the attach which started it is about to remove.                         *)
LoopHeld(m) ==
  \/ \E r \in Removers : remove[r].member = m /\ remove[r].pc = "second"
  \/ \E o \in DOMAIN ops : /\ ops[o].member = m /\ attach[o].registered
                           /\ attach[o].pc \in {"registered", "unregister"}

LoopSwept == published = "A" => \A m \in loops \ members : LoopHeld(m)

LEMMA LoopsEndStep ==
  ASSUME LifecycleCore, LoopsEnd, [Next]_vars
  PROVE  LoopsEnd'
<1>1. /\ TasksType /\ RegistryInv /\ OpsBounded /\ StopOrder
  BY TypeParts DEF LifecycleCore
<1>2. CASE UNCHANGED vars
  BY <1>2 DEF vars, LoopsEnd, loopVars, teamVars
<1>3. ASSUME NEW o \in DOMAIN ops, AttachStep(o) PROVE LoopsEnd'
  <2>1. AttachMove(o) /\ AttachFrame(o)
    BY <1>1, <1>3, AttachMoves
  <2>2. loopsStopped => loops' = {}
    BY <2>1 DEF AttachMove, LoopsEnd
  <2> QED BY <2>1, <2>2 DEF LoopsEnd, AttachFrame
<1>4. ASSUME NEW r \in Removers, RemoveStep(r) PROVE LoopsEnd'
  <2>1. RemoveMove(r) /\ RemoveFrame(r)
    BY <1>1, <1>4, RemoveMoves
  <2>2. loops' \subseteq loops
    BY <2>1 DEF RemoveMove
  <2> QED BY <2>1, <2>2 DEF LoopsEnd, RemoveFrame
<1>5. ASSUME StopStep PROVE LoopsEnd'
  BY <1>1, <1>5 DEF StopStep, LoopsEnd, loopVars, teamVars
<1>6. ASSUME StopSession PROVE LoopsEnd'
  BY <1>6 DEF StopSession, LoopsEnd, loopVars
<1>7. ASSUME UNCHANGED <<stopping, loopVars>> PROVE LoopsEnd'
  BY <1>1, <1>7, PublishedSteps, <1>6 DEF LoopsEnd, loopVars
<1>8. /\ \A m \in Members : AddAgent(m) \/ Ensure(m) \/ Evict(m) => UNCHANGED <<stopping, loopVars>>
      /\ \A r \in Removers, m \in Members : RemoveBegins(r, m) => UNCHANGED <<stopping, loopVars>>
      /\ BootBegins \/ BootStep => UNCHANGED <<stopping, loopVars>>
  BY DEF AddAgent, Ensure, Evict, RemoveBegins, removeRest, BootBegins, BootStep,
         BootKills, BootJoins, BootObtains, BootInits, BootBuilds, BootFails,
         BootEnds, bootRest
<1> QED BY <1>2, <1>3, <1>4, <1>5, <1>6, <1>7, <1>8 DEF Next

LEMMA LoopSweptStep ==
  ASSUME RunningInv, LoopSwept, [Next]_vars, published' = "A"
  PROVE  LoopSwept'
<1> DEFINE Held(m) ==
      \/ \E r \in Removers : remove'[r].member = m /\ remove'[r].pc = "second"
      \/ \E o \in DOMAIN ops' : /\ ops'[o].member = m /\ attach'[o].registered
                                /\ attach'[o].pc \in {"registered", "unregister"}
    Swept == \A m \in loops' \ members' : Held(m)
<1>1. /\ published = "A" /\ RunningMove /\ ~stopped /\ ~loopsStopped
      /\ DOMAIN ops \subseteq DOMAIN ops'
      /\ \A o \in DOMAIN ops : ops'[o].member = ops[o].member
      /\ \A o \in DOMAIN ops : ops[o].member \in Members /\ o \in 1 .. MaxOps
      /\ \A m \in loops \ members : LoopHeld(m)
      /\ loops \subseteq Members
  BY RunningKeeps, TypeParts DEF RunningInv, SessionRuns, LoopSwept, LifecycleCore, TasksType, TeamType
<1>2. NextOp \notin DOMAIN ops
  BY <1>1 DEF RunningInv, LifecycleCore, RegistryInv, RegistryTypeOK, NextOp
(* A loop that nobody touches stays held.                                  *)
<1>3. ASSUME NEW m \in loops \ members,
             \A r \in Removers : remove[r].member = m /\ remove[r].pc = "second" =>
               remove'[r].member = m /\ remove'[r].pc = "second",
             \A o \in DOMAIN ops : ops[o].member = m => attach'[o] = attach[o]
      PROVE  Held(m)
  <2>1. LoopHeld(m)
    BY <1>1
  <2>2. CASE \E r \in Removers : remove[r].member = m /\ remove[r].pc = "second"
    BY <1>3, <2>2
  <2>3. CASE \E o \in DOMAIN ops : /\ ops[o].member = m /\ attach[o].registered
                                   /\ attach[o].pc \in {"registered", "unregister"}
    BY <1>1, <1>3, <2>3
  <2> QED BY <2>1, <2>2, <2>3 DEF LoopHeld
<1>4. ASSUME IdleMove PROVE Swept
  BY <1>3, <1>4 DEF IdleMove
<1>5. ASSUME NEW m \in Members, EvictMove(m) PROVE Swept
  BY <1>3, <1>5 DEF EvictMove
<1>6. ASSUME NEW m \in Members, StartMove(m) PROVE Swept
  <2>1. /\ UNCHANGED <<loops, remove>> /\ members \subseteq members'
        /\ \A o \in 1 .. MaxOps : o # NextOp => attach'[o] = attach[o]
    BY <1>6 DEF StartMove
  <2>2. \A n \in loops \ members : Held(n)
    BY <1>1, <1>2, <1>3, <2>1
  <2> HIDE DEF Held
  <2> QED BY <2>1, <2>2
<1>7. ASSUME NEW q \in Removers, NEW m \in Members, BeginMove(q, m) PROVE Swept
  <2>1. UNCHANGED <<loops, members, attach>>
    BY <1>7 DEF BeginMove
  <2>2. \A r \in Removers : remove[r].pc = "second" => remove'[r] = remove[r]
    BY <1>7 DEF BeginMove
  <2> QED BY <1>3, <2>1, <2>2
<1>8. ASSUME NEW o \in DOMAIN ops, AttachMove(o), AttachFrame(o) PROVE Swept
  <2> DEFINE m == ops[o].member
  <2>1. /\ UNCHANGED <<members, remove>>
        /\ \A k \in DOMAIN ops : k # o => attach'[k] = attach[k]
    BY <1>1, <1>8 DEF AttachFrame
  <2>2. \A n \in loops \ members : n # m => Held(n)
    BY <1>3, <2>1
  <2>3. loops' \subseteq loops \cup {m}
    BY <1>8 DEF AttachMove
  <2>4. ASSUME m \in loops' \ members' PROVE Held(m)
    <3>1. CASE attach'[o].registered /\ attach'[o].pc \in {"registered", "unregister"}
      BY <1>1, <3>1
    <3>2. CASE ~(attach'[o].registered /\ attach'[o].pc \in {"registered", "unregister"})
      <4>1. m \in loops
        BY <1>8, <2>4, <3>2 DEF AttachMove, Moves
      <4>2. LoopHeld(m)
        BY <1>1, <2>1, <2>4, <4>1
      <4>3. ~(attach[o].registered /\ attach[o].pc \in {"registered", "unregister"})
        <5>1. SUFFICES ASSUME attach[o].registered,
                              attach[o].pc \in {"registered", "unregister"}
                       PROVE  FALSE
          OBVIOUS
        <5>2. attach[o].pc # "unregister"
          BY <1>8, <2>4, <5>1 DEF AttachMove, Moves
        <5>3. attach[o].pc # "registered" \/ CommitReady(o)
          BY <1>8, <3>2, <5>1 DEF AttachMove, Moves
        <5>4. entry[m].kind # "Attaching"
          <6>1. m \notin members /\ m \in Members
            BY <1>1, <2>1, <2>4
          <6> QED BY <1>1, <6>1 DEF RunningInv, MembersKnown
        <5> QED BY <5>1, <5>2, <5>3, <5>4 DEF CommitReady, Owns
      <4>4. \/ \E r \in Removers : remove[r].member = m /\ remove[r].pc = "second"
            \/ \E k \in DOMAIN ops : /\ k # o /\ ops[k].member = m /\ attach[k].registered
                                     /\ attach[k].pc \in {"registered", "unregister"}
        BY <4>2, <4>3 DEF LoopHeld
      <4> QED BY <1>1, <2>1, <4>4
    <3> QED BY <3>1, <3>2
  <2> HIDE DEF Held
  <2> QED BY <2>1, <2>2, <2>3, <2>4
<1>9. ASSUME NEW r \in Removers, RemoveMove(r), RemoveFrame(r) PROVE Swept
  <2> DEFINE m == remove[r].member
  <2>1. /\ UNCHANGED attach /\ remove'[r].member = m
        /\ \A q \in Removers : q # r => remove'[q] = remove[q]
    BY <1>9 DEF RemoveFrame
  <2>2. /\ loops' \subseteq loops
        /\ members' = members \/ members' = members \ {m}
        /\ members' # members => remove'[r].pc = "second"
        /\ remove[r].pc = "second" => m \notin loops'
    BY <1>1, <1>9 DEF RemoveMove, Steps
  <2>3. ASSUME NEW n \in loops' \ members' PROVE Held(n)
    <3>1. CASE n \in members
      BY <2>1, <2>2, <2>3, <3>1
    <3>2. CASE n \notin members
      <4>1. \A q \in Removers : remove[q].member = n /\ remove[q].pc = "second" => q # r
        BY <2>2, <2>3
      <4> QED BY <1>3, <2>1, <2>2, <2>3, <3>2, <4>1
    <3> QED BY <3>1, <3>2
  <2> QED BY <2>3
<1>10. Swept
  <2> HIDE DEF Swept
  <2> QED BY <1>1, <1>4, <1>5, <1>6, <1>7, <1>8, <1>9 DEF RunningMove
<1> QED BY <1>10 DEF LoopSwept, LoopHeld

(* Without a replacement session nothing is published once A has gone.     *)
NoReplacement == boot.pc = "no" /\ published # "B"

LEMMA NoReplacementStep ==
  ASSUME MaxBoots = 0, LifecycleCore, NoReplacement, [Next]_vars
  PROVE  NoReplacement' /\ ~BootBegins /\ ~BootStep
<1>1. StopOrder /\ boot.made \in Nat
  BY TypeParts DEF LifecycleCore, TasksType, Boot
<1>2. ~BootBegins /\ ~BootStep
  BY <1>1 DEF NoReplacement, BootBegins, BootStep, BootKills, BootJoins, BootObtains,
              BootInits, BootBuilds, BootFails, BootEnds
<1>3. boot' = boot
  BY <1>2 DEF Next, vars, AddAgent, Ensure, Evict, AttachStep, AttachKills,
         AttachJoins, AttachReads, AttachObtains, AttachInits, AttachBuilds,
         AttachChecks, AttachRegisters, AttachCommits, AttachPublishes,
         AttachUnregisters, AttachCleans, AttachReaps, AttachFails, RemoveBegins,
         RemoveStep, RemoveJoins, RemoveUnloops, RemoveKills, RemoveWaits,
         RemovePersists, RemoveAgain, RemoveFinishes, RemoveHook, RemoveDeletes,
         StopSession, StopStep, attachRest, removeRest
<1>4. published' # published => StopSession
  BY <1>1, <1>2, PublishedSteps DEF BootStep
<1> QED BY <1>2, <1>3, <1>4 DEF NoReplacement, StopSession

(* The agent of a member that was removed is one that the removal is about *)
(* to kill again, or one that an attach which lost its operation is about  *)
(* to clean up.                                                            *)
Sweeping(o) ==
  \/ attach[o].pc \in {"init", "building", "built", "owned", "registered",
                       "unregister", "stale", "failed"}
  \/ attach[o].pc = "committed" /\ published # "A"

AgentHeld(m) ==
  \/ \E r \in Removers : remove[r].member = m /\ remove[r].pc \in Persisted \ {"delete"}
  \/ \E o \in DOMAIN ops : ops[o].member = m /\ Sweeping(o)

AgentSwept == \A m \in Members \ members : slot[m] # NoCell => AgentHeld(m)

LEMMA AgentSweptStep ==
  ASSUME MaxBoots = 0, RunningInv, NoReplacement, AgentSwept, [Next]_vars
  PROVE  AgentSwept'
<1> DEFINE Sweeps(o) ==
      \/ attach'[o].pc \in {"init", "building", "built", "owned", "registered",
                            "unregister", "stale", "failed"}
      \/ attach'[o].pc = "committed" /\ published' # "A"
    Held(m) ==
      \/ \E r \in Removers : remove'[r].member = m /\ remove'[r].pc \in Persisted \ {"delete"}
      \/ \E o \in DOMAIN ops' : ops'[o].member = m /\ Sweeps(o)
    Swept == \A m \in Members \ members' : slot'[m] # NoCell => Held(m)
<1>1. /\ TasksType /\ RegistryInv /\ OpsBounded /\ StopOrder /\ LeasesKnown
      /\ ops \in Seq(Operation) /\ AgentType
  BY TypeParts DEF RunningInv, LifecycleCore, RegistryInv, RegistryTypeOK, TasksType
<1>2. /\ DOMAIN ops \subseteq DOMAIN ops'
      /\ \A o \in DOMAIN ops : ops'[o].member = ops[o].member
      /\ \A o \in DOMAIN ops : ops[o].member \in Members /\ o \in 1 .. MaxOps /\ o # NextOp
      /\ published # "A" => published' # "A"
  <2>1. /\ DOMAIN ops \subseteq DOMAIN ops'
        /\ \A o \in DOMAIN ops : ops'[o].member = ops[o].member
        /\ published # "A" => published' # "A"
    BY <1>1, StepOfRegistry, OpsGrow, PublishedSteps
  <2>2. \A o \in DOMAIN ops : ops[o].member \in Members
    BY <1>1, OpsTyped
  <2>3. \A o \in DOMAIN ops : o \in 1 .. MaxOps /\ o # NextOp
    BY <1>1, RegistryAssumption DEF OpsBounded, NextOp
  <2> QED BY <2>1, <2>2, <2>3
<1>3. /\ \A m \in Members \ members : slot[m] # NoCell => AgentHeld(m)
      /\ ~BootBegins /\ ~BootStep /\ published # "B"
  BY NoReplacementStep DEF RunningInv, AgentSwept, NoReplacement
(* An agent that nobody touches stays held.                                *)
<1>4. ASSUME NEW m \in Members \ members, slot[m] # NoCell,
             \A r \in Removers :
               remove[r].member = m /\ remove[r].pc \in Persisted \ {"delete"} =>
               remove'[r].member = m /\ remove'[r].pc \in Persisted \ {"delete"},
             \A o \in DOMAIN ops : ops[o].member = m => attach'[o] = attach[o]
      PROVE  Held(m)
  <2>1. AgentHeld(m)
    BY <1>3, <1>4
  <2>2. CASE \E r \in Removers : remove[r].member = m /\ remove[r].pc \in Persisted \ {"delete"}
    BY <1>4, <2>2
  <2>3. CASE \E o \in DOMAIN ops : ops[o].member = m /\ Sweeping(o)
    BY <1>2, <1>4, <2>3 DEF Sweeping
  <2> QED BY <2>1, <2>2, <2>3 DEF AgentHeld
<1>5. ASSUME UNCHANGED <<members, slot, attach, remove>> PROVE Swept
  BY <1>4, <1>5
<1>6. ASSUME NEW m \in Members, AddAgent(m) \/ Ensure(m) PROVE Swept
  <2>1. /\ UNCHANGED <<slot, remove>> /\ members \subseteq members'
        /\ Spawn(NextOp) \/ UNCHANGED attach
    BY <1>6 DEF AddAgent, Ensure, agentVars, teamVars
  <2>2. \A o \in DOMAIN ops : attach'[o] = attach[o]
    BY <1>1, <1>2, <2>1 DEF Spawn, TasksType
  <2> HIDE DEF Held
  <2> QED BY <1>4, <2>1, <2>2
<1>7. ASSUME NEW m \in Members, Evict(m) PROVE Swept
  <2>1. UNCHANGED <<members, attach, remove>> /\ Frees(m)
    BY <1>1, <1>7, SlotEffects DEF Evict, teamVars
  <2> QED BY <1>4, <2>1 DEF Frees
<1>8. ASSUME NEW q \in Removers, NEW m \in Members, RemoveBegins(q, m) PROVE Swept
  <2>1. UNCHANGED <<members, slot, attach>>
    BY <1>8 DEF RemoveBegins, teamVars, agentVars, removeRest
  <2>2. \A r \in Removers : remove[r].pc \in Persisted \ {"delete"} => remove'[r] = remove[r]
    BY <1>1, <1>8, BeginEffect DEF Persisted
  <2> QED BY <1>4, <2>1, <2>2
<1>9. ASSUME NEW r \in Removers, RemoveStep(r) PROVE Swept
  <2> DEFINE m == remove[r].member
  <2>1. /\ RemoveMove(r) /\ UNCHANGED attach /\ remove'[r].member = m
        /\ \A q \in Removers : q # r => remove'[q] = remove[q]
    BY <1>1, <1>9, RemoveMoves DEF RemoveFrame
  <2>2. /\ \/ members' = members
           \/ members' = members \ {m} /\ remove'[r].pc = "second"
        /\ SameSlots \/ Frees(m)
        /\ remove[r].pc \in Persisted \ {"delete"} =>
             remove'[r].pc \in Persisted \ {"delete"} \/ Frees(m)
    <3>1. \/ members' = members
          \/ members' = members \ {m} /\ remove'[r].pc = "second"
      BY <2>1 DEF RemoveMove, Steps
    <3>2. SameSlots \/ Frees(m)
      BY <2>1, Zenon DEF RemoveMove
    <3>3. remove[r].pc \in Persisted \ {"delete"} =>
            remove'[r].pc \in Persisted \ {"delete"} \/ Frees(m)
      BY <2>1 DEF RemoveMove, Steps, Persisted
    <3> QED BY <3>1, <3>2, <3>3
  <2>3. ASSUME NEW n \in Members \ members', slot'[n] # NoCell PROVE Held(n)
    <3>1. CASE n \in members
      BY <2>1, <2>2, <3>1, <2>3 DEF Persisted
    <3>2. CASE n \notin members
      <4>1. slot[n] # NoCell /\ (n = m => ~Frees(m))
        BY <2>2, <2>3 DEF Frees, SameSlots
      <4>2. \A q \in Removers :
              remove[q].member = n /\ remove[q].pc \in Persisted \ {"delete"} =>
              remove'[q].member = n /\ remove'[q].pc \in Persisted \ {"delete"}
        BY <2>1, <2>2, <4>1
      <4> HIDE DEF Held
      <4> QED BY <1>4, <2>1, <2>3, <3>2, <4>1, <4>2
    <3> QED BY <3>1, <3>2
  <2> QED BY <2>3
<1>10. ASSUME NEW o \in DOMAIN ops, AttachStep(o) PROVE Swept
  <2> DEFINE m == ops[o].member
  <2>1. /\ AttachMove(o) /\ UNCHANGED <<members, published, remove>>
        /\ \A k \in DOMAIN ops : k # o => attach'[k] = attach[k]
    BY <1>1, <1>2, <1>10, AttachMoves DEF AttachFrame
  <2>2. \A n \in Members : n # m => slot'[n] = slot[n]
    BY <2>1 DEF AttachMove, SameSlots, Frees, Gets, SetsState
  <2>3. \A n \in Members \ members : n # m /\ slot'[n] # NoCell => Held(n)
    BY <1>4, <2>1, <2>2
  <2>4. ASSUME m \notin members, slot'[m] # NoCell PROVE Held(m)
    <3>1. CASE Sweeps(o)
      BY <1>2, <3>1
    <3>2. CASE ~Sweeps(o)
      <4>1. CommitReady(o) => published # "A"
        <5>1. SUFFICES ASSUME CommitReady(o), published = "A" PROVE FALSE
          OBVIOUS
        <5>2. entry[m].kind = "Attaching"
          BY <5>1 DEF CommitReady, Owns
        <5> QED BY <1>2, <2>4, <5>1, <5>2 DEF RunningInv, MembersKnown
      <4>2. ~Frees(m)
        BY <1>2, <2>4 DEF Frees
      <4>3. slot' = slot /\ ~Sweeping(o)
        <5>1. attach[o].pc # "slot"
          BY <2>1, <3>2 DEF AttachMove, Moves
        <5>2. slot' = slot
          BY <2>1, <4>2, <5>1 DEF AttachMove, Moves, SameSlots, SetsState
        <5>3. ~Sweeping(o)
          BY <1>3, <2>1, <3>2, <4>1, <4>2 DEF AttachMove, Moves, Sweeping
        <5> QED BY <5>2, <5>3
      <4>4. AgentHeld(m)
        BY <1>2, <1>3, <2>4, <4>3
      <4>5. \/ \E r \in Removers : remove[r].member = m /\ remove[r].pc \in Persisted \ {"delete"}
            \/ \E k \in DOMAIN ops : k # o /\ ops[k].member = m /\ Sweeping(k)
        BY <4>3, <4>4 DEF AgentHeld
      <4> QED BY <1>2, <2>1, <4>5 DEF Sweeping
    <3> QED BY <3>1, <3>2
  <2> HIDE DEF Held
  <2> QED BY <2>1, <2>3, <2>4
<1>11. ASSUME StopSession PROVE Swept
  <2>1. UNCHANGED <<members, slot, attach, remove>>
    BY <1>11 DEF StopSession, agentVars
  <2> QED BY <1>5, <2>1
<1>12. ASSUME StopStep PROVE Swept
  <2>1. UNCHANGED <<members, slot, attach, remove>>
    BY <1>12 DEF StopStep, agentVars, teamVars
  <2> QED BY <1>5, <2>1
<1>13. UNCHANGED vars => Swept
  BY <1>5 DEF vars, teamVars, agentVars
<1>14. Swept
  <2> HIDE DEF Swept
  <2> QED BY <1>3, <1>6, <1>7, <1>8, <1>9, <1>10, <1>11, <1>12, <1>13 DEF Next
<1> QED BY <1>14 DEF AgentSwept, AgentHeld, Sweeping

(* A member that was removed leaves nothing behind, as long as the session *)
(* is not replaced: whichever attach was under way when it was removed and *)
(* however many removals, evictions and stops came in between, once the    *)
(* tasks on it ended no event loop would run turns for it and no agent of  *)
(* it is in the task manager.                                              *)
THEOREM RemovedCorrect ==
  ASSUME MaxBoots = 0
  PROVE  Spec => []RemovedLeavesNothing
<1> DEFINE Inv == RunningInv /\ LoopsEnd /\ LoopSwept /\ NoReplacement /\ AgentSwept
<1>1. Init => Inv
  <2> SUFFICES ASSUME Init PROVE Inv
    OBVIOUS
  <2>1. LoopsEnd /\ LoopSwept /\ NoReplacement
    BY DEF Init, NoBoot, LoopsEnd, LoopSwept, NoReplacement
  <2>2. \A m \in Members \ members : slot[m] = NoCell
    BY DEF Init
  <2> QED BY RunningInit, <2>1, <2>2 DEF AgentSwept
<1>2. Inv /\ [Next]_vars => Inv'
  <2> SUFFICES ASSUME Inv, [Next]_vars PROVE Inv'
    OBVIOUS
  <2>1. RunningInv' /\ LoopsEnd' /\ NoReplacement' /\ AgentSwept'
    BY RunningInvStep, LoopsEndStep, NoReplacementStep, AgentSweptStep DEF RunningInv
  <2>2. CASE published' = "A"
    BY <2>1, <2>2, LoopSweptStep
  <2>3. CASE published' # "A"
    BY <2>1, <2>3 DEF LoopSwept
  <2> QED BY <2>1, <2>2, <2>3
<1>3. Inv => RemovedLeavesNothing
  <2> SUFFICES ASSUME Inv, NEW m \in Members \ members, Quiet(m)
               PROVE  m \notin loops /\ slot[m] = NoCell
    BY DEF RemovedLeavesNothing
  <2>1. /\ \A o \in DOMAIN ops : ops[o].member = m => attach[o].pc = "done"
        /\ \A r \in Removers : remove[r].member = m => remove[r].pc = "idle"
        /\ stopping = "no"
    BY DEF Quiet
  <2>2. ~LoopHeld(m)
    BY <2>1 DEF LoopHeld
  <2>3. ~AgentHeld(m)
    BY <2>1 DEF AgentHeld, Sweeping, Persisted
  <2>4. m \notin loops
    BY <2>1, <2>2 DEF LoopsEnd, LoopSwept
  <2> QED BY <2>3, <2>4 DEF AgentSwept
<1> HIDE DEF Inv
<1> QED BY <1>1, <1>2, <1>3, PTL DEF Spec

------------------------------------------------------------------------------
(* Members that are ready.                                                 *)

(* An operation that has not started has no task.                          *)
TasksAhead == \A o \in 1 .. MaxOps : o \notin DOMAIN ops => attach[o].pc = "done"

(* An attach task that is at work owns its member, or the member is being  *)
(* removed or has been; a task that gave up owns nothing.                  *)
StaleLost == \A o \in DOMAIN ops :
  /\ attach[o].pc \notin {"done", "committed"} =>
       Owns(o, "Attaching") \/ entry[ops[o].member].kind \in {"Removing", "Absent"}
  /\ attach[o].pc \in {"unregister", "stale", "reaping"} => ~Owns(o, "Attaching")

(* A cell is built by one task at a time.                                  *)
SlotsKnown == \A m \in Members : slot[m] # NoCell => slot[m] \in DOMAIN cells

BuildersApart == \A o \in DOMAIN ops :
  /\ attach[o].pc \in {"init", "building"} =>
       attach[o].cell \in DOMAIN cells /\ attach[o].cell # NoCell
  /\ attach[o].pc = "building" => cells[attach[o].cell].state = "building"
  /\ \A q \in DOMAIN ops : attach[o].pc = "building" /\ attach[q].pc = "building"
                           /\ attach[q].cell = attach[o].cell => q = o

(* The attach that owns a member finds in the map the cell it has obtained *)
(* and then its agent, unless it was evicted, and has an event loop before *)
(* it makes the member ready.                                              *)
Serves(o) ==
  /\ attach[o].pc = "registered" => ops[o].member \in loops
  /\ ops[o].member \notin lost =>
       /\ attach[o].pc \in {"init", "building"} => attach[o].cell = slot[ops[o].member]
       /\ attach[o].pc \in {"built", "owned", "registered"} => Built(slot[ops[o].member])

OwnersServe == \A o \in DOMAIN ops : Owns(o, "Attaching") => Serves(o)

ReadyServed == \A m \in Members : entry[m].kind = "Ready" =>
  m \in loops /\ (m \notin lost => Built(slot[m]))

ServeInv == /\ RunningInv
            /\ published = "A" => /\ TasksAhead
                                  /\ StaleLost
                                  /\ SlotsKnown
                                  /\ BuildersApart
                                  /\ OwnersServe
                                  /\ ReadyServed

(* What all moves have in common: what they add to the operations, and     *)
(* which tasks they move.                                                  *)
LEMMA RunningTasks ==
  ASSUME RunningInv, TasksAhead, [Next]_vars, published' = "A"
  PROVE  /\ \A o \in DOMAIN ops : attach'[o] = attach[o] \/ (AttachMove(o) /\ AttachFrame(o))
         /\ \A o \in DOMAIN ops' \ DOMAIN ops : attach'[o].pc \in {"spawned", "done"}
         /\ TasksAhead'
<1>1. /\ RunningMove /\ RegistryInv /\ OpsBounded /\ LeasesKnown /\ TasksType
      /\ DOMAIN ops \subseteq DOMAIN ops'
      /\ \A o \in DOMAIN ops : ops[o].member \in Members /\ o \in 1 .. MaxOps
  BY RunningKeeps, TypeParts DEF RunningInv, LifecycleCore
<1>2. NextOp \notin DOMAIN ops /\ DOMAIN ops' \subseteq 1 .. MaxOps
  <2>1. ops \in Seq(Operation)
    BY <1>1 DEF RegistryInv, RegistryTypeOK
  <2>2. RegistryInv' /\ OpsBounded'
    BY LifecycleCoreStep DEF RunningInv, LifecycleCore
  <2>3. ops' \in Seq(Operation) /\ Len(ops') <= MaxOps /\ MaxOps \in Nat
    BY <2>2, RegistryAssumption DEF RegistryInv, RegistryTypeOK, OpsBounded
  <2> QED BY <2>1, <2>3 DEF NextOp
<1> DEFINE Good ==
      /\ \A o \in DOMAIN ops : attach'[o] = attach[o] \/ (AttachMove(o) /\ AttachFrame(o))
      /\ \A o \in DOMAIN ops' \ DOMAIN ops : attach'[o].pc \in {"spawned", "done"}
      /\ \A o \in 1 .. MaxOps : o \notin DOMAIN ops' => attach'[o].pc = "done"
<1>3. ASSUME UNCHANGED attach PROVE Good
  <2>1. \A o \in 1 .. MaxOps \ DOMAIN ops : attach'[o].pc = "done"
    BY <1>3 DEF TasksAhead
  <2> QED BY <1>1, <1>2, <1>3, <2>1
<1>4. ASSUME NEW m \in Members, StartMove(m) PROVE Good
  <2>1. /\ \A q \in 1 .. MaxOps : q # NextOp => attach'[q] = attach[q]
        /\ attach'[NextOp] = attach[NextOp] \/ attach'[NextOp].pc = "spawned"
        /\ DOMAIN ops' = DOMAIN ops \cup {NextOp}
    BY <1>1, <1>4, RegistryEffects DEF StartMove, OpsKeep
  <2>2. \A o \in DOMAIN ops : attach'[o] = attach[o]
    BY <1>1, <1>2, <2>1
  <2>3. attach'[NextOp].pc \in {"spawned", "done"}
    BY <1>2, <2>1 DEF TasksAhead
  <2>4. \A o \in 1 .. MaxOps : o \notin DOMAIN ops' => attach'[o].pc = "done"
    BY <2>1 DEF TasksAhead
  <2> QED BY <2>1, <2>2, <2>3, <2>4
<1>5. ASSUME NEW o \in DOMAIN ops, AttachMove(o), AttachFrame(o) PROVE Good
  <2>1. \A q \in 1 .. MaxOps : q # o => attach'[q] = attach[q]
    BY <1>5 DEF AttachFrame
  <2>2. \A q \in 1 .. MaxOps \ DOMAIN ops : attach'[q].pc = "done"
    BY <2>1 DEF TasksAhead
  <2> QED BY <1>1, <1>2, <1>5, <2>1, <2>2
<1>6. Good
  <2>1. IdleMove => UNCHANGED attach
    BY DEF IdleMove
  <2>2. \A m \in Members : EvictMove(m) => UNCHANGED attach
    BY DEF EvictMove
  <2>3. \A q \in Removers, m \in Members : BeginMove(q, m) => UNCHANGED attach
    BY DEF BeginMove
  <2>4. \A r \in Removers : RemoveFrame(r) => UNCHANGED attach
    BY DEF RemoveFrame
  <2> HIDE DEF Good
  <2> QED BY <1>1, <1>3, <1>4, <1>5, <2>1, <2>2, <2>3, <2>4 DEF RunningMove
<1> QED BY <1>6 DEF TasksAhead

(* The map changes for one member at a time, a cell's state only by the    *)
(* task that builds it.                                                    *)
BuildMove(q) ==
  /\ \/ /\ Moves(q, "init", {"building"}) /\ attach'[q].cell = attach[q].cell
        /\ cells[attach[q].cell].state = "empty"
        /\ SetsState(attach[q].cell, "building")
     \/ Moves(q, "building", {"built"}) /\ SetsState(attach[q].cell, "built")
     \/ Moves(q, "building", {"failed"}) /\ SetsState(attach[q].cell, "empty")
  /\ AttachFrame(q)

LEMMA RunningCells ==
  ASSUME RunningInv, [Next]_vars, published' = "A"
  PROVE  \/ SameSlots
         \/ \E m \in Members : Frees(m) \/ Gets(m)
         \/ \E q \in DOMAIN ops : BuildMove(q)
<1>1. /\ RunningMove
      /\ \A o \in DOMAIN ops : ops[o].member \in Members
      /\ \A r \in Removers : remove[r].member \in Members
  BY RunningKeeps
<1>2. IdleMove => SameSlots
  BY DEF IdleMove
<1>3. \A m \in Members : /\ StartMove(m) => SameSlots
                         /\ EvictMove(m) => Frees(m)
  BY DEF StartMove, EvictMove
<1>4. \A q \in Removers, m \in Members : BeginMove(q, m) => SameSlots
  BY DEF BeginMove
<1>5. ASSUME NEW r \in Removers, RemoveMove(r) PROVE SameSlots \/ Frees(remove[r].member)
  BY <1>5, Zenon DEF RemoveMove
<1>6. ASSUME NEW o \in DOMAIN ops, AttachMove(o), AttachFrame(o)
      PROVE  SameSlots \/ Frees(ops[o].member) \/ Gets(ops[o].member) \/ BuildMove(o)
  BY <1>6 DEF AttachMove, BuildMove
<1> QED BY <1>1, <1>2, <1>3, <1>4, <1>5, <1>6 DEF RunningMove

LEMMA SlotsKnownStep ==
  ASSUME RunningInv, SlotsKnown, [Next]_vars, published' = "A"
  PROVE  SlotsKnown' /\ DOMAIN cells \subseteq DOMAIN cells'
<1>1. \/ SameSlots
      \/ \E m \in Members : Frees(m) \/ Gets(m)
      \/ \E q \in DOMAIN ops : BuildMove(q)
  BY RunningCells
<1> DEFINE Good == SlotsKnown' /\ DOMAIN cells \subseteq DOMAIN cells'
<1>2. ASSUME SameSlots PROVE Good
  BY <1>2 DEF SameSlots, SameStates, SlotsKnown
<1>3. ASSUME NEW m \in Members, Frees(m) PROVE Good
  BY <1>3 DEF Frees, SameStates, SlotsKnown
<1>4. ASSUME NEW m \in Members, Gets(m) PROVE Good
  BY <1>4 DEF Gets, SameStates, SlotsKnown
<1>5. ASSUME NEW q \in DOMAIN ops, BuildMove(q) PROVE Good
  BY <1>5 DEF BuildMove, SetsState, SlotsKnown
<1> HIDE DEF Good
<1>6. Good
  BY <1>1, <1>2, <1>3, <1>4, <1>5
<1> QED BY <1>6 DEF Good

LEMMA BuildersApartStep ==
  ASSUME RunningInv, TasksAhead, SlotsKnown, BuildersApart, [Next]_vars, published' = "A"
  PROVE  BuildersApart'
<1>1. /\ \A o \in DOMAIN ops : attach'[o] = attach[o] \/ (AttachMove(o) /\ AttachFrame(o))
      /\ \A o \in DOMAIN ops' \ DOMAIN ops : attach'[o].pc \in {"spawned", "done"}
      /\ SlotsKnown' /\ DOMAIN cells \subseteq DOMAIN cells'
      /\ \A o \in DOMAIN ops : ops[o].member \in Members /\ o \in 1 .. MaxOps
  BY RunningTasks, SlotsKnownStep, RunningKeeps
<1> DEFINE Holds(o) == attach'[o].pc \in {"init", "building"} =>
                         attach'[o].cell \in DOMAIN cells' /\ attach'[o].cell # NoCell
           Building(o) == attach'[o].pc = "building" => cells'[attach'[o].cell].state = "building"
           Alone(o, q) == attach'[o].pc = "building" /\ attach'[q].pc = "building"
                          /\ attach'[q].cell = attach'[o].cell => q = o
(* A task that begins to build was at a cell nobody had begun to build.    *)
<1>2. ASSUME NEW o \in DOMAIN ops, AttachMove(o), attach'[o].pc = "building"
      PROVE  /\ attach[o].pc = "init" /\ attach'[o].cell = attach[o].cell
             /\ cells[attach[o].cell].state = "empty"
             /\ SetsState(attach[o].cell, "building")
  BY <1>2 DEF AttachMove, Moves
<1>3. ASSUME NEW o \in DOMAIN ops' PROVE Holds(o)
  <2>1. CASE o \notin DOMAIN ops
    BY <1>1, <1>3, <2>1
  <2>2. CASE o \in DOMAIN ops /\ attach'[o] = attach[o]
    BY <1>1, <2>2 DEF BuildersApart
  <2>3. CASE o \in DOMAIN ops /\ AttachMove(o)
    <3>1. attach'[o].pc = "init" => /\ Gets(ops[o].member)
                                    /\ attach'[o].cell = slot'[ops[o].member]
      BY <2>3 DEF AttachMove, Moves
    <3>2. CASE attach'[o].pc = "init"
      BY <1>1, <2>3, <3>1, <3>2 DEF Gets, SlotsKnown
    <3>3. CASE attach'[o].pc = "building"
      BY <1>1, <1>2, <2>3, <3>3 DEF BuildersApart
    <3> QED BY <3>2, <3>3
  <2> QED BY <1>1, <2>1, <2>2, <2>3
<1>4. ASSUME NEW o \in DOMAIN ops' PROVE Building(o)
  <2>1. SUFFICES ASSUME attach'[o].pc = "building" PROVE cells'[attach'[o].cell].state = "building"
    OBVIOUS
  <2>2. o \in DOMAIN ops
    BY <1>1, <2>1
  <2>3. CASE attach'[o] = attach[o]
    <3>1. /\ attach[o].cell \in DOMAIN cells /\ cells[attach[o].cell].state = "building"
          /\ \A q \in DOMAIN ops : attach[q].pc = "building"
                                   /\ attach[q].cell = attach[o].cell => q = o
      BY <2>1, <2>2, <2>3 DEF BuildersApart
    <3>2. CASE SameStates
      BY <2>3, <3>1, <3>2 DEF SameStates
    <3>3. CASE \E q \in DOMAIN ops : BuildMove(q)
      <4>1. PICK q \in DOMAIN ops : BuildMove(q)
        BY <3>3
      <4>2. q # o
        BY <2>3, <4>1 DEF BuildMove, Moves
      <4>3. attach[q].cell # attach[o].cell
        BY <2>1, <2>3, <3>1, <4>1, <4>2 DEF BuildMove, Moves
      <4> QED BY <2>3, <3>1, <4>1, <4>3 DEF BuildMove, SetsState
    <3> QED BY <3>2, <3>3, RunningCells DEF SameSlots, Frees, Gets
  <2>4. CASE AttachMove(o)
    BY <1>2, <2>1, <2>2, <2>4 DEF BuildersApart, SetsState
  <2> QED BY <1>1, <2>2, <2>3, <2>4
<1>5. ASSUME NEW o \in DOMAIN ops', NEW q \in DOMAIN ops' PROVE Alone(o, q)
  <2>1. SUFFICES ASSUME attach'[o].pc = "building", attach'[q].pc = "building",
                        attach'[q].cell = attach'[o].cell, q # o
                 PROVE  FALSE
    OBVIOUS
  <2>2. o \in DOMAIN ops /\ q \in DOMAIN ops
    BY <1>1, <2>1
  <2>3. CASE attach'[o] = attach[o] /\ attach'[q] = attach[q]
    BY <2>1, <2>2, <2>3 DEF BuildersApart
  <2>4. CASE AttachMove(o) /\ attach'[q] = attach[q]
    BY <1>2, <2>1, <2>2, <2>4 DEF BuildersApart
  <2>5. CASE AttachMove(q) /\ attach'[o] = attach[o]
    BY <1>2, <2>1, <2>2, <2>5 DEF BuildersApart
  <2> QED BY <1>1, <2>1, <2>2, <2>3, <2>4, <2>5 DEF AttachFrame
<1> QED BY <1>3, <1>4, <1>5 DEF BuildersApart

(* A new operation whose task was spawned is an attach that owns its       *)
(* member.                                                                 *)
LEMMA NewOperations ==
  ASSUME RunningInv, TasksAhead, [Next]_vars, published' = "A",
         NEW o \in DOMAIN ops' \ DOMAIN ops
  PROVE  \/ attach'[o].pc = "done"
         \/ /\ attach'[o].pc = "spawned"
            /\ entry'[ops'[o].member] = [kind |-> "Attaching", op |-> o]
<1>1. /\ RunningMove /\ RegistryInv /\ OpsBounded /\ LeasesKnown
      /\ attach'[o].pc \in {"spawned", "done"}
      /\ \A k \in DOMAIN ops : ops[k].member \in Members
      /\ \A k \in 1 .. MaxOps : k \notin DOMAIN ops' => attach'[k].pc = "done"
      /\ \A k \in 1 .. MaxOps : k \notin DOMAIN ops => attach[k].pc = "done"
  BY RunningKeeps, RunningTasks DEF RunningInv, LifecycleCore, TasksAhead
<1>2. o \in 1 .. MaxOps
  <2>1. RegistryInv' /\ OpsBounded'
    BY LifecycleCoreStep DEF RunningInv, LifecycleCore
  <2> QED BY <2>1, RegistryAssumption DEF RegistryInv, RegistryTypeOK, OpsBounded
<1> DEFINE Good == \/ attach'[o].pc = "done"
                   \/ entry'[ops'[o].member] = [kind |-> "Attaching", op |-> o]
<1>3. UNCHANGED attach => Good
  BY <1>1, <1>2
<1>4. ASSUME NEW m \in Members, StartMove(m) PROVE Good
  <2>1. /\ SetsEntry(m, [kind |-> "Attaching", op |-> NextOp])
        /\ ops'[NextOp].member = m /\ OpsKeep({NextOp})
    BY <1>1, <1>4, RegistryEffects DEF StartMove
  <2>2. o = NextOp
    BY <2>1 DEF OpsKeep
  <2> QED BY <2>1, <2>2 DEF SetsEntry
<1>5. ASSUME NEW q \in DOMAIN ops, AttachMove(q), AttachFrame(q) PROVE Good
  BY <1>1, <1>2, <1>5 DEF AttachFrame
<1>6. Good
  <2>1. IdleMove => UNCHANGED attach
    BY DEF IdleMove
  <2>2. \A m \in Members : EvictMove(m) => UNCHANGED attach
    BY DEF EvictMove
  <2>3. \A q \in Removers, m \in Members : BeginMove(q, m) => UNCHANGED attach
    BY DEF BeginMove
  <2>4. \A r \in Removers : RemoveFrame(r) => UNCHANGED attach
    BY DEF RemoveFrame
  <2> HIDE DEF Good
  <2> QED BY <1>1, <1>3, <1>4, <1>5, <2>1, <2>2, <2>3, <2>4 DEF RunningMove
<1> QED BY <1>1, <1>6

LEMMA StaleLostStep ==
  ASSUME "persist" \notin Faults, RunningInv, TasksAhead, StaleLost, [Next]_vars,
         published' = "A"
  PROVE  StaleLost'
<1>1. /\ RunningMove /\ published = "A" /\ ~stopped /\ RegistryInv
      /\ DOMAIN ops \subseteq DOMAIN ops'
      /\ \A o \in DOMAIN ops : ops'[o].member = ops[o].member
      /\ \A o \in DOMAIN ops : ops[o].member \in Members /\ o \in 1 .. MaxOps
      /\ \A r \in Removers : remove[r].member \in Members
      /\ \A o \in DOMAIN ops : attach'[o] = attach[o] \/ (AttachMove(o) /\ AttachFrame(o))
  BY RunningKeeps, RunningTasks DEF RunningInv, LifecycleCore
<1> DEFINE Lost(o) ==
      /\ attach'[o].pc \notin {"done", "committed"} =>
           \/ entry'[ops'[o].member] = [kind |-> "Attaching", op |-> o]
           \/ entry'[ops'[o].member].kind \in {"Removing", "Absent"}
      /\ attach'[o].pc \in {"unregister", "stale", "reaping"} =>
           entry'[ops'[o].member] # [kind |-> "Attaching", op |-> o]
(* Which moves leave a task to the operation it had.                       *)
<1>2. ASSUME NEW o \in DOMAIN ops, attach'[o] = attach[o],
             \/ entry'[ops[o].member] = entry[ops[o].member]
             \/ entry'[ops[o].member].kind \in {"Removing", "Absent"}
             \/ attach[o].pc \in {"done", "committed"}
      PROVE  Lost(o)
  BY <1>1, <1>2 DEF StaleLost, Owns
<1>3. ASSUME NEW o \in DOMAIN ops, AttachMove(o), AttachFrame(o)
      PROVE  Lost(o)
  <2>1. CASE SameRegistry
    <3>1. /\ attach[o].pc \notin {"done", "committed"} \/ attach'[o].pc = "done"
          /\ attach'[o].pc \in {"unregister", "stale", "reaping"} =>
               attach[o].pc \in {"unregister", "stale", "reaping"} \/ ~OwnsAttach(o)
      BY <1>1, <1>3 DEF AttachMove, Moves
    <3>2. OwnsAttach(o) <=> Owns(o, "Attaching")
      BY <1>1 DEF OwnsAttach
    <3> QED BY <1>1, <2>1, <3>1, <3>2 DEF StaleLost, Owns, SameRegistry
  <2>2. CASE ~SameRegistry
    BY <1>3, <2>2 DEF AttachMove, Moves
  <2> QED BY <2>1, <2>2
<1>4. ASSUME NEW o \in DOMAIN ops, attach'[o] = attach[o] PROVE Lost(o)
  <2> DEFINE m == ops[o].member
             Kept == \/ entry'[m] = entry[m]
                     \/ entry'[m].kind \in {"Removing", "Absent"}
                     \/ attach[o].pc \in {"done", "committed"}
  <2>1. /\ m \in Members
        /\ attach[o].pc \notin {"done", "committed"} =>
             \/ entry[m] = [kind |-> "Attaching", op |-> o]
             \/ entry[m].kind \in {"Removing", "Absent"}
    BY <1>1 DEF StaleLost, Owns
  <2>2. ASSUME SameRegistry PROVE Kept
    BY <2>2 DEF SameRegistry
  <2>3. ASSUME NEW n \in Members, StartMove(n) PROVE Kept
    <3>1. SetsEntry(n, [kind |-> "Attaching", op |-> NextOp]) /\ entry[n].kind # "Removing"
      BY <2>3, RunningEntries
    <3>2. CASE m = n
      <4>1. entry[m].kind \in {"Ready", "Failed"}
        BY <2>3, <3>2 DEF StartMove
      <4> QED BY <2>1, <4>1
    <3>3. CASE m # n
      BY <2>1, <3>1, <3>3 DEF SetsEntry
    <3> QED BY <3>2, <3>3
  <2>4. ASSUME NEW q \in DOMAIN ops, AttachMove(q), AttachFrame(q) PROVE Kept
    <3>1. CASE m = ops[q].member /\ ~SameRegistry
      <4>1. q # o
        BY <1>4, <2>4, <3>1 DEF AttachMove, Moves
      <4>2. entry[m] = [kind |-> "Attaching", op |-> q]
        <5>1. CommitReady(q) \/ CommitFailed(q)
          BY <2>4, <3>1, Zenon DEF AttachMove
        <5> QED BY <3>1, <5>1 DEF CommitReady, CommitFailed, Owns
      <4> QED BY <2>1, <4>1, <4>2
    <3>2. CASE m # ops[q].member
      <4>1. \/ SameRegistry
            \/ SetsEntry(ops[q].member, [kind |-> "Ready", op |-> NoOp])
            \/ SetsEntry(ops[q].member, [kind |-> "Failed", op |-> q])
        BY <2>4, RunningEntries
      <4> QED BY <2>1, <2>2, <3>2, <4>1 DEF SetsEntry
    <3> QED BY <2>2, <3>1, <3>2
  <2>5. ASSUME NEW q \in Removers, NEW n \in Members, BeginMove(q, n) PROVE Kept
    <3>1. SetsEntry(n, [kind |-> "Removing", op |-> NextOp]) \/ SameRegistry
      BY <2>5, RunningEntries
    <3> QED BY <2>1, <2>2, <3>1 DEF SetsEntry
  <2>6. ASSUME NEW r \in Removers, RemoveMove(r) PROVE Kept
    <3>1. SameRegistry \/ ~Steps(r, "persist", "idle")
      BY <2>6 DEF RemoveMove, Steps
    <3>2. SameRegistry \/ SetsEntry(remove[r].member, [kind |-> "Absent", op |-> NoOp])
      BY <2>6, <3>1, RunningEntries
    <3> QED BY <2>1, <2>2, <3>2 DEF SetsEntry
  <2>7. Kept
    <3>1. IdleMove => SameRegistry
      BY DEF IdleMove
    <3>2. \A n \in Members : EvictMove(n) => SameRegistry
      BY DEF EvictMove
    <3> HIDE DEF Kept
    <3> QED BY <1>1, <2>2, <2>3, <2>4, <2>5, <2>6, <3>1, <3>2 DEF RunningMove
  <2> QED BY <1>2, <1>4, <2>7
<1>5. ASSUME NEW o \in DOMAIN ops' \ DOMAIN ops PROVE Lost(o)
  BY NewOperations, <1>5
<1>6. \A o \in DOMAIN ops' : Lost(o)
  <2> HIDE DEF Lost
  <2> QED BY <1>1, <1>3, <1>4, <1>5
<1> QED BY <1>6 DEF StaleLost, Owns

(* How the entry of n may change.                                          *)
LEMMA RunningEntry ==
  ASSUME RunningInv, [Next]_vars, published' = "A", NEW n \in Members
  PROVE  \/ entry'[n] = entry[n]
         \/ entry'[n] = [kind |-> "Attaching", op |-> NextOp]
         \/ entry'[n].kind \in {"Removing", "Absent", "Failed"}
         \/ \E o \in DOMAIN ops : /\ AttachMove(o) /\ AttachFrame(o)
                                  /\ CommitReady(o) /\ ops[o].member = n
<1>1. /\ RunningMove /\ RegistryInv
      /\ \A o \in DOMAIN ops : ops[o].member \in Members
      /\ \A r \in Removers : remove[r].member \in Members
  BY RunningKeeps DEF RunningInv, LifecycleCore
<1> DEFINE Good == \/ entry'[n] = entry[n]
                   \/ entry'[n] = [kind |-> "Attaching", op |-> NextOp]
                   \/ entry'[n].kind \in {"Removing", "Absent", "Failed"}
                   \/ \E o \in DOMAIN ops : /\ AttachMove(o) /\ AttachFrame(o)
                                            /\ CommitReady(o) /\ ops[o].member = n
<1>2. ASSUME SameRegistry PROVE Good
  BY <1>2 DEF SameRegistry
<1>3. ASSUME NEW m \in Members, StartMove(m) PROVE Good
  <2>1. SetsEntry(m, [kind |-> "Attaching", op |-> NextOp])
    BY <1>3, RunningEntries
  <2> QED BY <2>1 DEF SetsEntry
<1>4. ASSUME NEW o \in DOMAIN ops, AttachMove(o), AttachFrame(o) PROVE Good
  <2>1. CASE CommitReady(o)
    <3>1. SetsEntry(ops[o].member, [kind |-> "Ready", op |-> NoOp])
      BY <1>1, <2>1, RegistryEffects
    <3>2. n # ops[o].member => entry'[n] = entry[n]
      BY <1>1, <3>1 DEF SetsEntry
    <3> QED BY <1>4, <2>1, <3>2
  <2>2. CASE CommitFailed(o)
    <3>1. SetsEntry(ops[o].member, [kind |-> "Failed", op |-> o])
      BY <1>1, <2>2, RegistryEffects
    <3> QED BY <1>1, <3>1 DEF SetsEntry
  <2>3. CommitReady(o) \/ CommitFailed(o) \/ SameRegistry
    BY <1>4, Zenon DEF AttachMove
  <2> HIDE DEF Good
  <2> QED BY <1>2, <2>1, <2>2, <2>3
<1>5. ASSUME NEW q \in Removers, NEW m \in Members, BeginMove(q, m) PROVE Good
  <2>1. SetsEntry(m, [kind |-> "Removing", op |-> NextOp]) \/ SameRegistry
    BY <1>5, RunningEntries
  <2>2. ASSUME SetsEntry(m, [kind |-> "Removing", op |-> NextOp]) PROVE Good
    BY <2>2 DEF SetsEntry
  <2> QED BY <1>2, <2>1, <2>2
<1>6. ASSUME NEW r \in Removers, RemoveMove(r) PROVE Good
  <2> DEFINE m == remove[r].member
  <2>1. \/ SameRegistry
        \/ SetsEntry(m, [kind |-> "Failed", op |-> remove[r].lease])
        \/ SetsEntry(m, [kind |-> "Absent", op |-> NoOp])
    BY <1>6, RunningEntries
  <2>2. ASSUME \/ SetsEntry(m, [kind |-> "Failed", op |-> remove[r].lease])
               \/ SetsEntry(m, [kind |-> "Absent", op |-> NoOp])
        PROVE  Good
    BY <1>1, <2>2 DEF SetsEntry
  <2> QED BY <1>2, <2>1, <2>2
<1>7. Good
  <2>1. IdleMove => SameRegistry
    BY DEF IdleMove
  <2>2. \A m \in Members : EvictMove(m) => SameRegistry
    BY DEF EvictMove
  <2> HIDE DEF Good
  <2> QED BY <1>1, <1>2, <1>3, <1>4, <1>5, <1>6, <2>1, <2>2 DEF RunningMove
<1> QED BY <1>7

(* A cell that was built stays so.                                         *)
LEMMA BuiltStays ==
  ASSUME RunningInv, BuildersApart, [Next]_vars, published' = "A",
         NEW i \in DOMAIN cells, cells[i].state = "built"
  PROVE  cells'[i].state = "built"
<1>1. ASSUME SameStates PROVE cells'[i].state = "built"
  BY <1>1 DEF SameStates
<1>2. ASSUME NEW q \in DOMAIN ops, BuildMove(q) PROVE cells'[i].state = "built"
  <2>1. attach[q].cell # i
    BY <1>2 DEF BuildMove, Moves, BuildersApart
  <2> QED BY <1>2, <2>1 DEF BuildMove, SetsState
<1> QED BY <1>1, <1>2, RunningCells DEF SameSlots, Frees, Gets

(* What serves a member that is ready or attached is left alone, but by    *)
(* the attach that owns it.                                                *)
Keeps(n) == /\ n \in loops => n \in loops'
            /\ n \notin lost' => n \notin lost /\ slot'[n] = slot[n]

LEMMA RunningMembers ==
  ASSUME RunningInv, StaleLost, [Next]_vars, published' = "A",
         NEW n \in Members, entry[n].kind \in {"Ready", "Attaching"}
  PROVE  \/ Keeps(n)
         \/ \E o \in DOMAIN ops : /\ AttachMove(o) /\ AttachFrame(o)
                                  /\ ops[o].member = n /\ Owns(o, "Attaching")
<1>1. /\ RunningMove /\ published = "A" /\ ~loopsStopped
      /\ \A o \in DOMAIN ops : ops[o].member \in Members
      /\ \A r \in Removers : remove[r].member \in Members /\ OwnRemoval(r)
  BY RunningKeeps DEF RunningInv, RemovalsOwn, SessionRuns
<1> DEFINE Good == \/ Keeps(n)
                   \/ \E o \in DOMAIN ops : /\ AttachMove(o) /\ AttachFrame(o)
                                            /\ ops[o].member = n /\ Owns(o, "Attaching")
<1>2. IdleMove => Keeps(n)
  BY DEF IdleMove, SameSlots, Keeps
<1>3. \A m \in Members : StartMove(m) => Keeps(n)
  BY DEF StartMove, SameSlots, Keeps
<1>4. \A m \in Members : EvictMove(m) => Keeps(n)
  BY DEF EvictMove, Frees, Keeps
<1>5. \A q \in Removers, m \in Members : BeginMove(q, m) => Keeps(n)
  BY DEF BeginMove, SameSlots, Keeps
<1>6. ASSUME NEW o \in DOMAIN ops, AttachMove(o), AttachFrame(o) PROVE Good
  <2>1. CASE ops[o].member # n
    <3>1. /\ n \in loops => n \in loops'
          /\ n \notin lost' => n \notin lost
      BY <1>6, <2>1 DEF AttachMove
    <3>2. slot'[n] = slot[n]
      BY <1>6, <2>1 DEF AttachMove, SameSlots, Frees, Gets, SetsState
    <3> QED BY <3>1, <3>2 DEF Keeps
  <2>2. CASE ops[o].member = n /\ attach[o].pc \in {"done", "committed"}
    <3>1. SameSlots /\ UNCHANGED <<lost, loops>>
      BY <1>6, <2>2 DEF AttachMove, Moves
    <3> QED BY <3>1 DEF Keeps, SameSlots
  <2>3. CASE ops[o].member = n /\ attach[o].pc \notin {"done", "committed"}
    <3>1. Owns(o, "Attaching")
      BY <2>3 DEF StaleLost
    <3> QED BY <1>6, <2>3, <3>1
  <2> QED BY <2>1, <2>2, <2>3
<1>7. ASSUME NEW r \in Removers, RemoveMove(r), RemoveFrame(r) PROVE Keeps(n)
  <2> DEFINE m == remove[r].member
  <2>1. UNCHANGED lost
    BY <1>7 DEF RemoveFrame
  <2>2. CASE m # n
    <3>1. SameSlots \/ Frees(m)
      BY <1>7, Zenon DEF RemoveMove
    <3>2. n \in loops => n \in loops'
      BY <1>7, <2>2 DEF RemoveMove
    <3> QED BY <2>1, <2>2, <3>1, <3>2 DEF Keeps, SameSlots, Frees
  <2>3. CASE m = n
    <3>1. OwnRemoval(r)
      BY <1>1
    <3>2. remove[r].pc \notin Holding /\ remove[r].pc \notin {"hook", "delete"}
      BY <2>3, <3>1 DEF OwnRemoval
    <3>3. SameSlots /\ UNCHANGED loops
      BY <1>7, <3>2 DEF RemoveMove, Steps, Holding
    <3> QED BY <2>1, <3>3 DEF Keeps, SameSlots
  <2> QED BY <2>2, <2>3
<1>8. Good
  <2> HIDE DEF Good
  <2>1. Keeps(n) => Good
    BY DEF Good
  <2> QED BY <1>1, <1>2, <1>3, <1>4, <1>5, <1>6, <1>7, <2>1 DEF RunningMove
<1> QED BY <1>8

LEMMA OwnersServeStep ==
  ASSUME RunningInv, TasksAhead, StaleLost, SlotsKnown, BuildersApart, OwnersServe,
         [Next]_vars, published' = "A"
  PROVE  OwnersServe'
<1>1. /\ \A o \in DOMAIN ops : attach'[o] = attach[o] \/ (AttachMove(o) /\ AttachFrame(o))
      /\ \A o \in DOMAIN ops' \ DOMAIN ops : attach'[o].pc \in {"spawned", "done"}
      /\ \A o \in DOMAIN ops : ops'[o].member = ops[o].member
      /\ \A o \in DOMAIN ops : ops[o].member \in Members
      /\ SlotsKnown' /\ NextOp \notin DOMAIN ops /\ published = "A" /\ ~stopped /\ ~loopsStopped
  BY RunningTasks, SlotsKnownStep, RunningKeeps
     DEF RunningInv, LifecycleCore, RegistryInv, RegistryTypeOK, NextOp, SessionRuns
<1> DEFINE BuiltNow(i) == i # NoCell /\ cells'[i].state = "built"
           Served(o, n) ==
             /\ attach'[o].pc = "registered" => n \in loops'
             /\ n \notin lost' =>
                  /\ attach'[o].pc \in {"init", "building"} => attach'[o].cell = slot'[n]
                  /\ attach'[o].pc \in {"built", "owned", "registered"} => BuiltNow(slot'[n])
<1>2. \A m \in Members : Built(slot[m]) => BuiltNow(slot[m])
  BY BuiltStays DEF Built, SlotsKnown
<1>3. ASSUME NEW o \in DOMAIN ops,
             entry'[ops[o].member] = [kind |-> "Attaching", op |-> o]
      PROVE  Served(o, ops[o].member)
  <2> DEFINE n == ops[o].member
  <2>1. n \in Members /\ Owns(o, "Attaching") /\ Serves(o) /\ OwnsAttach(o)
    <3>1. n \in Members
      BY <1>1
    <3>2. ASSUME NEW k \in DOMAIN ops, CommitReady(k), ops[k].member = n PROVE FALSE
      <4>1. n \in Members /\ RegistryInv
        BY <1>1 DEF RunningInv, LifecycleCore
      <4>2. entry'[n].kind = "Ready"
        BY <3>2, <4>1, RegistryEffects DEF SetsEntry
      <4> QED BY <1>3, <4>2
    <3>3. entry'[n] = entry[n]
      BY <1>1, <1>3, <3>1, <3>2, RunningEntry
    <3> QED BY <1>1, <1>3, <3>1, <3>3 DEF Owns, OwnsAttach, OwnersServe
  <2>2. CASE AttachMove(o)
    <3>1. attach'[o].pc = "registered" => n \in loops'
      BY <1>1, <2>2 DEF AttachMove, Moves
    <3>2. ASSUME attach'[o].pc = "init" PROVE attach'[o].cell = slot'[n]
      BY <2>2, <3>2 DEF AttachMove, Moves
    <3>3. ASSUME attach'[o].pc = "building", n \notin lost' PROVE attach'[o].cell = slot'[n]
      <4>1. /\ attach[o].pc = "init" /\ attach'[o].cell = attach[o].cell
            /\ slot' = slot /\ lost' = lost
        BY <2>2, <3>3 DEF AttachMove, Moves, SetsState
      <4> QED BY <2>1, <3>3, <4>1 DEF Serves
    <3>4. ASSUME attach'[o].pc = "built", n \notin lost' PROVE BuiltNow(slot'[n])
      <4>1. CASE attach[o].pc = "warming"
        BY <1>2, <2>1, <2>2, <3>4, <4>1 DEF AttachMove, Moves, SameSlots
      <4>2. CASE attach[o].pc = "init"
        <5>1. Built(attach[o].cell) /\ slot' = slot /\ lost' = lost
          BY <2>2, <3>4, <4>2 DEF AttachMove, Moves, SameSlots
        <5>2. attach[o].cell = slot[n]
          BY <2>1, <3>4, <4>2, <5>1 DEF Serves
        <5> QED BY <1>2, <2>1, <5>1, <5>2
      <4>3. CASE attach[o].pc = "building"
        <5>1. SetsState(attach[o].cell, "built") /\ lost' = lost
          BY <2>2, <3>4, <4>3 DEF AttachMove, Moves
        <5>2. attach[o].cell = slot[n] /\ attach[o].cell \in DOMAIN cells /\ attach[o].cell # NoCell
          BY <2>1, <3>4, <4>3, <5>1 DEF Serves, BuildersApart
        <5> QED BY <5>1, <5>2 DEF SetsState
      <4> QED BY <2>2, <3>4, <4>1, <4>2, <4>3 DEF AttachMove, Moves
    <3>5. ASSUME attach'[o].pc \in {"owned", "registered"}, n \notin lost'
          PROVE  BuiltNow(slot'[n])
      <4>1. attach[o].pc \in {"built", "owned"} /\ slot' = slot /\ lost' = lost
        BY <2>2, <3>5 DEF AttachMove, Moves, SameSlots
      <4> QED BY <1>2, <2>1, <3>5, <4>1 DEF Serves
    <3> HIDE DEF BuiltNow
    <3> QED BY <3>1, <3>2, <3>3, <3>4, <3>5
  <2>3. CASE attach'[o] = attach[o] /\ Keeps(n)
    <3> HIDE DEF BuiltNow
    <3> QED BY <1>2, <2>1, <2>3 DEF Keeps, Serves
  <2>4. Keeps(n) \/ AttachMove(o)
    <3>1. entry[n] = [kind |-> "Attaching", op |-> o]
      BY <2>1 DEF Owns
    <3>2. \/ Keeps(n)
          \/ \E k \in DOMAIN ops : AttachMove(k) /\ ops[k].member = n /\ Owns(k, "Attaching")
      BY <2>1, <3>1, RunningMembers
    <3>3. \A k \in DOMAIN ops : ops[k].member = n /\ Owns(k, "Attaching") => k = o
      BY <3>1 DEF Owns
    <3> QED BY <3>2, <3>3
  <2> HIDE DEF Served
  <2> QED BY <1>1, <2>2, <2>3, <2>4
<1>4. ASSUME NEW o \in DOMAIN ops', entry'[ops'[o].member] = [kind |-> "Attaching", op |-> o]
      PROVE  Served(o, ops'[o].member)
  <2>1. CASE o \in DOMAIN ops
    <3> HIDE DEF Served
    <3> QED BY <1>1, <1>3, <1>4, <2>1
  <2>2. CASE o \notin DOMAIN ops
    BY <1>1, <2>2
  <2> QED BY <2>1, <2>2
<1> QED BY <1>4 DEF OwnersServe, Owns, Serves, Built

LEMMA ReadyServedStep ==
  ASSUME RunningInv, StaleLost, SlotsKnown, BuildersApart, OwnersServe, ReadyServed,
         [Next]_vars, published' = "A"
  PROVE  ReadyServed'
<1> DEFINE BuiltNow(i) == i # NoCell /\ cells'[i].state = "built"
<1>1. \A m \in Members : Built(slot[m]) => BuiltNow(slot[m])
  BY BuiltStays DEF Built, SlotsKnown
<1>2. ASSUME NEW n \in Members, entry'[n].kind = "Ready"
      PROVE  n \in loops' /\ (n \notin lost' => BuiltNow(slot'[n]))
  <2>1. CASE entry'[n] = entry[n]
    <3>1. n \in loops /\ (n \notin lost => Built(slot[n]))
      BY <1>2, <2>1 DEF ReadyServed
    <3>2. Keeps(n)
      <4>1. \A o \in DOMAIN ops : ops[o].member = n => ~Owns(o, "Attaching")
        BY <1>2, <2>1 DEF Owns
      <4> QED BY <1>2, <2>1, <4>1, RunningMembers
    <3> HIDE DEF BuiltNow
    <3> QED BY <1>1, <3>1, <3>2 DEF Keeps
  <2>2. ASSUME NEW o \in DOMAIN ops, AttachMove(o), CommitReady(o), ops[o].member = n
        PROVE  n \in loops' /\ (n \notin lost' => BuiltNow(slot'[n]))
    <3>1. Owns(o, "Attaching") /\ Serves(o)
      BY <2>2 DEF CommitReady, OwnersServe
    <3>2. ~SameRegistry
      BY <1>2, <2>2, <3>1 DEF SameRegistry, Owns
    <3>3. ASSUME CommitFailed(o) PROVE FALSE
      <4>1. RegistryInv
        BY DEF RunningInv, LifecycleCore
      <4>2. entry'[n] = [kind |-> "Failed", op |-> o]
        BY <2>2, <3>3, <4>1, RegistryEffects DEF SetsEntry
      <4> QED BY <1>2, <4>2
    <3>4. attach[o].pc = "registered" /\ slot' = slot /\ UNCHANGED <<lost, loops>>
      BY <2>2, <3>2, <3>3 DEF AttachMove, Moves, SameSlots
    <3> HIDE DEF BuiltNow
    <3> QED BY <1>1, <2>2, <3>1, <3>4 DEF Serves
  <2> HIDE DEF BuiltNow
  <2> QED BY <1>2, <2>1, <2>2, RunningEntry
<1> QED BY <1>2 DEF ReadyServed, Built

LEMMA ServeInvStep ==
  ASSUME "persist" \notin Faults, ServeInv, [Next]_vars
  PROVE  ServeInv'
<1>1. RunningInv'
  BY RunningInvStep DEF ServeInv
<1>2. CASE published' = "A"
  <2>1. /\ RunningInv /\ TasksAhead /\ StaleLost /\ SlotsKnown
        /\ BuildersApart /\ OwnersServe /\ ReadyServed
    BY <1>2, RunningKeeps DEF ServeInv
  <2>2. TasksAhead' /\ SlotsKnown'
    BY <1>2, <2>1, RunningTasks, SlotsKnownStep
  <2>3. StaleLost' /\ BuildersApart'
    BY <1>2, <2>1, StaleLostStep, BuildersApartStep
  <2>4. OwnersServe' /\ ReadyServed'
    BY <1>2, <2>1, OwnersServeStep, ReadyServedStep
  <2> QED BY <1>1, <2>2, <2>3, <2>4 DEF ServeInv
<1>3. CASE published' # "A"
  BY <1>1, <1>3 DEF ServeInv
<1> QED BY <1>2, <1>3

LEMMA ServeInit == Init => ServeInv
<1> SUFFICES ASSUME Init PROVE ServeInv
  OBVIOUS
<1>1. /\ \A o \in 1 .. MaxOps : attach[o].pc = "done"
      /\ ops = <<>> /\ loops = Initial /\ Initial \subseteq Members
      /\ entry = [m \in Members |->
                    [kind |-> IF m \in Initial THEN "Ready" ELSE "Absent", op |-> NoOp]]
  BY LifecycleAssumption DEF Init, NoAttach
<1>2. PICK order \in [1 .. Cardinality(Initial) -> Initial] :
        /\ \A m \in Initial : \E i \in DOMAIN order : order[i] = m
        /\ cells = [i \in DOMAIN order |-> [member |-> order[i], state |-> "built",
                                            dead |-> FALSE, by |-> "A"]]
        /\ slot = [m \in Members |-> IF m \in Initial
                     THEN CHOOSE i \in DOMAIN order : order[i] = m ELSE NoCell]
  BY DEF Init
<1>3. Cardinality(Initial) \in Nat
  BY LifecycleAssumption, FS_CardinalityType
<1>4. \A m \in Initial : slot[m] \in DOMAIN order /\ slot[m] # NoCell
  <2> SUFFICES ASSUME NEW m \in Initial
               PROVE  slot[m] \in DOMAIN order /\ slot[m] # NoCell
    OBVIOUS
  <2>1. \E i \in DOMAIN order : order[i] = m
    BY <1>2
  <2>2. slot[m] = CHOOSE i \in DOMAIN order : order[i] = m
    BY <1>1, <1>2
  <2>3. slot[m] \in DOMAIN order
    BY <2>1, <2>2
  <2>4. DOMAIN order = 1 .. Cardinality(Initial)
    BY <1>2
  <2>5. NoCell \notin DOMAIN order
    BY <1>3, <2>4 DEF NoCell
  <2> QED BY <2>3, <2>5
<1>5. \A m \in Members \ Initial : slot[m] = NoCell
  BY <1>2
<1>6. \A m \in Initial : Built(slot[m])
  BY <1>2, <1>4 DEF Built
<1>7. SlotsKnown
  BY <1>2, <1>4, <1>5 DEF SlotsKnown
<1>8. TasksAhead
  BY <1>1 DEF TasksAhead
<1>9. StaleLost /\ BuildersApart /\ OwnersServe
  BY <1>1 DEF StaleLost, BuildersApart, OwnersServe
<1>10. ReadyServed
  BY <1>1, <1>6 DEF ReadyServed
<1> QED BY RunningInit, <1>7, <1>8, <1>9, <1>10 DEF ServeInv

(* A member the registry calls ready is served, at every moment of a       *)
(* session's life, whatever attaches, evictions and removals came before   *)
(* and whoever is at work: as long as a team that cannot be saved is not   *)
(* among the faults.                                                       *)
THEOREM ReadyCorrect ==
  ASSUME "persist" \notin Faults
  PROVE  Spec => []ReadyIsServed
<1>1. Init => ServeInv
  BY ServeInit
<1>2. ServeInv /\ [Next]_vars => ServeInv'
  BY ServeInvStep
<1>3. ServeInv => ReadyIsServed
  BY DEF ServeInv, ReadyServed, ReadyIsServed
<1> QED BY <1>1, <1>2, <1>3, PTL DEF Spec
==============================================================================
