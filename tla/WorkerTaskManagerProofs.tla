----------------------- MODULE WorkerTaskManagerProofs -----------------------
(***************************************************************************)
(* Proofs about WorkerTaskManager, for any number of conversations, of     *)
(* tasks that call the manager and of calls they make: the types, that the *)
(* map never offers an agent that was killed, and which agents can leak.   *)
(***************************************************************************)
EXTENDS WorkerTaskManager, TLAPS

(* A call that goes on with a cell has one, one that inserts a token has   *)
(* generated it, and only a kill_and_wait, or a scan, waits for cells and  *)
(* does nothing else before it has waited.                                 *)
Equipped(q) ==
  /\ q.pc \in {"init", "build", "dispose"} => q.cell # NoCell
  /\ q.pc \in {"purge", "insert"} => q.token # NoToken
  /\ q.waits # {} => /\ q.op \in {"kill_and_wait", "scan"}
                     /\ q.pc \in {"remove", "dispose"}
  /\ q.pc \in {"check", "slot", "init", "build", "find", "purge", "insert"}
       => q.op = "get"

CallInv == \A p \in Callers : Equipped(call[p]) /\ call[p].token <= issued

(* A cell that is about to be killed is no longer in the map.              *)
UnmappedInv ==
  \A i \in DOMAIN cells : BeingKilled(i) => \A c \in Conversations : tasks[c] # i

(* Also a cell that is empty or being built can be found, or is about to   *)
(* be killed, or was abandoned.                                            *)
Accounted(i) == tasks[cells[i].conv] = i \/ BeingKilled(i) \/ i \in abandoned
AccountInv == \A i \in DOMAIN cells : cells[i].agent = "dead" \/ Accounted(i)

------------------------------------------------------------------------------
(* Calls and cells.                                                        *)

LEMMA CellsTyped ==
  ASSUME TypeOK
  PROVE  /\ Len(cells) \in Nat /\ DOMAIN cells = 1 .. Len(cells)
         /\ \A i \in DOMAIN cells : cells[i] \in Cell
  BY DEF TypeOK

LEMMA NoCallTyped ==
  /\ NoCall \in Call /\ Equipped(NoCall) /\ NoCall.token = 0 /\ NoCall.cell = 0
  /\ NoCall.waits = {} /\ NoCall.pc = "idle" /\ NoCall.op = "get"
  <1>1. (CHOOSE c \in Conversations : TRUE) \in Conversations
    BY ManagerAssumption
  <1>. QED  BY <1>1 DEF NoCall, Call, Equipped, Removal, Pc, NoToken, NoCell

(* One cell is given a new value.                                          *)
LEMMA CellPut ==
  ASSUME TypeOK, NEW i \in DOMAIN cells, NEW v \in Cell, cells' = [cells EXCEPT ![i] = v]
  PROVE  /\ cells' \in Seq(Cell) /\ Len(cells') = Len(cells)
         /\ DOMAIN cells' = DOMAIN cells /\ cells'[i] = v
         /\ \A j \in DOMAIN cells \ {i} : cells'[j] = cells[j]
  BY DEF TypeOK

(* What a step leaves of the types when it gives call p the value q: the   *)
(* cells only grow in number, and so do the tokens issued.                 *)
Grows == /\ cells' \in Seq(Cell) /\ Len(cells') >= Len(cells)
         /\ issued' \in Nat /\ issued' >= issued
Fits(q) == /\ q.cell <= Len(cells') /\ q.waits \subseteq DOMAIN cells'
           /\ q.token <= issued'

CallsTyped ==
  /\ call' \in [Callers -> Call] /\ CallInv'
  /\ \A p \in Callers : call'[p].cell <= Len(cells') /\ call'[p].waits \subseteq DOMAIN cells'

LEMMA CallPut ==
  ASSUME TypeOK, CallInv, Grows, NEW p \in Callers, NEW q \in Call, Equipped(q), Fits(q),
         call' = [call EXCEPT ![p] = q]
  PROVE  CallsTyped
  <1>1. DOMAIN cells \subseteq DOMAIN cells'
    BY DEF TypeOK, Grows
  <1>2. call' \in [Callers -> Call] /\ call \in [Callers -> Call]
    BY DEF TypeOK
  <1>3. ASSUME NEW r \in Callers
        PROVE  Equipped(call'[r]) /\ Fits(call'[r])
    <2>1. CASE r = p
      BY <1>2, <2>1
    <2>2. CASE r # p
      <3>1. call'[r] = call[r] /\ call[r] \in Call /\ Equipped(call[r])
        BY <1>2, <2>2 DEF CallInv
      <3>2. call[r].cell \in Nat /\ call[r].token \in Nat
        BY <3>1 DEF Call
      <3>3. call[r].cell <= Len(cells) /\ call[r].waits \subseteq DOMAIN cells
            /\ call[r].token <= issued
        BY DEF TypeOK, CallInv
      <3>4. Len(cells) \in Nat /\ Len(cells') \in Nat /\ issued \in Nat
        BY DEF TypeOK, Grows
      <3>. QED  BY <1>1, <3>1, <3>2, <3>3, <3>4 DEF Fits, Grows
    <2>. QED  BY <2>1, <2>2
  <1>. QED  BY <1>2, <1>3 DEF CallsTyped, CallInv, Fits, Equipped

LEMMA SameCells ==
  ASSUME TypeOK, cells' = cells, issued' = issued
  PROVE  Grows
  BY DEF TypeOK, Grows

LEMMA CallFits ==
  ASSUME TypeOK, CallInv, Grows, NEW p \in Callers
  PROVE  /\ call[p] \in Call /\ Equipped(call[p]) /\ Fits(call[p]) /\ Fits(NoCall)
         /\ call[p].cell \in 0 .. Len(cells) /\ call[p].token \in 0 .. issued
         /\ call[p].cell # NoCell => call[p].cell \in DOMAIN cells
  <1>1. call[p] \in Call /\ Equipped(call[p])
    BY DEF TypeOK, CallInv
  <1>2. call[p].cell \in Nat /\ call[p].token \in Nat
    BY <1>1 DEF Call
  <1>3. call[p].cell <= Len(cells) /\ call[p].waits \subseteq DOMAIN cells
        /\ call[p].token <= issued
    BY DEF TypeOK, CallInv
  <1>4. Len(cells) \in Nat /\ Len(cells') \in Nat /\ issued \in Nat /\ issued' \in Nat
        /\ DOMAIN cells = 1 .. Len(cells) /\ DOMAIN cells \subseteq DOMAIN cells'
    BY DEF TypeOK, Grows
  <1>. QED  BY <1>1, <1>2, <1>3, <1>4, NoCallTyped DEF Fits, Grows, NoCell

(* A call goes on to another step.                                         *)
LEMMA ContinueTyped ==
  ASSUME TypeOK, CallInv, Grows, NEW p \in Callers, NEW a \in Pc,
         Equipped([call[p] EXCEPT !.pc = a]), Continue(p, a)
  PROVE  CallsTyped
  <1>. DEFINE q == [call[p] EXCEPT !.pc = a]
  <1>1. call[p] \in Call /\ Fits(call[p])
    BY CallFits
  <1>2. q \in Call /\ Fits(q)
    BY <1>1 DEF Call, Fits
  <1>3. call' = [call EXCEPT ![p] = q]
    BY DEF Continue
  <1>. HIDE DEF q
  <1>. QED  BY <1>2, <1>3, CallPut DEF q

LEMMA ReturnTyped ==
  ASSUME TypeOK, CallInv, Grows, NEW p \in Callers, Return(p)
  PROVE  CallsTyped
  BY CallPut, CallFits, NoCallTyped DEF Return

LEMMA PcTyped ==
  /\ {"idle", "find", "purge", "insert", "check", "slot", "init", "build", "remove",
      "dispose"} = Pc
  /\ \A p \in Callers : AfterKill(p) \in {"remove", "find", "slot"}
  /\ \A p \in Callers : AfterKill(p) # "remove" => call[p].op = "get"
  <1>1. {"idle", "find", "purge", "insert", "check", "slot", "init", "build", "remove",
         "dispose"} = Pc
    BY DEF Pc
  <1>2. ASSUME NEW p \in Callers
        PROVE  /\ AfterKill(p) \in {"remove", "find", "slot"}
               /\ AfterKill(p) # "remove" => call[p].op = "get"
    <2>1. CASE call[p].op # "get"
      BY <2>1 DEF AfterKill
    <2>2. CASE call[p].op = "get" /\ call[p].conv \in Teams
      BY <2>2 DEF AfterKill
    <2>3. CASE call[p].op = "get" /\ call[p].conv \notin Teams
      BY <2>3 DEF AfterKill
    <2>. QED  BY <2>1, <2>2, <2>3
  <1>. QED  BY <1>1, <1>2

------------------------------------------------------------------------------
(* The types.                                                              *)

LEMMA BeginTyped ==
  ASSUME TypeOK, CallInv, NEW p \in Callers, NEW q \in Call, Equipped(q),
         q.cell = 0, q.waits = {}, q.token = 0, Begin(p, q)
  PROVE  TypeOK' /\ CallInv'
  <1>1. Grows
    BY SameCells DEF Begin, tokenVars
  <1>2. CallsTyped
    <2>1. Fits(q)
      BY <1>1 DEF Fits, Grows
    <2>2. call' = [call EXCEPT ![p] = q]
      BY DEF Begin
    <2>. QED  BY <1>1, <2>1, <2>2, CallPut
  <1>3. made' \in 0 .. MaxCalls
    BY ManagerAssumption DEF Begin, TypeOK
  <1>. QED  BY <1>2, <1>3 DEF Begin, TypeOK, tokenVars, CallsTyped

LEMMA BeginsTyped ==
  ASSUME TypeOK, CallInv, NEW p \in Callers,
         BeginGet(p) \/ BeginKill(p) \/ BeginClear(p) \/ BeginScan(p)
  PROVE  TypeOK' /\ CallInv'
  <1>1. CASE BeginGet(p)
    <2>1. PICK c \in Conversations, v \in Versions :
            Begin(p, [NoCall EXCEPT !.conv = c, !.version = v,
                                    !.pc = IF c \in Teams THEN "find" ELSE "check"])
      BY <1>1 DEF BeginGet
    <2>. DEFINE a == IF c \in Teams THEN "find" ELSE "check"
                q == [NoCall EXCEPT !.conv = c, !.version = v, !.pc = a]
    <2>2. a \in Pc /\ a \in {"find", "check"} /\ v \in Nat
      BY ManagerAssumption DEF Pc
    <2>. HIDE DEF a
    <2>3. q \in Call
      BY <2>2, NoCallTyped DEF Call
    <2>4. /\ q.pc = a /\ q.cell = 0 /\ q.waits = {} /\ q.token = 0 /\ q.op = "get"
      BY NoCallTyped DEF Call
    <2>5. Equipped(q)
      BY <2>2, <2>4 DEF Equipped
    <2>6. Begin(p, q)
      BY <2>1 DEF a
    <2>. HIDE DEF q
    <2>. QED  BY <2>3, <2>4, <2>5, <2>6, BeginTyped
  <1>2. ASSUME NEW o \in Removal, NEW k \in SUBSET Conversations,
               Begin(p, [NoCall EXCEPT !.op = o, !.pc = "remove", !.keys = k])
        PROVE  TypeOK' /\ CallInv'
    <2>. DEFINE q == [NoCall EXCEPT !.op = o, !.pc = "remove", !.keys = k]
    <2>1. "remove" \in Pc
      BY DEF Pc
    <2>2. q \in Call
      BY <2>1, NoCallTyped DEF Call
    <2>3. q.pc = "remove" /\ q.cell = 0 /\ q.waits = {} /\ q.token = 0
      BY NoCallTyped DEF Call
    <2>4. Equipped(q)
      BY <2>3 DEF Equipped
    <2>. QED  BY <1>2, <2>2, <2>3, <2>4, BeginTyped
  <1>3. Removal = {"kill", "kill_and_wait", "clear", "scan"}
    BY DEF Removal
  <1>4. CASE BeginKill(p)
    <2>1. PICK c \in Conversations, o \in Removal :
            Begin(p, [NoCall EXCEPT !.op = o, !.pc = "remove", !.keys = {c}])
      BY <1>3, <1>4 DEF BeginKill
    <2>2. {c} \in SUBSET Conversations
      OBVIOUS
    <2>. QED  BY <1>2, <2>1, <2>2
  <1>5. CASE BeginClear(p)
    BY <1>2, <1>3, <1>5 DEF BeginClear
  <1>6. CASE BeginScan(p)
    <2>1. \A leased : CollectIdle(leased) \in SUBSET Conversations
      BY DEF CollectIdle
    <2>. QED  BY <1>2, <1>3, <1>6, <2>1 DEF BeginScan
  <1>. QED  BY <1>1, <1>4, <1>5, <1>6


(* The variables other than the calls.                                     *)
RestTyped ==
  /\ tokens \in [Conversations -> SUBSET (1 .. issued)]
  /\ tasks \in [Conversations -> 0 .. Len(cells)]
  /\ abandoned \subseteq DOMAIN cells /\ made \in 0 .. MaxCalls

LEMMA Assembled ==
  ASSUME CallsTyped, Grows, RestTyped'
  PROVE  TypeOK' /\ CallInv'
  BY DEF CallsTyped, Grows, RestTyped, TypeOK

LEMMA RestKept ==
  ASSUME TypeOK, Grows, UNCHANGED <<tokens, tasks, abandoned, made>>
  PROVE  RestTyped'
  <1>1. 1 .. issued \subseteq 1 .. issued' /\ 0 .. Len(cells) \subseteq 0 .. Len(cells')
        /\ DOMAIN cells \subseteq DOMAIN cells'
    BY DEF TypeOK, Grows
  <1>2. tokens \in [Conversations -> SUBSET (1 .. issued')]
    BY <1>1 DEF TypeOK
  <1>3. tasks \in [Conversations -> 0 .. Len(cells')]
    BY <1>1 DEF TypeOK
  <1>4. abandoned \subseteq DOMAIN cells' /\ made \in 0 .. MaxCalls
    BY <1>1 DEF TypeOK
  <1>. QED  BY <1>2, <1>3, <1>4 DEF RestTyped

(* issue: a token that was found or generated was issued.                  *)
LEMMA FindTokenTyped ==
  ASSUME TypeOK, CallInv, NEW p \in Callers, FindToken(p)
  PROVE  TypeOK' /\ CallInv'
  <1>1. Grows
    <2>1. issued' = issued \/ issued' = issued + 1
      BY DEF FindToken, GeneratedToken
    <2>2. cells' = cells
      BY DEF FindToken
    <2>. QED  BY <2>1, <2>2 DEF Grows, TypeOK
  <1>2. call[p] \in Call /\ Equipped(call[p]) /\ Fits(call[p])
    BY <1>1, CallFits
  <1>3. ASSUME NEW k \in 1 .. issued', NEW a \in Pc \ {"init", "build", "dispose"},
               a \in {"check", "slot", "purge"},
               call' = [call EXCEPT ![p].token = k, ![p].pc = a]
        PROVE  CallsTyped
    <2>. DEFINE q == [call[p] EXCEPT !.token = k, !.pc = a]
    <2>1. k \in Nat /\ k <= issued' /\ k # NoToken
      BY <1>1 DEF Grows, NoToken
    <2>2. q \in Call
      BY <1>2, <2>1 DEF Call
    <2>3. /\ q.pc = a /\ q.token = k /\ q.cell = call[p].cell /\ q.op = call[p].op
          /\ q.waits = call[p].waits
      BY <1>2 DEF Call
    <2>4. call[p].pc = "find"
      BY DEF FindToken
    <2>5. Equipped(q)
      BY <1>2, <1>3, <2>1, <2>3, <2>4 DEF Equipped
    <2>6. Fits(q)
      BY <1>2, <2>1, <2>3 DEF Fits
    <2>7. call' = [call EXCEPT ![p] = q]
      BY <1>3
    <2>. HIDE DEF q
    <2>. QED  BY <1>1, <2>2, <2>5, <2>6, <2>7, CallPut
  <1>4. CallsTyped
    <2>1. CASE /\ issued' = GeneratedToken
               /\ call' = [call EXCEPT ![p].token = GeneratedToken, ![p].pc = "purge"]
      <3>1. GeneratedToken \in 1 .. issued'
        BY <2>1 DEF GeneratedToken, TypeOK
      <3>. QED  BY <1>3, <2>1, <3>1, PcTyped
    <2>2. ASSUME NEW k \in ExistingToken(call[p].conv),
                 call' = [call EXCEPT ![p].token = k, ![p].pc = call[p].back],
                 issued' = issued
          PROVE  CallsTyped
      <3>1. k \in 1 .. issued'
        BY <1>2, <2>2 DEF ExistingToken, TypeOK, Call
      <3>2. call[p].back \in {"check", "slot"}
        BY <1>2 DEF Call
      <3>3. call[p].back \in Pc \ {"init", "build", "dispose"}
        BY <3>2, PcTyped
      <3>. QED  BY <1>3, <2>2, <3>1, <3>2, <3>3
    <2>. QED  BY <2>1, <2>2 DEF FindToken
  <1>. QED  BY <1>1, <1>4, RestKept, Assembled DEF FindToken

LEMMA PurgeTokensTyped ==
  ASSUME TypeOK, CallInv, NEW p \in Callers, PurgeTokens(p)
  PROVE  TypeOK' /\ CallInv'
  <1>1. Grows
    BY SameCells DEF PurgeTokens, InvalidateConversation
  <1>2. call[p] \in Call /\ Equipped(call[p]) /\ call[p].pc = "purge"
    BY <1>1, CallFits DEF PurgeTokens
  <1>3. Equipped([call[p] EXCEPT !.pc = "insert"])
    BY <1>2 DEF Equipped, Call
  <1>4. CallsTyped
    BY <1>1, <1>3, ContinueTyped, PcTyped DEF PurgeTokens
  <1>5. RestTyped'
    BY DEF PurgeTokens, InvalidateConversation, TypeOK, RestTyped
  <1>. QED  BY <1>1, <1>4, <1>5, Assembled

LEMMA InsertIssuedTyped ==
  ASSUME TypeOK, CallInv, NEW p \in Callers, InsertIssued(p)
  PROVE  TypeOK' /\ CallInv'
  <1>1. Grows
    BY SameCells DEF InsertIssued, InsertToken
  <1>2. call[p] \in Call /\ Equipped(call[p]) /\ call[p].pc = "insert"
        /\ call[p].token \in 0 .. issued
    BY <1>1, CallFits DEF InsertIssued
  <1>3. call[p].back \in Pc /\ Equipped([call[p] EXCEPT !.pc = call[p].back])
    <2>1. call[p].back \in {"check", "slot"}
      BY <1>2 DEF Call
    <2>2. call[p].back \in Pc
      BY <2>1, PcTyped
    <2>. QED  BY <1>2, <2>1, <2>2 DEF Equipped, Call
  <1>4. CallsTyped
    BY <1>1, <1>3, ContinueTyped DEF InsertIssued
  <1>5. RestTyped'
    <2>1. call[p].token \in 1 .. issued
      BY <1>2 DEF Equipped, NoToken, TypeOK
    <2>2. tokens' \in [Conversations -> SUBSET (1 .. issued)] /\ issued' = issued
      BY <2>1 DEF InsertIssued, InsertToken, TypeOK
    <2>. QED  BY <2>2 DEF InsertIssued, RestTyped, TypeOK
  <1>. QED  BY <1>1, <1>4, <1>5, Assembled

LEMMA CheckTyped ==
  ASSUME TypeOK, CallInv, NEW p \in Callers, CheckCapabilities(p)
  PROVE  TypeOK' /\ CallInv'
  <1>. DEFINE out == Built(tasks[call[p].conv])
                       /\ ~Satisfies(cells[tasks[call[p].conv]].version, call[p].version)
              a == IF out THEN "remove" ELSE "slot"
              k == IF out THEN {call[p].conv} ELSE {}
              b == IF out THEN "slot" ELSE call[p].back
              q == [call[p] EXCEPT !.pc = a, !.keys = k, !.back = b]
  <1>1. Grows
    BY SameCells DEF CheckCapabilities, tokenVars
  <1>2. call[p] \in Call /\ Equipped(call[p]) /\ Fits(call[p]) /\ call[p].pc = "check"
    BY <1>1, CallFits DEF CheckCapabilities
  <1>3. a \in Pc /\ a \in {"remove", "slot"} /\ k \in SUBSET Conversations
        /\ b \in {"check", "slot"}
    <2>1. call[p].conv \in Conversations /\ call[p].back \in {"check", "slot"}
      BY <1>2 DEF Call
    <2>. HIDE DEF out
    <2>. QED  BY <2>1, PcTyped
  <1>4. call' = [call EXCEPT ![p] = q]
    BY DEF CheckCapabilities
  <1>. HIDE DEF a, k, b
  <1>5. q \in Call
    BY <1>2, <1>3 DEF Call
  <1>6. /\ q.pc = a /\ q.cell = call[p].cell /\ q.op = call[p].op
        /\ q.waits = call[p].waits /\ q.token = call[p].token
    BY <1>2 DEF Call
  <1>7. Equipped(q) /\ Fits(q)
    BY <1>2, <1>3, <1>6 DEF Equipped, Fits
  <1>. HIDE DEF q
  <1>8. CallsTyped
    BY <1>1, <1>4, <1>5, <1>7, CallPut
  <1>. QED  BY <1>1, <1>8, RestKept, Assembled DEF CheckCapabilities, tokenVars

LEMMA EmptyCell ==
  ASSUME NEW c \in Conversations
  PROVE  [conv |-> c, state |-> "empty", version |-> 0, token |-> NoToken,
          agent |-> "fresh"] \in Cell
  BY DEF Cell, CellState, Agent, NoToken

LEMMA ObtainSlotTyped ==
  ASSUME TypeOK, CallInv, NEW p \in Callers, ObtainSlot(p)
  PROVE  TypeOK' /\ CallInv'
  <1>. DEFINE c == call[p].conv
              q == [call[p] EXCEPT !.cell = tasks'[c], !.pc = "init"]
              new == [conv |-> c, state |-> "empty", version |-> 0, token |-> NoToken,
                      agent |-> "fresh"]
  <1>1. c \in Conversations /\ call[p].pc = "slot" /\ call[p] \in Call
    BY DEF ObtainSlot, TypeOK, Call
  <1>2. Len(cells) \in Nat /\ new \in Cell
    BY <1>1, CellsTyped, EmptyCell
  <1>3. Grows /\ tasks' \in [Conversations -> 0 .. Len(cells')]
        /\ tasks'[c] \in 1 .. Len(cells')
    <2>1. CASE tasks[c] # NoCell
      BY <1>1, <1>2, <2>1 DEF ObtainSlot, Grows, tokenVars, TypeOK, NoCell
    <2>2. CASE tasks[c] = NoCell
      <3>1. cells' = Append(cells, new) /\ tasks' = [tasks EXCEPT ![c] = Len(cells) + 1]
            /\ issued' = issued
        BY <2>2 DEF ObtainSlot, tokenVars
      <3>. HIDE DEF new, c
      <3>2. cells' \in Seq(Cell) /\ Len(cells') = Len(cells) + 1
        BY <1>2, <3>1 DEF TypeOK
      <3>. QED  BY <1>1, <1>2, <3>1, <3>2 DEF Grows, TypeOK
    <2>. QED  BY <2>1, <2>2
  <1>4. Equipped(call[p]) /\ Fits(call[p])
    BY <1>3, CallFits
  <1>5. tasks'[c] \in Nat /\ tasks'[c] # NoCell /\ tasks'[c] <= Len(cells') /\ "init" \in Pc
    BY <1>3, PcTyped DEF Grows, NoCell
  <1>6. call' = [call EXCEPT ![p] = q]
    BY DEF ObtainSlot
  <1>. HIDE DEF c
  <1>7. q \in Call
    BY <1>1, <1>5 DEF Call
  <1>8. /\ q.pc = "init" /\ q.cell = tasks'[c] /\ q.op = call[p].op
        /\ q.waits = call[p].waits /\ q.token = call[p].token
    BY <1>1 DEF Call
  <1>9. Equipped(q) /\ Fits(q)
    BY <1>1, <1>4, <1>5, <1>8 DEF Equipped, Fits
  <1>. HIDE DEF q
  <1>10. CallsTyped
    BY <1>3, <1>6, <1>7, <1>9, CallPut
  <1>11. RestTyped'
    <2>1. DOMAIN cells \subseteq DOMAIN cells'
      BY <1>3 DEF Grows, TypeOK
    <2>. QED  BY <1>3, <2>1 DEF ObtainSlot, tokenVars, RestTyped, TypeOK
  <1>. QED  BY <1>3, <1>10, <1>11, Assembled

(* A step that changes one cell and lets its call go on.                   *)
LEMMA CellStepGrows ==
  ASSUME TypeOK, NEW i \in DOMAIN cells, NEW v \in Cell, cells' = [cells EXCEPT ![i] = v],
         UNCHANGED <<tokens, issued, tasks, abandoned, made>>
  PROVE  Grows /\ RestTyped'
  <1>1. Grows
    BY CellPut DEF Grows, TypeOK
  <1>. QED  BY <1>1, RestKept

LEMMA BuildTyped ==
  ASSUME TypeOK, CallInv, NEW p \in Callers, TakeBuilt(p) \/ StartBuild(p) \/ EndBuild(p)
  PROVE  TypeOK' /\ CallInv'
  <1>. DEFINE i == call[p].cell
  <1>1. call[p] \in Call /\ Equipped(call[p]) /\ call[p].pc \in {"init", "build"}
    BY DEF TypeOK, CallInv, TakeBuilt, StartBuild, EndBuild
  <1>2. i \in DOMAIN cells /\ cells[i] \in Cell
    <2>1. i \in Nat /\ i # 0 /\ i <= Len(cells)
      BY <1>1 DEF Call, Equipped, NoCell, TypeOK
    <2>. QED  BY <2>1, CellsTyped
  <1>3. CASE TakeBuilt(p)
    <2>1. Grows
      BY <1>3, SameCells DEF TakeBuilt, tokenVars
    <2>. QED  BY <1>3, <2>1, ReturnTyped, RestKept, Assembled DEF TakeBuilt, tokenVars
  <1>4. CASE StartBuild(p)
    <2>. DEFINE v == [cells[i] EXCEPT !.state = "building", !.version = call[p].version,
                                      !.token = call[p].token]
    <2>1. "building" \in CellState /\ call[p].version \in Nat /\ call[p].token \in Nat
      BY <1>1 DEF CellState, Call
    <2>2. v \in Cell
      BY <1>2, <2>1 DEF Cell
    <2>3. cells' = [cells EXCEPT ![i] = v]
      BY <1>4 DEF StartBuild
    <2>. HIDE DEF v, i
    <2>4. Grows /\ RestTyped'
      BY <1>2, <1>4, <2>2, <2>3, CellStepGrows DEF StartBuild, tokenVars
    <2>5. Equipped([call[p] EXCEPT !.pc = "build"])
      BY <1>1, <1>4 DEF Equipped, Call, StartBuild
    <2>. QED  BY <1>4, <2>4, <2>5, ContinueTyped, PcTyped, Assembled DEF StartBuild
  <1>5. CASE EndBuild(p)
    <2>1. PICK s \in CellState : cells' = [cells EXCEPT ![i].state = s]
      BY <1>5 DEF EndBuild, CellState
    <2>. DEFINE v == [cells[i] EXCEPT !.state = s]
    <2>2. v \in Cell /\ cells' = [cells EXCEPT ![i] = v]
      BY <1>2, <2>1 DEF Cell
    <2>. HIDE DEF v, i
    <2>3. Grows /\ RestTyped'
      BY <1>2, <1>5, <2>2, CellStepGrows DEF EndBuild, tokenVars
    <2>. QED  BY <1>5, <2>3, ReturnTyped, Assembled DEF EndBuild
  <1>. QED  BY <1>3, <1>4, <1>5

LEMMA RemoveSlotTyped ==
  ASSUME TypeOK, CallInv, NEW p \in Callers, RemoveSlot(p)
  PROVE  TypeOK' /\ CallInv'
  <1>1. PICK c \in call[p].keys :
          /\ tasks' = [tasks EXCEPT ![c] = NoCell]
          /\ call' = [call EXCEPT ![p].keys = @ \ {c}, ![p].cell = tasks[c],
                        ![p].pc = IF tasks[c] = NoCell THEN AfterKill(p) ELSE "dispose"]
    BY DEF RemoveSlot
  <1>2. Grows
    BY SameCells DEF RemoveSlot, tokenVars
  <1>3. call[p] \in Call /\ Equipped(call[p]) /\ Fits(call[p]) /\ call[p].pc = "remove"
    BY <1>2, CallFits DEF RemoveSlot
  <1>4. c \in Conversations /\ tasks[c] \in Nat /\ tasks[c] <= Len(cells)
    <2>1. c \in Conversations
      BY <1>3 DEF Call
    <2>. QED  BY <2>1 DEF TypeOK
  <1>. DEFINE a == IF tasks[c] = NoCell THEN AfterKill(p) ELSE "dispose"
              k == call[p].keys \ {c}
              q == [call[p] EXCEPT !.keys = k, !.cell = tasks[c], !.pc = a]
  <1>5. a \in Pc /\ k \in SUBSET Conversations
    BY <1>3, PcTyped DEF Call
  <1>6. /\ a \in {"remove", "find", "slot", "dispose"}
        /\ a = "dispose" => tasks[c] # NoCell
        /\ a \in {"find", "slot"} => call[p].op = "get"
    BY PcTyped
  <1>7. call' = [call EXCEPT ![p] = q]
    BY <1>1
  <1>. HIDE DEF a, k
  <1>8. q \in Call
    BY <1>3, <1>4, <1>5 DEF Call
  <1>9. /\ q.pc = a /\ q.cell = tasks[c] /\ q.op = call[p].op
        /\ q.waits = call[p].waits /\ q.token = call[p].token
    BY <1>3 DEF Call
  <1>10. Equipped(q) /\ Fits(q)
    <2>1. Equipped(q)
      BY <1>3, <1>6, <1>9 DEF Equipped
    <2>. QED  BY <1>3, <1>4, <1>9, <2>1 DEF Fits, RemoveSlot
  <1>. HIDE DEF q
  <1>11. CallsTyped
    BY <1>2, <1>7, <1>8, <1>10, CallPut
  <1>12. RestTyped'
    <2>1. NoCell \in 0 .. Len(cells)
      BY CellsTyped DEF NoCell
    <2>2. tasks' \in [Conversations -> 0 .. Len(cells)]
      BY <1>1, <2>1 DEF TypeOK
    <2>. QED  BY <2>2 DEF RemoveSlot, tokenVars, RestTyped, TypeOK
  <1>. QED  BY <1>2, <1>11, <1>12, Assembled

(* The cell that a removal stops, when it is built.                        *)
Killed(i) == cells' = IF Built(i) THEN [cells EXCEPT ![i].agent = "dead"] ELSE cells

LEMMA KilledTyped ==
  ASSUME TypeOK, NEW i \in DOMAIN cells, Killed(i), issued' = issued
  PROVE  /\ Grows /\ Len(cells') = Len(cells) /\ DOMAIN cells' = DOMAIN cells
         /\ \A j \in DOMAIN cells : cells'[j].conv = cells[j].conv
         /\ \A j \in DOMAIN cells \ {i} : cells'[j] = cells[j]
         /\ Built(i) => cells'[i].agent = "dead"
         /\ ~Built(i) => cells'[i] = cells[i]
  <1>. DEFINE v == [cells[i] EXCEPT !.agent = "dead"]
  <1>1. v \in Cell /\ v.conv = cells[i].conv /\ v.agent = "dead"
    BY CellsTyped DEF Cell, Agent
  <1>2. CASE Built(i)
    <2>1. cells' = [cells EXCEPT ![i] = v]
      BY <1>2 DEF Killed
    <2>. HIDE DEF v
    <2>. QED  BY <1>1, <1>2, <2>1, CellPut DEF Grows, TypeOK
  <1>3. CASE ~Built(i)
    BY <1>3, SameCells DEF Killed
  <1>. QED  BY <1>2, <1>3

LEMMA DisposeSlotTyped ==
  ASSUME TypeOK, CallInv, NEW p \in Callers, DisposeSlot(p)
  PROVE  TypeOK' /\ CallInv'
  <1>. DEFINE i == call[p].cell
              waits == call[p].op \in {"kill_and_wait", "scan"} /\ ~Built(i)
              w == IF waits THEN call[p].waits \cup {i} ELSE call[p].waits
              a == AfterKill(p)
              q == [call[p] EXCEPT !.cell = NoCell, !.pc = a, !.waits = w]
  <1>1. call[p] \in Call /\ Equipped(call[p]) /\ call[p].pc = "dispose"
    BY DEF TypeOK, CallInv, DisposeSlot
  <1>2. i \in DOMAIN cells /\ i \in Nat
    <2>1. i \in Nat /\ i # 0 /\ i <= Len(cells)
      BY <1>1 DEF Call, Equipped, NoCell, TypeOK
    <2>. QED  BY <2>1, CellsTyped
  <1>3. Killed(i) /\ issued' = issued
    BY DEF DisposeSlot, Killed, InvalidateConversation
  <1>4. Grows /\ DOMAIN cells' = DOMAIN cells /\ Len(cells') = Len(cells)
    BY <1>2, <1>3, KilledTyped
  <1>5. Fits(call[p])
    BY <1>4, CallFits
  <1>6. /\ a \in Pc /\ a \in {"remove", "find", "slot"}
        /\ a # "remove" => call[p].op = "get"
    BY PcTyped
  <1>7. w \in SUBSET Nat /\ w \subseteq DOMAIN cells' /\ NoCell \in Nat
        /\ (w # {} => w = call[p].waits \/ call[p].op \in {"kill_and_wait", "scan"})
    BY <1>1, <1>2, <1>4, <1>5 DEF Call, Fits, NoCell
  <1>8. call' = [call EXCEPT ![p] = q]
    BY DEF DisposeSlot
  <1>. HIDE DEF w, a, waits
  <1>9. q \in Call
    BY <1>1, <1>6, <1>7 DEF Call
  <1>10. /\ q.pc = a /\ q.cell = NoCell /\ q.op = call[p].op /\ q.waits = w
         /\ q.token = call[p].token
    BY <1>1 DEF Call
  <1>11. Equipped(q)
    BY <1>1, <1>6, <1>7, <1>10 DEF Equipped
  <1>12. Fits(q)
    BY <1>4, <1>5, <1>7, <1>10 DEF Fits, NoCell, Grows
  <1>. HIDE DEF q
  <1>13. CallsTyped
    BY <1>4, <1>8, <1>9, <1>11, <1>12, CallPut
  <1>14. RestTyped'
    <2>1. tokens' \in [Conversations -> SUBSET (1 .. issued)]
      BY DEF DisposeSlot, InvalidateConversation, TypeOK
    <2>2. abandoned' \subseteq DOMAIN cells
      BY <1>2 DEF DisposeSlot, TypeOK
    <2>. QED  BY <1>3, <1>4, <2>1, <2>2 DEF DisposeSlot, RestTyped, TypeOK
  <1>. QED  BY <1>4, <1>13, <1>14, Assembled

LEMMA AwaitBuildTyped ==
  ASSUME TypeOK, CallInv, NEW p \in Callers, AwaitBuild(p)
  PROVE  TypeOK' /\ CallInv'
  <1>1. PICK i \in call[p].waits :
          /\ Killed(i)
          /\ abandoned' = IF Built(i) THEN abandoned ELSE abandoned \cup {i}
          /\ call' = [call EXCEPT ![p].waits = @ \ {i}]
    BY DEF AwaitBuild, Killed
  <1>. DEFINE w == call[p].waits \ {i}
              q == [call[p] EXCEPT !.waits = w]
  <1>2. call[p] \in Call /\ Equipped(call[p]) /\ i \in DOMAIN cells
    BY DEF TypeOK, CallInv
  <1>3. Grows /\ DOMAIN cells' = DOMAIN cells /\ Len(cells') = Len(cells)
    BY <1>1, <1>2, KilledTyped DEF AwaitBuild, tokenVars
  <1>4. Fits(call[p])
    BY <1>3, CallFits
  <1>5. w \in SUBSET Nat /\ w \subseteq DOMAIN cells' /\ (w # {} => call[p].waits # {})
    BY <1>2, <1>4 DEF Call, Fits
  <1>6. call' = [call EXCEPT ![p] = q]
    BY <1>1
  <1>. HIDE DEF w
  <1>7. q \in Call
    BY <1>2, <1>5 DEF Call
  <1>8. /\ q.pc = call[p].pc /\ q.cell = call[p].cell /\ q.op = call[p].op /\ q.waits = w
        /\ q.token = call[p].token
    BY <1>2 DEF Call
  <1>9. Equipped(q) /\ Fits(q)
    BY <1>2, <1>4, <1>5, <1>8 DEF Equipped, Fits
  <1>. HIDE DEF q
  <1>10. CallsTyped
    BY <1>3, <1>6, <1>7, <1>9, CallPut
  <1>11. RestTyped'
    BY <1>1, <1>2, <1>3 DEF AwaitBuild, tokenVars, RestTyped, TypeOK
  <1>. QED  BY <1>3, <1>10, <1>11, Assembled

LEMMA AgentMovesTyped ==
  ASSUME TypeOK, CallInv, NEW i \in DOMAIN cells, AgentMoves(i)
  PROVE  TypeOK' /\ CallInv'
  <1>1. PICK a \in Agent : cells' = [cells EXCEPT ![i].agent = a]
    <2>1. \A next \in {<<"fresh", "running">>, <<"idle", "running">>,
                       <<"running", "fresh">>, <<"fresh", "idle">>} : next[2] \in Agent
      BY DEF Agent
    <2>. QED  BY <2>1 DEF AgentMoves
  <1>. DEFINE v == [cells[i] EXCEPT !.agent = a]
  <1>2. v \in Cell /\ cells' = [cells EXCEPT ![i] = v]
    BY <1>1, CellsTyped DEF Cell
  <1>. HIDE DEF v
  <1>3. Grows /\ RestTyped' /\ DOMAIN cells' = DOMAIN cells /\ Len(cells') = Len(cells)
    BY <1>2, CellStepGrows, CellPut DEF AgentMoves, tokenVars
  <1>4. CallsTyped
    BY <1>3 DEF AgentMoves, tokenVars, CallsTyped, CallInv, Equipped, TypeOK
  <1>. QED  BY <1>3, <1>4, Assembled

(* What every step preserves of the types.                                 *)
TypeInv == TypeOK /\ CallInv

LEMMA TypeInvStep ==
  ASSUME TypeInv, [Next]_vars
  PROVE  TypeInv'
  <1>. USE DEF TypeInv
  <1>1. CASE UNCHANGED vars
    BY <1>1 DEF vars, tokenVars, TypeOK, CallInv, Equipped
  <1>2. ASSUME NEW p \in Callers, EndRemoval(p)
        PROVE  TypeInv'
    <2>1. Grows
      BY <1>2, SameCells DEF EndRemoval, tokenVars
    <2>. QED  BY <1>2, <2>1, ReturnTyped, RestKept, Assembled DEF EndRemoval, tokenVars
  <1>3. ASSUME NEW p \in Callers, Step(p)
        PROVE  TypeInv'
    BY <1>2, <1>3, FindTokenTyped, PurgeTokensTyped, InsertIssuedTyped, CheckTyped,
       ObtainSlotTyped, BuildTyped, RemoveSlotTyped, DisposeSlotTyped, AwaitBuildTyped
       DEF Step
  <1>. QED  BY <1>1, <1>3, BeginsTyped, AgentMovesTyped DEF Next

LEMMA TypeInvInit == Init => TypeInv
  <1>. SUFFICES ASSUME Init PROVE TypeInv
    OBVIOUS
  <1>1. cells = <<>> /\ Len(cells) = 0 /\ DOMAIN cells = {} /\ issued = 0
    BY DEF Init, TokenInit
  <1>2. call \in [Callers -> Call] /\ CallInv
    BY <1>1, NoCallTyped DEF Init, CallInv
  <1>3. \A p \in Callers : call[p].cell <= Len(cells) /\ call[p].waits \subseteq DOMAIN cells
    BY <1>1, NoCallTyped DEF Init
  <1>4. tasks \in [Conversations -> 0 .. Len(cells)]
    BY <1>1 DEF Init, NoCell
  <1>5. cells \in Seq(Cell)
    BY <1>1
  <1>6. tokens \in [Conversations -> SUBSET (1 .. issued)] /\ issued \in Nat
    BY <1>1 DEF Init, TokenInit
  <1>7. made \in 0 .. MaxCalls /\ abandoned \subseteq DOMAIN cells
    BY <1>1, ManagerAssumption DEF Init
  <1>. QED  BY <1>2, <1>3, <1>4, <1>5, <1>6, <1>7 DEF TypeInv, TypeOK

(* Every variable of the manager keeps its type whatever calls interleave: *)
(* a slot, a call's cell and the cells a removal waits for are cells that  *)
(* exist, and a token that validates was issued (task_manager.rs,          *)
(* runtime_token.rs).                                                      *)
THEOREM ManagerTypeCorrect == Spec => []TypeOK
  <1>1. TypeInv => TypeOK
    BY DEF TypeInv
  <1>. QED  BY <1>1, TypeInvInit, TypeInvStep, PTL DEF Spec

------------------------------------------------------------------------------
(* The map, and what becomes of the agents.                                *)

MapInv == MapHoldsLiveAgents /\ UnmappedInv /\ AccountInv

KilledNext(i) == BeingKilled(i)'

(* The calls kill the same cells after a step as before it.                *)
LEMMA SameKills ==
  ASSUME TypeInv, NEW p \in Callers, NEW q, call' = [call EXCEPT ![p] = q],
         q.waits = call[p].waits, q.pc # "dispose", call[p].pc # "dispose"
  PROVE  \A i : KilledNext(i) <=> BeingKilled(i)
  <1>. SUFFICES ASSUME NEW i PROVE KilledNext(i) <=> BeingKilled(i)
    OBVIOUS
  <1>1. call'[p] = q /\ \A r \in Callers \ {p} : call'[r] = call[r]
    BY DEF TypeInv, TypeOK
  <1>2. \A r \in Callers : (\/ i \in call'[r].waits
                            \/ call'[r].pc = "dispose" /\ call'[r].cell = i)
                       <=> (\/ i \in call[r].waits
                            \/ call[r].pc = "dispose" /\ call[r].cell = i)
    BY <1>1
  <1>. QED  BY <1>2 DEF KilledNext, BeingKilled

(* A step that leaves the map alone, and every cell's conversation and     *)
(* whether its agent was killed.                                           *)
LEMMA QuietStep ==
  ASSUME TypeInv, MapInv, tasks' = tasks, abandoned' = abandoned,
         DOMAIN cells' = DOMAIN cells,
         \A i \in DOMAIN cells : /\ cells'[i].conv = cells[i].conv
                                 /\ cells'[i].agent = "dead" <=> cells[i].agent = "dead",
         \A i : KilledNext(i) <=> BeingKilled(i)
  PROVE  MapInv'
  <1>1. \A c \in Conversations : tasks[c] # NoCell => tasks[c] \in DOMAIN cells
    BY CellsTyped DEF TypeInv, TypeOK, NoCell
  <1>2. MapHoldsLiveAgents'
    BY <1>1 DEF MapInv, MapHoldsLiveAgents
  <1>3. UnmappedInv'
    BY DEF MapInv, UnmappedInv, KilledNext
  <1>4. AccountInv'
    BY DEF MapInv, AccountInv, Accounted, KilledNext
  <1>. QED  BY <1>2, <1>3, <1>4 DEF MapInv

LEMMA SameCellsQuiet ==
  ASSUME TypeInv, MapInv, tasks' = tasks, abandoned' = abandoned, cells' = cells,
         NEW p \in Callers, NEW q, call' = [call EXCEPT ![p] = q],
         q.waits = call[p].waits, q.pc # "dispose", call[p].pc # "dispose"
  PROVE  MapInv'
  BY SameKills, QuietStep

LEMMA BeginMap ==
  ASSUME TypeInv, MapInv, NEW p \in Callers,
         BeginGet(p) \/ BeginKill(p) \/ BeginClear(p) \/ BeginScan(p)
  PROVE  MapInv'
  <1>1. ASSUME NEW q, Begin(p, q), q.waits = {}, q.pc # "dispose"
        PROVE  MapInv'
    <2>1. call[p].pc = "idle" /\ Equipped(call[p])
      BY <1>1 DEF Begin, TypeInv, CallInv
    <2>2. call[p].waits = {}
      BY <2>1 DEF Equipped
    <2>. QED  BY <1>1, <2>1, <2>2, SameCellsQuiet DEF Begin
  <1>2. ASSUME NEW o, NEW k
        PROVE  [NoCall EXCEPT !.op = o, !.pc = "remove", !.keys = k].waits = {}
               /\ [NoCall EXCEPT !.op = o, !.pc = "remove", !.keys = k].pc # "dispose"
    BY DEF NoCall
  <1>3. ASSUME NEW c, NEW v, NEW a \in {"find", "check"}
        PROVE  [NoCall EXCEPT !.conv = c, !.version = v, !.pc = a].waits = {}
               /\ [NoCall EXCEPT !.conv = c, !.version = v, !.pc = a].pc # "dispose"
    BY DEF NoCall
  <1>4. CASE BeginGet(p)
    <2>1. PICK c \in Conversations, v \in Versions :
            Begin(p, [NoCall EXCEPT !.conv = c, !.version = v,
                                    !.pc = IF c \in Teams THEN "find" ELSE "check"])
      BY <1>4 DEF BeginGet
    <2>. DEFINE a == IF c \in Teams THEN "find" ELSE "check"
    <2>2. a \in {"find", "check"}
      OBVIOUS
    <2>3. Begin(p, [NoCall EXCEPT !.conv = c, !.version = v, !.pc = a])
      BY <2>1
    <2>. HIDE DEF a
    <2>. QED  BY <1>1, <1>3, <2>2, <2>3
  <1>5. CASE BeginKill(p) \/ BeginClear(p) \/ BeginScan(p)
    <2>1. PICK o, k : Begin(p, [NoCall EXCEPT !.op = o, !.pc = "remove", !.keys = k])
      BY <1>5 DEF BeginKill, BeginClear, BeginScan
    <2>. QED  BY <1>1, <1>2, <2>1
  <1>. QED  BY <1>4, <1>5

LEMMA TokenMap ==
  ASSUME TypeInv, MapInv, NEW p \in Callers,
         \/ FindToken(p) \/ PurgeTokens(p) \/ InsertIssued(p) \/ CheckCapabilities(p)
         \/ TakeBuilt(p) \/ EndRemoval(p)
  PROVE  MapInv'
  <1>1. call[p] \in Call /\ Equipped(call[p])
    BY DEF TypeInv, TypeOK, CallInv
  <1>2. call[p].back \in {"check", "slot"}
    BY <1>1 DEF Call
  <1>3. tasks' = tasks /\ abandoned' = abandoned /\ cells' = cells /\ call[p].pc # "dispose"
    BY DEF FindToken, PurgeTokens, InsertIssued, CheckCapabilities, TakeBuilt, EndRemoval
  <1>4. \E q : /\ call' = [call EXCEPT ![p] = q]
               /\ q.waits = call[p].waits /\ q.pc # "dispose"
    <2>1. ASSUME NEW k, NEW a, a # "dispose",
                 call' = [call EXCEPT ![p].token = k, ![p].pc = a]
          PROVE  \E q : /\ call' = [call EXCEPT ![p] = q]
                        /\ q.waits = call[p].waits /\ q.pc # "dispose"
      <3>. DEFINE q == [call[p] EXCEPT !.token = k, !.pc = a]
      <3>1. q.waits = call[p].waits /\ q.pc = a
        BY <1>1 DEF Call
      <3>2. call' = [call EXCEPT ![p] = q]
        BY <2>1
      <3>. HIDE DEF q
      <3>. QED  BY <2>1, <3>1, <3>2
    <2>2. CASE FindToken(p)
      BY <1>2, <2>1, <2>2 DEF FindToken
    <2>3. ASSUME NEW a, a # "dispose", Continue(p, a)
          PROVE  \E q : /\ call' = [call EXCEPT ![p] = q]
                        /\ q.waits = call[p].waits /\ q.pc # "dispose"
      <3>. DEFINE q == [call[p] EXCEPT !.pc = a]
      <3>1. q.waits = call[p].waits /\ q.pc = a
        BY <1>1 DEF Call
      <3>2. call' = [call EXCEPT ![p] = q]
        BY <2>3 DEF Continue
      <3>. HIDE DEF q
      <3>. QED  BY <2>3, <3>1, <3>2
    <2>4. CASE PurgeTokens(p) \/ InsertIssued(p)
      <3>1. PICK a : a # "dispose" /\ Continue(p, a)
        BY <1>2, <2>4 DEF PurgeTokens, InsertIssued
      <3>. QED  BY <2>3, <3>1
    <2>5. CASE CheckCapabilities(p)
      <3>. DEFINE out == Built(tasks[call[p].conv])
                    /\ ~Satisfies(cells[tasks[call[p].conv]].version, call[p].version)
                  a == IF out THEN "remove" ELSE "slot"
                  k == IF out THEN {call[p].conv} ELSE {}
                  b == IF out THEN "slot" ELSE call[p].back
                  q == [call[p] EXCEPT !.pc = a, !.keys = k, !.back = b]
      <3>1. call' = [call EXCEPT ![p] = q]
        BY <2>5 DEF CheckCapabilities
      <3>2. a # "dispose"
        OBVIOUS
      <3>. HIDE DEF a, k, b
      <3>3. q.waits = call[p].waits /\ q.pc = a
        BY <1>1 DEF Call
      <3>. HIDE DEF q
      <3>. QED  BY <3>1, <3>2, <3>3
    <2>6. CASE TakeBuilt(p) \/ EndRemoval(p)
      <3>1. call[p].waits = {}
        BY <1>1, <2>6 DEF TakeBuilt, EndRemoval, Equipped
      <3>. QED  BY <2>6, <3>1, NoCallTyped DEF TakeBuilt, EndRemoval, Return
    <2>. QED  BY <2>2, <2>4, <2>5, <2>6
  <1>. QED  BY <1>3, <1>4, SameCellsQuiet

LEMMA BuildMap ==
  ASSUME TypeInv, MapInv, NEW p \in Callers, StartBuild(p) \/ EndBuild(p)
  PROVE  MapInv'
  <1>. DEFINE i == call[p].cell
  <1>1. call[p] \in Call /\ Equipped(call[p]) /\ call[p].pc \in {"init", "build"}
    BY DEF TypeInv, TypeOK, CallInv, StartBuild, EndBuild
  <1>2. call[p].waits = {} /\ i \in DOMAIN cells
    <2>1. i \in Nat /\ i # 0 /\ i <= Len(cells)
      BY <1>1 DEF Call, Equipped, NoCell, TypeInv, TypeOK
    <2>. QED  BY <1>1, <2>1, CellsTyped DEF Equipped, TypeInv
  <1>3. \A j \in DOMAIN cells : cells[j] \in Cell
    BY CellsTyped DEF TypeInv
  <1>4. /\ DOMAIN cells' = DOMAIN cells
        /\ \A j \in DOMAIN cells : /\ cells'[j].conv = cells[j].conv
                                   /\ cells'[j].agent = cells[j].agent
    <2>1. PICK v : /\ cells' = [cells EXCEPT ![i] = v]
                   /\ v.conv = cells[i].conv /\ v.agent = cells[i].agent
      <3>1. CASE StartBuild(p)
        <4>. DEFINE v == [cells[i] EXCEPT !.state = "building",
                            !.version = call[p].version, !.token = call[p].token]
        <4>1. cells' = [cells EXCEPT ![i] = v]
          BY <3>1 DEF StartBuild
        <4>2. v.conv = cells[i].conv /\ v.agent = cells[i].agent
          BY <1>2, <1>3 DEF Cell
        <4>. HIDE DEF v
        <4>. QED  BY <4>1, <4>2
      <3>2. CASE EndBuild(p)
        <4>1. PICK s : cells' = [cells EXCEPT ![i].state = s]
          BY <3>2 DEF EndBuild
        <4>. DEFINE v == [cells[i] EXCEPT !.state = s]
        <4>2. cells' = [cells EXCEPT ![i] = v]
          BY <4>1
        <4>3. v.conv = cells[i].conv /\ v.agent = cells[i].agent
          BY <1>2, <1>3 DEF Cell
        <4>. HIDE DEF v
        <4>. QED  BY <4>2, <4>3
      <3>. QED  BY <3>1, <3>2
    <2>. QED  BY <1>2, <2>1 DEF TypeInv, TypeOK
  <1>5. \A j : KilledNext(j) <=> BeingKilled(j)
    <2>1. CASE StartBuild(p)
      <3>. DEFINE q == [call[p] EXCEPT !.pc = "build"]
      <3>1. q.waits = call[p].waits /\ q.pc = "build"
        BY <1>1 DEF Call
      <3>2. call' = [call EXCEPT ![p] = q] /\ call[p].pc # "dispose"
        BY <2>1 DEF StartBuild, Continue
      <3>. HIDE DEF q
      <3>. QED  BY <3>1, <3>2, SameKills
    <2>2. CASE EndBuild(p)
      BY <1>1, <1>2, <2>2, NoCallTyped, SameKills DEF EndBuild, Return
    <2>. QED  BY <2>1, <2>2
  <1>. QED  BY <1>4, <1>5, QuietStep DEF StartBuild, EndBuild

LEMMA AgentMap ==
  ASSUME TypeInv, MapInv, NEW i \in DOMAIN cells, AgentMoves(i)
  PROVE  MapInv'
  <1>1. PICK a : cells' = [cells EXCEPT ![i].agent = a] /\ a # "dead"
                 /\ cells[i].agent # "dead"
    <2>1. \A next \in {<<"fresh", "running">>, <<"idle", "running">>,
                       <<"running", "fresh">>, <<"fresh", "idle">>} :
            next[1] # "dead" /\ next[2] # "dead"
      OBVIOUS
    <2>. QED  BY <2>1 DEF AgentMoves
  <1>2. /\ DOMAIN cells' = DOMAIN cells
        /\ \A j \in DOMAIN cells : /\ cells'[j].conv = cells[j].conv
                                   /\ cells'[j].agent = "dead" <=> cells[j].agent = "dead"
    BY <1>1, CellsTyped DEF TypeInv, TypeOK, Cell
  <1>3. \A j : KilledNext(j) <=> BeingKilled(j)
    BY DEF AgentMoves, KilledNext, BeingKilled
  <1>. QED  BY <1>2, <1>3, QuietStep DEF AgentMoves

(* A new slot goes into the map.                                           *)
LEMMA ObtainMap ==
  ASSUME TypeInv, MapInv, NEW p \in Callers, ObtainSlot(p)
  PROVE  MapInv'
  <1>. DEFINE c == call[p].conv
              n == Len(cells) + 1
              new == [conv |-> c, state |-> "empty", version |-> 0, token |-> NoToken,
                      agent |-> "fresh"]
  <1>1. call[p] \in Call /\ c \in Conversations
    BY DEF TypeInv, TypeOK, Call
  <1>2. \A j : KilledNext(j) <=> BeingKilled(j)
    <2>. DEFINE m == tasks'[c]
                q == [call[p] EXCEPT !.cell = m, !.pc = "init"]
    <2>1. call' = [call EXCEPT ![p] = q] /\ call[p].pc # "dispose"
      BY DEF ObtainSlot
    <2>. HIDE DEF m
    <2>2. q.waits = call[p].waits /\ q.pc = "init"
      BY <1>1 DEF Call
    <2>. HIDE DEF q
    <2>. QED  BY <2>1, <2>2, SameKills
  <1>3. CASE tasks[c] # NoCell
    BY <1>2, <1>3, QuietStep DEF ObtainSlot
  <1>4. CASE tasks[c] = NoCell
    <2>1. /\ cells' = Append(cells, new) /\ tasks' = [tasks EXCEPT ![c] = n]
          /\ abandoned' = abandoned
      BY <1>4 DEF ObtainSlot
    <2>2. new.conv = c /\ new.agent = "fresh"
      OBVIOUS
    <2>. HIDE DEF new, c
    <2>3. /\ Len(cells) \in Nat /\ DOMAIN cells = 1 .. Len(cells) /\ n \notin DOMAIN cells
          /\ n # 0 /\ cells \in Seq(Cell)
      BY DEF TypeInv, TypeOK
    <2>4. /\ DOMAIN cells' = DOMAIN cells \cup {n} /\ cells'[n] = new
          /\ \A j \in DOMAIN cells : cells'[j] = cells[j]
      BY <2>1, <2>3
    <2>. HIDE DEF n
    <2>5. tasks'[c] = n /\ \A d \in Conversations \ {c} : tasks'[d] = tasks[d]
      BY <1>1, <2>1 DEF TypeInv, TypeOK
    <2>6. \A j \in DOMAIN cells : j # NoCell
      BY <2>3 DEF NoCell
    <2>7. \A j : BeingKilled(j) => j \in DOMAIN cells
      <3>1. ASSUME NEW j, NEW r \in Callers, call[r].pc = "dispose", call[r].cell = j
            PROVE  j \in DOMAIN cells
        <4>1. j \in Nat /\ j # 0 /\ j <= Len(cells)
          BY <3>1 DEF TypeInv, TypeOK, CallInv, Equipped, Call, NoCell
        <4>. QED  BY <2>3, <4>1
      <3>2. \A r \in Callers : call[r].waits \subseteq DOMAIN cells
        BY DEF TypeInv, TypeOK
      <3>. QED  BY <3>1, <3>2 DEF BeingKilled
    <2>8. \A d \in Conversations : tasks[d] # NoCell => tasks[d] \in DOMAIN cells
      BY CellsTyped DEF TypeInv, TypeOK, NoCell
    <2>9. MapHoldsLiveAgents'
      BY <2>2, <2>4, <2>5, <2>8 DEF MapInv, MapHoldsLiveAgents
    <2>10. UnmappedInv'
      <3>1. ASSUME NEW j \in DOMAIN cells', KilledNext(j), NEW d \in Conversations
            PROVE  tasks'[d] # j
        BY <1>2, <2>3, <2>5, <2>7, <3>1 DEF MapInv, UnmappedInv
      <3>. QED  BY <3>1 DEF UnmappedInv, KilledNext
    <2>11. AccountInv'
      <3>1. ASSUME NEW j \in DOMAIN cells', cells'[j].agent # "dead"
            PROVE  tasks'[cells'[j].conv] = j \/ KilledNext(j) \/ j \in abandoned'
        <4>1. CASE j = n
          BY <2>2, <2>4, <2>5, <4>1
        <4>2. CASE j \in DOMAIN cells
          <5>1. cells'[j] = cells[j] /\ j # NoCell
            BY <2>4, <2>6, <4>2
          <5>2. cells[j].conv \in Conversations
            BY <4>2, CellsTyped DEF TypeInv, Cell
          <5>3. tasks[cells[j].conv] = j \/ BeingKilled(j) \/ j \in abandoned
            BY <3>1, <4>2, <5>1 DEF MapInv, AccountInv, Accounted
          <5>4. tasks[cells[j].conv] = j => tasks'[cells[j].conv] = j
            BY <1>4, <2>5, <5>1, <5>2 DEF c
          <5>. QED  BY <1>2, <2>1, <5>1, <5>3, <5>4
        <4>. QED  BY <2>4, <4>1, <4>2
      <3>. QED  BY <3>1 DEF AccountInv, Accounted, KilledNext
    <2>. QED  BY <2>9, <2>10, <2>11 DEF MapInv
  <1>. QED  BY <1>3, <1>4

(* The slot of a key goes from the map to the removal.                     *)
LEMMA RemoveMap ==
  ASSUME TypeInv, MapInv, NEW p \in Callers, RemoveSlot(p)
  PROVE  MapInv'
  <1>1. PICK c \in call[p].keys :
          /\ tasks' = [tasks EXCEPT ![c] = NoCell]
          /\ call' = [call EXCEPT ![p].keys = @ \ {c}, ![p].cell = tasks[c],
                        ![p].pc = IF tasks[c] = NoCell THEN AfterKill(p) ELSE "dispose"]
    BY DEF RemoveSlot
  <1>2. call[p] \in Call /\ call[p].pc = "remove" /\ c \in Conversations
        /\ cells' = cells /\ abandoned' = abandoned
    BY <1>1 DEF RemoveSlot, TypeInv, TypeOK, Call
  <1>3. tasks'[c] = NoCell /\ \A d \in Conversations \ {c} : tasks'[d] = tasks[d]
    BY <1>1, <1>2 DEF TypeInv, TypeOK
  <1>4. /\ call'[p].waits = call[p].waits /\ call'[p].cell = tasks[c]
        /\ call'[p].pc = "dispose" <=> tasks[c] # NoCell
        /\ \A r \in Callers \ {p} : call'[r] = call[r]
    <2>. DEFINE a == IF tasks[c] = NoCell THEN AfterKill(p) ELSE "dispose"
                q == [call[p] EXCEPT !.keys = @ \ {c}, !.cell = tasks[c], !.pc = a]
    <2>1. a = "dispose" <=> tasks[c] # NoCell
      BY PcTyped
    <2>2. call' = [call EXCEPT ![p] = q]
      BY <1>1
    <2>. HIDE DEF a
    <2>3. q.waits = call[p].waits /\ q.cell = tasks[c] /\ q.pc = a
      BY <1>2 DEF Call
    <2>. HIDE DEF q
    <2>. QED  BY <2>1, <2>2, <2>3 DEF TypeInv, TypeOK
  <1>5. \A j \in DOMAIN cells : KilledNext(j) <=> BeingKilled(j) \/ j = tasks[c]
    <2>1. \A j \in DOMAIN cells : j # NoCell
      BY CellsTyped DEF TypeInv, NoCell
    <2>. QED  BY <1>2, <1>4, <2>1 DEF KilledNext, BeingKilled
  <1>6. MapHoldsLiveAgents'
    BY <1>2, <1>3 DEF MapInv, MapHoldsLiveAgents
  <1>7. UnmappedInv'
    <2>1. ASSUME NEW j \in DOMAIN cells, KilledNext(j), NEW d \in Conversations
          PROVE  tasks'[d] # j
      <3>1. j # NoCell
        BY CellsTyped DEF TypeInv, NoCell
      <3>2. CASE BeingKilled(j)
        BY <1>3, <3>1, <3>2 DEF MapInv, UnmappedInv
      <3>3. CASE j = tasks[c]
        <4>1. cells[j].conv = c /\ (tasks[d] = j => cells[j].conv = d)
          BY <1>2, <3>1, <3>3 DEF MapInv, MapHoldsLiveAgents
        <4>. QED  BY <1>3, <3>1, <4>1
      <3>. QED  BY <1>5, <2>1, <3>2, <3>3
    <2>. QED  BY <1>2, <2>1 DEF UnmappedInv, KilledNext
  <1>8. AccountInv'
    <2>1. ASSUME NEW j \in DOMAIN cells, cells[j].agent # "dead"
          PROVE  tasks'[cells[j].conv] = j \/ KilledNext(j) \/ j \in abandoned
      <3>1. cells[j].conv \in Conversations
        BY CellsTyped DEF TypeInv, Cell
      <3>2. tasks[cells[j].conv] = j \/ BeingKilled(j) \/ j \in abandoned
        BY <2>1 DEF MapInv, AccountInv, Accounted
      <3>. QED  BY <1>3, <1>5, <3>1, <3>2
    <2>. QED  BY <1>2, <2>1 DEF AccountInv, Accounted, KilledNext
  <1>. QED  BY <1>6, <1>7, <1>8 DEF MapInv

(* A cell that was about to be killed is killed, or left to a later wait,  *)
(* or abandoned.                                                           *)
LEMMA KillStep ==
  ASSUME TypeInv, MapInv, NEW i \in DOMAIN cells, BeingKilled(i), Killed(i),
         issued' = issued, tasks' = tasks, abandoned \subseteq abandoned',
         Built(i) \/ KilledNext(i) \/ i \in abandoned',
         \A j \in DOMAIN cells : KilledNext(j) => BeingKilled(j),
         \A j \in DOMAIN cells \ {i} : BeingKilled(j) => KilledNext(j)
  PROVE  MapInv'
  <1>1. /\ DOMAIN cells' = DOMAIN cells
        /\ \A j \in DOMAIN cells : cells'[j].conv = cells[j].conv
        /\ \A j \in DOMAIN cells \ {i} : cells'[j] = cells[j]
        /\ Built(i) => cells'[i].agent = "dead"
    BY KilledTyped DEF TypeInv
  <1>2. \A c \in Conversations : /\ tasks[c] # i
                                 /\ tasks[c] # NoCell => tasks[c] \in DOMAIN cells
    BY CellsTyped DEF MapInv, UnmappedInv, TypeInv, TypeOK, NoCell
  <1>3. MapHoldsLiveAgents'
    BY <1>1, <1>2 DEF MapInv, MapHoldsLiveAgents
  <1>4. UnmappedInv'
    BY <1>1 DEF MapInv, UnmappedInv, KilledNext
  <1>5. AccountInv'
    <2>1. ASSUME NEW j \in DOMAIN cells, cells'[j].agent # "dead"
          PROVE  tasks[cells'[j].conv] = j \/ KilledNext(j) \/ j \in abandoned'
      <3>1. CASE j = i
        BY <1>1, <2>1, <3>1
      <3>2. CASE j # i
        BY <1>1, <2>1, <3>2 DEF MapInv, AccountInv, Accounted
      <3>. QED  BY <3>1, <3>2
    <2>. QED  BY <1>1, <2>1 DEF AccountInv, Accounted, KilledNext
  <1>. QED  BY <1>3, <1>4, <1>5 DEF MapInv

LEMMA DisposeMap ==
  ASSUME TypeInv, MapInv, NEW p \in Callers, DisposeSlot(p)
  PROVE  MapInv'
  <1>0. PICK i : i = call[p].cell
    OBVIOUS
  <1>. DEFINE waits == call[p].op \in {"kill_and_wait", "scan"} /\ ~Built(i)
              w == IF waits THEN call[p].waits \cup {i} ELSE call[p].waits
              a == AfterKill(p)
              q == [call[p] EXCEPT !.cell = NoCell, !.pc = a, !.waits = w]
  <1>1. call[p] \in Call /\ Equipped(call[p]) /\ call[p].pc = "dispose"
    BY DEF TypeInv, TypeOK, CallInv, DisposeSlot
  <1>2. i \in DOMAIN cells
    <2>1. i \in Nat /\ i # 0 /\ i <= Len(cells)
      BY <1>0, <1>1 DEF Call, Equipped, NoCell, TypeInv, TypeOK
    <2>. QED  BY <2>1, CellsTyped DEF TypeInv
  <1>3. /\ Killed(i) /\ issued' = issued /\ tasks' = tasks
        /\ abandoned' = IF Built(i) \/ waits THEN abandoned ELSE abandoned \cup {i}
    BY <1>0 DEF DisposeSlot, Killed, InvalidateConversation
  <1>4. call' = [call EXCEPT ![p] = q] /\ a # "dispose"
    BY <1>0, PcTyped DEF DisposeSlot
  <1>5. /\ call[p].waits \subseteq w /\ w \subseteq call[p].waits \cup {i}
        /\ Built(i) \/ i \in w \/ i \in abandoned'
        /\ abandoned \subseteq abandoned'
    BY <1>3
  <1>. HIDE DEF w, a, waits
  <1>6. q.pc = a /\ q.waits = w
    BY <1>1 DEF Call
  <1>. HIDE DEF q
  <1>7. call'[p] = q /\ \A r \in Callers \ {p} : call'[r] = call[r]
    BY <1>4 DEF TypeInv, TypeOK
  <1>8. BeingKilled(i)
    BY <1>0, <1>1 DEF BeingKilled
  <1>9. \A j \in DOMAIN cells : KilledNext(j) => BeingKilled(j)
    BY <1>4, <1>5, <1>6, <1>7, <1>8 DEF KilledNext, BeingKilled
  <1>10. \A j \in DOMAIN cells \ {i} : BeingKilled(j) => KilledNext(j)
    <2>1. call[p].cell = i /\ call[p].waits \subseteq call'[p].waits
      BY <1>0, <1>5, <1>6, <1>7
    <2>2. ASSUME NEW j \in DOMAIN cells \ {i}, NEW r \in Callers,
                 j \in call[r].waits \/ (call[r].pc = "dispose" /\ call[r].cell = j)
          PROVE  KilledNext(j)
      BY <1>7, <2>1, <2>2 DEF KilledNext, BeingKilled
    <2>. QED  BY <2>2 DEF BeingKilled
  <1>11. Built(i) \/ KilledNext(i) \/ i \in abandoned'
    <2>1. i \in w => i \in call'[p].waits
      BY <1>6, <1>7
    <2>2. i \in call'[p].waits => KilledNext(i)
      BY DEF KilledNext, BeingKilled
    <2>. QED  BY <1>5, <2>1, <2>2
  <1>. QED  BY <1>2, <1>3, <1>5, <1>8, <1>9, <1>10, <1>11, KillStep

LEMMA AwaitMap ==
  ASSUME TypeInv, MapInv, NEW p \in Callers, AwaitBuild(p)
  PROVE  MapInv'
  <1>1. PICK i \in call[p].waits :
          /\ Killed(i)
          /\ abandoned' = IF Built(i) THEN abandoned ELSE abandoned \cup {i}
          /\ call' = [call EXCEPT ![p].waits = @ \ {i}]
    BY DEF AwaitBuild, Killed
  <1>. DEFINE q == [call[p] EXCEPT !.waits = @ \ {i}]
  <1>2. call[p] \in Call /\ i \in DOMAIN cells /\ call[p].pc = "remove"
    BY DEF TypeInv, TypeOK, AwaitBuild
  <1>3. call' = [call EXCEPT ![p] = q]
    BY <1>1
  <1>4. q.pc = "remove" /\ q.waits = call[p].waits \ {i}
    BY <1>2 DEF Call
  <1>. HIDE DEF q
  <1>5. call'[p] = q /\ \A r \in Callers \ {p} : call'[r] = call[r]
    BY <1>3 DEF TypeInv, TypeOK
  <1>6. BeingKilled(i)
    BY <1>1 DEF BeingKilled
  <1>7. \A j \in DOMAIN cells : KilledNext(j) => BeingKilled(j)
    BY <1>4, <1>5 DEF KilledNext, BeingKilled
  <1>8. \A j \in DOMAIN cells \ {i} : BeingKilled(j) => KilledNext(j)
    BY <1>2, <1>4, <1>5 DEF KilledNext, BeingKilled
  <1>9. (Built(i) \/ i \in abandoned') /\ abandoned \subseteq abandoned'
    BY <1>1
  <1>10. issued' = issued /\ tasks' = tasks
    BY DEF AwaitBuild, tokenVars
  <1>. QED  BY <1>1, <1>2, <1>6, <1>7, <1>8, <1>9, <1>10, KillStep

LEMMA MapInvStep ==
  ASSUME TypeInv, MapInv, [Next]_vars
  PROVE  MapInv'
  <1>1. CASE UNCHANGED vars
    <2>1. \A i : KilledNext(i) <=> BeingKilled(i)
      BY <1>1 DEF vars, KilledNext, BeingKilled
    <2>2. tasks' = tasks /\ abandoned' = abandoned /\ cells' = cells
      BY <1>1 DEF vars
    <2>. QED  BY <2>1, <2>2, QuietStep
  <1>2. ASSUME NEW p \in Callers, Step(p)
        PROVE  MapInv'
    BY <1>2, TokenMap, BuildMap, ObtainMap, RemoveMap, DisposeMap, AwaitMap DEF Step
  <1>. QED  BY <1>1, <1>2, BeginMap, AgentMap DEF Next

LEMMA MapInvInit == Init => MapInv
  <1>. SUFFICES ASSUME Init PROVE MapInv
    OBVIOUS
  <1>1. DOMAIN cells = {} /\ \A c \in Conversations : tasks[c] = NoCell
    BY DEF Init
  <1>. QED  BY <1>1 DEF MapInv, MapHoldsLiveAgents, UnmappedInv, AccountInv

LEMMA ManagerInvariant == Spec => [](TypeInv /\ MapInv)
  BY TypeInvInit, TypeInvStep, MapInvInit, MapInvStep, PTL DEF Spec

(* Neither get_task nor get_or_build_task finds an agent that was killed   *)
(* (kill, kill_and_wait and clear of task_manager.rs take the slot out of  *)
(* the map before they stop its agent), whatever calls run meanwhile.      *)
THEOREM MapHoldsLiveCorrect == Spec => []MapHoldsLiveAgents
  <1>1. TypeInv /\ MapInv => MapHoldsLiveAgents
    BY DEF MapInv
  <1>. QED  BY <1>1, ManagerInvariant, PTL

(* The only agents nobody can find or is about to kill are those of slots  *)
(* that were removed before they were built, with nobody waiting for the   *)
(* build (kill and clear, and a kill_and_wait that came between the slot   *)
(* and its build): there is no other leak, for any number of callers.      *)
THEOREM OnlyAbandonedCorrect == Spec => []OnlyAbandonedLeak
  <1>1. TypeInv /\ MapInv => OnlyAbandonedLeak
    BY DEF MapInv, AccountInv, Accounted, OnlyAbandonedLeak, Alive
  <1>. QED  BY <1>1, ManagerInvariant, PTL
==============================================================================
