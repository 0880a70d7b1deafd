----------------------- MODULE ConversationTurnsProofs ------------------------
(***************************************************************************)
(* Theorems about ConversationTurns: types, one turn at a time, marks that *)
(* are owned, no missed release, unseen replays, errors told once.         *)
(***************************************************************************)
EXTENDS ConversationTurns, TLAPS

------------------------------------------------------------------------------
(* The inductive invariants.                                               *)

(* A deletion that found no turn clears its mark itself.                   *)
Pending(d) == del[d].at \in {"hooks", "row", "clear"}
OwnsMark(d) == Pending(d) /\ ~del[d].had

MarkOwned == deleting => turn # NoTurn \/ \E d \in Deletes : OwnsMark(d)

(* What was shown is accounted for: in the attempt's summary or, while the *)
(* relay runs, in the relay's.                                             *)
SeenCounts == \A r \in Requests :
  /\ req[r].seen => ~req[r].clean \/ req[r].spoke
  /\ req[r].spoke => req[r].at = "relay"

(* Until a cancellation or a deletion fails, a mark that an active turn    *)
(* met stays until the turn ends: those who would clear it have cleared it *)
(* before the turn was claimed.                                            *)
ClearIsLate == \A d \in Deletes : del[d].at = "clear" => ~row /\ ~del[d].had
MarkStays ==
  ~Withdrawn => /\ \A d \in Deletes : OwnsMark(d) /\ row => deleting /\ turn = NoTurn
                /\ \A d \in Deletes : OwnsMark(d) /\ deleting => turn = NoTurn
QuietIsClean == Undisturbed => row /\ ~deleting /\ ~cancelling

(* The turn would be replayed.                                             *)
Replayable(q) == q.terminal = "Retryable" /\ q.clean /\ ~q.replayed

(* The errors told in each stage of a turn.                                *)
Before == {"new", "start", "claim", "arm", "check", "asleep", "insert", "build",
           "send", "relay", "done"}
Account(r) ==
  LET q == req[r]
  IN  /\ q.at \in Before => q.told = 0 /\ ~q.failed
      /\ q.at = "relay" => /\ q.defer => q.clean /\ ~q.replayed
                           /\ ~q.defer /\ q.clean /\ ~q.replayed
                                => Lifecycle # "Active"
      /\ q.at \in {"settle", "decide"} =>
           /\ ~q.failed
           /\ q.deferred => Replayable(q) /\ q.told = 0
           /\ ~q.deferred => q.told = IF IsError(q.terminal) THEN 1 ELSE 0
           /\ ~q.deferred /\ Replayable(q) => Lifecycle # "Active"
      /\ q.at = "tell" => q.failed /\ q.told = IF q.deferred THEN 0 ELSE 1
      /\ q.at \in {"evict", "release", "notify"} =>
           /\ ~q.failed => q.told = 0
           /\ q.failed => q.told \in {0, 1}
           /\ q.failed /\ Undisturbed => q.told = 1
Accounts == ~Withdrawn => \A r \in Requests : Account(r)

------------------------------------------------------------------------------
(* Types.                                                                  *)

LEMMA LifecycleType == TypeOK => Lifecycle \in Lifecycles
  BY DEF TypeOK, Lifecycle, Lifecycles

LEMMA NewRequestType == NewRequest \in Request
  BY RuntimeAssumption DEF NewRequest, Request, Stages, Lifecycles, Terminals

LEMMA InitType == Init => TypeOK
  <1>1. ASSUME Init
        PROVE  /\ req \in [Requests -> Request] /\ cancel \in [Cancels -> CancelCall]
               /\ del \in [Deletes -> DeleteCall]
    BY <1>1, NewRequestType DEF Init, CancelCall, DeleteCall
  <1>. QED
    BY <1>1 DEF Init, RuntimeInit, TypeOK

(* The stages and results a step names.                                    *)
LEMMA StageTypes ==
  /\ {"claim", "done", "build", "insert", "arm", "check", "start", "asleep", "release",
      "send", "relay", "settle", "decide", "evict", "tell", "notify"} \subseteq Stages
  /\ "Finish" \in Terminals /\ "Active" \in Lifecycles
  BY DEF Stages, Holding, Waiting, Terminals, Lifecycles

LEMMA TipType ==
  ASSUME TypeOK, NEW r \in Requests
  PROVE  Tip(r) \in Nat
  BY DEF TypeOK, Request, Tip

LEMMA RequestUpdate ==
  ASSUME req \in [Requests -> Request], NEW r \in Requests, NEW q \in Request,
         req' = [req EXCEPT ![r] = q]
  PROVE  req' \in [Requests -> Request]
  OBVIOUS

(* The steps of a turn that only change its request.                       *)
LocalStep(r) ==
  \/ Lookup(r) \/ Arm(r) \/ Check(r) \/ WakeUp(r) \/ Insert(r) \/ BuildFails(r)
  \/ Send(r) \/ Output(r) \/ Settle(r) \/ Decide(r) \/ Tell(r)
  \/ \E t \in Terminals, b \in BOOLEAN : RelayEnds(r, t, b)

LEMMA TurnSteps ==
  ASSUME NEW r \in Requests, Turns(r)
  PROVE  \/ LocalStep(r) \/ Claim(r) \/ Build(r) \/ Evict(r) \/ Release(r) \/ Notify(r)
  BY DEF Turns, Proceeds, LocalStep

LEMMA LocalFrame ==
  ASSUME NEW r \in Requests, LocalStep(r)
  PROVE  UNCHANGED <<runtimeVars, caller, row, agent, killed, cancel, del>>
  <1>1. ASSUME Lookup(r) \/ Arm(r) \/ Check(r) \/ WakeUp(r) \/ Insert(r) \/ BuildFails(r)
        PROVE  UNCHANGED <<runtimeVars, caller, row, agent, killed, cancel, del>>
    BY <1>1, Zenon DEF Lookup, Arm, Check, WakeUp, Insert, BuildFails
  <1>2. ASSUME Send(r) \/ Output(r) \/ Settle(r) \/ Decide(r) \/ Tell(r)
        PROVE  UNCHANGED <<runtimeVars, caller, row, agent, killed, cancel, del>>
    BY <1>2, Zenon DEF Send, Output, Settle, Decide, Tell
  <1>3. ASSUME NEW t \in Terminals, NEW b \in BOOLEAN, RelayEnds(r, t, b)
        PROVE  UNCHANGED <<runtimeVars, caller, row, agent, killed, cancel, del>>
    BY <1>3, Zenon DEF RelayEnds
  <1>. QED  BY <1>1, <1>2, <1>3, Zenon DEF LocalStep

LEMMA LocalType ==
  ASSUME TypeOK, NEW r \in Requests, LocalStep(r)
  PROVE  req' \in [Requests -> Request]
  <1>1. req \in [Requests -> Request] /\ req[r] \in Request
    BY DEF TypeOK
  <1>2. CASE \/ Lookup(r) \/ Check(r) \/ WakeUp(r) \/ Insert(r)
    <2>1. PICK a \in Stages : req' = [req EXCEPT ![r] = [@ EXCEPT !.at = a]]
      BY <1>2, StageTypes DEF Lookup, Check, WakeUp, Insert, Goto
    <2>2. [req[r] EXCEPT !.at = a] \in Request
      BY <1>1 DEF Request
    <2>. QED  BY <1>1, <2>1, <2>2, RequestUpdate
  <1>3. CASE Arm(r)
    <2>1. PICK a \in Stages :
            req' = [req EXCEPT ![r] = [@ EXCEPT !.at = a, !.woken = FALSE]]
      BY <1>3, StageTypes DEF Arm
    <2>2. [req[r] EXCEPT !.at = a, !.woken = FALSE] \in Request
      BY <1>1 DEF Request
    <2>. QED  BY <1>1, <2>1, <2>2, RequestUpdate
  <1>4. CASE BuildFails(r)
    <2>1. PICK a \in Stages, n \in Nat :
            req' = [req EXCEPT ![r] = [@ EXCEPT !.at = a, !.failed = TRUE, !.told = n]]
      BY <1>4, StageTypes, TipType DEF BuildFails
    <2>2. [req[r] EXCEPT !.at = a, !.failed = TRUE, !.told = n] \in Request
      BY <1>1 DEF Request
    <2>. QED  BY <1>1, <2>1, <2>2, RequestUpdate
  <1>5. CASE Send(r)
    <2>1. PICK a \in Stages, l \in Lifecycles, b \in BOOLEAN :
            req' = [req EXCEPT ![r] = [@ EXCEPT !.at = a, !.lifecycle = l,
                                                !.spoke = FALSE, !.defer = b]]
      BY <1>5, StageTypes, LifecycleType DEF Send
    <2>2. [req[r] EXCEPT !.at = a, !.lifecycle = l, !.spoke = FALSE, !.defer = b]
            \in Request
      BY <1>1 DEF Request
    <2>. QED  BY <1>1, <2>1, <2>2, RequestUpdate
  <1>6. CASE Output(r)
    <2>1. req' = [req EXCEPT ![r] = [@ EXCEPT !.spoke = TRUE, !.seen = TRUE]]
      BY <1>6 DEF Output
    <2>2. [req[r] EXCEPT !.spoke = TRUE, !.seen = TRUE] \in Request
      BY <1>1 DEF Request
    <2>. QED  BY <1>1, <2>1, <2>2, RequestUpdate
  <1>7. CASE Settle(r)
    <2>1. CASE Continues(req[r].lifecycle, req[r].terminal, req[r].responses,
                         req[r].count)
      <3>1. PICK a \in Stages, i \in 0 .. MaxContinuations, t \in Terminals :
              req' = [req EXCEPT ![r] = [@ EXCEPT !.at = a, !.count = i,
                                           !.responses = FALSE, !.terminal = t]]
        <4>1. req[r].count + 1 \in 0 .. MaxContinuations
          BY <1>1, <2>1, RuntimeAssumption DEF Request, Continues
        <4>. QED  BY <1>7, <2>1, <4>1, StageTypes DEF Settle
      <3>2. [req[r] EXCEPT !.at = a, !.count = i, !.responses = FALSE, !.terminal = t]
              \in Request
        BY <1>1 DEF Request
      <3>. QED  BY <1>1, <3>1, <3>2, RequestUpdate
    <2>2. CASE ~Continues(req[r].lifecycle, req[r].terminal, req[r].responses,
                          req[r].count)
      <3>1. PICK a \in Stages, i \in 0 .. MaxContinuations, l \in Lifecycles :
              req' = [req EXCEPT ![r] = [@ EXCEPT !.at = a, !.count = i,
                                           !.responses = FALSE, !.lifecycle = l]]
        <4>1. 0 \in 0 .. MaxContinuations
          BY RuntimeAssumption
        <4>. QED  BY <1>7, <2>2, <4>1, StageTypes DEF Settle
      <3>2. [req[r] EXCEPT !.at = a, !.count = i, !.responses = FALSE, !.lifecycle = l]
              \in Request
        BY <1>1 DEF Request
      <3>. QED  BY <1>1, <3>1, <3>2, RequestUpdate
    <2>. QED  BY <2>1, <2>2
  <1>8. CASE Decide(r)
    <2>1. \/ \E a \in Stages : req' = [req EXCEPT ![r] =
                [@ EXCEPT !.at = a, !.replayed = TRUE, !.deferred = FALSE]]
          \/ \E a \in Stages, l \in Lifecycles : req' = [req EXCEPT ![r] =
                [@ EXCEPT !.at = a, !.failed = TRUE, !.lifecycle = l]]
          \/ \E a \in Stages : req' = [req EXCEPT ![r] = [@ EXCEPT !.at = a]]
      BY <1>8, StageTypes, LifecycleType DEF Decide
    <2>2. ASSUME NEW a \in Stages, NEW l \in Lifecycles
          PROVE  /\ [req[r] EXCEPT !.at = a, !.replayed = TRUE, !.deferred = FALSE]
                      \in Request
                 /\ [req[r] EXCEPT !.at = a, !.failed = TRUE, !.lifecycle = l]
                      \in Request
                 /\ [req[r] EXCEPT !.at = a] \in Request
      BY <1>1 DEF Request
    <2>. QED  BY <1>1, <2>1, <2>2, RequestUpdate, StageTypes
  <1>9. CASE Tell(r)
    <2>1. PICK a \in Stages, n \in Nat :
            req' = [req EXCEPT ![r] = [@ EXCEPT !.told = n, !.at = a]]
      <3>1. req[r].told \in Nat
        BY <1>1 DEF Request
      <3>. QED  BY <1>9, <3>1, StageTypes, TipType DEF Tell
    <2>2. [req[r] EXCEPT !.told = n, !.at = a] \in Request
      BY <1>1 DEF Request
    <2>. QED  BY <1>1, <2>1, <2>2, RequestUpdate
  <1>10. ASSUME NEW t \in Terminals, NEW b \in BOOLEAN, RelayEnds(r, t, b)
         PROVE  req' \in [Requests -> Request]
    <2>. DEFINE d == req[r].defer /\ t = "Retryable" /\ ~req[r].spoke
                c == req[r].clean /\ ~req[r].spoke
                n == IF IsError(t) /\ ~d THEN req[r].told + 1 ELSE req[r].told
    <2>1. req' = [req EXCEPT ![r] =
              [@ EXCEPT !.at = "settle", !.terminal = t, !.responses = b,
                        !.deferred = d, !.clean = c, !.spoke = FALSE, !.defer = FALSE,
                        !.told = n]]
      BY <1>10 DEF RelayEnds
    <2>2. d \in BOOLEAN /\ c \in BOOLEAN /\ n \in Nat
      BY <1>1 DEF Request
    <2>. HIDE DEF d, c, n
    <2>3. \A a \in Stages : [req[r] EXCEPT !.at = a, !.terminal = t, !.responses = b,
             !.deferred = d, !.clean = c, !.spoke = FALSE, !.defer = FALSE,
             !.told = n] \in Request
      BY <1>1, <2>2 DEF Request
    <2>. QED  BY <1>1, <2>1, <2>3, RequestUpdate, StageTypes
  <1>. QED  BY <1>2, <1>3, <1>4, <1>5, <1>6, <1>7, <1>8, <1>9, <1>10 DEF LocalStep

LEMMA TurnsType ==
  ASSUME TypeOK, NEW r \in Requests, Turns(r)
  PROVE  TypeOK'
  <1>1. req \in [Requests -> Request] /\ req[r] \in Request
    BY DEF TypeOK
  <1>2. CASE LocalStep(r)
    BY <1>2, LocalFrame, LocalType DEF TypeOK, runtimeVars
  <1>3. CASE Claim(r)
    <2>1. PICK a \in Stages : req' = [req EXCEPT ![r] = [@ EXCEPT !.at = a]]
      BY <1>3, StageTypes DEF Claim, Goto
    <2>2. [req[r] EXCEPT !.at = a] \in Request
      BY <1>1 DEF Request
    <2>3. req' \in [Requests -> Request]
      BY <1>1, <2>1, <2>2, RequestUpdate
    <2>. QED  BY <1>3, <2>3 DEF Claim, TypeOK, TryClaimTurn, runtimeVars
  <1>4. CASE Build(r)
    <2>1. PICK a \in Stages, i \in 0 .. MaxContinuations :
            req' = [req EXCEPT ![r] = [@ EXCEPT !.at = a, !.count = i]]
      <3>1. 0 \in 0 .. MaxContinuations
        BY RuntimeAssumption
      <3>. QED  BY <1>4, <3>1, StageTypes DEF Build
    <2>2. [req[r] EXCEPT !.at = a, !.count = i] \in Request
      BY <1>1 DEF Request
    <2>3. req' \in [Requests -> Request]
      BY <1>1, <2>1, <2>2, RequestUpdate
    <2>. QED  BY <1>4, <2>3 DEF Build, TypeOK, runtimeVars
  <1>5. CASE Evict(r)
    <2>1. PICK a \in Stages : req' = [req EXCEPT ![r] = [@ EXCEPT !.at = a]]
      BY <1>5, StageTypes DEF Evict, Goto
    <2>2. [req[r] EXCEPT !.at = a] \in Request
      BY <1>1 DEF Request
    <2>3. req' \in [Requests -> Request]
      BY <1>1, <2>1, <2>2, RequestUpdate
    <2>. QED  BY <1>5, <2>3 DEF Evict, KillAgent, TypeOK, runtimeVars
  <1>6. CASE Release(r)
    <2>1. ASSUME NEW a \in Stages, NEW f \in BOOLEAN, NEW n \in Nat
          PROVE  [NewRequest EXCEPT !.at = a, !.failed = f, !.told = n] \in Request
      BY NewRequestType DEF Request
    <2>2. req[r].failed \in BOOLEAN /\ req[r].told \in Nat
      BY <1>1 DEF Request
    <2>3. req' \in [Requests -> Request]
      BY <1>1, <1>6, <2>1, <2>2, RequestUpdate, StageTypes DEF Release
    <2>. QED  BY <1>6, <2>3 DEF Release, ReleaseTurn, TypeOK
  <1>7. CASE Notify(r)
    <2>1. ASSUME NEW q \in Requests
          PROVE  [req[q] EXCEPT !.woken = @ \/ req[q].at \in {"check", "asleep"}] \in Request
      BY DEF Request, TypeOK
    <2>2. ASSUME NEW a \in Stages
          PROVE  [NewRequest EXCEPT !.at = a] \in Request
      BY NewRequestType DEF Request
    <2>3. [NewRequest EXCEPT !.at = "done"] \in Request
      BY <2>2, StageTypes
    <2>4. req' \in [Requests -> Request]
      BY <1>7, <2>1, <2>3 DEF Notify
    <2>. QED  BY <1>7, <2>4 DEF Notify, TypeOK, runtimeVars
  <1>. QED  BY <1>2, <1>3, <1>4, <1>5, <1>6, <1>7, TurnSteps

LEMMA CallsType ==
  ASSUME TypeOK,
         \/ \E k \in Cancels : CancelProceeds(k) \/ \E r \in Requests : CancelTurn(k, r)
         \/ \E d \in Deletes : DeleteMarks(d) \/ DeleteProceeds(d)
         \/ Shutdown \/ ShutdownKills
  PROVE  TypeOK'
  <1>1. ASSUME NEW k \in Cancels, NEW r \in Requests, CancelTurn(k, r)
        PROVE  TypeOK'
    BY <1>1 DEF CancelTurn, TypeOK, CancelCall, runtimeVars
  <1>2. ASSUME NEW k \in Cancels, CancelProceeds(k)
        PROVE  TypeOK'
    <2>1. CASE CancelMarks(k)
      BY <2>1 DEF CancelMarks, MarkCancelling, TypeOK, CancelCall
    <2>2. CASE CancelAsks(k)
      BY <2>2 DEF CancelAsks, ClearCancelling, TypeOK, CancelCall, runtimeVars
    <2>3. CASE DrainTimeout(k)
      BY <2>3 DEF DrainTimeout, TypeOK, CancelCall, runtimeVars
    <2>4. CASE CancelKills(k)
      BY <2>4 DEF CancelKills, KillAgent, TypeOK, CancelCall, runtimeVars
    <2>. QED  BY <1>2, <2>1, <2>2, <2>3, <2>4 DEF CancelProceeds
  <1>3. ASSUME NEW d \in Deletes, DeleteMarks(d) \/ DeleteProceeds(d)
        PROVE  TypeOK'
    <2>1. CASE DeleteMarks(d)
      BY <2>1 DEF DeleteMarks, MarkDeleting, TypeOK, DeleteCall
    <2>2. CASE DeleteHooks(d)
      BY <2>2 DEF DeleteHooks, KillAgent, TypeOK, DeleteCall, runtimeVars
    <2>3. CASE DeleteRow(d)
      <3>1. PICK a \in {"done", "clear", "failed"} : del' = [del EXCEPT ![d].at = a]
        BY <2>3 DEF DeleteRow
      <3>2. del' \in [Deletes -> DeleteCall]
        BY <3>1 DEF TypeOK, DeleteCall
      <3>. QED  BY <2>3, <3>2 DEF DeleteRow, ClearDeleting, TypeOK, runtimeVars
    <2>4. CASE DeleteClears(d)
      BY <2>4 DEF DeleteClears, ClearDeleting, TypeOK, DeleteCall
    <2>. QED  BY <1>3, <2>1, <2>2, <2>3, <2>4 DEF DeleteProceeds
  <1>4. CASE Shutdown
    BY <1>4 DEF Shutdown, MarkShuttingDown, TypeOK, turnVars
  <1>5. CASE ShutdownKills
    BY <1>5 DEF ShutdownKills, KillAgent, TypeOK, runtimeVars
  <1>. QED  BY <1>1, <1>2, <1>3, <1>4, <1>5

LEMMA TypeStep == TypeOK /\ [Next]_vars => TypeOK'
  <1>1. CASE UNCHANGED vars
    BY <1>1 DEF TypeOK, vars, runtimeVars, turnVars
  <1>. QED  BY <1>1, TurnsType, CallsType DEF Next

(* However turns, cancellations, deletions and the shutdown interleave,    *)
(* the runtime state and the tasks stay well formed; in particular a turn  *)
(* continues at most MaxContinuations times.                               *)
THEOREM TurnsTypeCorrect == Spec => []TypeOK
  BY InitType, TypeStep, PTL DEF Spec

------------------------------------------------------------------------------
(* One turn at a time.                                                     *)

(* A step that only changes its request neither takes nor drops the claim, *)
(* is not the one that wakes the waiters, and falls asleep only beside an  *)
(* active turn.                                                            *)
LEMMA LocalStage ==
  ASSUME TypeOK, NEW r \in Requests, LocalStep(r)
  PROVE  /\ \A q \in Requests \ {r} : req'[q] = req[q]
         /\ req[r].at \in Holding <=> req'[r].at \in Holding
         /\ req[r].at # "notify"
         /\ req'[r].at = "asleep" => turn # NoTurn
  <1>1. req \in [Requests -> Request]
    BY DEF TypeOK
  <1>2. CASE Lookup(r) \/ Arm(r) \/ Check(r) \/ WakeUp(r) \/ Insert(r)
    BY <1>1, <1>2 DEF Lookup, Arm, Check, WakeUp, Insert, Goto, Holding, Request
  <1>3. CASE BuildFails(r) \/ Send(r) \/ Output(r)
    BY <1>1, <1>3 DEF BuildFails, Send, Output, Holding, Request
  <1>4. CASE Settle(r)
    BY <1>1, <1>4 DEF Settle, Holding, Request
  <1>5. CASE Decide(r)
    BY <1>1, <1>5 DEF Decide, Holding, Request
  <1>6. CASE Tell(r)
    BY <1>1, <1>6 DEF Tell, Holding, Request
  <1>7. ASSUME NEW t \in Terminals, NEW b \in BOOLEAN, RelayEnds(r, t, b)
        PROVE  /\ \A q \in Requests \ {r} : req'[q] = req[q]
               /\ req[r].at \in Holding <=> req'[r].at \in Holding
               /\ req[r].at # "notify"
               /\ req'[r].at = "asleep" => turn # NoTurn
    BY <1>1, <1>7 DEF RelayEnds, Holding, Request
  <1>. QED  BY <1>2, <1>3, <1>4, <1>5, <1>6, <1>7 DEF LocalStep

(* The calls of cancel and delete and the shutdown leave claims alone.     *)
LEMMA CallsFrame ==
  ASSUME \/ \E k \in Cancels : CancelProceeds(k) \/ \E r \in Requests : CancelTurn(k, r)
         \/ \E d \in Deletes : DeleteMarks(d) \/ DeleteProceeds(d)
         \/ Shutdown \/ ShutdownKills
  PROVE  UNCHANGED <<turn, req>>
  <1>1. ASSUME NEW k \in Cancels, CancelProceeds(k) \/ \E r \in Requests : CancelTurn(k, r)
        PROVE  UNCHANGED <<turn, req>>
    BY <1>1 DEF CancelProceeds, CancelTurn, CancelMarks, CancelAsks, DrainTimeout,
                CancelKills, MarkCancelling, ClearCancelling, runtimeVars
  <1>2. ASSUME NEW d \in Deletes, DeleteMarks(d) \/ DeleteProceeds(d)
        PROVE  UNCHANGED <<turn, req>>
    BY <1>2 DEF DeleteProceeds, DeleteMarks, DeleteHooks, DeleteRow, DeleteClears,
                MarkDeleting, ClearDeleting, runtimeVars
  <1>3. CASE Shutdown \/ ShutdownKills
    BY <1>3 DEF Shutdown, ShutdownKills, MarkShuttingDown, turnVars, runtimeVars
  <1>. QED  BY <1>1, <1>2, <1>3

LEMMA OneTurnInit == Init => OneTurnAtATime
  BY RuntimeAssumption DEF Init, RuntimeInit, NewRequest, OneTurnAtATime, Holding

LEMMA OneTurnStep == TypeOK /\ OneTurnAtATime /\ [Next]_vars => OneTurnAtATime'
  <1>. SUFFICES ASSUME TypeOK, OneTurnAtATime, [Next]_vars
                PROVE  OneTurnAtATime'
    OBVIOUS
  <1>1. req \in [Requests -> Request]
    BY DEF TypeOK
  <1>2. ASSUME NEW r \in Requests, Turns(r)
        PROVE  OneTurnAtATime'
    <2>1. CASE LocalStep(r)
      BY <2>1, LocalStage, LocalFrame DEF OneTurnAtATime, runtimeVars
    <2>2. CASE Claim(r)
      BY <1>1, <2>2, RuntimeAssumption
         DEF Claim, Goto, TryClaimTurn, MayClaim, OneTurnAtATime, Holding, runtimeVars, Request
    <2>3. CASE Build(r)
      BY <1>1, <2>3 DEF Build, OneTurnAtATime, Holding, runtimeVars, Request
    <2>4. CASE Evict(r)
      BY <1>1, <2>4 DEF Evict, Goto, OneTurnAtATime, Holding, runtimeVars, Request
    <2>5. CASE Release(r)
      BY <1>1, <2>5, RuntimeAssumption
         DEF Release, ReleaseTurn, OneTurnAtATime, Holding, Request, NewRequest
    <2>6. CASE Notify(r)
      BY <1>1, <2>6 DEF Notify, OneTurnAtATime, Holding, runtimeVars, Request, NewRequest
    <2>. QED  BY <1>2, <2>1, <2>2, <2>3, <2>4, <2>5, <2>6, TurnSteps
  <1>3. CASE UNCHANGED <<turn, req>>
    BY <1>3 DEF OneTurnAtATime
  <1>. QED  BY <1>2, <1>3, CallsFrame DEF Next, vars, runtimeVars, turnVars

(* However claims, releases, cancellations, deletions and retries          *)
(* interleave, the stages that talk to the agent and write messages belong *)
(* to the one turn the runtime state names.                                *)
THEOREM OneTurnCorrect == Spec => []OneTurnAtATime
  BY InitType, TypeStep, OneTurnInit, OneTurnStep, PTL DEF Spec

------------------------------------------------------------------------------
(* No missed release.                                                      *)

LEMMA NoMissedStep ==
  TypeOK /\ OneTurnAtATime /\ NoMissedRelease /\ [Next]_vars => NoMissedRelease'
  <1>. SUFFICES ASSUME TypeOK, OneTurnAtATime, NoMissedRelease, [Next]_vars
                PROVE  NoMissedRelease'
    OBVIOUS
  <1>1. req \in [Requests -> Request]
    BY DEF TypeOK
  <1>2. ASSUME NEW r \in Requests, Turns(r)
        PROVE  NoMissedRelease'
    <2>1. CASE LocalStep(r)
      BY <2>1, LocalStage, LocalFrame DEF NoMissedRelease, runtimeVars
    <2>2. CASE Claim(r)
      BY <1>1, <2>2, RuntimeAssumption
         DEF Claim, Goto, TryClaimTurn, NoMissedRelease, runtimeVars, Request
    <2>3. CASE Build(r)
      BY <1>1, <2>3 DEF Build, NoMissedRelease, runtimeVars, Request
    <2>4. CASE Evict(r)
      BY <1>1, <2>4 DEF Evict, Goto, NoMissedRelease, runtimeVars, Request
    <2>5. CASE Release(r)
      <3>1. req'[r].at = "notify"
        BY <1>1, <2>5 DEF Release, NewRequest
      <3>. QED  BY <3>1 DEF NoMissedRelease
    <2>6. CASE Notify(r)
      <3>1. ASSUME NEW q \in Requests, req'[q].at = "asleep"
            PROVE  req'[q].woken
        BY <1>1, <2>6, <3>1 DEF Notify, Request, NewRequest
      <3>. QED  BY <3>1 DEF NoMissedRelease
    <2>. QED  BY <1>2, <2>1, <2>2, <2>3, <2>4, <2>5, <2>6, TurnSteps
  <1>3. CASE UNCHANGED <<turn, req>>
    BY <1>3 DEF NoMissedRelease
  <1>. QED  BY <1>2, <1>3, CallsFrame DEF Next, vars, runtimeVars, turnVars

(* A team turn that sleeps in wait_until_unclaimed sleeps for a turn that  *)
(* is still active, or its wake-up is on the way: no release falls between *)
(* its registration, its look at the claim and its sleep.                  *)
THEOREM NoMissedReleaseCorrect == Spec => []NoMissedRelease
  <1>1. Init => NoMissedRelease
    BY DEF Init, NewRequest, NoMissedRelease
  <1>. QED
    BY <1>1, InitType, TypeStep, OneTurnInit, OneTurnStep, NoMissedStep, PTL DEF Spec

------------------------------------------------------------------------------
(* The deleting mark.                                                      *)

LEMMA MarkOwnedStep ==
  TypeOK /\ OneTurnAtATime /\ MarkOwned /\ [Next]_vars => MarkOwned'
  <1>. SUFFICES ASSUME TypeOK, OneTurnAtATime, MarkOwned, [Next]_vars
                PROVE  MarkOwned'
    OBVIOUS
  <1>. USE DEF MarkOwned, OwnsMark, Pending
  <1>1. del \in [Deletes -> DeleteCall]
    BY DEF TypeOK
  <1>2. ASSUME NEW r \in Requests, Turns(r)
        PROVE  MarkOwned'
    <2>1. CASE LocalStep(r)
      BY <2>1, LocalFrame DEF runtimeVars
    <2>2. CASE Claim(r)
      BY <2>2, RuntimeAssumption DEF Claim, TryClaimTurn, runtimeVars
    <2>3. CASE Build(r) \/ Evict(r) \/ Notify(r)
      BY <2>3 DEF Build, Evict, Notify, runtimeVars
    <2>4. CASE Release(r)
      BY <2>4 DEF Release, ReleaseTurn, OneTurnAtATime, Holding
    <2>. QED  BY <1>2, <2>1, <2>2, <2>3, <2>4, TurnSteps
  <1>3. ASSUME NEW k \in Cancels, CancelProceeds(k) \/ \E r \in Requests : CancelTurn(k, r)
        PROVE  MarkOwned'
    BY <1>3 DEF CancelProceeds, CancelTurn, CancelMarks, CancelAsks, DrainTimeout,
                CancelKills, MarkCancelling, ClearCancelling, runtimeVars
  <1>4. ASSUME NEW d \in Deletes, DeleteMarks(d) \/ DeleteProceeds(d)
        PROVE  MarkOwned'
    <2>1. CASE DeleteMarks(d)
      BY <1>1, <2>1 DEF DeleteMarks, MarkDeleting, DeleteCall
    <2>2. CASE DeleteHooks(d)
      BY <1>1, <2>2 DEF DeleteHooks, DeleteCall, runtimeVars
    <2>3. CASE DeleteRow(d)
      BY <1>1, <2>3 DEF DeleteRow, ClearDeleting, DeleteCall, runtimeVars
    <2>4. CASE DeleteClears(d)
      BY <2>4 DEF DeleteClears, ClearDeleting
    <2>. QED  BY <1>4, <2>1, <2>2, <2>3, <2>4 DEF DeleteProceeds
  <1>5. CASE Shutdown \/ ShutdownKills
    BY <1>5 DEF Shutdown, ShutdownKills, MarkShuttingDown, turnVars, runtimeVars
  <1>6. CASE UNCHANGED vars
    BY <1>6 DEF vars, turnVars, runtimeVars
  <1>. QED  BY <1>2, <1>3, <1>4, <1>5, <1>6 DEF Next

(* A conversation is never left marked as being deleted: a deletion that   *)
(* found a turn leaves the mark to it, and every other one clears it       *)
(* itself, whichever of several deletions, turns and failures come first.  *)
THEOREM DeletingMarkCorrect == Spec => []DeletingMarkIsOwned
  <1>1. Init => MarkOwned
    BY DEF Init, RuntimeInit, MarkOwned
  <1>2. MarkOwned => DeletingMarkIsOwned
    BY DEF MarkOwned, OwnsMark, Pending, DeletingMarkIsOwned
  <1>. QED
    BY <1>1, <1>2, InitType, TypeStep, OneTurnInit, OneTurnStep, MarkOwnedStep, PTL
       DEF Spec

------------------------------------------------------------------------------
(* Replays.                                                                *)

LEMMA SeenStep ==
  ASSUME TypeOK, SeenCounts, [Next]_vars
  PROVE  /\ SeenCounts'
         /\ \A r \in Requests : req'[r].replayed /\ ~req[r].replayed => ~req[r].seen
  <1>. DEFINE Kept(q) == /\ req'[q].seen => ~req'[q].clean \/ req'[q].spoke
                         /\ req'[q].spoke => req'[q].at = "relay"
              Unseen(q) == req'[q].replayed /\ ~req[q].replayed => ~req[q].seen
  <1>. SUFFICES \A q \in Requests : Kept(q) /\ Unseen(q)
    BY DEF SeenCounts
  <1>. TAKE q \in Requests
  <1>1. req \in [Requests -> Request]
    BY DEF TypeOK
  <1>2. CASE req'[q] = req[q]
    BY <1>2 DEF SeenCounts
  <1>3. ASSUME Turns(q)
        PROVE  Kept(q) /\ Unseen(q)
    <2>. USE DEF SeenCounts, Request
    <2>1. CASE Lookup(q) \/ Arm(q) \/ Check(q) \/ WakeUp(q) \/ Insert(q)
      BY <1>1, <2>1 DEF Lookup, Arm, Check, WakeUp, Insert, Goto
    <2>2. CASE BuildFails(q) \/ Send(q) \/ Output(q)
      BY <1>1, <2>2 DEF BuildFails, Send, Output
    <2>3. CASE Settle(q)
      BY <1>1, <2>3 DEF Settle
    <2>4. CASE Decide(q)
      BY <1>1, <2>4 DEF Decide, AutoReplays
    <2>5. CASE Tell(q) \/ Evict(q) \/ Build(q) \/ Claim(q)
      BY <1>1, <2>5 DEF Tell, Evict, Build, Claim, Goto
    <2>6. ASSUME NEW t \in Terminals, NEW b \in BOOLEAN, RelayEnds(q, t, b)
          PROVE  Kept(q) /\ Unseen(q)
      BY <1>1, <2>6 DEF RelayEnds
    <2>7. CASE Release(q)
      BY <1>1, <2>7 DEF Release, NewRequest
    <2>8. CASE Notify(q)
      BY <1>1, <2>8 DEF Notify, NewRequest
    <2>. QED
      BY <1>3, <2>1, <2>2, <2>3, <2>4, <2>5, <2>6, <2>7, <2>8, TurnSteps
         DEF LocalStep
  <1>4. ASSUME NEW r \in Requests \ {q}, Turns(r)
        PROVE  Kept(q) /\ Unseen(q)
    <2>1. CASE LocalStep(r)
      BY <1>2, <2>1, LocalStage
    <2>2. CASE Claim(r) \/ Build(r) \/ Evict(r) \/ Release(r)
      BY <1>1, <1>2, <2>2 DEF Claim, Build, Evict, Release, Goto
    <2>3. CASE Notify(r)
      BY <1>1, <2>3 DEF Notify, SeenCounts, Request
    <2>. QED  BY <1>4, <2>1, <2>2, <2>3, TurnSteps
  <1>. QED  BY <1>2, <1>3, <1>4, CallsFrame DEF Next, vars, turnVars

(* A turn is replayed on a new agent only if the user was shown nothing of *)
(* it, over all the relays of its continuations.                           *)
THEOREM ReplayCorrect == Spec => ReplayIsUnseen
  <1>1. Init => SeenCounts
    BY DEF Init, NewRequest, SeenCounts
  <1>2. TypeOK /\ SeenCounts /\ [Next]_vars
          => SeenCounts' /\ [\A r \in Requests :
                 req'[r].replayed /\ ~req[r].replayed => ~req[r].seen]_vars
    BY SeenStep
  <1>. QED
    BY <1>1, <1>2, InitType, TypeStep, PTL DEF Spec, ReplayIsUnseen

------------------------------------------------------------------------------
(* Errors.                                                                 *)

LEMMA ActiveIsUnmarked ==
  TypeOK => (Lifecycle = "Active" <=> ~shuttingDown /\ ~deleting /\ ~cancelling)
  BY DEF TypeOK, Lifecycle

(* Calls that began or failed have done so for good.                       *)
LEMMA HistoryStays ==
  ASSUME TypeOK, [Next]_vars
  PROVE  (Withdrawn => Withdrawn') /\ (Undisturbed' => Undisturbed)
  <1>. USE DEF Withdrawn, Undisturbed
  <1>1. cancel \in [Cancels -> CancelCall] /\ del \in [Deletes -> DeleteCall]
    BY DEF TypeOK
  <1>2. ASSUME NEW r \in Requests, Turns(r)
        PROVE  UNCHANGED <<cancel, del, shuttingDown>>
    <2>1. CASE LocalStep(r)
      BY <2>1, LocalFrame DEF runtimeVars
    <2>2. CASE Claim(r) \/ Build(r) \/ Evict(r) \/ Release(r) \/ Notify(r)
      BY <2>2 DEF Claim, Build, Evict, Release, Notify, TryClaimTurn, ReleaseTurn,
                  runtimeVars
    <2>. QED  BY <1>2, <2>1, <2>2, TurnSteps
  <1>3. ASSUME NEW k \in Cancels, CancelProceeds(k) \/ \E r \in Requests : CancelTurn(k, r)
        PROVE  (Withdrawn => Withdrawn') /\ (Undisturbed' => Undisturbed)
    <2>1. /\ \A j \in Cancels \ {k} : cancel'[j] = cancel[j]
          /\ cancel[k].at # "failed" /\ cancel'[k].at # "new"
          /\ UNCHANGED <<del, shuttingDown>>
      BY <1>1, <1>3
         DEF CancelProceeds, CancelTurn, CancelMarks, CancelAsks, DrainTimeout,
             CancelKills, MarkCancelling, ClearCancelling, runtimeVars, CancelCall
    <2>. QED  BY <2>1
  <1>4. ASSUME NEW d \in Deletes, DeleteMarks(d) \/ DeleteProceeds(d)
        PROVE  (Withdrawn => Withdrawn') /\ (Undisturbed' => Undisturbed)
    <2>1. /\ \A e \in Deletes \ {d} : del'[e] = del[e]
          /\ del[d].at # "failed" /\ del'[d].at # "new"
          /\ UNCHANGED <<cancel, shuttingDown>>
      BY <1>1, <1>4
         DEF DeleteProceeds, DeleteMarks, DeleteHooks, DeleteRow, DeleteClears,
             MarkDeleting, ClearDeleting, runtimeVars, DeleteCall
    <2>. QED  BY <2>1
  <1>5. CASE Shutdown \/ ShutdownKills
    BY <1>5 DEF Shutdown, ShutdownKills, MarkShuttingDown, turnVars, runtimeVars
  <1>6. CASE UNCHANGED vars
    BY <1>6 DEF vars, turnVars, runtimeVars
  <1>. QED  BY <1>2, <1>3, <1>4, <1>5, <1>6 DEF Next

MarkInv == ClearIsLate /\ MarkStays /\ QuietIsClean

LEMMA MarkInvStep ==
  ASSUME TypeOK, OneTurnAtATime, MarkInv, [Next]_vars
  PROVE  MarkInv'
  <1>. USE DEF MarkInv, ClearIsLate, MarkStays, QuietIsClean, OwnsMark, Pending
  <1>1. del \in [Deletes -> DeleteCall] /\ cancel \in [Cancels -> CancelCall]
    BY DEF TypeOK
  <1>2. ASSUME NEW r \in Requests, Turns(r)
        PROVE  MarkInv'
    <2>1. CASE LocalStep(r)
      BY <2>1, LocalFrame DEF runtimeVars, Withdrawn, Undisturbed
    <2>2. CASE Claim(r)
      BY <2>2 DEF Claim, TryClaimTurn, MayClaim, runtimeVars, Withdrawn, Undisturbed
    <2>3. CASE Build(r) \/ Evict(r) \/ Notify(r)
      BY <2>3 DEF Build, Evict, Notify, runtimeVars, Withdrawn, Undisturbed
    <2>4. CASE Release(r)
      <3>1. turn = r /\ turn # NoTurn
        BY <2>4, RuntimeAssumption DEF Release, OneTurnAtATime, Holding
      <3>. QED  BY <2>4, <3>1 DEF Release, ReleaseTurn, Withdrawn, Undisturbed
    <2>. QED  BY <1>2, <2>1, <2>2, <2>3, <2>4, TurnSteps
  <1>3. ASSUME NEW k \in Cancels, CancelProceeds(k) \/ \E r \in Requests : CancelTurn(k, r)
        PROVE  MarkInv'
    <2>1. UNCHANGED <<turn, row, deleting, del>> /\ cancel'[k].at # "new"
      BY <1>1, <1>3
         DEF CancelProceeds, CancelTurn, CancelMarks, CancelAsks, DrainTimeout,
             CancelKills, MarkCancelling, ClearCancelling, runtimeVars, CancelCall
    <2>2. ~Undisturbed'
      BY <2>1 DEF Undisturbed
    <2>. QED  BY <2>1, <2>2, HistoryStays
  <1>4. ASSUME NEW d \in Deletes, DeleteMarks(d) \/ DeleteProceeds(d)
        PROVE  MarkInv'
    <2>1. CASE DeleteMarks(d)
      BY <1>1, <2>1, HistoryStays DEF DeleteMarks, MarkDeleting, DeleteCall, Undisturbed
    <2>2. CASE DeleteHooks(d)
      BY <1>1, <2>2, HistoryStays DEF DeleteHooks, DeleteCall, runtimeVars, Undisturbed
    <2>3. CASE DeleteRow(d)
      <3>1. ASSUME row' = FALSE, UNCHANGED runtimeVars,
                   del' = [del EXCEPT ![d].at = IF del[d].had THEN "done" ELSE "clear"]
            PROVE  MarkInv'
        BY <1>1, <2>3, <3>1, HistoryStays DEF DeleteRow, DeleteCall, runtimeVars, Undisturbed
      <3>2. ASSUME ClearDeleting, UNCHANGED row, del' = [del EXCEPT ![d].at = "failed"]
            PROVE  MarkInv'
        BY <1>1, <3>2 DEF DeleteCall, Withdrawn, Undisturbed, ClearDeleting
      <3>. QED  BY <2>3, <3>1, <3>2 DEF DeleteRow
    <2>4. CASE DeleteClears(d)
      BY <1>1, <2>4, HistoryStays DEF DeleteClears, ClearDeleting, DeleteCall, Undisturbed
    <2>. QED  BY <1>4, <2>1, <2>2, <2>3, <2>4 DEF DeleteProceeds
  <1>5. CASE Shutdown \/ ShutdownKills
    BY <1>5 DEF Shutdown, ShutdownKills, MarkShuttingDown, turnVars, runtimeVars,
                Withdrawn, Undisturbed
  <1>6. CASE UNCHANGED vars
    BY <1>6 DEF vars, turnVars, runtimeVars, Withdrawn, Undisturbed
  <1>. QED  BY <1>2, <1>3, <1>4, <1>5, <1>6 DEF Next

(* A lifecycle that is not active stays so as long as the turn lasts.      *)
LEMMA LifecycleStays ==
  ASSUME TypeOK, MarkInv, [Next]_vars, ~Withdrawn', turn # NoTurn, turn' = turn,
         Lifecycle # "Active"
  PROVE  Lifecycle' # "Active"
  <1>. USE DEF MarkInv, MarkStays, OwnsMark, Pending, ClearIsLate
  <1>1. TypeOK'
    BY TypeStep
  <1>2. ~Withdrawn
    BY HistoryStays
  <1>3. shuttingDown \/ deleting \/ cancelling
    BY ActiveIsUnmarked
  <1>4. SUFFICES shuttingDown' \/ deleting' \/ cancelling'
    BY <1>1 DEF TypeOK, Lifecycle
  <1>5. ASSUME NEW r \in Requests, Turns(r)
        PROVE  UNCHANGED <<shuttingDown, deleting, cancelling>>
    <2>1. CASE LocalStep(r)
      BY <2>1, LocalFrame DEF runtimeVars
    <2>2. CASE Claim(r) \/ Build(r) \/ Evict(r) \/ Release(r) \/ Notify(r)
      BY <2>2 DEF Claim, Build, Evict, Release, Notify, TryClaimTurn, ReleaseTurn,
                  runtimeVars
    <2>. QED  BY <1>5, <2>1, <2>2, TurnSteps
  <1>6. ASSUME NEW k \in Cancels, CancelProceeds(k) \/ \E r \in Requests : CancelTurn(k, r)
        PROVE  shuttingDown' \/ deleting' \/ cancelling'
    <2>1. cancel'[k].at # "failed"
      BY DEF Withdrawn
    <2>. QED
      BY <1>3, <1>6, <2>1
         DEF CancelProceeds, CancelTurn, CancelMarks, CancelAsks, DrainTimeout,
             CancelKills, MarkCancelling, ClearCancelling, runtimeVars, TypeOK, CancelCall
  <1>7. ASSUME NEW d \in Deletes, DeleteMarks(d) \/ DeleteProceeds(d)
        PROVE  shuttingDown' \/ deleting' \/ cancelling'
    <2>1. del'[d].at # "failed"
      BY DEF Withdrawn
    <2>2. CASE DeleteMarks(d) \/ DeleteHooks(d) \/ DeleteRow(d)
      BY <1>3, <2>1, <2>2
         DEF DeleteMarks, DeleteHooks, DeleteRow, MarkDeleting, ClearDeleting,
             runtimeVars, TypeOK, DeleteCall
    <2>3. CASE DeleteClears(d)
      BY <1>2, <1>3, <2>3 DEF DeleteClears, ClearDeleting
    <2>. QED  BY <1>7, <2>2, <2>3 DEF DeleteProceeds
  <1>8. CASE Shutdown \/ ShutdownKills
    BY <1>3, <1>8 DEF Shutdown, ShutdownKills, MarkShuttingDown, runtimeVars
  <1>9. CASE UNCHANGED vars
    BY <1>3, <1>9 DEF vars, runtimeVars
  <1>. QED  BY <1>3, <1>5, <1>6, <1>7, <1>8, <1>9 DEF Next

LEMMA TipCounts ==
  ASSUME TypeOK, QuietIsClean, NEW r \in Requests
  PROVE  /\ Tip(r) = req[r].told \/ Tip(r) = req[r].told + 1
         /\ Undisturbed => Tip(r) = req[r].told + 1
  <1>1. Undisturbed => Allows("SendFailureTip") /\ row
    BY ActiveIsUnmarked DEF QuietIsClean, Undisturbed, Allows
  <1>. QED  BY <1>1 DEF Tip, TypeOK, Request

(* The account of a turn that has no part in a step.                       *)
LEMMA AccountKept ==
  ASSUME TypeOK, OneTurnAtATime, MarkInv, [Next]_vars, ~Withdrawn',
         NEW q \in Requests, Account(q), turn' = turn \/ turn # q,
         req'[q] = req[q] \/ \E b \in BOOLEAN : req'[q] = [req[q] EXCEPT !.woken = b]
  PROVE  Account(q)'
  <1>1. Undisturbed' => Undisturbed
    BY HistoryStays
  <1>2. req[q].at \in {"relay", "settle", "decide"} /\ Lifecycle # "Active"
          => Lifecycle' # "Active"
    BY LifecycleStays, RuntimeAssumption DEF OneTurnAtATime, Holding
  <1>3. req[q] \in Request
    BY DEF TypeOK
  <1>4. /\ req'[q].at = req[q].at /\ req'[q].told = req[q].told
        /\ req'[q].failed = req[q].failed /\ req'[q].defer = req[q].defer
        /\ req'[q].deferred = req[q].deferred /\ req'[q].clean = req[q].clean
        /\ req'[q].replayed = req[q].replayed /\ req'[q].terminal = req[q].terminal
    BY <1>3 DEF Request
  <1>. QED  BY <1>1, <1>2, <1>4, Zenon DEF Account, Replayable

LEMMA AccountLocal ==
  ASSUME TypeOK, OneTurnAtATime, MarkInv, NEW q \in Requests, Account(q), LocalStep(q)
  PROVE  Account(q)'
  <1>. USE DEF Account, Before
  <1>1. req \in [Requests -> Request] /\ req[q] \in Request
    BY DEF TypeOK
  <1>2. Lifecycle' = Lifecycle /\ Undisturbed' = Undisturbed
    BY LocalFrame DEF Lifecycle, Undisturbed, runtimeVars
  <1>3. CASE Lookup(q) \/ Arm(q) \/ Check(q) \/ WakeUp(q)
    BY <1>1, <1>2, <1>3 DEF Lookup, Arm, Check, WakeUp, Goto, Request
  <1>4. CASE Insert(q)
    BY <1>1, <1>2, <1>4 DEF Insert, Goto, Request
  <1>5. CASE BuildFails(q)
    <2>1. Tip(q) \in {0, 1} /\ (Undisturbed => Tip(q) = 1)
      BY <1>1, <1>5, TipCounts DEF BuildFails, MarkInv, Request
    <2>2. req'[q] = [req[q] EXCEPT !.at = "release", !.failed = TRUE, !.told = Tip(q)]
      BY <1>1, <1>5 DEF BuildFails
    <2>. QED  BY <1>1, <1>2, <2>1, <2>2 DEF Request
  <1>6. CASE Send(q)
    BY <1>1, <1>2, <1>6 DEF Send, Request
  <1>7. CASE Output(q)
    BY <1>1, <1>2, <1>7 DEF Output, Request
  <1>8. CASE Settle(q)
    BY <1>1, <1>2, <1>8 DEF Settle, Request, Continues, Replayable, IsError
  <1>9. CASE Decide(q)
    BY <1>1, <1>2, <1>9 DEF Decide, Request, AutoReplays, Replayable, IsError
  <1>10. CASE Tell(q)
    <2>1. req[q].deferred => Tip(q) \in {0, 1} /\ (Undisturbed => Tip(q) = 1)
      BY <1>1, <1>10, TipCounts DEF Tell, MarkInv, Request
    <2>. QED  BY <1>1, <1>2, <1>10, <2>1 DEF Tell, Request
  <1>11. ASSUME NEW t \in Terminals, NEW b \in BOOLEAN, RelayEnds(q, t, b)
         PROVE  Account(q)'
    <2>. DEFINE d == req[q].defer /\ t = "Retryable" /\ ~req[q].spoke
                c == req[q].clean /\ ~req[q].spoke
                n == IF IsError(t) /\ ~d THEN req[q].told + 1 ELSE req[q].told
    <2>1. req[q].at = "relay" /\ req[q].told = 0 /\ ~req[q].failed
      BY <1>1, <1>11 DEF RelayEnds
    <2>2. /\ req'[q].at = "settle" /\ req'[q].terminal = t /\ req'[q].deferred = d
          /\ req'[q].clean = c /\ req'[q].told = n
          /\ req'[q].failed = req[q].failed /\ req'[q].replayed = req[q].replayed
      BY <1>1, <1>11 DEF RelayEnds, Request
    <2>3. d => c /\ ~req[q].replayed /\ t = "Retryable" /\ n = 0
      BY <2>1
    <2>4. ~d => n = IF IsError(t) THEN 1 ELSE 0
      BY <2>1
    <2>5. ~d /\ c /\ ~req[q].replayed /\ t = "Retryable" => Lifecycle # "Active"
      BY <2>1, Zenon
    <2>. HIDE DEF d, c, n
    <2>. QED  BY <1>2, <2>1, <2>2, <2>3, <2>4, <2>5 DEF Replayable
  <1>. QED
    BY <1>3, <1>4, <1>5, <1>6, <1>7, <1>8, <1>9, <1>10, <1>11 DEF LocalStep

LEMMA AccountsStep ==
  ASSUME TypeOK, OneTurnAtATime, MarkInv, Accounts, [Next]_vars
  PROVE  Accounts'
  <1>. SUFFICES ASSUME ~Withdrawn', NEW q \in Requests
                PROVE  Account(q)'
    BY DEF Accounts
  <1>1. Account(q)
    BY HistoryStays DEF Accounts
  <1>2. req \in [Requests -> Request] /\ req[q] \in Request
    BY DEF TypeOK
  <1>3. ASSUME Turns(q)
        PROVE  Account(q)'
    <2>1. CASE LocalStep(q)
      BY <1>1, <2>1, AccountLocal
    <2>2. CASE Claim(q)
      BY <1>1, <1>2, <2>2 DEF Claim, Goto, Account, Before, Request
    <2>3. CASE Build(q)
      BY <1>1, <1>2, <2>3 DEF Build, Account, Before, Request
    <2>4. CASE Evict(q)
      <3>1. Undisturbed' => Undisturbed
        BY HistoryStays
      <3>. QED  BY <1>1, <1>2, <2>4, <3>1 DEF Evict, Goto, Account, Before, Request
    <2>5. CASE Release(q)
      <3>1. Undisturbed' => Undisturbed
        BY HistoryStays
      <3>. QED
        BY <1>1, <1>2, <2>5, <3>1 DEF Release, Account, Before, Request, NewRequest
    <2>6. CASE Notify(q)
      BY <1>2, <2>6 DEF Notify, Account, Before, NewRequest
    <2>. QED  BY <1>3, <2>1, <2>2, <2>3, <2>4, <2>5, <2>6, TurnSteps
  <1>4. ASSUME NEW r \in Requests \ {q}, Turns(r)
        PROVE  Account(q)'
    <2>1. CASE LocalStep(r)
      <3>1. turn' = turn /\ req'[q] = req[q]
        BY <2>1, LocalFrame, LocalStage DEF runtimeVars
      <3>. QED  BY <1>1, <3>1, AccountKept
    <2>2. CASE Claim(r)
      <3>1. (turn' = turn \/ turn # q) /\ req'[q] = req[q]
        BY <1>2, <2>2, RuntimeAssumption DEF Claim, Goto, TryClaimTurn, MayClaim, runtimeVars
      <3>. QED  BY <1>1, <3>1, AccountKept
    <2>3. CASE Build(r) \/ Evict(r)
      <3>1. turn' = turn /\ req'[q] = req[q]
        BY <1>2, <2>3 DEF Build, Evict, Goto, runtimeVars
      <3>. QED  BY <1>1, <3>1, AccountKept
    <2>4. CASE Release(r)
      <3>1. turn # q /\ req'[q] = req[q]
        BY <1>2, <2>4 DEF Release, OneTurnAtATime, Holding
      <3>. QED  BY <1>1, <3>1, AccountKept
    <2>5. CASE Notify(r)
      <3>1. turn' = turn
        BY <2>5 DEF Notify, runtimeVars
      <3>2. \E b \in BOOLEAN : req'[q] = [req[q] EXCEPT !.woken = b]
        BY <1>2, <2>5 DEF Notify, Request
      <3>. QED  BY <1>1, <3>1, <3>2, AccountKept
    <2>. QED  BY <1>4, <2>1, <2>2, <2>3, <2>4, <2>5, TurnSteps
  <1>5. CASE UNCHANGED <<turn, req>>
    BY <1>1, <1>5, AccountKept
  <1>. QED
    BY <1>3, <1>4, <1>5, CallsFrame DEF Next, vars, turnVars, runtimeVars

(* The user is told of a failed turn exactly once, and of a turn that      *)
(* succeeds, a replayed one included, not at all: the decision to hold an  *)
(* error back and the decision to replay are taken at different times, and *)
(* agree unless a cancellation or a deletion was withdrawn in between.     *)
THEOREM ErrorToldCorrect == Spec => []ErrorToldOnce
  <1>1. Init => MarkInv /\ Accounts
    BY DEF Init, RuntimeInit, NewRequest, MarkInv, ClearIsLate, MarkStays, QuietIsClean,
           OwnsMark, Pending, Accounts, Account, Before
  <1>2. TypeOK /\ Accounts => ErrorToldOnce
    <2>. SUFFICES ASSUME TypeOK, Accounts, NEW r \in Requests, ~Withdrawn
                  PROVE  /\ req[r].told <= 1
                         /\ req[r].at = "notify" /\ ~req[r].failed => req[r].told = 0
                         /\ req[r].at = "notify" /\ req[r].failed /\ Undisturbed
                               => req[r].told = 1
      BY DEF ErrorToldOnce
    <2>1. req[r] \in Request
      BY DEF TypeOK
    <2>. QED
      BY <2>1 DEF Accounts, Account, Before, Request, Stages, Holding, Waiting
  <1>3. TypeOK /\ OneTurnAtATime /\ MarkInv /\ Accounts /\ [Next]_vars
          => MarkInv' /\ Accounts'
    BY MarkInvStep, AccountsStep
  <1>. QED
    BY <1>1, <1>2, <1>3, InitType, TypeStep, OneTurnInit, OneTurnStep, PTL DEF Spec
==============================================================================
