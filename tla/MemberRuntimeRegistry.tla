------------------------ MODULE MemberRuntimeRegistry ------------------------
(***************************************************************************)
(* MemberRuntimeRegistry (crates/aionui-team/src/member_runtime.rs): which *)
(* operation owns the runtime of each member of a team session.            *)
(*                                                                         *)
(* The entries are under one mutex, so each method is one atomic action.   *)
(* An attach or a removal that starts gets the next operation id and a     *)
(* watch channel; ops[o] is what that channel holds.  Whoever is told to   *)
(* Join operation o waits until ops[o].signal is terminal.  The sender of  *)
(* o's channel lives in the entry of o; AttachWaiter::wait reads a channel *)
(* that lost its sender as SessionStopped.                                 *)
(*                                                                         *)
(* A lease is its operation id.  A lease may be submitted at any time and  *)
(* any number of times; submissions that the code answers with false, and  *)
(* leases of another session generation, change nothing and have no        *)
(* action.  Failure texts are left out.                                    *)
(***************************************************************************)
EXTENDS Naturals, Sequences

CONSTANTS Members,   \* agent (slot) ids
          MaxOps     \* how many operations a behaviour may start

ASSUME RegistryAssumption == MaxOps \in Nat

NoOp == 0            \* the operation of an entry without one

OwnedKind  == {"Attaching", "Removing"}       \* someone must still answer
SenderKind == OwnedKind \cup {"Failed"}       \* the entry holds a sender
EntryKind  == SenderKind \cup {"Absent", "Ready"}

Outcome == {"Ready", "Failed", "Removed", "SessionStopped"}

Entry     == [kind : EntryKind, op : Nat]
Operation == [member : Members, lease : {"attach", "remove"},
              signal : Outcome \cup {"Pending"}]

VARIABLES
  entry,     \* entry[m]: the MemberRuntimeEntry of m, Absent if there is none
  ops,       \* the operations started, by operation id
  stopped    \* stopped

registryVars == <<entry, ops, stopped>>

RegistryInit ==
  /\ entry = [m \in Members |-> [kind |-> "Absent", op |-> NoOp]]
  /\ ops = <<>>
  /\ stopped = FALSE

------------------------------------------------------------------------------
NextOp == Len(ops) + 1

Started(m, lease) == [member |-> m, lease |-> lease, signal |-> "Pending"]

(* The operations os with outcome out sent on the channel of o.            *)
Answered(os, o, out) == [os EXCEPT ![o].signal = out]

(* The entry is the one lease o was handed out for.                        *)
Owns(o, kind) == entry[ops[o].member] = [kind |-> kind, op |-> o]

(* owns_attach                                                             *)
OwnsAttach(o) == ~stopped /\ Owns(o, "Attaching")

(* seed_ready, when there is no entry.                                     *)
SeedReady(m) ==
  /\ ~stopped
  /\ entry[m].kind = "Absent"
  /\ entry' = [entry EXCEPT ![m] = [kind |-> "Ready", op |-> NoOp]]
  /\ UNCHANGED <<ops, stopped>>

(* What reserve_attach and reserve_repair do when they answer Start.       *)
StartAttach(m) ==
  /\ Len(ops) < MaxOps
  /\ entry' = [entry EXCEPT ![m] = [kind |-> "Attaching", op |-> NextOp]]
  /\ ops' = Append(ops, Started(m, "attach"))
  /\ UNCHANGED stopped

(* reserve_attach, when it answers Start.                                  *)
ReserveAttach(m, retryFailed) ==
  /\ ~stopped
  /\ \/ entry[m].kind = "Absent"
     \/ entry[m].kind = "Failed" /\ retryFailed
  /\ StartAttach(m)

(* reserve_repair, when it answers Start: a ready member whose runtime     *)
(* disappeared.                                                            *)
ReserveRepair(m) ==
  /\ ~stopped
  /\ entry[m].kind \in {"Ready", "Absent"}
  /\ StartAttach(m)

(* commit_ready, when the lease still owns the entry.                      *)
CommitReady(o) ==
  /\ ~stopped
  /\ Owns(o, "Attaching")
  /\ entry' = [entry EXCEPT ![ops[o].member] = [kind |-> "Ready", op |-> NoOp]]
  /\ ops' = Answered(ops, o, "Ready")
  /\ UNCHANGED stopped

(* Mutant: a late failure is not compared with the current operation.      *)
CommitFailedLate(o) ==
  /\ ~stopped
  /\ ops[o].lease = "attach"
  /\ entry[ops[o].member].kind \in {"Attaching", "Removing"}
  /\ entry' = [entry EXCEPT ![ops[o].member] = [kind |-> "Failed", op |-> o]]
  /\ ops' = Answered(ops, o, "Failed")
  /\ UNCHANGED stopped

(* commit_failed, when the lease still owns the entry.                     *)
CommitFailed(o) ==
  /\ ~stopped
  /\ Owns(o, "Attaching")
  /\ entry' = [entry EXCEPT ![ops[o].member] = [kind |-> "Failed", op |-> o]]
  /\ ops' = Answered(ops, o, "Failed")
  /\ UNCHANGED stopped

(* Mutant: the channel of a failed attach is told of the removal, too.     *)
BeginRemoveRewrites(m) ==
  /\ ~stopped
  /\ entry[m].kind \notin {"Absent", "Removing"}
  /\ Len(ops) < MaxOps
  /\ entry' = [entry EXCEPT ![m] = [kind |-> "Removing", op |-> NextOp]]
  /\ ops' = Append(IF entry[m].kind \in SenderKind
                   THEN Answered(ops, entry[m].op, "Removed") ELSE ops,
                   Started(m, "remove"))
  /\ UNCHANGED stopped

(* begin_remove, when it answers Start: an attach that was under way is    *)
(* told that the member is removed.                                        *)
BeginRemove(m) ==
  /\ ~stopped
  /\ entry[m].kind \notin {"Absent", "Removing"}
  /\ Len(ops) < MaxOps
  /\ entry' = [entry EXCEPT ![m] = [kind |-> "Removing", op |-> NextOp]]
  /\ ops' = Append(IF entry[m].kind = "Attaching"
                   THEN Answered(ops, entry[m].op, "Removed") ELSE ops,
                   Started(m, "remove"))
  /\ UNCHANGED stopped

(* Mutant: an entry that is removed is looked up as if it were there.      *)
FinishRemoveForgets(o) ==
  /\ ~stopped
  /\ Owns(o, "Removing")
  /\ entry' = [m \in Members \ {ops[o].member} |-> entry[m]]
  /\ ops' = Answered(ops, o, "Removed")
  /\ UNCHANGED stopped

(* finish_remove, when the lease still owns the entry.                     *)
FinishRemove(o) ==
  /\ ~stopped
  /\ Owns(o, "Removing")
  /\ entry' = [entry EXCEPT ![ops[o].member] = [kind |-> "Absent", op |-> NoOp]]
  /\ ops' = Answered(ops, o, "Removed")
  /\ UNCHANGED stopped

(* restore_attach_required_after_remove_persist_error, when the lease      *)
(* still owns the entry.                                                   *)
RestoreAttachRequired(o) ==
  /\ ~stopped
  /\ Owns(o, "Removing")
  /\ entry' = [entry EXCEPT ![ops[o].member] = [kind |-> "Failed", op |-> o]]
  /\ ops' = Answered(ops, o, "Failed")
  /\ UNCHANGED stopped

(* Mutant: only attaches are told that the session stopped.                *)
StopRegistryAttaches ==
  /\ ~stopped
  /\ stopped' = TRUE
  /\ entry' = [m \in Members |-> [kind |-> "Absent", op |-> NoOp]]
  /\ ops' = [o \in DOMAIN ops |->
               IF Owns(o, "Attaching")
               THEN [ops[o] EXCEPT !.signal = "SessionStopped"] ELSE ops[o]]

(* stop                                                                    *)
StopRegistry ==
  /\ ~stopped
  /\ stopped' = TRUE
  /\ entry' = [m \in Members |-> [kind |-> "Absent", op |-> NoOp]]
  /\ ops' = [o \in DOMAIN ops |->
               IF Owns(o, "Attaching") \/ Owns(o, "Removing")
               THEN [ops[o] EXCEPT !.signal = "SessionStopped"] ELSE ops[o]]

RegistryNext ==
  \/ \E m \in Members : SeedReady(m)
  \/ \E m \in Members, retryFailed \in BOOLEAN : ReserveAttach(m, retryFailed)
  \/ \E m \in Members : ReserveRepair(m)
  \/ \E o \in DOMAIN ops : CommitReady(o)
  \/ \E o \in DOMAIN ops : CommitFailed(o)
  \/ \E m \in Members : BeginRemove(m)
  \/ \E o \in DOMAIN ops : FinishRemove(o)
  \/ \E o \in DOMAIN ops : RestoreAttachRequired(o)
  \/ StopRegistry

RegistrySpec == RegistryInit /\ [][RegistryNext]_registryVars

------------------------------------------------------------------------------
(* Every variable has the type of the field it models.                     *)
RegistryTypeOK ==
  /\ entry \in [Members -> Entry]
  /\ ops \in Seq(Operation)
  /\ stopped \in BOOLEAN

(* An entry that names an operation names one of its own member, and its   *)
(* kind agrees with the lease and with what was sent on the channel.       *)
EntriesNameTheirOps ==
  \A m \in Members :
    LET e == entry[m]
    IN  /\ e.kind \in SenderKind =>
             /\ e.op \in DOMAIN ops
             /\ ops[e.op].member = m
             /\ e.kind = "Attaching" => ops[e.op].lease = "attach"
             /\ e.kind = "Removing"  => ops[e.op].lease = "remove"
             /\ ops[e.op].signal = IF e.kind = "Failed" THEN "Failed"
                                                        ELSE "Pending"
        /\ e.kind \notin SenderKind => e.op = NoOp

(* An operation that has no outcome yet is the one its member's entry is   *)
(* waiting for.  So an operation that was displaced by a removal or by the *)
(* end of the session has told its outcome to everyone who joined it:      *)
(* nobody waits for an answer that no owner will give, and nobody takes a  *)
(* dropped channel for a stopped session.                                  *)
PendingIsOwned ==
  \A o \in DOMAIN ops :
    ops[o].signal = "Pending" =>
      entry[ops[o].member].kind \in OwnedKind /\ entry[ops[o].member].op = o

(* Only the newest operation of a member holds its entry: a stale owner    *)
(* cannot take a member back.                                              *)
NewestOwns ==
  \A m \in Members : entry[m].kind \in SenderKind =>
    \A o \in DOMAIN ops : ops[o].member = m => o <= entry[m].op

RegistryInv == /\ RegistryTypeOK
               /\ EntriesNameTheirOps
               /\ PendingIsOwned
               /\ NewestOwns

(* The outcome everyone who joined an operation is told never changes once *)
(* it was sent: a removal or a stop that comes later does not rewrite it.  *)
OutcomeIsFinal ==
  [][\A o \in DOMAIN ops : ops[o].signal # "Pending" =>
       o \in DOMAIN ops' /\ ops'[o] = ops[o]]_registryVars
==============================================================================
