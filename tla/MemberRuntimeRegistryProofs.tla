--------------------- MODULE MemberRuntimeRegistryProofs ---------------------
(***************************************************************************)
(* MemberRuntimeRegistry is correct for any set of members and any number  *)
(* of operations.  RegistryInv is inductive: PendingIsOwned needs that an  *)
(* entry's channel is the one of its own operation (EntriesNameTheirOps),  *)
(* and NewestOwns that operation ids only grow.                            *)
(***************************************************************************)
EXTENDS MemberRuntimeRegistry, TLAPS

(* What ops holds are operations of members.                               *)
LEMMA OpsTyped ==
  ASSUME NEW os \in Seq(Operation), NEW o \in DOMAIN os
  PROVE  os[o] \in Operation /\ os[o].member \in Members /\ o \in Nat
<1>1. os[o] \in Operation /\ o \in Nat
  OBVIOUS
<1> QED BY <1>1 DEF Operation

(* The registry starts in a state that satisfies the invariant.            *)
LEMMA RegistryInvInit == RegistryInit => RegistryInv
<1> SUFFICES ASSUME RegistryInit PROVE RegistryInv
  OBVIOUS
<1>1. /\ \A m \in Members : entry[m].kind = "Absent" /\ entry[m].op = NoOp
      /\ DOMAIN ops = {} /\ stopped = FALSE
  BY DEF RegistryInit
<1>2. RegistryTypeOK
  <2>1. [kind |-> "Absent", op |-> NoOp] \in Entry
    BY DEF Entry, EntryKind, NoOp
  <2>2. entry \in [Members -> Entry]
    BY <2>1 DEF RegistryInit
  <2>3. ops \in Seq(Operation)
    BY DEF RegistryInit
  <2>4. stopped \in BOOLEAN
    BY DEF RegistryInit
  <2> QED BY <2>2, <2>3, <2>4 DEF RegistryTypeOK
<1>3. EntriesNameTheirOps /\ PendingIsOwned /\ NewestOwns
  BY <1>1 DEF EntriesNameTheirOps, PendingIsOwned, NewestOwns, SenderKind,
              OwnedKind
<1> QED BY <1>2, <1>3 DEF RegistryInv

(* Sending an outcome changes the signal of one operation.                 *)
LEMMA AnsweredProps ==
  ASSUME NEW os \in Seq(Operation), NEW o \in DOMAIN os, NEW out \in Outcome
  PROVE  /\ Answered(os, o, out) \in Seq(Operation)
         /\ DOMAIN Answered(os, o, out) = DOMAIN os
         /\ Len(Answered(os, o, out)) = Len(os)
         /\ Answered(os, o, out)[o].signal = out
         /\ \A k \in DOMAIN os :
              /\ Answered(os, o, out)[k].member = os[k].member
              /\ Answered(os, o, out)[k].lease = os[k].lease
              /\ k # o => Answered(os, o, out)[k] = os[k]
<1> DEFINE a == Answered(os, o, out)
<1>1. \A k \in DOMAIN os :
        a[k] = IF k = o THEN [os[k] EXCEPT !.signal = out] ELSE os[k]
  BY DEF Answered
<1>2. DOMAIN a = DOMAIN os
  BY DEF Answered
<1>3. \A k \in DOMAIN os : os[k] \in Operation /\ a[k] \in Operation
  <2>1. \A k \in DOMAIN os : os[k] \in Operation
    OBVIOUS
  <2>2. \A r \in Operation : [r EXCEPT !.signal = out] \in Operation
    BY DEF Operation
  <2> QED BY <1>1, <2>1, <2>2
<1>4. Len(os) \in Nat /\ DOMAIN os = 1 .. Len(os)
  OBVIOUS
<1>5. a \in [1 .. Len(os) -> Operation]
  BY <1>2, <1>3, <1>4 DEF Answered
<1>6. a \in Seq(Operation) /\ Len(a) = Len(os)
  BY <1>4, <1>5
<1>7. /\ a[o].signal = out
      /\ \A k \in DOMAIN os : /\ a[k].member = os[k].member
                              /\ a[k].lease = os[k].lease
                              /\ k # o => a[k] = os[k]
  BY <1>1, <1>3 DEF Operation
<1> QED BY <1>2, <1>6, <1>7 DEF a

(* A new operation comes after all others.                                 *)
LEMMA AppendProps ==
  ASSUME NEW os \in Seq(Operation), NEW m \in Members,
         NEW lease \in {"attach", "remove"}
  PROVE  LET b == Append(os, Started(m, lease))
         IN  /\ b \in Seq(Operation)
             /\ DOMAIN b = DOMAIN os \cup {Len(os) + 1}
             /\ Len(os) + 1 \notin DOMAIN os
             /\ Len(os) \in Nat
             /\ \A k \in DOMAIN os : k \in Nat /\ k <= Len(os) /\ b[k] = os[k]
             /\ b[Len(os) + 1] = Started(m, lease)
<1>1. Started(m, lease) \in Operation
  BY DEF Started, Operation
<1> QED BY <1>1

(* An owner that settles its operation o keeps the invariant, whether the  *)
(* entry it leaves is without an operation or is o's failure.              *)
LEMMA SettleKeepsInv ==
  ASSUME RegistryInv, NEW o \in DOMAIN ops, NEW kind \in OwnedKind,
         Owns(o, kind), NEW out \in Outcome, NEW e \in Entry,
         \/ e.kind \notin SenderKind /\ e.op = NoOp
         \/ e.kind = "Failed" /\ e.op = o /\ out = "Failed",
         entry' = [entry EXCEPT ![ops[o].member] = e],
         ops' = Answered(ops, o, out), UNCHANGED stopped
  PROVE  RegistryInv'
<1> DEFINE z == ops[o].member
<1>1. /\ entry \in [Members -> Entry] /\ ops \in Seq(Operation)
      /\ stopped \in BOOLEAN
      /\ EntriesNameTheirOps /\ PendingIsOwned /\ NewestOwns
  BY DEF RegistryInv, RegistryTypeOK
<1>2. z \in Members
  BY <1>1, OpsTyped
<1>3. entry[z].kind = kind /\ entry[z].op = o
  BY DEF Owns
<1>4. /\ ops' \in Seq(Operation) /\ DOMAIN ops' = DOMAIN ops
      /\ ops'[o].signal = out
      /\ \A k \in DOMAIN ops : /\ ops'[k].member = ops[k].member
                               /\ ops'[k].lease = ops[k].lease
                               /\ k # o => ops'[k] = ops[k]
  BY <1>1, AnsweredProps
<1>5. \A m \in Members : entry'[m] = IF m = z THEN e ELSE entry[m]
  BY <1>1
<1> HIDE DEF z
<1>6. RegistryTypeOK'
  BY <1>1, <1>4 DEF RegistryTypeOK
<1>7. EntriesNameTheirOps'
  <2> SUFFICES ASSUME NEW m \in Members
               PROVE  /\ entry'[m].kind \in SenderKind =>
                           /\ entry'[m].op \in DOMAIN ops'
                           /\ ops'[entry'[m].op].member = m
                           /\ entry'[m].kind = "Attaching"
                                => ops'[entry'[m].op].lease = "attach"
                           /\ entry'[m].kind = "Removing"
                                => ops'[entry'[m].op].lease = "remove"
                           /\ ops'[entry'[m].op].signal =
                                IF entry'[m].kind = "Failed" THEN "Failed"
                                                             ELSE "Pending"
                      /\ entry'[m].kind \notin SenderKind => entry'[m].op = NoOp
    BY DEF EntriesNameTheirOps
  <2>1. CASE m = z
    <3>1. entry'[m] = e /\ ops'[o].member = m
      BY <1>4, <1>5, <2>1 DEF z
    <3>2. CASE e.kind \notin SenderKind /\ e.op = NoOp
      BY <3>1, <3>2
    <3>3. CASE e.kind = "Failed" /\ e.op = o /\ out = "Failed"
      BY <1>4, <3>1, <3>3 DEF SenderKind
    <3> QED BY <3>2, <3>3
  <2>2. CASE m # z
    <3>1. entry'[m] = entry[m]
      BY <1>5, <2>2
    <3>2. entry[m].kind \in SenderKind => entry[m].op # o
      BY <1>1, <2>2 DEF EntriesNameTheirOps, z
    <3> QED BY <1>1, <1>4, <3>1, <3>2 DEF EntriesNameTheirOps
  <2> QED BY <2>1, <2>2
<1>8. PendingIsOwned'
  <2> SUFFICES ASSUME NEW k \in DOMAIN ops, ops'[k].signal = "Pending"
               PROVE  /\ entry'[ops[k].member].kind \in OwnedKind
                      /\ entry'[ops[k].member].op = k
    BY <1>4 DEF PendingIsOwned
  <2>1. k # o
    BY <1>4 DEF Outcome
  <2>2. entry[ops[k].member].kind \in OwnedKind /\ entry[ops[k].member].op = k
    BY <1>1, <1>4, <2>1 DEF PendingIsOwned
  <2>3. ops[k].member \in Members
    BY <1>1, OpsTyped
  <2>4. ops[k].member # z
    BY <1>3, <2>1, <2>2
  <2> QED BY <1>5, <2>2, <2>3, <2>4
<1>9. NewestOwns'
  <2> SUFFICES ASSUME NEW m \in Members, entry'[m].kind \in SenderKind,
                      NEW k \in DOMAIN ops, ops[k].member = m
               PROVE  k <= entry'[m].op
    BY <1>4 DEF NewestOwns
  <2>1. CASE m = z
    <3>1. entry'[m].op = o
      BY <1>5, <2>1
    <3>2. entry[z].kind \in SenderKind
      BY <1>3 DEF SenderKind
    <3> QED BY <1>1, <1>3, <2>1, <3>1, <3>2 DEF NewestOwns
  <2>2. CASE m # z
    BY <1>1, <1>5, <2>2 DEF NewestOwns
  <2> QED BY <2>1, <2>2
<1> QED BY <1>6, <1>7, <1>8, <1>9 DEF RegistryInv

(* A new operation o of member z that takes the entry keeps the invariant, *)
(* given operations os, the ones before it, in which nothing of z is left  *)
(* pending.                                                                *)
LEMMA StartKeepsInv ==
  ASSUME RegistryInv, NEW z \in Members, NEW os \in Seq(Operation),
         NEW lease \in {"attach", "remove"}, NEW e \in Entry,
         e.kind = IF lease = "attach" THEN "Attaching" ELSE "Removing",
         e.op = Len(ops) + 1,
         Len(os) = Len(ops), DOMAIN os = DOMAIN ops,
         \A k \in DOMAIN ops : /\ os[k].member = ops[k].member
                               /\ os[k].member # z => os[k] = ops[k]
                               /\ os[k].member = z => os[k].signal # "Pending",
         entry' = [entry EXCEPT ![z] = e],
         ops' = Append(os, Started(z, lease)), UNCHANGED stopped
  PROVE  RegistryInv'
<1> DEFINE n == Len(ops) + 1
<1>1. /\ entry \in [Members -> Entry] /\ ops \in Seq(Operation)
      /\ stopped \in BOOLEAN
      /\ EntriesNameTheirOps /\ PendingIsOwned /\ NewestOwns
  BY DEF RegistryInv, RegistryTypeOK
<1>2. /\ ops' \in Seq(Operation) /\ DOMAIN ops' = DOMAIN ops \cup {n}
      /\ n \notin DOMAIN ops /\ n \in Nat
      /\ \A k \in DOMAIN ops : k \in Nat /\ k < n /\ ops'[k] = os[k]
      /\ ops'[n] = Started(z, lease)
  BY AppendProps
<1>3. \A m \in Members : entry'[m] = IF m = z THEN e ELSE entry[m]
  BY <1>1
<1>4. /\ ops'[n].member = z /\ ops'[n].lease = lease
      /\ ops'[n].signal = "Pending"
  BY <1>2 DEF Started
<1> HIDE DEF n
<1>5. e.op = n /\ e.kind \in OwnedKind /\ e.kind \in SenderKind
  BY DEF n, OwnedKind, SenderKind
<1>6. RegistryTypeOK'
  BY <1>1, <1>2 DEF RegistryTypeOK
<1>7. EntriesNameTheirOps'
  <2> SUFFICES ASSUME NEW m \in Members
               PROVE  /\ entry'[m].kind \in SenderKind =>
                           /\ entry'[m].op \in DOMAIN ops'
                           /\ ops'[entry'[m].op].member = m
                           /\ entry'[m].kind = "Attaching"
                                => ops'[entry'[m].op].lease = "attach"
                           /\ entry'[m].kind = "Removing"
                                => ops'[entry'[m].op].lease = "remove"
                           /\ ops'[entry'[m].op].signal =
                                IF entry'[m].kind = "Failed" THEN "Failed"
                                                             ELSE "Pending"
                      /\ entry'[m].kind \notin SenderKind => entry'[m].op = NoOp
    BY DEF EntriesNameTheirOps
  <2>1. CASE m = z
    <3>1. entry'[m] = e
      BY <1>3, <2>1
    <3>2. n \in DOMAIN ops'
      BY <1>2
    <3> QED BY <1>4, <1>5, <2>1, <3>1, <3>2
  <2>2. CASE m # z
    <3>1. entry'[m] = entry[m]
      BY <1>3, <2>2
    <3>2. entry[m].kind \in SenderKind =>
            ops'[entry[m].op] = ops[entry[m].op] /\ entry[m].op \in DOMAIN ops'
      BY <1>1, <1>2, <2>2 DEF EntriesNameTheirOps
    <3> QED BY <1>1, <3>1, <3>2 DEF EntriesNameTheirOps
  <2> QED BY <2>1, <2>2
<1>8. PendingIsOwned'
  <2> SUFFICES ASSUME NEW k \in DOMAIN ops', ops'[k].signal = "Pending"
               PROVE  /\ entry'[ops'[k].member].kind \in OwnedKind
                      /\ entry'[ops'[k].member].op = k
    BY DEF PendingIsOwned
  <2>1. CASE k = n
    BY <1>3, <1>4, <1>5, <2>1
  <2>2. CASE k # n
    <3>1. k \in DOMAIN ops /\ ops'[k] = os[k] /\ os[k].member # z
      BY <1>2, <2>2
    <3>2. ops'[k] = ops[k] /\ ops[k].member # z
      BY <3>1
    <3>3. ops[k].member \in Members
      BY <1>1, <3>1, OpsTyped
    <3> QED BY <1>1, <1>3, <3>1, <3>2, <3>3 DEF PendingIsOwned
  <2> QED BY <2>1, <2>2
<1>9. NewestOwns'
  <2> SUFFICES ASSUME NEW m \in Members, entry'[m].kind \in SenderKind,
                      NEW k \in DOMAIN ops', ops'[k].member = m
               PROVE  k <= entry'[m].op
    BY DEF NewestOwns
  <2>1. CASE m = z
    <3>1. entry'[m].op = n
      BY <1>3, <1>5, <2>1
    <3>2. k <= n
      BY <1>2
    <3> QED BY <3>1, <3>2
  <2>2. CASE m # z
    <3>1. k \in DOMAIN ops /\ ops[k].member = m
      BY <1>2, <1>4, <2>2
    <3> QED BY <1>1, <1>3, <2>2, <3>1 DEF NewestOwns
  <2> QED BY <2>1, <2>2
<1> QED BY <1>6, <1>7, <1>8, <1>9 DEF RegistryInv

(* A reservation of an attach keeps the invariant: a member whose entry is *)
(* not owned has no operation pending.                                     *)
LEMMA StartAttachKeepsInv ==
  ASSUME RegistryInv, NEW z \in Members, entry[z].kind \notin OwnedKind,
         StartAttach(z)
  PROVE  RegistryInv'
<1> DEFINE e == [kind |-> "Attaching", op |-> Len(ops) + 1]
<1>1. ops \in Seq(Operation) /\ PendingIsOwned
  BY DEF RegistryInv, RegistryTypeOK
<1>2. e \in Entry /\ e.kind = "Attaching" /\ e.op = Len(ops) + 1
  BY <1>1 DEF Entry, EntryKind, SenderKind, OwnedKind
<1>3. /\ entry' = [entry EXCEPT ![z] = e]
      /\ ops' = Append(ops, Started(z, "attach")) /\ UNCHANGED stopped
  BY DEF StartAttach, NextOp
<1>4. \A k \in DOMAIN ops : ops[k].member = z => ops[k].signal # "Pending"
  BY <1>1 DEF PendingIsOwned
<1> HIDE DEF e
<1> QED BY <1>1, <1>2, <1>3, <1>4, StartKeepsInv

(* begin_remove keeps the invariant: the attach it displaces is answered.  *)
LEMMA BeginRemoveKeepsInv ==
  ASSUME RegistryInv, NEW z \in Members, BeginRemove(z)
  PROVE  RegistryInv'
<1> DEFINE e == [kind |-> "Removing", op |-> Len(ops) + 1]
           os == IF entry[z].kind = "Attaching"
                 THEN Answered(ops, entry[z].op, "Removed") ELSE ops
<1>1. /\ ops \in Seq(Operation) /\ entry \in [Members -> Entry]
      /\ PendingIsOwned /\ EntriesNameTheirOps
  BY DEF RegistryInv, RegistryTypeOK
<1>2. e \in Entry /\ e.kind = "Removing" /\ e.op = Len(ops) + 1
  BY <1>1 DEF Entry, EntryKind, SenderKind, OwnedKind
<1>3. /\ entry' = [entry EXCEPT ![z] = e]
      /\ ops' = Append(os, Started(z, "remove")) /\ UNCHANGED stopped
      /\ entry[z].kind # "Removing"
  BY DEF BeginRemove, NextOp
<1>4. /\ os \in Seq(Operation) /\ Len(os) = Len(ops)
      /\ DOMAIN os = DOMAIN ops
      /\ \A k \in DOMAIN ops : /\ os[k].member = ops[k].member
                               /\ os[k].member # z => os[k] = ops[k]
                               /\ os[k].member = z => os[k].signal # "Pending"
  <2>1. CASE entry[z].kind = "Attaching"
    <3>1. entry[z].op \in DOMAIN ops /\ ops[entry[z].op].member = z
      BY <1>1, <2>1 DEF EntriesNameTheirOps, SenderKind, OwnedKind
    <3>2. "Removed" \in Outcome
      BY DEF Outcome
    <3> DEFINE o == entry[z].op
    <3>3. /\ os \in Seq(Operation) /\ Len(os) = Len(ops)
          /\ DOMAIN os = DOMAIN ops /\ os[o].signal = "Removed"
          /\ \A k \in DOMAIN ops : /\ os[k].member = ops[k].member
                                   /\ k # o => os[k] = ops[k]
      BY <1>1, <2>1, <3>1, <3>2, AnsweredProps
    <3>4. \A k \in DOMAIN ops : ops[k].member = z /\ k # o =>
                                  ops[k].signal # "Pending"
      BY <1>1 DEF PendingIsOwned
    <3> HIDE DEF os, o
    <3>5. ops[o].member = z
      BY <3>1 DEF o
    <3> QED BY <3>3, <3>4, <3>5
  <2>2. CASE entry[z].kind # "Attaching"
    <3>1. os = ops
      BY <2>2
    <3>2. \A k \in DOMAIN ops : ops[k].member = z => ops[k].signal # "Pending"
      BY <1>1, <1>3, <2>2 DEF PendingIsOwned, OwnedKind
    <3> QED BY <1>1, <3>1, <3>2
  <2> QED BY <2>1, <2>2
<1> HIDE DEF e, os
<1> QED BY <1>2, <1>3, <1>4, StartKeepsInv

(* seed_ready keeps the invariant.                                         *)
LEMMA SeedReadyKeepsInv ==
  ASSUME RegistryInv, NEW z \in Members, SeedReady(z)
  PROVE  RegistryInv'
<1> DEFINE e == [kind |-> "Ready", op |-> NoOp]
<1>1. /\ entry \in [Members -> Entry] /\ ops \in Seq(Operation)
      /\ EntriesNameTheirOps /\ PendingIsOwned /\ NewestOwns
  BY DEF RegistryInv, RegistryTypeOK
<1>2. /\ e \in Entry /\ e.kind \notin SenderKind /\ e.op = NoOp
  BY DEF Entry, EntryKind, SenderKind, OwnedKind, NoOp
<1>3. /\ entry' = [entry EXCEPT ![z] = e] /\ UNCHANGED <<ops, stopped>>
      /\ entry[z].kind = "Absent"
  BY DEF SeedReady
<1> HIDE DEF e
<1>4. \A m \in Members : entry'[m] = IF m = z THEN e ELSE entry[m]
  BY <1>1, <1>3
<1>5. RegistryTypeOK'
  BY <1>1, <1>2, <1>3 DEF RegistryTypeOK, RegistryInv
<1>6. EntriesNameTheirOps' /\ NewestOwns'
  BY <1>1, <1>2, <1>3, <1>4 DEF EntriesNameTheirOps, NewestOwns
<1>7. PendingIsOwned'
  <2>1. \A k \in DOMAIN ops : ops[k].member \in Members
    BY <1>1, OpsTyped
  <2> QED BY <1>1, <1>3, <1>4, <2>1 DEF PendingIsOwned, OwnedKind
<1> QED BY <1>5, <1>6, <1>7 DEF RegistryInv

(* stop keeps the invariant: it answers every operation that is pending.   *)
LEMMA StopKeepsInv ==
  ASSUME RegistryInv, StopRegistry
  PROVE  RegistryInv'
<1>1. /\ entry \in [Members -> Entry] /\ ops \in Seq(Operation)
      /\ EntriesNameTheirOps /\ PendingIsOwned
  BY DEF RegistryInv, RegistryTypeOK
<1>2. /\ stopped' = TRUE
      /\ \A m \in Members : entry'[m].kind = "Absent" /\ entry'[m].op = NoOp
  BY DEF StopRegistry
<1>3. entry' \in [Members -> Entry]
  <2>1. [kind |-> "Absent", op |-> NoOp] \in Entry
    BY DEF Entry, EntryKind, NoOp
  <2> QED BY <2>1 DEF StopRegistry
<1>4. /\ DOMAIN ops' = DOMAIN ops
      /\ \A o \in DOMAIN ops :
           ops'[o] = IF Owns(o, "Attaching") \/ Owns(o, "Removing")
                     THEN [ops[o] EXCEPT !.signal = "SessionStopped"]
                     ELSE ops[o]
  BY DEF StopRegistry
<1>5. \A r \in Operation :
        LET s == [r EXCEPT !.signal = "SessionStopped"]
        IN  s \in Operation /\ s.signal = "SessionStopped"
  BY DEF Operation, Outcome
<1>6. \A o \in DOMAIN ops : ops[o] \in Operation /\ ops[o].member \in Members
  BY <1>1, OpsTyped
<1>7. \A o \in DOMAIN ops : ops'[o] \in Operation
  BY <1>4, <1>5, <1>6
<1>8. ops' \in Seq(Operation)
  <2>1. Len(ops) \in Nat /\ DOMAIN ops = 1 .. Len(ops)
    BY <1>1
  <2>2. ops' \in [1 .. Len(ops) -> Operation]
    BY <1>4, <1>7, <2>1 DEF StopRegistry
  <2> QED BY <2>1, <2>2
<1>9. \A o \in DOMAIN ops : ops'[o].signal # "Pending"
  <2> SUFFICES ASSUME NEW o \in DOMAIN ops
               PROVE  ops'[o].signal # "Pending"
    OBVIOUS
  <2>1. CASE Owns(o, "Attaching") \/ Owns(o, "Removing")
    <3>1. ops'[o].signal = "SessionStopped"
      BY <1>4, <1>5, <1>6, <2>1
    <3> QED BY <3>1
  <2>2. CASE ~(Owns(o, "Attaching") \/ Owns(o, "Removing"))
    <3>1. ops'[o] = ops[o]
      BY <1>4, <2>2
    <3>2. entry[ops[o].member] \in Entry
      BY <1>1, <1>6
    <3>3. \A x \in Entry : x.kind \in OwnedKind /\ x.op = o =>
            \/ x = [kind |-> "Attaching", op |-> o]
            \/ x = [kind |-> "Removing", op |-> o]
      BY DEF Entry, OwnedKind
    <3>4. ~(/\ entry[ops[o].member].kind \in OwnedKind
            /\ entry[ops[o].member].op = o)
      BY <2>2, <3>2, <3>3 DEF Owns
    <3> QED BY <1>1, <3>1, <3>4 DEF PendingIsOwned
  <2> QED BY <2>1, <2>2
<1>10. RegistryTypeOK'
  BY <1>2, <1>3, <1>8 DEF RegistryTypeOK
<1>11. EntriesNameTheirOps' /\ PendingIsOwned' /\ NewestOwns'
  BY <1>2, <1>4, <1>9 DEF EntriesNameTheirOps, PendingIsOwned, NewestOwns,
                          SenderKind, OwnedKind
<1> QED BY <1>10, <1>11 DEF RegistryInv

(* The entries an owner leaves behind when it settles its operation.       *)
LEMMA SettledEntries ==
  ASSUME NEW o \in Nat
  PROVE  /\ [kind |-> "Ready", op |-> NoOp] \in Entry
         /\ [kind |-> "Absent", op |-> NoOp] \in Entry
         /\ [kind |-> "Failed", op |-> o] \in Entry
         /\ "Ready" \notin SenderKind /\ "Absent" \notin SenderKind
BY DEF Entry, EntryKind, SenderKind, OwnedKind, NoOp

(* Every operation of the registry keeps the invariant.                    *)
LEMMA RegistryInvStep ==
  RegistryInv /\ [RegistryNext]_registryVars => RegistryInv'
<1> SUFFICES ASSUME RegistryInv, [RegistryNext]_registryVars
             PROVE  RegistryInv'
  OBVIOUS
<1>1. ops \in Seq(Operation) /\ "Attaching" \in OwnedKind
      /\ "Removing" \in OwnedKind /\ Outcome =
           {"Ready", "Failed", "Removed", "SessionStopped"}
  BY DEF RegistryInv, RegistryTypeOK, OwnedKind, Outcome
<1>2. ASSUME NEW z \in Members, SeedReady(z)
      PROVE  RegistryInv'
  BY <1>2, SeedReadyKeepsInv
<1>3. ASSUME NEW z \in Members, NEW retry \in BOOLEAN, ReserveAttach(z, retry)
      PROVE  RegistryInv'
  BY <1>3, StartAttachKeepsInv DEF ReserveAttach, OwnedKind
<1>4. ASSUME NEW z \in Members, ReserveRepair(z)
      PROVE  RegistryInv'
  BY <1>4, StartAttachKeepsInv DEF ReserveRepair, OwnedKind
<1>5. ASSUME NEW o \in DOMAIN ops, CommitReady(o)
      PROVE  RegistryInv'
  <2> DEFINE e == [kind |-> "Ready", op |-> NoOp]
  <2>1. e \in Entry /\ e.kind \notin SenderKind /\ e.op = NoOp
    BY <1>1, OpsTyped, SettledEntries
  <2>2. /\ Owns(o, "Attaching") /\ entry' = [entry EXCEPT ![ops[o].member] = e]
        /\ ops' = Answered(ops, o, "Ready") /\ UNCHANGED stopped
    BY <1>5 DEF CommitReady
  <2> HIDE DEF e
  <2> QED BY <1>1, <2>1, <2>2, SettleKeepsInv
<1>6. ASSUME NEW o \in DOMAIN ops, CommitFailed(o)
      PROVE  RegistryInv'
  <2> DEFINE e == [kind |-> "Failed", op |-> o]
  <2>1. e \in Entry /\ e.kind = "Failed" /\ e.op = o
    BY <1>1, OpsTyped, SettledEntries
  <2>2. /\ Owns(o, "Attaching") /\ entry' = [entry EXCEPT ![ops[o].member] = e]
        /\ ops' = Answered(ops, o, "Failed") /\ UNCHANGED stopped
    BY <1>6 DEF CommitFailed
  <2> HIDE DEF e
  <2> QED BY <1>1, <2>1, <2>2, SettleKeepsInv
<1>7. ASSUME NEW z \in Members, BeginRemove(z)
      PROVE  RegistryInv'
  BY <1>7, BeginRemoveKeepsInv
<1>8. ASSUME NEW o \in DOMAIN ops, FinishRemove(o)
      PROVE  RegistryInv'
  <2> DEFINE e == [kind |-> "Absent", op |-> NoOp]
  <2>1. e \in Entry /\ e.kind \notin SenderKind /\ e.op = NoOp
    BY <1>1, OpsTyped, SettledEntries
  <2>2. /\ Owns(o, "Removing") /\ entry' = [entry EXCEPT ![ops[o].member] = e]
        /\ ops' = Answered(ops, o, "Removed") /\ UNCHANGED stopped
    BY <1>8 DEF FinishRemove
  <2> HIDE DEF e
  <2> QED BY <1>1, <2>1, <2>2, SettleKeepsInv
<1>9. ASSUME NEW o \in DOMAIN ops, RestoreAttachRequired(o)
      PROVE  RegistryInv'
  <2> DEFINE e == [kind |-> "Failed", op |-> o]
  <2>1. e \in Entry /\ e.kind = "Failed" /\ e.op = o
    BY <1>1, OpsTyped, SettledEntries
  <2>2. /\ Owns(o, "Removing") /\ entry' = [entry EXCEPT ![ops[o].member] = e]
        /\ ops' = Answered(ops, o, "Failed") /\ UNCHANGED stopped
    BY <1>9 DEF RestoreAttachRequired
  <2> HIDE DEF e
  <2> QED BY <1>1, <2>1, <2>2, SettleKeepsInv
<1>10. CASE StopRegistry
  BY <1>10, StopKeepsInv
<1>11. CASE UNCHANGED registryVars
  BY <1>11 DEF registryVars, RegistryInv, RegistryTypeOK, EntriesNameTheirOps,
               PendingIsOwned, NewestOwns
<1> QED BY <1>2, <1>3, <1>4, <1>5, <1>6, <1>7, <1>8, <1>9, <1>10, <1>11
        DEF RegistryNext

(* Every reachable state of the registry satisfies the invariant.          *)
THEOREM RegistryCorrect == RegistrySpec => []RegistryInv
BY RegistryInvInit, RegistryInvStep, PTL DEF RegistrySpec

(* An operation without an outcome is always the one its member's entry is *)
(* waiting for: whoever joined an operation that was displaced has been    *)
(* answered (begin_remove, finish_remove, commit_*, stop).                 *)
THEOREM NoForgottenWaiter == RegistrySpec => []PendingIsOwned
<1>1. RegistryInv => PendingIsOwned
  BY DEF RegistryInv
<1> QED BY <1>1, RegistryCorrect, PTL

(* Only the newest operation of a member can hold its entry: a stale lease *)
(* never takes the member back (the operation-id checks of the commits).   *)
THEOREM StaleOwnerRejected == RegistrySpec => []NewestOwns
<1>1. RegistryInv => NewestOwns
  BY DEF RegistryInv
<1> QED BY <1>1, RegistryCorrect, PTL

(* No operation of the registry changes an outcome that was sent.          *)
LEMMA OutcomeStep ==
  ASSUME RegistryInv, [RegistryNext]_registryVars,
         NEW k \in DOMAIN ops, ops[k].signal # "Pending"
  PROVE  k \in DOMAIN ops' /\ ops'[k] = ops[k]
<1>1. /\ ops \in Seq(Operation) /\ EntriesNameTheirOps
      /\ entry \in [Members -> Entry]
  BY DEF RegistryInv, RegistryTypeOK
<1>2. ASSUME NEW o \in DOMAIN ops, NEW kind \in OwnedKind, Owns(o, kind),
             NEW out \in Outcome, ops' = Answered(ops, o, out)
      PROVE  k \in DOMAIN ops' /\ ops'[k] = ops[k]
  <2>1. entry[ops[o].member].kind = kind /\ entry[ops[o].member].op = o
    BY <1>2 DEF Owns
  <2>2. ops[o].member \in Members
    BY <1>1, OpsTyped
  <2>3. ops[o].signal = "Pending"
    BY <1>1, <2>1, <2>2 DEF EntriesNameTheirOps, SenderKind, OwnedKind
  <2> QED BY <1>1, <1>2, <2>3, AnsweredProps
<1>3. "Attaching" \in OwnedKind /\ "Removing" \in OwnedKind
      /\ Outcome = {"Ready", "Failed", "Removed", "SessionStopped"}
  BY DEF OwnedKind, Outcome
<1>4. ASSUME NEW o \in DOMAIN ops,
             \/ CommitReady(o) \/ CommitFailed(o)
             \/ FinishRemove(o) \/ RestoreAttachRequired(o)
      PROVE  k \in DOMAIN ops' /\ ops'[k] = ops[k]
  BY <1>2, <1>3, <1>4 DEF CommitReady, CommitFailed, FinishRemove,
                          RestoreAttachRequired
<1>5. ASSUME NEW z \in Members,
             StartAttach(z)
      PROVE  k \in DOMAIN ops' /\ ops'[k] = ops[k]
  BY <1>1, <1>5, AppendProps DEF StartAttach
<1>6. ASSUME NEW z \in Members, BeginRemove(z)
      PROVE  k \in DOMAIN ops' /\ ops'[k] = ops[k]
  <2> DEFINE os == IF entry[z].kind = "Attaching"
                   THEN Answered(ops, entry[z].op, "Removed") ELSE ops
  <2>1. ops' = Append(os, Started(z, "remove"))
    BY <1>6 DEF BeginRemove
  <2>2. os \in Seq(Operation) /\ k \in DOMAIN os /\ os[k] = ops[k]
    <3>1. CASE entry[z].kind = "Attaching"
      <4>1. /\ entry[z].op \in DOMAIN ops
            /\ ops[entry[z].op].signal = "Pending"
        BY <1>1, <3>1 DEF EntriesNameTheirOps, SenderKind, OwnedKind
      <4>2. "Removed" \in Outcome /\ k # entry[z].op
        BY <1>3, <4>1
      <4> QED BY <1>1, <3>1, <4>1, <4>2, AnsweredProps
    <3>2. CASE entry[z].kind # "Attaching"
      BY <1>1, <3>2
    <3> QED BY <3>1, <3>2
  <2> HIDE DEF os
  <2> QED BY <2>1, <2>2, AppendProps
<1>7. CASE StopRegistry
  <2>1. ~Owns(k, "Attaching") /\ ~Owns(k, "Removing")
    <3>1. ops[k].member \in Members
      BY <1>1, OpsTyped
    <3> QED BY <1>1, <3>1 DEF EntriesNameTheirOps, SenderKind, OwnedKind, Owns
  <2> QED BY <1>7, <2>1 DEF StopRegistry
<1>8. CASE (\E z \in Members : SeedReady(z)) \/ UNCHANGED registryVars
  BY <1>8 DEF SeedReady, registryVars
<1>9. ASSUME NEW z \in Members, NEW retry \in BOOLEAN,
             ReserveAttach(z, retry) \/ ReserveRepair(z)
      PROVE  StartAttach(z)
  BY <1>9 DEF ReserveAttach, ReserveRepair
<1> QED BY <1>4, <1>5, <1>6, <1>7, <1>8, <1>9 DEF RegistryNext

(* The outcome told to everyone who joined an attach or a removal is final *)
(* (failed_attach_outcome_is_not_rewritten_when_remove_begins and its      *)
(* siblings, for every sequence of operations).                            *)
THEOREM OutcomesAreFinal == RegistrySpec => OutcomeIsFinal
<1>1. RegistryInv /\ [RegistryNext]_registryVars =>
        [\A o \in DOMAIN ops : ops[o].signal # "Pending" =>
           o \in DOMAIN ops' /\ ops'[o] = ops[o]]_registryVars
  BY OutcomeStep
<1> QED BY <1>1, RegistryCorrect, PTL DEF RegistrySpec, OutcomeIsFinal
==============================================================================
