------------------------------ MODULE WorkQueue ------------------------------
(***************************************************************************)
(* The VecDeque<String> of work-intent ids that a team slot keeps for each *)
(* priority (crates/aionui-team/src/work_coordinator/coordinator.rs).  A   *)
(* queue is a sequence without repetitions: push_back is Append,           *)
(* push_front of a run of ids is concatenation on the left, and retain is  *)
(* Without.                                                                *)
(*                                                                         *)
(* Without is SelectSeq with the test "not in S".  It is written by rank   *)
(* instead of by recursion so that WorkQueueProofs can reason about it;    *)
(* MCSlotWorkCoordinator checks that the two agree on every short queue.   *)
(***************************************************************************)
EXTENDS Naturals, Sequences, FiniteSets, SequencesExt

(* The positions of q that hold an element outside S.                      *)
KeptAt(q, S) == {k \in DOMAIN q : q[k] \notin S}

(* How many of the positions in K are at or before k.                      *)
RankIn(K, k) == Cardinality({j \in K : j <= k})

(* q without the elements of S, in the order q has them: VecDeque::retain. *)
Without(q, S) ==
  LET K == KeptAt(q, S)
  IN  [n \in 1 .. Cardinality(K) |-> q[CHOOSE k \in K : RankIn(K, k) = n]]

(* q holds its ids in the order they were created.                         *)
Ascending(q) == \A j, k \in DOMAIN q : j < k => q[j] < q[k]

(* Every enumeration of the finite set S: what draining a HashMap that     *)
(* holds S can produce.                                                    *)
Enumerations(S) == {s \in SetToSeqs(S) : Range(s) = S}
==============================================================================
