------------------------ MODULE MCSlotWorkCoordinator ------------------------
(* SlotWorkCoordinator for TLC.                                            *)
EXTENDS SlotWorkCoordinator, TLC

MCUserRequests == {<<"UserMessage", "UserVisible">>}

MCRequests == {<<"UserMessage", "UserVisible">>,
               <<"IdleNotification", "ActiveRunOrBackground">>}

MCSymmetry == Permutations(Messages) \cup Permutations(Actors)
              \cup Permutations(Slots)

(* Without is SelectSeq on every queue of at most four ids.                *)
ASSUME WithoutIsSelectSeq ==
  \A q \in UNION {[1 .. n -> 1 .. 3] : n \in 0 .. 4}, S \in SUBSET (1 .. 3) :
    Without(q, S) = SelectSeq(q, LAMBDA x : x \notin S)
==============================================================================
