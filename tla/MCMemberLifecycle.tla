-------------------------- MODULE MCMemberLifecycle --------------------------
(* Small instances of MemberLifecycle.                                     *)
EXTENDS MemberLifecycle, TLC

MCSymmetry == Permutations(Removers)
==============================================================================
