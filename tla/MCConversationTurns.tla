------------------------- MODULE MCConversationTurns -------------------------
(* ConversationTurns for TLC: the two turns of a team, or one of a user and  *)
(* one of a cron job.                                                        *)
EXTENDS ConversationTurns

CONSTANTS r1, r2

MCCallers == {[r \in Requests |-> "team"],
              [r \in Requests |-> IF r = r1 THEN "user" ELSE "cron"]}
==============================================================================
