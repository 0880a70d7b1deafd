---------------------------- MODULE MCTeamSession ----------------------------
(* TeamSession for TLC: one slot, its loop, the scan and the clients.      *)
EXTENDS TeamSession, TLC

MCActors == Slots \cup Clients \cup {Recovery}

MCRequests == {<<"UserMessage", "UserVisible">>,
               <<"IdleNotification", "ActiveRunOrBackground">>}
==============================================================================
