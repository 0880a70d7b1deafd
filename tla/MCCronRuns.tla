------------------------------ MODULE MCCronRuns ------------------------------
(* CronRuns for TLC.                                                       *)
EXTENDS CronRuns

==============================================================================
