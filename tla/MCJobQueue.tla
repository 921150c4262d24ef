----------------------------- MODULE MCJobQueue -----------------------------
(* Instances of JobQueue for TLC. *)
EXTENDS JobQueue

CONSTANTS w1, dw

\* Which kind each job id has, per run.
MediaAndFanout == [j \in Jobs |-> IF j = 1 THEN "media" ELSE "fanout"]
FanoutAndBackfill == [j \in Jobs |-> IF j = 1 THEN "fanout" ELSE "backfill"]

=============================================================================
