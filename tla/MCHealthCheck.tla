--------------------------- MODULE MCHealthCheck ---------------------------
(* HealthCheck with two requests; one dependency stands for the four that  *)
(* are checked on connections of their own.                                *)
EXTENDS HealthCheck

CONSTANTS r1, r2, queue, mysql

TwoRequests == {r1, r2}
TwoDependencies == {queue, mysql}
=============================================================================
