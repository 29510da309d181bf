------------------------------ MODULE MCJobLock ------------------------------
(***************************************************************************)
(* Instances of JobLock: three scheduler processes, some of which may be   *)
(* killed.                                                                 *)
(***************************************************************************)
EXTENDS JobLock

CONSTANTS w1, w2, w3

ThreeWorkers == {w1, w2, w3}
TwoMortals == {w1, w2}
Nobody == {}
=============================================================================
