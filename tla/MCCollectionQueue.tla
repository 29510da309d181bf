-------------------------- MODULE MCCollectionQueue --------------------------
(***************************************************************************)
(* Instances of CollectionQueue for TLC: POSTs c1, c2; workers w1, w2 for  *)
(* the service to spawn, k1 for cron or for the service.                   *)
(***************************************************************************)
EXTENDS CollectionQueue, TLC

CONSTANTS c1, c2, w1, w2, k1

TwoClients == {c1, c2}
OneClient == {c1}
ServiceWorkers == {w1, w2}
WithCron == {w1, w2, k1}
Cron == {k1}
FirstWorker == {w1}
Nobody == {}

\* Two POSTs are alike, and so are three workers of the service that nobody kills.
Interchangeable == Permutations({c1, c2}) \cup Permutations({w1, w2, k1})
=============================================================================
