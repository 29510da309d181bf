----------------------------- MODULE MCInventory -----------------------------
(***************************************************************************)
(* The parts of the inventory's synchronisation, checked together.         *)
(*                                                                         *)
(*   syncs  syncs that meet, at two points in time of one day: a daily run *)
(*          and an hourly one in the collector's container and the         *)
(*          catch-up, which is a daily run too, in the API's; the daily    *)
(*          run's writes may fail, the catch-up may crash                  *)
(*   merge  three rows on pages of one, and points in time 0 to 3 with a   *)
(*          window of one: long enough for a gap, and for a quiet sync     *)
(*          after a moved page                                             *)
(*   days   three days, a turnover over two of them                        *)
(***************************************************************************)
EXTENDS Inventory, TLC

CONSTANTS daily, catchup, hourly, k1, k2, k3

KindDef == daily :> "daily" @@ catchup :> "daily" @@ hourly :> "hourly"
ContainerDef == daily :> "collector" @@ catchup :> "api" @@ hourly :> "collector"
KeysDef == <<k1, k2, k3>>
=============================================================================
