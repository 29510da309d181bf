------------------------------- MODULE Inventory -------------------------------
(***************************************************************************)
(* The inventory's synchronisation: syncs that meet, what a sync fetches   *)
(* and merges, and the syncs over the days.  The three share no variable:  *)
(* "part" says which of them runs, so a property of one holds here exactly *)
(* when it holds of that part alone.                                       *)
(***************************************************************************)
EXTENDS InventorySync

CONSTANTS
  \* InventoryMerge
  Keys, Window, PageSize, MaxPages, Threshold, MaxMergeTime,
  \* InventoryDays
  TurnoverDays, MaxDay

VARIABLES
  part,       \* what runs
  \* InventoryMerge
  mergeClock, source, merged, end, pages, page, fetched, quiet, covered,
  \* InventoryDays
  day, partOfDay, collectorUp, apiUp, configured, dayOfSnapshot, written,
  early, missed, failed, started

Merge == INSTANCE InventoryMerge WITH
  MaxTime <- MaxMergeTime, clock <- mergeClock, snapshot <- merged

Calendar == INSTANCE InventoryDays WITH
  part <- partOfDay, snapshot <- dayOfSnapshot, history <- written

\* What the instances assume of their constants.
ASSUME InventoryAssumption == Merge!MergeAssumption /\ Calendar!DaysAssumption

mergeVars == <<mergeClock, source, merged, end, pages, page, fetched, quiet, covered>>
dayVars == <<day, partOfDay, collectorUp, apiUp, configured, dayOfSnapshot, written,
             early, missed, failed, started>>
inventoryVars == <<part, vars, mergeVars, dayVars>>

InventoryInit ==
  /\ part \in {"syncs", "merge", "days"}
  /\ Init /\ Merge!Init /\ Calendar!Init
  /\ part # "days" => collectorUp /\ apiUp /\ configured

InventoryNext ==
  /\ UNCHANGED part
  /\ \/ part = "syncs" /\ Next /\ UNCHANGED <<mergeVars, dayVars>>
     \/ part = "merge" /\ Merge!Next /\ UNCHANGED <<vars, dayVars>>
     \/ part = "days" /\ Calendar!Next /\ UNCHANGED <<vars, mergeVars>>

InventorySpec == InventoryInit /\ [][InventoryNext]_inventoryVars

-----------------------------------------------------------------------------
(***************************************************************************)
(* The properties of the instances.                                        *)
(***************************************************************************)

\* Of every row that changed since the gapless time began, the snapshot has the present
\* version or, if it is deleted, nothing: the next quiet sync puts right what moved
\* pages, refused results and failed requests have missed (inventory_sync.merge).
SnapshotTellsStock == Merge!SnapshotTellsStock

\* The daily history: a day without it has a run at 3:00 or a catch-up that failed, or the
\* run at 3:00 did not take place and no catch-up was due; and a turnover is computed from
\* days in a row only (docker/inventory_sync_catchup.sh, historical_turnover).
HistoryAccounted == Calendar!HistoryGapExplained /\ Calendar!TurnoverOfDaysInARow
=============================================================================
