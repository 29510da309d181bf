----------------------------- MODULE InventoryDays -----------------------------
(***************************************************************************)
(* The stock syncs over the days: cron's runs in the collector container,  *)
(* the catch-up when the API container starts, and the turnover that the   *)
(* dashboard computes from the daily history.                              *)
(*                                                                         *)
(* A day has three parts here: "night" until 3:00, "three", when the daily *)
(* run is due, and "later".  A sync is one step, which succeeds or not     *)
(* (see InventorySync).                                                    *)
(***************************************************************************)
EXTENDS Integers, FiniteSets, FiniteSetsExt

CONSTANTS
  TurnoverDays, \* ACTUAL_TURNOVER_WINDOW_DAYS
  MaxDay,       \* bound: the last day
  None

\* What an instance assumes.
DaysAssumption ==
  TurnoverDays \in Nat \ {0} /\ MaxDay \in Nat \ {0} /\ None \notin Nat

VARIABLES
  day,       \* the day
  part,      \* the part of the day
  collectorUp, apiUp,  \* whether the containers run
  configured,          \* whether there is a wdt.env, without which every sync is skipped
  snapshot,  \* the day of captured_at of the snapshot, or None
  history,   \* the days that have a history file
  early,     \* history: the days refreshed before the API's container was started after 3:00
  missed,    \* history: the days whose run at 3:00 did not take place
  failed,    \* history: the days on which a run at 3:00 or a catch-up failed
  started    \* history: the days on which the API's container was started, with a wdt.env,
             \* after 3:00

historyVars == <<early, missed, failed, started>>
containerVars == <<collectorUp, apiUp, configured>>
vars == <<day, part, containerVars, snapshot, history, historyVars>>

Days == 1..MaxDay

Init ==
  /\ day = 1 /\ part = "night"
  /\ collectorUp \in BOOLEAN /\ apiUp \in BOOLEAN /\ configured \in BOOLEAN
  /\ snapshot = None /\ history = {}
  /\ early = {} /\ missed = {} /\ failed = {} /\ started = {}

----------------------------------------------------------------------------
(***************************************************************************)
(* Cron                                                                    *)
(***************************************************************************)

\* run_sync with --refresh-only or --inventory-only.
RefreshSync == snapshot' = day /\ UNCHANGED history

\* run_sync without: the history of the day is written if there is none.
DailySync == snapshot' = day /\ history' = history \cup {day}

NoSync == UNCHANGED <<snapshot, history>>

\* The runs at 17 and 23 past the hour.
Hourly ==
  /\ collectorUp /\ configured /\ part # "three" /\ RefreshSync
  /\ early' = IF day \in started THEN early ELSE early \cup {day}
  /\ UNCHANGED <<day, part, containerVars, missed, failed, started>>

\* The run at 3:00, if the container is up and cron_inventory_sync.sh finds a wdt.env.
AtThree ==
  /\ part = "night" /\ part' = "three"
  /\ IF collectorUp /\ configured
     THEN /\ \/ DailySync /\ UNCHANGED failed
             \/ NoSync /\ failed' = failed \cup {day}
          /\ UNCHANGED missed
     ELSE NoSync /\ missed' = missed \cup {day} /\ UNCHANGED failed
  /\ UNCHANGED <<day, containerVars, early, started>>

AfterThree ==
  /\ part = "three" /\ part' = "later"
  /\ UNCHANGED <<day, containerVars, snapshot, history, historyVars>>

Midnight ==
  /\ part = "later" /\ day < MaxDay
  /\ day' = day + 1 /\ part' = "night"
  /\ UNCHANGED <<containerVars, snapshot, history, historyVars>>

----------------------------------------------------------------------------
(***************************************************************************)
(* The containers                                                          *)
(***************************************************************************)

\* The collector's container stops, or starts: without a catch-up.
ToggleCollector ==
  /\ collectorUp' = ~collectorUp
  /\ UNCHANGED <<day, part, apiUp, configured, snapshot, history, historyVars>>

StopApi ==
  /\ apiUp /\ apiUp' = FALSE
  /\ UNCHANGED <<day, part, collectorUp, configured, snapshot, history, historyVars>>

\* The operator puts a wdt.env there.
Configure ==
  /\ ~configured /\ configured' = TRUE
  /\ UNCHANGED <<day, part, collectorUp, apiUp, snapshot, history, historyVars>>

\* The newest snapshot that can be expected.
ExpectedDate == IF part = "night" THEN day - 1 ELSE day

\* Mutant: a snapshot of the day before is new enough.
UpToDate_Yesterday == snapshot # None /\ snapshot >= day - 1

UpToDate == snapshot # None /\ snapshot >= ExpectedDate

\* start.sh and inventory_sync_catchup.sh; a sync that fails stops nothing.
BootApi ==
  /\ ~apiUp /\ apiUp' = TRUE
  /\ IF ~configured \/ UpToDate THEN NoSync /\ UNCHANGED failed
     ELSE \/ DailySync /\ UNCHANGED failed
          \/ NoSync /\ failed' = failed \cup {day}
  /\ started' = IF configured /\ part # "night" THEN started \cup {day} ELSE started
  /\ UNCHANGED <<day, part, collectorUp, configured, early, missed>>

Next ==
  \/ Hourly \/ AtThree \/ AfterThree \/ Midnight
  \/ ToggleCollector \/ StopApi \/ BootApi \/ Configure

Spec == Init /\ [][Next]_vars

----------------------------------------------------------------------------
(***************************************************************************)
(* historical_turnover of apps/legacy_metrics_py/inventory_data.py         *)
(***************************************************************************)

\* The last TurnoverDays of the dates.
Latest(dates) ==
  {d \in dates : Cardinality({e \in dates : e >= d}) <= TurnoverDays}

TurnoverReady(dates) ==
  LET latest == Latest(dates)
  IN /\ Cardinality(latest) = TurnoverDays
     /\ Max(latest) - Min(latest) = TurnoverDays - 1

----------------------------------------------------------------------------
(***************************************************************************)
(* Properties.                                                             *)
(***************************************************************************)
Past == {d \in Days : d < day \/ (d = day /\ part # "night")}

\* A day without history has a run at 3:00 or a catch-up that failed; or its run at 3:00
\* did not take place, for the collector's container was down or there was no wdt.env, and
\* after 3:00 the API's container was not started with a wdt.env, or only when a refresh
\* had made a snapshot of that day, which the catch-up takes for the daily run's.
HistoryGapExplained ==
  \A d \in Past \ history :
    \/ d \in failed
    \/ d \in missed /\ (d \notin started \/ d \in early)

\* The turnover is computed from the samples of TurnoverDays days in a row.
TurnoverOfDaysInARow ==
  TurnoverReady(history) =>
    \E first \in Days : Latest(history) = first..(first + TurnoverDays - 1)
=============================================================================
