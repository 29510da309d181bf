------------------------------ MODULE Collector ------------------------------
(***************************************************************************)
(* The parts of the collector: the listeners that keep the responses of    *)
(* the page, a whole run, and the status file over the days.  They share   *)
(* no variable: "part" says which of them runs, so a property of one holds *)
(* here exactly when it holds of that part alone.                          *)
(***************************************************************************)
EXTENDS PanelCapture

CONSTANTS
  Arguments, MaxFailures,                         \* CompassRun
  StatusModules, Manual, StatusDays, ManualDays   \* DailyStatus

VARIABLES
  part,       \* what runs
  \* CompassRun
  args, runPc, left, coming, runRanges, dataDay, runItems, counts, outputs, runStatus,
  runToday, failures,
  \* DailyStatus
  status, slot, dayPc, draft, holder, requested, result, merged, latest, dailyEnd,
  undisturbed, overlapped, retried

Compass == INSTANCE CompassRun WITH
  pc <- runPc, ranges <- runRanges, items <- runItems, status <- runStatus,
  today <- runToday

Daily == INSTANCE DailyStatus WITH
  Modules <- StatusModules, MaxDays <- StatusDays, pc <- dayPc

\* What the instances assume of their constants.
ASSUME RunsAssumption == Compass!RunAssumption /\ Daily!StatusAssumption

captureVars == pvars
compassVars == <<args, runPc, left, coming, runRanges, dataDay, runItems, counts, outputs,
                 runStatus, runToday, failures>>
dailyVars == <<status, slot, dayPc, draft, holder, requested, result, merged, latest,
               dailyEnd, undisturbed, overlapped, retried>>
collectorVars == <<part, captureVars, compassVars, dailyVars>>

CollectorInit ==
  /\ part \in {"channel", "douyin", "compass", "days"}
  /\ PanelInit /\ Compass!Init /\ Daily!Init
  /\ part # "compass" => args = CHOOSE a \in Arguments : TRUE  \* no run: one is enough

CollectorNext ==
  /\ UNCHANGED part
  /\ \/ part = "channel" /\ Next /\ UNCHANGED <<panelVars, compassVars, dailyVars>>
     \/ part = "douyin" /\ PanelNext /\ UNCHANGED <<compassVars, dailyVars>>
     \/ part = "compass" /\ Compass!Next /\ UNCHANGED <<captureVars, dailyVars>>
     \/ part = "days" /\ Daily!Next /\ UNCHANGED <<captureVars, compassVars>>

CollectorSpec == CollectorInit /\ [][CollectorNext]_collectorVars

-----------------------------------------------------------------------------
(***************************************************************************)
(* The properties of the instances.                                        *)
(***************************************************************************)

\* What a run says is what it did, whatever failed: each module has counted every shop
\* so far exactly once and every success has its item, a good state has the files that
\* it tells of, and the state of a run that is over is final unless its write failed
\* (compass.run, compass.save_run, scheduler.main).
RunAccounted ==
  Compass!EveryShopAccounted /\ Compass!StateTellsResult /\ Compass!ExitTellsEnd

\* What a compass run files under a day was confirmed for that day, however late
\* answers come and midnight falls (operations.choose_data_day, channel.collect).
FiledUnderExpectedDay == Compass!FiledUnderExpectedDay

\* Unless two status writers overlap, the status tells of each module what the latest
\* run that reported it said (scheduler.main, write_task_status).
ModulesAsReported == Daily!ModulesAsReported

\* The retry after a daily run that has reported, with nobody writing since, collects
\* what that run failed to collect, and nothing else (cron_scrape_retry.sh).
RetryFitsReport == Daily!RetryFitsReport
=============================================================================
