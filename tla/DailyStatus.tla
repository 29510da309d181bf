------------------------------ MODULE DailyStatus ------------------------------
(***************************************************************************)
(* The status file of the collection over the days: the daily run at 9:00, *)
(* manual runs, and the retry at 15:37 that reads from the file what the   *)
(* daily run failed to collect.                                            *)
(*                                                                         *)
(* A run is apps/collector_py/scheduler.py; what it collects is chosen     *)
(* here (see CompassRun) and its lock excludes (see JobLock).  Every       *)
(* write_status is a process of its own that reads the file, merges its    *)
(* fields and renames, without any lock, so two writers can overlap.       *)
(***************************************************************************)
EXTENDS Naturals, FiniteSets

CONSTANTS
  Modules,     \* AVAILABLE_MODULES
  Manual,      \* the modules of the manual run, {} for none
  MaxDays,     \* bound: the days
  ManualDays,  \* bound: the days with a manual run
  None         \* nothing

Runs == {"daily", "manual", "retry"}
Outcomes == {"success", "partial_success", "failed"}

\* What an instance assumes.
StatusAssumption ==
  /\ Manual \subseteq Modules /\ MaxDays \in Nat \ {0}
  /\ None \notin Runs /\ \A ms \in SUBSET Modules : None # ms

VARIABLES
  status,     \* status.json: state, day of updated_at, and the state of each module
  slot,       \* the day, and whether it is past 15:37
  pc,         \* where each run is
  draft,      \* the merged status that each run's status writer is about to rename
  holder,     \* the run that has job.lock
  requested,  \* the modules of each run
  result,     \* what each run has collected
  merged,     \* the module states that each run is about to report
  latest,     \* history: what the latest report said of each module
  dailyEnd,   \* history: the modules that today's daily run failed to collect, or None
  undisturbed,\* history: nobody else wrote since the daily run's last status
  overlapped, \* history: two status writers have overlapped
  retried     \* what today's retry decided to collect, or None

runVars == <<pc, holder, requested, result, merged>>
historyVars == <<latest, dailyEnd, undisturbed, overlapped>>
vars == <<status, slot, draft, retried, runVars, historyVars>>

Goto(r, from, to) == pc[r] = from /\ pc' = [pc EXCEPT ![r] = to]

Init ==
  /\ status = [state |-> "success", day |-> 0, modules |-> [m \in Modules |-> "success"]]
  /\ slot = [day |-> 1, late |-> FALSE]
  /\ pc = [r \in Runs |-> "off"] /\ draft = [r \in Runs |-> None]
  /\ holder = None
  /\ requested = [r \in Runs |-> {}]
  /\ result = [r \in Runs |-> [m \in Modules |-> "success"]]
  /\ merged = [r \in Runs |-> [m \in Modules |-> "success"]]
  /\ latest = status.modules
  /\ dailyEnd = None /\ undisturbed = FALSE /\ overlapped = FALSE
  /\ retried = None

----------------------------------------------------------------------------
(***************************************************************************)
(* write_status: read and merge, then rename                               *)
(***************************************************************************)
StateOf(r) ==
  CASE pc[r] = "requested" -> "manual_requested"
    [] pc[r] = "skipped" -> "skipped"
    [] pc[r] = "waiting" -> "waiting_random"
    [] pc[r] = "running" -> "running"
    [] pc[r] \in {"raised", "exited"} -> "failed"
    [] pc[r] = "report" ->
         IF \A m \in requested[r] : result[r][m] = "success" THEN "success"
                                                          ELSE "partial_success"

\* Where the run goes after the write; the service writes once more for a run
\* that raised.
NextOf(r) ==
  CASE pc[r] = "requested" -> "await"
    [] pc[r] = "waiting" -> "delay"
    [] pc[r] = "running" -> "collect"
    [] pc[r] \in {"skipped", "exited"} -> "over"
    [] pc[r] = "report" -> "release"
    [] pc[r] = "raised" -> "release failed"

WritesStatus == {"requested", "skipped", "waiting", "running", "raised", "exited", "report"}

\* write_task_status merges into what it has read; a report brings its modules.
ReadAndMerge(r) ==
  /\ pc[r] \in WritesStatus /\ draft[r] = None
  /\ draft' = [draft EXCEPT ![r] =
       [state |-> StateOf(r), day |-> slot.day,
        modules |-> IF pc[r] = "report" THEN merged[r] ELSE status.modules]]
  /\ overlapped' = (overlapped \/ \E q \in Runs \ {r} : draft[q] # None)
  /\ UNCHANGED <<status, slot, retried, runVars, latest, dailyEnd, undisturbed>>

Failed(r) == {m \in requested[r] : result[r][m] # "success"}

Rename(r) ==
  /\ draft[r] # None
  /\ status' = draft[r]
  /\ draft' = [draft EXCEPT ![r] = None]
  /\ pc' = [pc EXCEPT ![r] = NextOf(r)]
  /\ latest' = IF pc[r] = "report"
               THEN [m \in Modules |-> IF m \in requested[r] THEN result[r][m] ELSE latest[m]]
               ELSE latest
  /\ IF r = "daily" /\ pc[r] \in {"report", "raised"}
     THEN /\ dailyEnd' = IF pc[r] = "report" THEN Failed(r) ELSE requested[r]
          /\ undisturbed' = (pc[r] = "report")
     ELSE undisturbed' = FALSE /\ UNCHANGED dailyEnd
  /\ UNCHANGED <<slot, retried, holder, requested, result, merged, overlapped>>

----------------------------------------------------------------------------
(***************************************************************************)
(* Runs                                                                    *)
(***************************************************************************)

\* The cron entries start the daily run ...
StartDaily ==
  /\ ~slot.late /\ dailyEnd = None /\ Goto("daily", "off", "start")
  /\ requested' = [requested EXCEPT !["daily"] = Modules]
  /\ UNCHANGED <<status, slot, draft, retried, holder, result, merged, historyVars>>

\* Mutant: a partly collected module is good enough.
RetryList_FailedOnly ==
  IF status.day = slot.day /\ status.state \in {"failed", "partial_success"}
  THEN LET failed == {m \in Modules : status.modules[m] = "failed"}
       IN IF failed = {} THEN Modules ELSE failed
  ELSE {}

\* What cron_scrape_retry.sh reads from the status file.
RetryList ==
  IF status.day = slot.day /\ status.state \in {"failed", "partial_success"}
  THEN LET failed == {m \in Modules : status.modules[m] # "success"}
       IN IF failed = {} THEN Modules ELSE failed
  ELSE {}

\* ... and the retry, once the daily run is over, which stops if there is nothing to do.
StartRetry ==
  /\ slot.late /\ retried = None
  /\ retried' = RetryList
  /\ IF RetryList = {} THEN UNCHANGED pc ELSE Goto("retry", "off", "start")
  /\ requested' = [requested EXCEPT !["retry"] = RetryList]
  /\ UNCHANGED <<status, slot, draft, holder, result, merged, historyVars>>

\* A manual run is asked for ...
RequestManual ==
  /\ Manual # {} /\ slot.day \in ManualDays /\ Goto("manual", "off", "requested")
  /\ requested' = [requested EXCEPT !["manual"] = Manual]
  /\ UNCHANGED <<status, slot, draft, retried, holder, result, merged, historyVars>>

\* ... and the service starts it when it has seen no lock.
AwaitLock ==
  /\ holder = None /\ Goto("manual", "await", "start")
  /\ UNCHANGED <<status, slot, draft, retried, holder, requested, result, merged, historyVars>>

AcquireLock(r) ==
  /\ IF holder = None
     THEN Goto(r, "start", "waiting") /\ holder' = r
     ELSE Goto(r, "start", "skipped") /\ UNCHANGED holder
  /\ UNCHANGED <<status, slot, draft, retried, requested, result, merged, historyVars>>

DelayOver(r) ==
  /\ Goto(r, "delay", "running")
  /\ UNCHANGED <<status, slot, draft, retried, holder, requested, result, merged, historyVars>>

\* The run collects something of at least one module, or raises.
Collect(r) ==
  /\ \/ /\ Goto(r, "collect", "merge")
        /\ \E outcome \in [Modules -> Outcomes] :
             /\ \E m \in requested[r] : outcome[m] # "failed"
             /\ \A m \in Modules \ requested[r] : outcome[m] = "success"
             /\ result' = [result EXCEPT ![r] = outcome]
     \/ Goto(r, "collect", "raised") /\ UNCHANGED result
  /\ UNCHANGED <<status, slot, draft, retried, holder, requested, merged, historyVars>>

\* Mutant: the report tells of its own modules only.
MergeModules_OwnOnly(r) ==
  /\ Goto(r, "merge", "report")
  /\ merged' = [merged EXCEPT ![r] = result[r]]
  /\ UNCHANGED <<status, slot, draft, retried, holder, requested, result, historyVars>>

\* read_status, and the run's modules are put over those that it has read.
MergeModules(r) ==
  /\ Goto(r, "merge", "report")
  /\ merged' = [merged EXCEPT ![r] =
       [m \in Modules |-> IF m \in requested[r] THEN result[r][m] ELSE status.modules[m]]]
  /\ UNCHANGED <<status, slot, draft, retried, holder, requested, result, historyVars>>

\* finally: the lock is removed; the worker of a manual run that raised exits with 1.
ReleaseLock(r) ==
  /\ \/ Goto(r, "release", "over")
     \/ Goto(r, "release failed", IF r = "manual" THEN "exited" ELSE "over")
  /\ holder' = None
  /\ UNCHANGED <<status, slot, draft, retried, requested, result, merged, historyVars>>

\* 15:37, or the next day once the runs are over.
TimePasses ==
  /\ \/ ~slot.late /\ slot' = [slot EXCEPT !.late = TRUE]
        /\ UNCHANGED <<pc, retried, dailyEnd, undisturbed>>
     \/ /\ slot.late /\ retried # None /\ slot.day < MaxDays
        /\ \A r \in Runs : pc[r] \in {"off", "over"}
        /\ slot' = [day |-> slot.day + 1, late |-> FALSE]
        /\ pc' = [r \in Runs |-> "off"]
        /\ retried' = None /\ dailyEnd' = None /\ undisturbed' = FALSE
  /\ UNCHANGED <<status, draft, holder, requested, result, merged, latest, overlapped>>

RunStep(r) ==
  \/ ReadAndMerge(r) \/ Rename(r) \/ AcquireLock(r) \/ DelayOver(r) \/ Collect(r)
  \/ MergeModules(r) \/ ReleaseLock(r)

Next ==
  \/ StartDaily \/ StartRetry \/ RequestManual \/ AwaitLock
  \/ \E r \in Runs : RunStep(r)
  \/ TimePasses

Spec == Init /\ [][Next]_vars

----------------------------------------------------------------------------
(***************************************************************************)
(* Properties.                                                             *)
(***************************************************************************)

\* Unless two status writers overlap, the file tells of each module what the
\* latest run that reported it said, over all runs, skips and days.
ModulesAsReported == ~overlapped => status.modules = latest

\* The retry after a daily run that has reported, with nobody writing since,
\* collects what that run failed to collect, all of it and nothing else.
RetryFitsReport ==
  [][retried = None /\ retried' # None /\ undisturbed /\ dailyEnd # None
     => retried' = dailyEnd]_vars
=============================================================================
