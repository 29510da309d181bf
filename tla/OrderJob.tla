------------------------------ MODULE OrderJob ------------------------------
(***************************************************************************)
(* The order collection job, apps/scraper_py/order_scheduler_run.py: a     *)
(* process started by hand or by a timer looks for order_job.lock, skips   *)
(* when another's is there and younger than four hours, writes its own,    *)
(* collects, reports into order_job_status.json and removes whatever lock  *)
(* is then at the path.                                                    *)
(*                                                                         *)
(* Each file operation is a step.  The lock is written by write_text,      *)
(* which empties the file (creating it when there is none) and fills it    *)
(* afterwards; a process that emptied a file keeps writing to that file,   *)
(* removed or not, so the lock records who has it open.  The status is a   *)
(* whole file written afresh each time and is abstracted to its state.     *)
(***************************************************************************)
EXTENDS Naturals, FiniteSets

CONSTANTS Jobs,      \* the processes, each one run of the command
          None       \* no file

Locks   == [by : SUBSET Jobs, full : BOOLEAN, old : BOOLEAN]
States  == {"skipped", "running", "success", "failed"}
Results == {"success", "failed", "exit"}

ASSUME NoneAssumption ==
  None \notin Jobs /\ None \notin Locks /\ None \notin States /\ None \notin Results

VARIABLES pc,        \* where each process is in main()
          lock,      \* order_job.lock: None or who wrote it, whether it is filled, whether it is over 4 h old
          status,    \* the "state" of order_job_status.json
          result,    \* how the process's collection ended
          accident   \* history: what the lock does not exclude has happened

vars == <<pc, lock, status, result, accident>>

\* The steps of main() at which a process has been admitted and is not done.
Admitted   == {"create", "fill", "announce", "collect", "report", "release"}

Goto(j, step) == pc' = [pc EXCEPT ![j] = step]
Others(j)     == Jobs \ {j}
Happens(what) == accident' = accident \cup {what}

Init ==
  /\ pc = [j \in Jobs |-> "idle"]
  /\ lock = None
  /\ status = None
  /\ result = [j \in Jobs |-> None]
  /\ accident = {}

Start(j) ==
  /\ pc[j] = "idle"
  /\ Goto(j, "look")
  /\ UNCHANGED <<lock, status, result, accident>>

\* LOCK_PATH.exists().  History: another process has found the way free and
\* has not written its lock yet.
Look(j) ==
  /\ pc[j] = "look"
  /\ Goto(j, IF lock = None THEN "create" ELSE "judge")
  /\ IF lock = None /\ \E k \in Others(j) : pc[k] = "create"
     THEN Happens("overlap")
     ELSE UNCHANGED accident
  /\ UNCHANGED <<lock, status, result>>

(***************************************************************************)
(* is_lock_stale: a lock that is gone again is not stale, and one that     *)
(* goes between its exists() and its read_text raises; an empty one fails  *)
(* to parse and is stale.  History: a live holder was judged stale, or     *)
(* another process is taking the stale lock over at the same time.         *)
(***************************************************************************)
JudgeLock(j) ==
  /\ pc[j] = "judge"
  /\ \/ lock = None /\ pc' \in {[pc EXCEPT ![j] = s] : s \in {"skip", "end"}}
     \/ lock # None /\ Goto(j, IF lock.old \/ ~lock.full THEN "remove" ELSE "skip")
  /\ IF pc'[j] = "remove" /\ \E k \in Others(j) : pc[k] \in Admitted \cup {"remove"}
     THEN Happens(IF lock.full THEN "expiry" ELSE "torn")
     ELSE UNCHANGED accident
  /\ UNCHANGED <<lock, status, result>>

\* remove_lock of a stale lock: it takes away the file that is there now.
RemoveStale(j) ==
  /\ pc[j] = "remove"
  /\ lock' = None
  /\ Goto(j, "create")
  /\ UNCHANGED <<status, result, accident>>

\* Mutant: the process that skips goes through the finally clause.
Skip_Releases(j) ==
  /\ pc[j] = "skip"
  /\ status' = "skipped"
  /\ Goto(j, "release")
  /\ UNCHANGED <<lock, result, accident>>

\* write_job_status(state="skipped") replaces the whole file, then returns.
Skip(j) ==
  /\ pc[j] = "skip"
  /\ status' = "skipped"
  /\ Goto(j, "end")
  /\ UNCHANGED <<lock, result, accident>>

\* The two halves of LOCK_PATH.write_text.
CreateLock(j) ==
  /\ pc[j] = "create"
  /\ lock' = [by   |-> IF lock = None THEN {j} ELSE lock.by \cup {j},
              full |-> FALSE, old |-> FALSE]
  /\ Goto(j, "fill")
  /\ UNCHANGED <<status, result, accident>>

FillLock(j) ==
  /\ pc[j] = "fill"
  /\ lock' = IF lock # None /\ j \in lock.by
             THEN [lock EXCEPT !.full = TRUE, !.old = FALSE] ELSE lock
  /\ Goto(j, "announce")
  /\ UNCHANGED <<status, result, accident>>

Announce(j) ==
  /\ pc[j] = "announce"
  /\ status' = "running"
  /\ Goto(j, "collect")
  /\ UNCHANGED <<lock, result, accident>>

\* run(parse_args()): it returns, raises an Exception, or leaves by one that
\* is none (SystemExit of the argument parser, a cancelled or interrupted run).
Collect(j) ==
  /\ pc[j] = "collect"
  /\ \E r \in Results :
       /\ result' = [result EXCEPT ![j] = r]
       /\ Goto(j, IF r = "exit" THEN "release" ELSE "report")
  /\ UNCHANGED <<lock, status, accident>>

Report(j) ==
  /\ pc[j] = "report"
  /\ status' = result[j]
  /\ Goto(j, "release")
  /\ UNCHANGED <<lock, result, accident>>

\* Mutant: the lock is removed after a success only.
Release_SuccessOnly(j) ==
  /\ pc[j] = "release"
  /\ lock' = IF result[j] = "success" THEN None ELSE lock
  /\ Goto(j, "end")
  /\ UNCHANGED <<status, result, accident>>

\* The finally clause: the lock that is there now goes, whoever wrote it.
Release(j) ==
  /\ pc[j] = "release"
  /\ lock' = None
  /\ Goto(j, "end")
  /\ UNCHANGED <<status, result, accident>>

\* The process is killed, or the machine stops.
Killed(j) ==
  /\ pc[j] \notin {"idle", "end", "killed"}
  /\ Goto(j, "killed")
  /\ UNCHANGED <<lock, status, result, accident>>

\* LOCK_EXPIRE_SECONDS pass.
Expire ==
  /\ lock # None /\ lock.full /\ ~lock.old
  /\ lock' = [lock EXCEPT !.old = TRUE]
  /\ UNCHANGED <<pc, status, result, accident>>

Next ==
  \/ \E j \in Jobs :
       \/ Start(j) \/ Look(j) \/ JudgeLock(j) \/ RemoveStale(j) \/ Skip(j)
       \/ CreateLock(j) \/ FillLock(j) \/ Announce(j) \/ Collect(j) \/ Report(j)
       \/ Release(j) \/ Killed(j)
  \/ Expire

Spec == Init /\ [][Next]_vars

-----------------------------------------------------------------------------
TypeOK ==
  /\ pc \in [Jobs -> Admitted \cup {"idle", "look", "judge", "remove", "skip", "end", "killed"}]
  /\ lock \in Locks \cup {None}
  /\ status \in States \cup {None}
  /\ result \in [Jobs -> Results \cup {None}]
  /\ accident \subseteq {"overlap", "expiry", "torn"}

(***************************************************************************)
(* Safety: two processes collect at once only after one of three           *)
(* accidents: one looked while another had looked and not yet written, one *)
(* took over a lock while its writer was alive or another was taking it    *)
(* over, or one read the lock between its emptying and its filling (main,  *)
(* is_lock_stale).                                                         *)
(***************************************************************************)
ExclusiveWithoutAccident ==
  accident = {} => Cardinality({j \in Jobs : pc[j] \in Admitted}) <= 1

(***************************************************************************)
(* Safety: a lock is left behind by a killed process only; when all who    *)
(* started have ended, however badly, the next one is free to run (the     *)
(* finally clause).                                                        *)
(***************************************************************************)
LockLeftOnlyByDeath ==
  (\A j \in Jobs : pc[j] \in {"idle", "end"}) => lock = None

(***************************************************************************)
(* Safety: the status says "running" after all have ended only when one of *)
(* them was killed or left by an exception that is no Exception.           *)
(***************************************************************************)
RunningIsOver ==
  (\A j \in Jobs : pc[j] \in {"idle", "end"} /\ result[j] # "exit") => status # "running"
=============================================================================
