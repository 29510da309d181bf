------------------------------ MODULE JobLock ------------------------------
(***************************************************************************)
(* The collection lock output/collection/job.lock.                         *)
(*                                                                         *)
(* Every collection run is one process of apps/collector_py/scheduler.py,  *)
(* started by cron or by the collector service; it takes the lock with     *)
(* acquire_lock, collects, and removes the file in a finally.  The         *)
(* collector service (apps/collector_py/service.py) never takes the lock:  *)
(* lock_active looks at the file and removes it when it looks stale.       *)
(*                                                                         *)
(* The lock is a FILE, so taking it is two steps: open("x") creates an     *)
(* empty file, and the payload that names the owner's pid is written       *)
(* afterwards.  Judging a lock stale and unlinking the path are two steps  *)
(* as well, and the file removed by the second need not be the one that    *)
(* was read by the first.                                                  *)
(*                                                                         *)
(* A worker is one process, so a pid is never reused in the model; the     *)
(* rust wrapper luopan-worker-rs and the python scheduler it waits for are *)
(* one worker.                                                             *)
(***************************************************************************)
EXTENDS Naturals

CONSTANTS
  Workers,   \* the scheduler processes that may ever run
  Mortal,    \* those of them that may be killed (SIGKILL, OOM, container stop)
  NoFile     \* "there is no file at this path"

ASSUME LockAssumption ==
  /\ Mortal \subseteq Workers
  /\ NoFile \notin Workers

VARIABLES
  lockFile,  \* the worker that created the file now at job.lock, or NoFile
  wpc,       \* where each worker is
  tries,     \* rounds of acquire_lock's loop each worker has used up
  dead,      \* the workers that were killed
  look,      \* how far the service's lock_active() has come
  misread,   \* history: a lock was judged stale though its owner was alive
  wronged    \* history: a live owner's lock file was removed by another process

lockVars == <<lockFile, wpc, tries, dead, look, misread, wronged>>

Exited == {"skipped", "succeeded", "failed"}

WorkerStates ==
  {"new", "open", "write", "probe", "unlink", "collect", "finishing", "failing"}
    \cup Exited

LockTypeOK ==
  /\ lockFile \in Workers \cup {NoFile}
  /\ wpc \in [Workers -> WorkerStates]
  /\ tries \in [Workers -> 0..2]
  /\ dead \in SUBSET Mortal
  /\ look \in {"away", "seen", "reap"}
  /\ misread \in BOOLEAN
  /\ wronged \in BOOLEAN

----------------------------------------------------------------------------
(***************************************************************************)
(* What a reader of the file sees.                                         *)
(***************************************************************************)

\* os.kill(pid, 0) succeeds.
Alive(w) == wpc[w] \notin {"new"} \cup Exited /\ w \notin dead

\* The file exists and its JSON payload is still missing.
Unwritten == lockFile # NoFile /\ wpc[lockFile] = "write"

\* The reader finds an owner and the owner runs: the lock is in force.
InForce == lockFile # NoFile /\ ~Unwritten /\ Alive(lockFile)

\* The worker believes that it owns the lock.
Inside(w) == wpc[w] \in {"write", "collect", "finishing", "failing"} /\ w \notin dead

\* The verdict "stale": the payload does not parse, or names a dead process, or
\* the file went away between the exists() and the read, which is an OSError.
JudgeStale ==
  /\ ~InForce
  /\ misread' = (misread \/ lockFile = NoFile \/ Alive(lockFile))

\* unlink(missing_ok=True) of whatever file is at the path now.
UnlinkLock(remover) ==
  /\ lockFile' = NoFile
  /\ wronged' = (wronged \/ (lockFile \notin {NoFile, remover} /\ Inside(lockFile)))

----------------------------------------------------------------------------
(***************************************************************************)
(* The scheduler process.                                                  *)
(***************************************************************************)

Goto(w, from, to) == wpc[w] = from /\ w \notin dead /\ wpc' = [wpc EXCEPT ![w] = to]

\* LOCK_PATH.open("x"): the file is created empty, or FileExistsError.
TryCreate(w) ==
  /\ \/ /\ lockFile = NoFile
        /\ Goto(w, "open", "write")
        /\ lockFile' = w
     \/ /\ lockFile # NoFile
        /\ Goto(w, "open", "probe")
        /\ UNCHANGED lockFile
  /\ UNCHANGED <<tries, dead, look, misread, wronged>>

\* lock.write(payload) and close: the payload lands in the file w created, which
\* is at the path only while lockFile = w.
WritePayload(w) ==
  /\ Goto(w, "write", "collect")
  /\ UNCHANGED <<lockFile, tries, dead, look, misread, wronged>>

\* stale_lock() is False: the lock is in force, or it is gone at the exists().
\* acquire_lock returns False, main writes the status "skipped" and returns.
ProbeBusy(w) ==
  /\ InForce \/ lockFile = NoFile
  /\ Goto(w, "probe", "skipped")
  /\ UNCHANGED <<lockFile, tries, dead, look, misread, wronged>>

\* Mutant: a lock whose owner runs is taken for stale (age decides, not the pid).
ProbeStale_ByAge(w) ==
  /\ Goto(w, "probe", "unlink")
  /\ UNCHANGED <<lockFile, tries, dead, look, misread, wronged>>

\* Mutant: only an unparsable payload is stale, a killed owner's lock is not.
ProbeStale_OnlyUnparsable(w) ==
  /\ Unwritten \/ lockFile = NoFile
  /\ JudgeStale
  /\ Goto(w, "probe", "unlink")
  /\ UNCHANGED <<lockFile, tries, dead, look, wronged>>

\* stale_lock() is True.
ProbeStale(w) ==
  /\ JudgeStale
  /\ Goto(w, "probe", "unlink")
  /\ UNCHANGED <<lockFile, tries, dead, look, wronged>>

\* LOCK_PATH.unlink(missing_ok=True), then the second and last try; after it
\* acquire_lock gives up.
UnlinkStale(w) ==
  /\ UnlinkLock(w)
  /\ tries' = [tries EXCEPT ![w] = @ + 1]
  /\ Goto(w, "unlink", IF tries[w] = 0 THEN "open" ELSE "skipped")
  /\ UNCHANGED <<dead, look, misread>>

\* The collection (random delay, browser run of at most three hours, save_run,
\* status updates) ends or raises.
Collect(w) ==
  /\ Goto(w, "collect", "finishing") \/ Goto(w, "collect", "failing")
  /\ UNCHANGED <<lockFile, tries, dead, look, misread, wronged>>

\* Mutant: the lock is removed after a success only, not in a finally.
Release_OnSuccess(w) ==
  /\ \/ UnlinkLock(w) /\ Goto(w, "finishing", "succeeded")
     \/ UNCHANGED <<lockFile, wronged>> /\ Goto(w, "failing", "failed")
  /\ UNCHANGED <<tries, dead, look, misread>>

\* finally: LOCK_PATH.unlink(missing_ok=True), whoever created the file.
Release(w) ==
  /\ UnlinkLock(w)
  /\ Goto(w, "finishing", "succeeded") \/ Goto(w, "failing", "failed")
  /\ UNCHANGED <<tries, dead, look, misread>>

\* The process is killed: no finally runs and its lock file stays.
Die(w) ==
  /\ w \in Mortal /\ Alive(w)
  /\ dead' = dead \cup {w}
  /\ UNCHANGED <<lockFile, wpc, tries, look, misread, wronged>>

WorkerStep(w) ==
  \/ TryCreate(w)
  \/ WritePayload(w)
  \/ ProbeBusy(w)
  \/ ProbeStale(w)
  \/ UnlinkStale(w)
  \/ Collect(w)
  \/ Release(w)

\* cron or the collector service starts the process.
StartWorker(w) ==
  /\ Goto(w, "new", "open")
  /\ UNCHANGED <<lockFile, tries, dead, look, misread, wronged>>

----------------------------------------------------------------------------
(***************************************************************************)
(* The collector service's lock_active().                                  *)
(***************************************************************************)

\* exists() is True; when it is False lock_active returns at once.
ServiceSeesLock ==
  /\ look = "away" /\ look' = "seen"
  /\ lockFile # NoFile
  /\ UNCHANGED <<lockFile, wpc, tries, dead, misread, wronged>>

\* The payload names a running process: lock_active returns True.
ServiceSeesActive ==
  /\ look = "seen" /\ look' = "away"
  /\ InForce
  /\ UNCHANGED <<lockFile, wpc, tries, dead, misread, wronged>>

ServiceSeesStale ==
  /\ look = "seen" /\ look' = "reap"
  /\ JudgeStale
  /\ UNCHANGED <<lockFile, wpc, tries, dead, wronged>>

\* LOCK_PATH.unlink(missing_ok=True): lock_active returns False.
ServiceReaps ==
  /\ look = "reap" /\ look' = "away"
  /\ UnlinkLock(NoFile)
  /\ UNCHANGED <<wpc, tries, dead, misread>>

\* The service is killed inside lock_active.
ServiceForgets ==
  /\ look # "away" /\ look' = "away"
  /\ UNCHANGED <<lockFile, wpc, tries, dead, misread, wronged>>

ServiceLooks ==
  \/ ServiceSeesLock
  \/ ServiceSeesActive
  \/ ServiceSeesStale
  \/ ServiceReaps

----------------------------------------------------------------------------
LockInit ==
  /\ lockFile = NoFile
  /\ wpc = [w \in Workers |-> "new"]
  /\ tries = [w \in Workers |-> 0]
  /\ dead = {}
  /\ look = "away"
  /\ misread = FALSE
  /\ wronged = FALSE

LockNext ==
  \/ \E w \in Workers : StartWorker(w) \/ WorkerStep(w) \/ Die(w)
  \/ ServiceLooks
  \/ ServiceForgets

LockSpec == LockInit /\ [][LockNext]_lockVars

\* The workers are operating-system processes: each one keeps running until it
\* exits or dies.  Nothing obliges cron to start one or the service to look.
LockFairness == \A w \in Workers : WF_lockVars(WorkerStep(w))

FairLockSpec == LockSpec /\ LockFairness

----------------------------------------------------------------------------
(***************************************************************************)
(* Properties.                                                             *)
(***************************************************************************)

\* No two running processes collect at the same time: one Chromium profile, one
\* run.  This is what acquire_lock is for; the code does not guarantee it.
Exclusive ==
  \A v, w \in Workers :
    (wpc[v] = "collect" /\ wpc[w] = "collect" /\ {v, w} \cap dead = {}) => v = w

\* Two processes collect at the same time only after some process removed the
\* lock file of a running owner: creation by open("x") and the owner's own
\* unlink never break the exclusion by themselves, crashes included.
ExclusiveUnlessWronged == ~wronged => Exclusive

\* Exactly two accidents lead there: a reader judged stale a lock that was in
\* the making, or an owner was killed and two processes cleared its lock.  With
\* neither, no owner ever loses its file and the exclusion holds.
ExclusiveWithoutAccident == (dead = {} /\ ~misread) => (Exclusive /\ ~wronged)

\* Every started process leaves: acquire_lock never spins, and the file of a
\* killed owner, whatever it holds, blocks nobody for ever.
WorkersExit == \A w \in Workers : wpc[w] = "open" ~> (wpc[w] \in Exited \/ w \in dead)

\* The lock file does not outlive its owner's exit: when no worker runs, the
\* file at the path, if any, was left by a killed process.
NoOrphanWithoutDeath ==
  (\A w \in Workers : ~Alive(w)) => lockFile \in dead \cup {NoFile}
=============================================================================
