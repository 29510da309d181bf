--------------------------- MODULE CollectionQueue ---------------------------
(***************************************************************************)
(* Manual collection requests, from the dashboard's POST to the end of the *)
(* collection.  Two containers share the directory output/collection:      *)
(*                                                                         *)
(*   the API (apps/api-rs/src/collection.rs) publishes request.json under  *)
(*     the flock of request.enqueue.lock;                                  *)
(*   the collector service (apps/collector_py/service.py) renames it to    *)
(*     request.running.json, waits for job.lock, spawns a worker, waits    *)
(*     for it and removes the file; after a crash it renames the file back;*)
(*   cron starts workers of its own, which know nothing of the requests.   *)
(*                                                                         *)
(* The workers and the lock file are those of JobLock.  A client is one    *)
(* POST; its request is named by the client.                               *)
(***************************************************************************)
EXTENDS JobLock, FiniteSets

CONSTANTS
  Clients,      \* the POST /collection/run calls that may be made
  CronWorkers,  \* the workers that cron starts; the service spawns the others
  MaxCrashes,   \* bound: how often the collector service may be killed
  MaxFaults,    \* bound: how often run_request may raise
  None          \* no client, no worker

ASSUME QueueAssumption ==
  /\ CronWorkers \subseteq Workers
  /\ MaxCrashes \in Nat /\ MaxFaults \in Nat
  /\ NoFile \notin Clients
  /\ None \notin Clients \cup Workers

VARIABLES
  request,      \* request.json: the client whose request it holds, or NoFile
  running,      \* request.running.json, likewise
  temp,         \* request.json.tmp, likewise
  guard,        \* who holds the flock of request.enqueue.lock, or None
  cpc,          \* where each POST is, or how it was answered
  spc,          \* where the service is
  child,        \* the worker the service waits for, or None
  wreq,         \* the request each spawned worker serves, None for cron's
  fate,         \* history: how the service disposed of each request
  overwritten,  \* history: requests whose file was replaced by another request
  crashes,      \* how often the service was killed
  faults        \* how often run_request raised

fileVars == <<request, running, temp>>
apiVars == <<guard, cpc>>
serviceVars == <<spc, child, fate>>
countVars == <<crashes, faults>>
queueVars == <<fileVars, apiVars, serviceVars, countVars, wreq, overwritten>>
vars == <<lockVars, queueVars>>

Answered == {"accepted", "failed", "busy", "offline", "refused", "gone"}

\* The states in which a POST holds the flock.
Guarded == {"check request", "check running", "check lock", "write", "rename", "patch"}

ClientStates ==
  {"idle", "see request", "see running", "enqueue", "clean refused", "clean failed"}
    \cup Guarded \cup Answered

ServiceStates ==
  {"down", "recover", "requeue", "rename back", "take", "wait", "spawn", "poll", "finish"}

Fates == {"none", "exit 0", "exit 1", "error"}

TypeOK ==
  /\ LockTypeOK
  /\ request \in Clients \cup {NoFile}
  /\ running \in Clients \cup {NoFile}
  /\ temp \in Clients \cup {NoFile}
  /\ guard \in Clients \cup {None}
  /\ cpc \in [Clients -> ClientStates]
  /\ spc \in ServiceStates
  /\ child \in Workers \cup {None}
  /\ wreq \in [Workers -> Clients \cup {None}]
  /\ fate \in [Clients -> Fates]
  /\ overwritten \in SUBSET Clients
  /\ crashes \in 0..MaxCrashes
  /\ faults \in 0..MaxFaults

----------------------------------------------------------------------------
(***************************************************************************)
(* The API: enqueue_collection and write_collection_request.               *)
(***************************************************************************)

CGoto(c, from, to) == cpc[c] = from /\ cpc' = [cpc EXCEPT ![c] = to]

ApiOnly == UNCHANGED <<lockVars, serviceVars, countVars, wreq, overwritten>>

\* status_payload, read file by file: job.lock, request.json, request.running.json.
\* A busy snapshot answers 409; the heartbeat decides between 503 and going on,
\* and only a service that is down can have let it grow older than 30 seconds.
SnapshotLock(c) ==
  /\ CGoto(c, "idle", IF lockFile # NoFile THEN "busy" ELSE "see request")
  /\ UNCHANGED <<fileVars, guard>> /\ ApiOnly

SnapshotRequest(c) ==
  /\ CGoto(c, "see request", IF request # NoFile THEN "busy" ELSE "see running")
  /\ UNCHANGED <<fileVars, guard>> /\ ApiOnly

SnapshotRunning(c) ==
  /\ \/ running # NoFile /\ CGoto(c, "see running", "busy")
     \/ running = NoFile /\ CGoto(c, "see running", "enqueue")
     \/ running = NoFile /\ spc = "down" /\ CGoto(c, "see running", "offline")
  /\ UNCHANGED <<fileVars, guard>> /\ ApiOnly

\* Mutant: the flock is not taken.
TakeGuard_NoLock(c) ==
  /\ CGoto(c, "enqueue", "check request") /\ guard' = c
  /\ UNCHANGED fileVars /\ ApiOnly

\* try_lock_exclusive: fails at once when another POST holds the flock.
TakeGuard(c) ==
  /\ \/ guard = None /\ guard' = c /\ CGoto(c, "enqueue", "check request")
     \/ guard # None /\ UNCHANGED guard /\ CGoto(c, "enqueue", "refused")
  /\ UNCHANGED fileVars /\ ApiOnly

\* One exists() of the check under the flock.  A file that is there makes the
\* call bail: the flock is dropped first, then the temporary file is removed.
Check(c, from, file, to) ==
  /\ \/ file = NoFile /\ CGoto(c, from, to) /\ UNCHANGED guard
     \/ file # NoFile /\ CGoto(c, from, "clean refused") /\ guard' = None
  /\ UNCHANGED fileVars /\ ApiOnly

\* Mutant: the check before publishing leaves out request.running.json.
CheckRunning_Skipped(c) ==
  /\ CGoto(c, "check running", "check lock")
  /\ UNCHANGED <<fileVars, guard>> /\ ApiOnly

CheckRequest(c) == Check(c, "check request", request, "check running")
CheckRunning(c) == Check(c, "check running", running, "check lock")
CheckLock(c) == Check(c, "check lock", lockFile, "write")

WriteTemp(c) ==
  /\ CGoto(c, "write", "rename") /\ temp' = c
  /\ UNCHANGED <<request, running, guard>> /\ ApiOnly

\* rename(request.json.tmp, request.json) replaces whatever is there; it fails
\* when the temporary file was removed by a POST that is cleaning up.
Publish(c) ==
  /\ \/ /\ temp # NoFile /\ CGoto(c, "rename", "patch")
        /\ request' = temp /\ temp' = NoFile
        /\ overwritten' = overwritten \cup ({request} \ {NoFile})
        /\ UNCHANGED guard
     \/ /\ temp = NoFile /\ CGoto(c, "rename", "clean refused") /\ guard' = None
        /\ UNCHANGED <<request, temp, overwritten>>
  /\ UNCHANGED <<running, lockVars, serviceVars, countVars, wreq>>

\* Mutant: a status that cannot be written turns the POST away.
PatchStatus_Refuses(c) ==
  /\ CGoto(c, "patch", "accepted") \/ CGoto(c, "patch", "clean refused")
  /\ guard' = None
  /\ UNCHANGED fileVars /\ ApiOnly

\* write_task_status, which may fail after the request is out; then drop(guard).
PatchStatus(c) ==
  /\ CGoto(c, "patch", "accepted") \/ CGoto(c, "patch", "clean failed")
  /\ guard' = None
  /\ UNCHANGED fileVars /\ ApiOnly

\* remove_file(&temporary), after the flock was dropped.
CleanTemp(c) ==
  /\ CGoto(c, "clean refused", "refused") \/ CGoto(c, "clean failed", "failed")
  /\ temp' = NoFile
  /\ UNCHANGED <<request, running, guard>> /\ ApiOnly

\* The dashboard process is killed: every open POST is lost, the flock is freed.
ApiCrash ==
  /\ \E c \in Clients : cpc[c] \notin Answered \cup {"idle"}
  /\ cpc' = [c \in Clients |-> IF cpc[c] \in Answered \cup {"idle"} THEN cpc[c] ELSE "gone"]
  /\ guard' = None
  /\ UNCHANGED fileVars /\ ApiOnly

ClientStep(c) ==
  \/ SnapshotRequest(c) \/ SnapshotRunning(c)
  \/ TakeGuard(c)
  \/ CheckRequest(c) \/ CheckRunning(c) \/ CheckLock(c)
  \/ WriteTemp(c) \/ Publish(c) \/ PatchStatus(c) \/ CleanTemp(c)

----------------------------------------------------------------------------
(***************************************************************************)
(* The collector service: main, recover_request and run_request.           *)
(***************************************************************************)

SGoto(from, to) == spc = from /\ spc' = to

\* lock_active(): on its way, returning True, returning False.
LookingOn == (ServiceSeesLock \/ ServiceSeesStale) /\ UNCHANGED spc
LockActive == ServiceSeesActive
LockInactive ==
  \/ look = "away" /\ lockFile = NoFile /\ UNCHANGED lockVars
  \/ ServiceReaps

ServiceOnly == UNCHANGED <<apiVars, countVars, wreq>>
FilesKept == UNCHANGED <<fileVars, overwritten>>

\* Mutant: a new service removes the file of the interrupted run.
Boot_DropsRunning ==
  /\ SGoto("down", "recover")
  /\ running' = NoFile
  /\ UNCHANGED <<lockVars, request, temp, overwritten, child, fate>> /\ ServiceOnly

\* supervisord starts the service; it begins with recover_request, and so does
\* every round of its loop.
Boot ==
  /\ SGoto("down", "recover")
  /\ UNCHANGED <<lockVars, child, fate>> /\ FilesKept /\ ServiceOnly

\* recover_request without request.running.json.
RecoverNothing ==
  /\ SGoto("recover", "take") /\ running = NoFile /\ look = "away"
  /\ UNCHANGED <<lockVars, child, fate>> /\ FilesKept /\ ServiceOnly

\* recover_request with the file: lock_active() is consulted.
RecoverLook ==
  /\ spc = "recover" /\ running # NoFile
  /\ \/ LookingOn
     \/ LockActive /\ spc' = "take"
     \/ LockInactive /\ spc' = "requeue"
  /\ UNCHANGED <<child, fate>> /\ FilesKept /\ ServiceOnly

Requeue ==
  /\ SGoto("requeue", IF request = NoFile THEN "rename back" ELSE "take")
  /\ UNCHANGED <<lockVars, child, fate>> /\ FilesKept /\ ServiceOnly

\* os.replace(request.running.json, request.json)
RenameBack ==
  /\ SGoto("rename back", "take")
  /\ request' = running /\ running' = NoFile
  /\ overwritten' = overwritten \cup ({request} \ {NoFile})
  /\ UNCHANGED <<lockVars, temp, child, fate>> /\ ServiceOnly

\* Mutant: recover_request runs at startup only, not in every round.
Take_NoRecover ==
  /\ \/ /\ SGoto("take", "wait") /\ request # NoFile /\ running = NoFile
        /\ running' = request /\ request' = NoFile
     \/ /\ spc = "take" /\ (request = NoFile \/ running # NoFile)
        /\ UNCHANGED <<spc, request, running>>
  /\ UNCHANGED <<lockVars, temp, child, fate, overwritten>> /\ ServiceOnly

\* The loop's test, and os.replace(request.json, request.running.json): nobody
\* but the service takes request.json away, so the two are one step.
Take ==
  /\ \/ /\ SGoto("take", "wait") /\ request # NoFile /\ running = NoFile
        /\ running' = request /\ request' = NoFile
     \/ /\ SGoto("take", "recover") /\ (request = NoFile \/ running # NoFile)
        /\ UNCHANGED <<request, running>>
  /\ UNCHANGED <<lockVars, temp, child, fate, overwritten>> /\ ServiceOnly

\* while lock_active(): sleep
AwaitLock ==
  /\ spc = "wait"
  /\ \/ LookingOn
     \/ LockActive /\ UNCHANGED spc
     \/ LockInactive /\ spc' = "spawn"
  /\ UNCHANGED <<child, fate>> /\ FilesKept /\ ServiceOnly

\* subprocess.Popen(worker_command(...))
Spawn(w) ==
  /\ SGoto("spawn", "poll")
  /\ StartWorker(w)
  /\ child' = w /\ wreq' = [wreq EXCEPT ![w] = running]
  /\ UNCHANGED <<fate, apiVars, countVars>> /\ FilesKept

\* Mutant: the service does not wait for its worker.
Poll_NoWait ==
  /\ SGoto("poll", "finish")
  /\ UNCHANGED <<lockVars, child, fate>> /\ FilesKept /\ ServiceOnly

\* process.poll() is no longer None; a nonzero exit code is reported as "failed".
Poll ==
  /\ SGoto("poll", "finish")
  /\ child # None /\ ~Alive(child)
  /\ UNCHANGED <<lockVars, child, fate>> /\ FilesKept /\ ServiceOnly

\* run_request raises (the log, the heartbeat or the status cannot be written);
\* a child that was started is left to itself.
RequestRaises ==
  /\ spc \in {"wait", "spawn", "poll"} /\ spc' = "finish"
  /\ faults < MaxFaults /\ faults' = faults + 1
  /\ look' = "away" /\ child' = None
  /\ UNCHANGED <<lockFile, wpc, tries, dead, misread, wronged>>
  /\ UNCHANGED <<apiVars, crashes, wreq, fate>> /\ FilesKept

FateOf(w) ==
  IF w = None THEN "error"
  ELSE IF w \in dead \/ wpc[w] = "failed" THEN "exit 1" ELSE "exit 0"

\* Mutant: a nonzero exit leaves request.running.json for the next recovery.
Finish_OnSuccess ==
  /\ SGoto("finish", "recover")
  /\ running' = IF FateOf(child) = "exit 0" THEN NoFile ELSE running
  /\ fate' = [fate EXCEPT ![running] = FateOf(child)]
  /\ child' = None
  /\ UNCHANGED <<lockVars, request, temp, overwritten>> /\ ServiceOnly

\* finally: request.running.json is removed, whatever came of the run.
Finish ==
  /\ SGoto("finish", "recover")
  /\ running' = NoFile
  /\ fate' = [fate EXCEPT ![running] = FateOf(child)]
  /\ child' = None
  /\ UNCHANGED <<lockVars, request, temp, overwritten>> /\ ServiceOnly

\* The service is killed; its files stay and its worker runs on, orphaned.
ServiceCrash ==
  /\ spc # "down" /\ spc' = "down"
  /\ crashes < MaxCrashes /\ crashes' = crashes + 1
  /\ look' = "away" /\ child' = None
  /\ UNCHANGED <<lockFile, wpc, tries, dead, misread, wronged>>
  /\ UNCHANGED <<apiVars, faults, wreq, fate>> /\ FilesKept

ServiceStep ==
  \/ Boot
  \/ RecoverNothing \/ RecoverLook \/ Requeue \/ RenameBack
  \/ Take \/ AwaitLock
  \/ \E w \in Workers \ CronWorkers : Spawn(w)
  \/ Poll \/ Finish

----------------------------------------------------------------------------
(***************************************************************************)
(* The workers, and the whole system.                                      *)
(***************************************************************************)

RunWorker(w) == WorkerStep(w) /\ UNCHANGED queueVars

CronStarts(w) == StartWorker(w) /\ UNCHANGED queueVars

WorkerDies(w) == Die(w) /\ UNCHANGED queueVars

Init ==
  /\ LockInit
  /\ request = NoFile /\ running = NoFile /\ temp = NoFile
  /\ guard = None
  /\ cpc = [c \in Clients |-> "idle"]
  /\ spc = "down" /\ child = None
  /\ wreq = [w \in Workers |-> None]
  /\ fate = [c \in Clients |-> "none"]
  /\ overwritten = {}
  /\ crashes = 0 /\ faults = 0

Next ==
  \/ \E c \in Clients : SnapshotLock(c) \/ ClientStep(c)
  \/ ApiCrash
  \/ ServiceStep
  \/ RequestRaises
  \/ ServiceCrash
  \/ \E w \in Workers : RunWorker(w) \/ WorkerDies(w)
  \/ \E w \in CronWorkers : CronStarts(w)

Spec == Init /\ [][Next]_vars

\* The service is restarted by supervisord and loops for ever; a process that
\* runs keeps running; an accepted connection is served to its end.  Nobody has
\* to POST, and neither crashes nor cron runs are obliged to happen.
Fairness ==
  /\ WF_vars(ServiceStep)
  /\ \A w \in Workers : WF_vars(RunWorker(w))
  /\ \A c \in Clients : WF_vars(ClientStep(c))

FairSpec == Spec /\ Fairness

----------------------------------------------------------------------------
(***************************************************************************)
(* Properties.                                                             *)
(***************************************************************************)

\* The queue is one request deep: while the service works on one request no
\* second one waits, so long as the service was never killed.  (The API looks
\* at the two files one after the other while the service moves the request
\* between them; the check survives because it looks in the direction in which
\* the request moves.  After a crash the request moves back.)
SingleRequest == crashes = 0 => (request = NoFile \/ running = NoFile)

\* No published request is replaced by another one before it was taken.
NoOverwrite == crashes = 0 => overwritten = {}

\* A crash of the service, at whatever step, forgets nothing: a request that was
\* published is in one of the two files until the service has disposed of it,
\* or another request was published over it.
PublishedIsKept ==
  \A c \in Clients :
    cpc[c] \in {"patch", "accepted", "clean failed", "failed"} =>
      c \in {request, running} \/ fate[c] # "none" \/ c \in overwritten

\* No request is ever published over another one, a crash or not.  The code does
\* not guarantee it: the check under the flock reads request.json before
\* request.running.json, and recover_request moves the file the other way.
RequeuedIsKept == overwritten = {}

\* A request is collected once, and once more per crash of the service at most.
RerunOnlyAfterCrash ==
  \A c \in Clients : Cardinality({w \in Workers : wreq[w] = c}) <= 1 + crashes

\* A POST that was turned away leaves no trace: its request is never queued and
\* no worker ever serves it.
RefusedNeverCollected ==
  \A c \in Clients :
    cpc[c] \in {"busy", "offline", "refused"} =>
      /\ c \notin {request, running}
      /\ \A w \in Workers : wreq[w] # c

\* When the service has disposed of a request, the collection made for it is
\* over: nothing of it writes outputs or the status any more.
DisposedMeansOver ==
  (crashes = 0 /\ faults = 0) =>
    \A c \in Clients : fate[c] # "none" =>
      \A w \in Workers : wreq[w] = c => ~Alive(w)

\* Two dashboard requests alone never collect at the same time: while cron starts
\* nothing and the service is neither killed nor disturbed by an exception, the
\* service's one-at-a-time loop makes up for what the lock file lacks.
ManualRunsExclusive ==
  (crashes = 0 /\ faults = 0 /\ \A w \in CronWorkers : wpc[w] = "new") => Exclusive

\* Every accepted request is disposed of in the end, however often the workers
\* or the service are killed, unless another request was published over it.
AcceptedIsSettled ==
  \A c \in Clients :
    (cpc[c] = "accepted") ~> (fate[c] # "none" \/ c \in overwritten)

\* What a request does over its life, for the queue it promises to be.
PhaseOf(c) ==
  IF fate[c] # "none" THEN "settled"
  ELSE IF running = c THEN "taken"
  ELSE IF request = c THEN "queued"
  ELSE "out"

Slot == INSTANCE SingleSlot WITH phase <- [c \in Clients |-> PhaseOf(c)]

\* The files behave as a queue with a single slot.
ImplementsSlot == Slot!Spec
=============================================================================
