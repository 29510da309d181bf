----------------------- MODULE CollectionQueue_proofs -----------------------
(***************************************************************************)
(* Proofs about the collection queue, for any clients, any workers and any *)
(* number of crashes: the types, that a published request stays in the two *)
(* files until it was disposed of, that a refused one is never collected,  *)
(* and that without a crash of the service the queue is one request deep.  *)
(***************************************************************************)
EXTENDS CollectionQueue, JobLock_proofs, FiniteSetTheorems

\* A POST between try_lock_exclusive and drop(guard) is the holder of the flock.
GuardHeld == \A c \in Clients : cpc[c] \in Guarded => guard = c

\* Whoever is about to rename finds its own temporary file, or none.
OwnTemp == \A c \in Clients : cpc[c] = "rename" => temp \in {c, NoFile}

\* While the service works on a request or puts it back, the file is there.
RunningHeld ==
  spc \in {"requeue", "rename back", "wait", "spawn", "poll", "finish"} =>
    running # NoFile

QueueTypes == TypeOK /\ LockTypes /\ GuardHeld /\ OwnTemp /\ RunningHeld

\* The states of a POST whose rename has not taken place.
Unpublished ==
  {"idle", "see request", "see running", "enqueue", "clean refused", "check request",
   "check running", "check lock", "write", "rename", "busy", "offline", "refused"}

\* A request that was not renamed into place is nowhere.
UnpublishedIsNowhere ==
  \A c \in Clients : cpc[c] \in Unpublished =>
    /\ c \notin {request, running}
    /\ \A w \in Workers : wreq[w] # c

\* Before the first crash nothing moves from request.running.json back to
\* request.json, so what the checks under the flock have seen stays true.
OneWay ==
  crashes = 0 =>
    /\ spc \notin {"requeue", "rename back"}
    /\ running # NoFile => spc \in {"wait", "spawn", "poll", "finish"}
    /\ \A c \in Clients :
         /\ cpc[c] \in {"check running", "check lock", "write", "rename"} => request = NoFile
         /\ cpc[c] \in {"check lock", "write", "rename"} => running = NoFile
    /\ request = NoFile \/ running = NoFile
    /\ overwritten = {}

----------------------------------------------------------------------------
(* The queue never does to the lock what JobLock does not allow: every step  *)
(* of the queue is a step of the lock protocol or leaves the lock alone.     *)
LEMMA QueueStepIsLockStep == [Next]_vars => [LockNext]_lockVars
<1> SUFFICES ASSUME [Next]_vars PROVE [LockNext]_lockVars
  OBVIOUS
<1> USE QueueAssumption DEF lockVars, LockNext
<1>1. ASSUME NEW c \in Clients, SnapshotLock(c) \/ ClientStep(c) PROVE UNCHANGED lockVars
  BY <1>1 DEF SnapshotLock, ClientStep, SnapshotRequest, SnapshotRunning, TakeGuard,
    CheckRequest, CheckRunning, CheckLock, Check, WriteTemp, Publish, PatchStatus,
    CleanTemp, ApiOnly
<1>2. CASE ApiCrash
  BY <1>2 DEF ApiCrash, ApiOnly
<1>3. CASE ServiceStep
  <2>1. CASE Boot \/ RecoverNothing \/ Requeue \/ RenameBack \/ Take \/ Poll \/ Finish
    BY <2>1 DEF Boot, RecoverNothing, Requeue, RenameBack, Take, Poll, Finish
  <2>2. CASE RecoverLook \/ AwaitLock
    BY <2>2 DEF RecoverLook, AwaitLock, LookingOn, LockActive, LockInactive, ServiceLooks
  <2>3. ASSUME NEW w \in Workers \ CronWorkers, Spawn(w) PROVE LockNext
    BY <2>3 DEF Spawn
  <2>4. QED
    BY <1>3, <2>1, <2>2, <2>3 DEF ServiceStep
<1>4. CASE RequestRaises \/ ServiceCrash
  <2>1. CASE look = "away"
    BY <1>4, <2>1 DEF RequestRaises, ServiceCrash
  <2>2. CASE look # "away"
    BY <1>4, <2>2 DEF RequestRaises, ServiceCrash, ServiceForgets
  <2>3. QED
    BY <2>1, <2>2
<1>5. ASSUME NEW w \in Workers, RunWorker(w) \/ WorkerDies(w) PROVE LockNext
  BY <1>5 DEF RunWorker, WorkerDies
<1>6. ASSUME NEW w \in CronWorkers, CronStarts(w) PROVE LockNext
  BY <1>6 DEF CronStarts
<1>7. CASE UNCHANGED vars
  BY <1>7 DEF vars
<1>8. QED
  BY <1>1, <1>2, <1>3, <1>4, <1>5, <1>6, <1>7 DEF Next

\* The lock protocol is a component of the queue: what is proved of it holds here.
THEOREM QueueRespectsLock == Spec => LockSpec
<1>1. Init => LockInit
  BY DEF Init
<1>2. QED
  BY <1>1, QueueStepIsLockStep, PTL DEF Spec, LockSpec

----------------------------------------------------------------------------
(* Types, the flock, the temporary file and the running file.                *)
\* The two counters never pass their bounds.
LEMMA CountersBounded ==
  ASSUME crashes \in 0..MaxCrashes, faults \in 0..MaxFaults
  PROVE  /\ RequestRaises => faults' \in 0..MaxFaults
         /\ ServiceCrash => crashes' \in 0..MaxCrashes
<1>1. MaxCrashes \in Nat /\ MaxFaults \in Nat
  BY QueueAssumption
<1>2. RequestRaises => faults < MaxFaults /\ faults' = faults + 1
  BY DEF RequestRaises
<1>3. ServiceCrash => crashes < MaxCrashes /\ crashes' = crashes + 1
  BY DEF ServiceCrash
<1>4. QED
  BY <1>1, <1>2, <1>3

\* After a crash the counter is not zero again.
LEMMA CrashesCount == ASSUME crashes \in 0..MaxCrashes, ServiceCrash PROVE crashes' # 0
<1>1. crashes' = crashes + 1 /\ crashes \in Nat
  BY QueueAssumption DEF ServiceCrash
<1>2. QED
  BY <1>1

\* What a step of a POST does, whichever it is: to its own state and the flock ...
GuardMove(c) ==
  /\ cpc' = [cpc EXCEPT ![c] = cpc'[c]] /\ cpc'[c] \in ClientStates
  /\ \/ UNCHANGED guard /\ (cpc'[c] \in Guarded => cpc[c] \in Guarded)
     \/ guard = None /\ guard' = c
     \/ cpc[c] \in Guarded /\ cpc'[c] \notin Guarded /\ guard' = None

\* ... to the files ...
FileMove(c) ==
  /\ temp' \in {temp, NoFile} \/ (cpc[c] = "write" /\ temp' = c)
  /\ \/ UNCHANGED <<request, overwritten>>
     \/ /\ cpc[c] = "rename" /\ cpc'[c] = "patch"
        /\ request' = temp /\ overwritten' = overwritten \cup ({request} \ {NoFile})

\* ... and what it has seen when it gets on under the flock.
LookMove(c) ==
  /\ cpc'[c] = "check running" => cpc[c] = "check request" /\ request = NoFile
  /\ cpc'[c] = "check lock" => cpc[c] = "check running" /\ running = NoFile
  /\ cpc'[c] = "write" => cpc[c] = "check lock"
  /\ cpc'[c] = "rename" => cpc[c] = "write" /\ temp' = c

PostMove(c) ==
  /\ GuardMove(c) /\ FileMove(c) /\ LookMove(c)
  /\ UNCHANGED <<running, serviceVars, countVars, wreq>>

\* Every step of a POST is a PostMove.
LEMMA PostEffect ==
  ASSUME NEW c \in Clients, cpc \in [Clients -> ClientStates],
         SnapshotLock(c) \/ ClientStep(c)
  PROVE  PostMove(c)
<1> USE DEF PostMove, GuardMove, FileMove, LookMove, CGoto, ClientStates, Guarded, Answered,
      fileVars, serviceVars, countVars
<1>1. CASE SnapshotLock(c)
  BY <1>1 DEF SnapshotLock, ApiOnly
<1>2. CASE SnapshotRequest(c)
  BY <1>2 DEF SnapshotRequest, ApiOnly
<1>3. CASE SnapshotRunning(c)
  BY <1>3 DEF SnapshotRunning, ApiOnly
<1>4. CASE TakeGuard(c)
  BY <1>4 DEF TakeGuard, ApiOnly
<1>5. CASE CheckRequest(c)
  BY <1>5 DEF CheckRequest, Check, ApiOnly
<1>6. CASE CheckRunning(c)
  BY <1>6 DEF CheckRunning, Check, ApiOnly
<1>7. CASE CheckLock(c)
  BY <1>7 DEF CheckLock, Check, ApiOnly
<1>8. CASE WriteTemp(c)
  BY <1>8 DEF WriteTemp, ApiOnly
<1>9. CASE Publish(c)
  BY <1>9 DEF Publish
<1>10. CASE PatchStatus(c)
  BY <1>10 DEF PatchStatus, ApiOnly
<1>11. CASE CleanTemp(c)
  BY <1>11 DEF CleanTemp, ApiOnly
<1>12. QED
  BY <1>1, <1>2, <1>3, <1>4, <1>5, <1>6, <1>7, <1>8, <1>9, <1>10, <1>11 DEF ClientStep

\* The inductive step of QueueTypes.
LEMMA QueueTypesStep == QueueTypes /\ [Next]_vars => QueueTypes'
<1> SUFFICES ASSUME QueueTypes, [Next]_vars PROVE QueueTypes'
  OBVIOUS
<1>0. LockTypes' /\ LockTypeOK'
  BY LockTypesStep, QueueStepIsLockStep DEF QueueTypes, LockTypes
<1> DEFINE Rest ==
      /\ request \in Clients \cup {NoFile}
      /\ running \in Clients \cup {NoFile}
      /\ temp \in Clients \cup {NoFile}
      /\ guard \in Clients \cup {None}
      /\ cpc \in [Clients -> ClientStates]
      /\ spc \in ServiceStates
      /\ child \in Workers \cup {None}
      /\ wreq \in [Workers -> Clients \cup {None}]
      /\ fate \in [Clients -> Fates]
      /\ overwritten \in SUBSET Clients
      /\ crashes \in 0..MaxCrashes
      /\ faults \in 0..MaxFaults
      /\ GuardHeld /\ OwnTemp /\ RunningHeld
<1> SUFFICES Rest'
  BY <1>0 DEF QueueTypes, TypeOK
<1> USE QueueAssumption DEF QueueTypes, TypeOK, GuardHeld, OwnTemp, RunningHeld,
      ClientStates, Guarded, Answered, ServiceStates, Fates
<1>1. ASSUME NEW c \in Clients, SnapshotLock(c) \/ ClientStep(c) PROVE Rest'
  <2>1. GuardMove(c) /\ FileMove(c) /\ LookMove(c)
    BY <1>1, PostEffect DEF PostMove
  <2>2. UNCHANGED <<running, spc, child, fate, crashes, faults, wreq>>
    BY <1>1, PostEffect DEF PostMove, serviceVars, countVars
  <2>3. cpc' \in [Clients -> ClientStates] /\ \A d \in Clients \ {c} : cpc'[d] = cpc[d]
    <3>1. cpc' = [cpc EXCEPT ![c] = cpc'[c]] /\ cpc'[c] \in ClientStates
      BY <2>1 DEF GuardMove
    <3> HIDE DEF ClientStates
    <3>2. QED
      BY <3>1
  <2>4. GuardHeld' /\ guard' \in Clients \cup {None}
    <3>1. \A d \in Clients : cpc[d] \in Guarded => guard = d
      OBVIOUS
    <3> HIDE DEF ClientStates, Guarded, GuardHeld
    <3>2. CASE UNCHANGED guard /\ (cpc'[c] \in Guarded => cpc[c] \in Guarded)
      BY <2>3, <3>1, <3>2 DEF GuardHeld
    <3>3. CASE guard = None /\ guard' = c
      <4>1. \A d \in Clients : cpc[d] \notin Guarded
        BY <3>1, <3>3
      <4>2. QED
        BY <2>3, <3>3, <4>1 DEF GuardHeld
    <3>4. CASE cpc[c] \in Guarded /\ cpc'[c] \notin Guarded /\ guard' = None
      <4>1. \A d \in Clients \ {c} : cpc[d] \notin Guarded
        BY <3>1, <3>4
      <4>2. QED
        BY <2>3, <3>4, <4>1 DEF GuardHeld
    <3>5. QED
      BY <2>1, <3>2, <3>3, <3>4 DEF GuardMove
  <2>5. OwnTemp' /\ temp' \in Clients \cup {NoFile}
    <3>1. cpc[c] = "write" => guard = c
      OBVIOUS
    <3>2. \A d \in Clients : cpc[d] = "rename" => guard = d
      OBVIOUS
    <3>3. \A d \in Clients : cpc'[d] = "rename" => temp' \in {d, NoFile}
      <4>1. SUFFICES ASSUME NEW d \in Clients, cpc'[d] = "rename" PROVE temp' \in {d, NoFile}
        OBVIOUS
      <4> HIDE DEF ClientStates, Guarded, GuardHeld
      <4>2. CASE d = c
        BY <2>1, <4>1, <4>2 DEF LookMove
      <4>3. CASE d # c
        <5>1. cpc[d] = "rename" /\ temp \in {d, NoFile} /\ guard = d
          BY <2>3, <3>2, <4>1, <4>3
        <5>2. cpc[c] # "write"
          BY <3>1, <4>3, <5>1
        <5>3. QED
          BY <2>1, <5>1, <5>2 DEF FileMove
      <4>4. QED
        BY <4>2, <4>3
    <3>4. temp' \in Clients \cup {NoFile}
      BY <2>1 DEF FileMove
    <3>5. QED
      BY <3>3, <3>4
  <2>6. request' \in Clients \cup {NoFile} /\ overwritten' \in SUBSET Clients
    BY <2>1 DEF FileMove
  <2>7. QED
    BY <2>2, <2>3, <2>4, <2>5, <2>6
<1>3. CASE ApiCrash
  BY <1>3 DEF ApiCrash, ApiOnly, fileVars, apiVars, serviceVars, countVars
<1>4. CASE ServiceStep
  <2>1. CASE Boot
    BY <2>1 DEF Boot, SGoto, ServiceOnly, FilesKept, fileVars, apiVars, serviceVars,
      countVars
  <2>2. CASE RecoverNothing
    BY <2>2 DEF RecoverNothing, SGoto, ServiceOnly, FilesKept, fileVars, apiVars,
      serviceVars, countVars
  <2>3. CASE RecoverLook
    BY <2>3 DEF RecoverLook, LookingOn, LockActive, LockInactive, ServiceSeesLock,
      ServiceSeesActive, ServiceSeesStale, ServiceReaps, ServiceOnly, FilesKept,
      fileVars, apiVars, serviceVars, countVars
  <2>4. CASE Requeue
    BY <2>4 DEF Requeue, SGoto, ServiceOnly, FilesKept, fileVars, apiVars, serviceVars,
      countVars
  <2>5. CASE RenameBack
    BY <2>5 DEF RenameBack, SGoto, ServiceOnly, fileVars, apiVars, serviceVars,
      countVars
  <2>6. CASE Take
    BY <2>6 DEF Take, SGoto, ServiceOnly, fileVars, apiVars, serviceVars, countVars
  <2>7. CASE AwaitLock
    BY <2>7 DEF AwaitLock, LookingOn, LockActive, LockInactive, ServiceSeesLock,
      ServiceSeesActive, ServiceSeesStale, ServiceReaps, ServiceOnly, FilesKept,
      fileVars, apiVars, serviceVars, countVars
  <2>8. ASSUME NEW w \in Workers \ CronWorkers, Spawn(w) PROVE Rest'
    BY <2>8 DEF Spawn, SGoto, FilesKept, StartWorker, fileVars, apiVars, serviceVars,
      countVars
  <2>9. CASE Poll
    BY <2>9 DEF Poll, SGoto, ServiceOnly, FilesKept, fileVars, apiVars, serviceVars,
      countVars
  <2>10. CASE Finish
    BY <2>10 DEF Finish, SGoto, ServiceOnly, FateOf, fileVars, apiVars, serviceVars,
      countVars
  <2>11. QED
    BY <1>4, <2>1, <2>2, <2>3, <2>4, <2>5, <2>6, <2>7, <2>8, <2>9, <2>10 DEF ServiceStep
<1>5. CASE RequestRaises
  <2>1. faults' \in 0..MaxFaults
    BY <1>5, CountersBounded
  <2>2. UNCHANGED <<request, running, temp, guard, cpc, wreq, fate, overwritten, crashes>>
    BY <1>5 DEF RequestRaises, FilesKept, fileVars, apiVars
  <2>3. spc \in {"wait", "spawn", "poll"} /\ spc' = "finish" /\ child' = None
    BY <1>5 DEF RequestRaises
  <2>4. QED
    BY <2>1, <2>2, <2>3
<1>6. CASE ServiceCrash
  <2>1. crashes' \in 0..MaxCrashes
    BY <1>6, CountersBounded
  <2>2. UNCHANGED <<request, running, temp, guard, cpc, wreq, fate, overwritten, faults>>
    BY <1>6 DEF ServiceCrash, FilesKept, fileVars, apiVars
  <2>3. spc' = "down" /\ child' = None
    BY <1>6 DEF ServiceCrash
  <2>4. QED
    BY <2>1, <2>2, <2>3
<1>7. CASE UNCHANGED queueVars
  BY <1>7 DEF queueVars, fileVars, apiVars, serviceVars, countVars
<1>8. QED
  BY <1>1, <1>3, <1>4, <1>5, <1>6, <1>7 DEF Next, vars, RunWorker, WorkerDies,
    CronStarts
\* Typing, the flock and the two files, in every reachable state.
THEOREM QueueTypeCorrect == Spec => []QueueTypes
<1>1. Init => QueueTypes
  <2> SUFFICES ASSUME Init PROVE QueueTypes
    OBVIOUS
  <2>1. LockTypes
    BY LockTypesInit DEF Init
  <2>2. QED
    BY <2>1, QueueAssumption DEF Init, QueueTypes, TypeOK, LockTypes, GuardHeld, OwnTemp,
      RunningHeld, ClientStates, Guarded, ServiceStates, Fates
<1>2. QED
  BY <1>1, QueueTypesStep, PTL DEF Spec

\* The type invariant of the queue and of the lock inside it.
THEOREM TypeCorrect == Spec => []TypeOK
<1>1. QueueTypes => TypeOK
  BY DEF QueueTypes
<1>2. QED
  BY <1>1, QueueTypeCorrect, PTL

----------------------------------------------------------------------------
(* A request is nowhere before its rename and in the files after it.        *)
\* The states of a POST whose rename took place.
Published == {"patch", "accepted", "clean failed", "failed"}

Lineage == UnpublishedIsNowhere /\ PublishedIsKept

\* A POST that moves on without its rename disturbs no file and no worker.
LEMMA QuietMove ==
  ASSUME NEW c \in Clients, NEW to, Lineage, cpc \in [Clients -> ClientStates],
         cpc' = [cpc EXCEPT ![c] = to],
         \/ cpc[c] \in Unpublished /\ to \in Unpublished
         \/ cpc[c] \in Published /\ to \in Published,
         UNCHANGED <<request, running, wreq, fate, overwritten>>
  PROVE  Lineage'
<1> SUFFICES ASSUME NEW d \in Clients
             PROVE  /\ cpc'[d] \in Unpublished =>
                         d \notin {request, running} /\ \A w \in Workers : wreq[w] # d
                    /\ cpc'[d] \in Published =>
                         d \in {request, running} \/ fate[d] # "none" \/ d \in overwritten
  BY DEF Lineage, UnpublishedIsNowhere, PublishedIsKept, Published
<1>1. (Unpublished \cap Published) = {}
  BY DEF Unpublished, Published
<1>2. /\ cpc'[d] \in Unpublished => cpc[d] \in Unpublished
      /\ cpc'[d] \in Published => cpc[d] \in Published
  BY <1>1
<1>3. QED
  BY <1>2 DEF Lineage, UnpublishedIsNowhere, PublishedIsKept, Published

\* The inductive step: who moves a request, and when it is disposed of.
LEMMA LineageStep == QueueTypes /\ Lineage /\ [Next]_vars => Lineage'
<1> SUFFICES ASSUME QueueTypes, Lineage, [Next]_vars PROVE Lineage'
  OBVIOUS
<1>1. ASSUME NEW c \in Clients, SnapshotLock(c) \/ ClientStep(c), ~Publish(c)
      PROVE Lineage'
  <2>1. UNCHANGED <<request, running, wreq, fate, overwritten>>
    BY <1>1 DEF SnapshotLock, ClientStep, SnapshotRequest, SnapshotRunning, TakeGuard,
      CheckRequest, CheckRunning, CheckLock, Check, WriteTemp, PatchStatus, CleanTemp,
      ApiOnly, fileVars, serviceVars
  <2>2. \E from, to :
          /\ CGoto(c, from, to)
          /\ \/ from \in Unpublished /\ to \in Unpublished
             \/ from \in Published /\ to \in Published
    <3>1. CASE SnapshotLock(c) \/ SnapshotRequest(c) \/ SnapshotRunning(c)
      BY <3>1 DEF SnapshotLock, SnapshotRequest, SnapshotRunning, Unpublished
    <3>2. CASE TakeGuard(c) \/ CheckRequest(c) \/ CheckRunning(c) \/ CheckLock(c)
      BY <3>2 DEF TakeGuard, CheckRequest, CheckRunning, CheckLock, Check, Unpublished
    <3>3. CASE WriteTemp(c) \/ PatchStatus(c) \/ CleanTemp(c)
      BY <3>3 DEF WriteTemp, PatchStatus, CleanTemp, Unpublished, Published
    <3>4. QED
      BY <1>1, <3>1, <3>2, <3>3 DEF ClientStep
  <2>3. QED
    BY <2>1, <2>2, QuietMove DEF CGoto, QueueTypes, TypeOK
<1>2. ASSUME NEW c \in Clients, Publish(c) PROVE Lineage'
  <2>1. CASE temp = NoFile
    <3>1. UNCHANGED <<request, running, wreq, fate, overwritten>>
      BY <1>2, <2>1 DEF Publish, serviceVars
    <3>2. cpc[c] \in Unpublished /\ cpc' = [cpc EXCEPT ![c] = "clean refused"]
      BY <1>2, <2>1 DEF Publish, CGoto, Unpublished
    <3>3. QED
      BY <3>1, <3>2, QuietMove DEF QueueTypes, TypeOK, Unpublished
  <2>2. CASE temp # NoFile
    <3>1. cpc[c] = "rename" /\ cpc' = [cpc EXCEPT ![c] = "patch"] /\ request' = c
      BY <1>2, <2>2 DEF Publish, CGoto, QueueTypes, OwnTemp
    <3>2. overwritten' = overwritten \cup ({request} \ {NoFile})
      BY <1>2, <2>2 DEF Publish
    <3>3. UNCHANGED <<running, wreq, fate>>
      BY <1>2 DEF Publish, serviceVars
    <3>4. cpc \in [Clients -> ClientStates] /\ NoFile \notin Clients
      BY QueueAssumption DEF QueueTypes, TypeOK
    <3>5. UnpublishedIsNowhere'
      BY <3>1, <3>3, <3>4 DEF Lineage, UnpublishedIsNowhere, Unpublished
    <3>6. ASSUME NEW d \in Clients, cpc'[d] \in Published
          PROVE  d \in {request', running'} \/ fate'[d] # "none" \/ d \in overwritten'
      <4>1. CASE d = c
        BY <3>1, <4>1
      <4>2. CASE d # c
        BY <3>1, <3>2, <3>3, <3>4, <3>6, <4>2 DEF Lineage, PublishedIsKept, Published
      <4>3. QED
        BY <4>1, <4>2
    <3>7. QED
      BY <3>5, <3>6 DEF Lineage, PublishedIsKept, Published
  <2>3. QED
    BY <2>1, <2>2
<1> USE QueueAssumption DEF QueueTypes, TypeOK, OwnTemp, RunningHeld, Lineage,
      UnpublishedIsNowhere, Unpublished, PublishedIsKept
<1>3. CASE ApiCrash
  BY <1>3 DEF ApiCrash, ApiOnly, Answered, fileVars, apiVars, serviceVars, countVars
<1>4. CASE ServiceStep
  <2>1. CASE Boot
    BY <2>1 DEF Boot, SGoto, ServiceOnly, FilesKept, fileVars, apiVars, serviceVars,
      countVars
  <2>2. CASE RecoverNothing
    BY <2>2 DEF RecoverNothing, SGoto, ServiceOnly, FilesKept, fileVars, apiVars,
      serviceVars, countVars
  <2>3. CASE RecoverLook
    BY <2>3 DEF RecoverLook, LookingOn, LockActive, LockInactive, ServiceSeesLock,
      ServiceSeesActive, ServiceSeesStale, ServiceReaps, ServiceOnly, FilesKept,
      fileVars, apiVars, serviceVars, countVars
  <2>4. CASE Requeue
    BY <2>4 DEF Requeue, SGoto, ServiceOnly, FilesKept, fileVars, apiVars, serviceVars,
      countVars
  <2>5. CASE RenameBack
    BY <2>5 DEF RenameBack, SGoto, ServiceOnly, fileVars, apiVars, serviceVars,
      countVars
  <2>6. CASE Take
    BY <2>6 DEF Take, SGoto, ServiceOnly, fileVars, apiVars, serviceVars, countVars
  <2>7. CASE AwaitLock
    BY <2>7 DEF AwaitLock, LookingOn, LockActive, LockInactive, ServiceSeesLock,
      ServiceSeesActive, ServiceSeesStale, ServiceReaps, ServiceOnly, FilesKept,
      fileVars, apiVars, serviceVars, countVars
  <2>8. ASSUME NEW w \in Workers \ CronWorkers, Spawn(w) PROVE Lineage'
    BY <2>8 DEF Spawn, SGoto, FilesKept, StartWorker, fileVars, apiVars, serviceVars,
      countVars
  <2>9. CASE Poll
    BY <2>9 DEF Poll, SGoto, ServiceOnly, FilesKept, fileVars, apiVars, serviceVars,
      countVars
  <2>10. CASE Finish
    BY <2>10 DEF Finish, SGoto, ServiceOnly, FateOf, fileVars, apiVars, serviceVars,
      countVars
  <2>11. QED
    BY <1>4, <2>1, <2>2, <2>3, <2>4, <2>5, <2>6, <2>7, <2>8, <2>9, <2>10 DEF ServiceStep
<1>5. CASE RequestRaises
  BY <1>5 DEF RequestRaises, FilesKept, fileVars, apiVars, serviceVars, countVars
<1>6. CASE ServiceCrash
  BY <1>6 DEF ServiceCrash, FilesKept, fileVars, apiVars, serviceVars, countVars
<1>7. CASE UNCHANGED queueVars
  BY <1>7 DEF queueVars, fileVars, apiVars, serviceVars, countVars
<1>8. QED
  BY <1>1, <1>2, <1>3, <1>4, <1>5, <1>6, <1>7 DEF Next, vars, RunWorker, WorkerDies,
    CronStarts

\* A published request is in one of the two files until it was disposed of or
\* replaced, through every crash of the service, of the API and of the workers.
THEOREM PublishedRequestsAreKept == Spec => []PublishedIsKept
<1>1. Init => Lineage
  BY QueueAssumption DEF Init, Lineage, UnpublishedIsNowhere, PublishedIsKept, Unpublished
<1>2. QED
  BY <1>1, LineageStep, QueueTypeCorrect, PTL DEF Spec, Lineage

\* A POST that was answered "busy", "offline" or "refused" is never collected.
THEOREM RefusedRequestsAreNeverCollected == Spec => []RefusedNeverCollected
<1>1. Init => Lineage
  BY QueueAssumption DEF Init, Lineage, UnpublishedIsNowhere, PublishedIsKept, Unpublished
<1>2. Lineage => RefusedNeverCollected
  BY DEF Lineage, UnpublishedIsNowhere, Unpublished, RefusedNeverCollected
<1>3. QED
  BY <1>1, <1>2, LineageStep, QueueTypeCorrect, PTL DEF Spec

----------------------------------------------------------------------------
(* Without a crash of the service the queue is one request deep.            *)
\* The inductive step: what a check under the flock has seen stays true, because
\* the flock keeps other POSTs away and requests move one way only.
LEMMA OneWayStep == QueueTypes /\ OneWay /\ [Next]_vars => OneWay'
<1> SUFFICES ASSUME QueueTypes, OneWay, [Next]_vars PROVE OneWay'
  OBVIOUS
<1> USE QueueAssumption DEF QueueTypes, TypeOK, GuardHeld, Guarded, OwnTemp, RunningHeld,
      OneWay
<1>1. ASSUME NEW c \in Clients, SnapshotLock(c) \/ ClientStep(c) PROVE OneWay'
  <2>1. SUFFICES ASSUME crashes = 0
                 PROVE  /\ \A d \in Clients :
                             /\ cpc'[d] \in {"check running", "check lock", "write", "rename"}
                                  => request' = NoFile
                             /\ cpc'[d] \in {"check lock", "write", "rename"} => running' = NoFile
                        /\ request' = NoFile \/ running' = NoFile
                        /\ overwritten' = {}
    BY <1>1, PostEffect DEF PostMove, serviceVars, countVars
  <2>2. FileMove(c) /\ LookMove(c) /\ UNCHANGED running
    BY <1>1, PostEffect DEF PostMove
  <2>3. \A d \in Clients \ {c} : cpc'[d] = cpc[d]
    <3>1. cpc' = [cpc EXCEPT ![c] = cpc'[c]]
      BY <1>1, PostEffect DEF PostMove, GuardMove
    <3>2. QED
      BY <3>1
  <2>4. CASE UNCHANGED <<request, overwritten>>
    <3>1. \A d \in Clients \ {c} :
             /\ cpc'[d] \in {"check running", "check lock", "write", "rename"} => request' = NoFile
             /\ cpc'[d] \in {"check lock", "write", "rename"} => running' = NoFile
      BY <2>1, <2>2, <2>3, <2>4
    <3>2. /\ cpc'[c] \in {"check running", "check lock", "write", "rename"} => request' = NoFile
          /\ cpc'[c] \in {"check lock", "write", "rename"} => running' = NoFile
      BY <2>1, <2>2, <2>4 DEF LookMove
    <3>3. QED
      BY <2>1, <2>2, <2>4, <3>1, <3>2
  <2>5. CASE /\ cpc[c] = "rename" /\ cpc'[c] = "patch"
             /\ overwritten' = overwritten \cup ({request} \ {NoFile})
    <3>1. request = NoFile /\ running = NoFile /\ guard = c
      BY <2>1, <2>5
    <3>2. \A d \in Clients \ {c} : cpc[d] \notin Guarded
      BY <3>1
    <3>3. \A d \in Clients : cpc'[d] \notin {"check running", "check lock", "write", "rename"}
      BY <2>3, <2>5, <3>2
    <3>4. QED
      BY <2>1, <2>2, <2>5, <3>1, <3>3
  <2>6. QED
    BY <2>2, <2>4, <2>5 DEF FileMove
<1>3. CASE ApiCrash
  BY <1>3 DEF ApiCrash, ApiOnly, fileVars, apiVars, serviceVars, countVars
<1>4. CASE ServiceStep
  <2>1. CASE Boot
    BY <2>1 DEF Boot, SGoto, ServiceOnly, FilesKept, fileVars, apiVars, serviceVars,
      countVars
  <2>2. CASE RecoverNothing
    BY <2>2 DEF RecoverNothing, SGoto, ServiceOnly, FilesKept, fileVars, apiVars,
      serviceVars, countVars
  <2>3. CASE RecoverLook
    BY <2>3 DEF RecoverLook, LookingOn, LockActive, LockInactive, ServiceSeesLock,
      ServiceSeesActive, ServiceSeesStale, ServiceReaps, ServiceOnly, FilesKept,
      fileVars, apiVars, serviceVars, countVars
  <2>4. CASE Requeue
    BY <2>4 DEF Requeue, SGoto, ServiceOnly, FilesKept, fileVars, apiVars, serviceVars,
      countVars
  <2>5. CASE RenameBack
    BY <2>5 DEF RenameBack, SGoto, ServiceOnly, fileVars, apiVars, serviceVars,
      countVars
  <2>6. CASE Take
    BY <2>6 DEF Take, SGoto, ServiceOnly, fileVars, apiVars, serviceVars, countVars
  <2>7. CASE AwaitLock
    BY <2>7 DEF AwaitLock, LookingOn, LockActive, LockInactive, ServiceSeesLock,
      ServiceSeesActive, ServiceSeesStale, ServiceReaps, ServiceOnly, FilesKept,
      fileVars, apiVars, serviceVars, countVars
  <2>8. ASSUME NEW w \in Workers \ CronWorkers, Spawn(w) PROVE OneWay'
    BY <2>8 DEF Spawn, SGoto, FilesKept, StartWorker, fileVars, apiVars, serviceVars,
      countVars
  <2>9. CASE Poll
    BY <2>9 DEF Poll, SGoto, ServiceOnly, FilesKept, fileVars, apiVars, serviceVars,
      countVars
  <2>10. CASE Finish
    BY <2>10 DEF Finish, SGoto, ServiceOnly, FateOf, fileVars, apiVars, serviceVars,
      countVars
  <2>11. QED
    BY <1>4, <2>1, <2>2, <2>3, <2>4, <2>5, <2>6, <2>7, <2>8, <2>9, <2>10 DEF ServiceStep
<1>5. CASE RequestRaises
  BY <1>5 DEF RequestRaises, FilesKept, fileVars, apiVars, serviceVars, countVars
<1>6. CASE ServiceCrash
  BY <1>6, CrashesCount
<1>7. CASE UNCHANGED queueVars
  BY <1>7 DEF queueVars, fileVars, apiVars, serviceVars, countVars
<1>8. QED
  BY <1>1, <1>3, <1>4, <1>5, <1>6, <1>7 DEF Next, vars, RunWorker, WorkerDies,
    CronStarts

\* Initially the files are empty and nothing was checked.
LEMMA OneWayInit == Init => OneWay
BY QueueAssumption DEF Init, OneWay

\* Until the service is killed, no second request waits while one is worked on.
THEOREM QueueIsOneDeep == Spec => []SingleRequest
<1>1. OneWay => SingleRequest
  BY DEF OneWay, SingleRequest
<1>2. QED
  BY <1>1, OneWayInit, OneWayStep, QueueTypeCorrect, PTL DEF Spec

\* Until the service is killed, no published request is replaced by another.
THEOREM NothingIsOverwritten == Spec => []NoOverwrite
<1>1. OneWay => NoOverwrite
  BY DEF OneWay, NoOverwrite
<1>2. QED
  BY <1>1, OneWayInit, OneWayStep, QueueTypeCorrect, PTL DEF Spec

----------------------------------------------------------------------------
(* While the service is neither killed nor disturbed, it has one worker.     *)
\* The worker that runs for a request is the service's child, and the request is
\* the running one; what was disposed of is in no file any more.
Calm ==
  /\ \A w \in Workers : wreq[w] # None <=> w \notin CronWorkers /\ wpc[w] # "new"
  /\ crashes = 0 /\ faults = 0 =>
       \A w \in Workers : wreq[w] # None /\ Alive(w) =>
            spc = "poll" /\ child = w /\ wreq[w] = running
  /\ crashes = 0 =>
       \A c \in Clients : fate[c] # "none" =>
         c \notin {request, running} /\ cpc[c] \notin Unpublished

\* No step but StartWorker brings a worker to life, and none makes it new again.
LEMMA AliveStep ==
  ASSUME LockTypeOK, NEW w \in Workers, [Next]_vars,
         ~(\E v \in Workers \ CronWorkers : Spawn(v)), ~CronStarts(w) \/ w \notin CronWorkers
  PROVE  /\ Alive(w)' => Alive(w)
         /\ wpc'[w] = "new" <=> wpc[w] = "new"
<1> USE DEF LockTypeOK, Alive, Exited, WorkerStates, Goto
<1>1. CASE UNCHANGED <<wpc, dead>>
  BY <1>1
<1>2. ASSUME NEW v \in Workers, WorkerStep(v) PROVE wpc'[w] = "new" <=> wpc[w] = "new"
  BY <1>2 DEF WorkerStep, TryCreate, WritePayload, ProbeBusy, ProbeStale, UnlinkStale,
    Collect, Release
<1>3. ASSUME NEW v \in Workers, WorkerStep(v) PROVE Alive(w)' => Alive(w)
  <2>1. dead' = dead
    BY <1>3 DEF WorkerStep, TryCreate, WritePayload, ProbeBusy, ProbeStale, UnlinkStale,
      Collect, Release
  <2>2. wpc[v] \notin {"new"} \cup Exited /\ v \notin dead /\ (w # v => wpc'[w] = wpc[w])
    BY <1>3 DEF WorkerStep, TryCreate, WritePayload, ProbeBusy, ProbeStale, UnlinkStale,
      Collect, Release
  <2>3. QED
    BY <2>1, <2>2
<1>4. ASSUME NEW v \in Workers, Die(v)
      PROVE  (Alive(w)' => Alive(w)) /\ (wpc'[w] = "new" <=> wpc[w] = "new")
  BY <1>4 DEF Die
<1>5. ASSUME NEW v \in CronWorkers, CronStarts(v)
      PROVE  (Alive(w)' => Alive(w)) /\ (wpc'[w] = "new" <=> wpc[w] = "new")
  <2>1. v # w /\ v \in Workers
    BY <1>5, QueueAssumption
  <2>2. wpc'[w] = wpc[w] /\ dead' = dead
    BY <1>5, <2>1 DEF CronStarts, StartWorker
  <2>3. QED
    BY <2>2
<1>6. ASSUME NEW c \in Clients, SnapshotLock(c) \/ ClientStep(c) PROVE UNCHANGED <<wpc, dead>>
  BY <1>6 DEF SnapshotLock, ClientStep, SnapshotRequest, SnapshotRunning, TakeGuard,
    CheckRequest, CheckRunning, CheckLock, Check, WriteTemp, Publish, PatchStatus,
    CleanTemp, ApiOnly, lockVars
<1>7. CASE ServiceStep
  <2>1. CASE Boot \/ RecoverNothing \/ Requeue \/ RenameBack \/ Take \/ Poll \/ Finish
    BY <1>1, <2>1 DEF Boot, RecoverNothing, Requeue, RenameBack, Take, Poll, Finish, lockVars
  <2>2. CASE RecoverLook \/ AwaitLock
    BY <1>1, <2>2 DEF RecoverLook, AwaitLock, LookingOn, LockActive, LockInactive,
      ServiceSeesLock, ServiceSeesActive, ServiceSeesStale, ServiceReaps, lockVars
  <2>3. QED
    BY <1>7, <2>1, <2>2 DEF ServiceStep
<1>8. CASE ApiCrash \/ RequestRaises \/ ServiceCrash \/ UNCHANGED vars
  BY <1>1, <1>8 DEF ApiCrash, RequestRaises, ServiceCrash, ApiOnly, lockVars, vars
<1>9. QED
  BY <1>1, <1>2, <1>3, <1>4, <1>5, <1>6, <1>7, <1>8 DEF Next, RunWorker, WorkerDies

\* The inductive step: the service starts a worker only when it waits for none.
LEMMA CalmStep == QueueTypes /\ Lineage /\ OneWay /\ Calm /\ [Next]_vars => Calm'
<1> SUFFICES ASSUME QueueTypes, Lineage, OneWay, Calm, [Next]_vars PROVE Calm'
  OBVIOUS
<1>a. CASE \E w \in Workers \ CronWorkers : Spawn(w)
  <2> PICK w \in Workers \ CronWorkers : Spawn(w)
    BY <1>a
  <2>1. /\ spc = "spawn" /\ spc' = "poll" /\ child' = w
        /\ wreq' = [wreq EXCEPT ![w] = running]
        /\ wpc[w] = "new" /\ wpc' = [wpc EXCEPT ![w] = "open"] /\ dead' = dead
        /\ UNCHANGED <<request, running, cpc, fate, crashes, faults>>
    BY DEF Spawn, SGoto, StartWorker, Goto, apiVars, countVars, FilesKept, fileVars
  <2>2. running \in Clients /\ running # None
    BY <2>1, QueueAssumption DEF QueueTypes, TypeOK, RunningHeld
  <2>3. wreq \in [Workers -> Clients \cup {None}] /\ wpc \in [Workers -> WorkerStates]
    BY DEF QueueTypes, TypeOK, LockTypeOK
  <2>4. \A v \in Workers : v # w => wreq'[v] = wreq[v] /\ wpc'[v] = wpc[v]
    BY <2>1, <2>3
  <2>5. wreq'[w] = running /\ wpc'[w] = "open"
    BY <2>1, <2>3
  <2>6. \A v \in Workers : wreq'[v] # None <=> v \notin CronWorkers /\ wpc'[v] # "new"
    BY <2>2, <2>4, <2>5 DEF Calm
  <2>7. ASSUME crashes' = 0, faults' = 0, NEW v \in Workers, wreq'[v] # None, Alive(v)'
        PROVE  v = w
    BY <2>1, <2>4, <2>7 DEF Calm, Alive
  <2>8. QED
    BY <2>1, <2>5, <2>6, <2>7 DEF Calm
<1>b. CASE \E w \in CronWorkers : CronStarts(w)
  <2> PICK w \in CronWorkers : CronStarts(w)
    BY <1>b
  <2>1. w \in Workers /\ wpc' = [wpc EXCEPT ![w] = "open"] /\ dead' = dead
        /\ UNCHANGED <<wreq, spc, child, request, running, cpc, fate, crashes, faults>>
    BY QueueAssumption DEF CronStarts, StartWorker, Goto, queueVars, fileVars, apiVars,
      serviceVars, countVars
  <2>2. \A v \in Workers : v # w => wpc'[v] = wpc[v]
    BY <2>1 DEF QueueTypes, TypeOK, LockTypeOK
  <2>3. wreq[w] = None
    BY <2>1 DEF Calm
  <2>4. QED
    BY <2>1, <2>2, <2>3 DEF Calm, Alive
<1> SUFFICES ASSUME ~(\E w \in Workers \ CronWorkers : Spawn(w)),
                    ~(\E w \in CronWorkers : CronStarts(w))
             PROVE  Calm'
  BY <1>a, <1>b
<1>c. \A w \in Workers : (Alive(w)' => Alive(w)) /\ (wpc'[w] = "new" <=> wpc[w] = "new")
  BY AliveStep DEF QueueTypes, TypeOK
\* It remains to see the files, the requests and the service.
<1> DEFINE Quiet ==
      /\ UNCHANGED wreq
      /\ crashes' = 0 => crashes = 0
      /\ crashes' = 0 /\ faults' = 0 => faults = 0
      /\ crashes' = 0 /\ faults' = 0 =>
           \A w \in Workers : wreq[w] # None /\ Alive(w)' =>
             spc' = "poll" /\ child' = child /\ running' = running
      /\ crashes' = 0 =>
           \A c \in Clients : fate'[c] # "none" =>
             c \notin {request', running'} /\ cpc'[c] \notin Unpublished
<1> SUFFICES Quiet
  BY <1>c DEF Calm
<1>d. crashes = 0 /\ faults = 0 => \A w \in Workers : wreq[w] # None /\ Alive(w)' =>
        spc = "poll" /\ child = w /\ wreq[w] = running
  BY <1>c DEF Calm
<1>1. ASSUME NEW c \in Clients, SnapshotLock(c) \/ ClientStep(c) PROVE Quiet
  <2>1. GuardMove(c) /\ FileMove(c) /\ LookMove(c)
        /\ UNCHANGED <<running, spc, child, fate, crashes, faults, wreq>>
    BY <1>1, PostEffect DEF PostMove, serviceVars, countVars, QueueTypes, TypeOK
  <2>2. \A d \in Clients \ {c} : cpc'[d] = cpc[d]
    <3>1. cpc' = [cpc EXCEPT ![c] = cpc'[c]] /\ cpc \in [Clients -> ClientStates]
      BY <2>1 DEF GuardMove, QueueTypes, TypeOK
    <3>2. QED
      BY <3>1
  <2>3. request' = request \/ (cpc[c] = "rename" /\ request' \in {c, NoFile})
    BY <2>1 DEF FileMove, QueueTypes, OwnTemp
  <2>4. cpc[c] \notin Unpublished => cpc'[c] \notin Unpublished
    <3>1. CASE SnapshotLock(c) \/ SnapshotRequest(c) \/ SnapshotRunning(c)
      BY <3>1 DEF SnapshotLock, SnapshotRequest, SnapshotRunning, CGoto, Unpublished
    <3>2. CASE TakeGuard(c) \/ CheckRequest(c) \/ CheckRunning(c) \/ CheckLock(c)
      BY <3>2 DEF TakeGuard, CheckRequest, CheckRunning, CheckLock, Check, CGoto, Unpublished
    <3>3. CASE WriteTemp(c) \/ Publish(c)
      BY <3>3 DEF WriteTemp, Publish, CGoto, Unpublished
    <3>4. CASE PatchStatus(c) \/ CleanTemp(c)
      BY <3>4 DEF PatchStatus, CleanTemp, CGoto, Unpublished, QueueTypes, TypeOK
    <3>5. QED
      BY <1>1, <3>1, <3>2, <3>3, <3>4 DEF ClientStep
  <2>5. ASSUME crashes' = 0, NEW d \in Clients, fate'[d] # "none"
        PROVE  d \notin {request', running'} /\ cpc'[d] \notin Unpublished
    <3>1. d \notin {request, running} /\ cpc[d] \notin Unpublished
      BY <2>1, <2>5 DEF Calm
    <3>2. cpc'[d] \notin Unpublished
      BY <2>2, <2>4, <3>1
    <3>3. d \notin {request', running'}
      BY <2>1, <2>3, <3>1, QueueAssumption DEF Unpublished
    <3>4. QED
      BY <3>2, <3>3
  <2>6. QED
    BY <1>d, <2>1, <2>5
<1>2. CASE UNCHANGED queueVars
  BY <1>2, <1>d DEF Calm, queueVars, fileVars, apiVars, serviceVars, countVars
<1>3. CASE ApiCrash
  <2>1. UNCHANGED <<request, running, spc, child, fate, crashes, faults, wreq>>
    BY <1>3 DEF ApiCrash, ApiOnly, fileVars, serviceVars, countVars
  <2>2. \A c \in Clients : cpc'[c] \in {cpc[c], "gone"}
    BY <1>3 DEF ApiCrash
  <2>3. QED
    BY <1>d, <2>1, <2>2 DEF Calm, Unpublished
<1>4. CASE ServiceStep
  <2> USE <1>d, QueueAssumption DEF Calm, SGoto, ServiceOnly, FilesKept, fileVars, apiVars, serviceVars,
    countVars
  <2>1. CASE Boot
    BY <2>1 DEF Boot
  <2>2. CASE RecoverNothing
    BY <2>2 DEF RecoverNothing
  <2>3. CASE RecoverLook
    BY <2>3 DEF RecoverLook, LookingOn, LockActive, LockInactive,
      ServiceSeesLock, ServiceSeesActive, ServiceSeesStale, ServiceReaps
  <2>4. CASE Requeue
    BY <2>4 DEF Requeue
  <2>5. CASE RenameBack
    BY <2>5 DEF RenameBack, OneWay
  <2>6. CASE Take
    BY <2>6 DEF Take, OneWay
  <2>7. CASE AwaitLock
    BY <2>7 DEF AwaitLock, LookingOn, LockActive, LockInactive,
      ServiceSeesLock, ServiceSeesActive, ServiceSeesStale, ServiceReaps
  <2>8. ASSUME NEW w \in Workers \ CronWorkers, Spawn(w) PROVE Quiet
    BY <2>8
  <2>9. CASE Poll
    <3>1. ~Alive(child) /\ spc = "poll"
      BY <2>9 DEF Poll
    <3>2. crashes = 0 /\ faults = 0 => \A w \in Workers : wreq[w] # None => ~Alive(w)'
      BY <1>c, <3>1
    <3>3. QED
      BY <2>9, <3>2 DEF Poll
  <2>10. CASE Finish
    <3>1. UNCHANGED <<wreq, request, cpc, crashes, faults>> /\ running' = NoFile /\ spc = "finish"
      BY <2>10 DEF Finish
    <3>2. running \in Clients /\ fate \in [Clients -> Fates]
      BY <3>1 DEF QueueTypes, TypeOK, RunningHeld
    <3>3. \A c \in Clients : c # running => fate'[c] = fate[c]
      BY <2>10, <3>2 DEF Finish
    <3>4. cpc[running] \notin Unpublished
      BY <3>2 DEF Lineage, UnpublishedIsNowhere
    <3>5. crashes = 0 => request = NoFile
      BY <3>2 DEF OneWay
    <3>6. QED
      BY <3>1, <3>2, <3>3, <3>4, <3>5
  <2>11. QED
    BY <1>4, <2>1, <2>2, <2>3, <2>4, <2>5, <2>6, <2>7, <2>8, <2>9, <2>10 DEF ServiceStep
<1>5. CASE RequestRaises
  <2>1. faults' = faults + 1 /\ faults \in Nat /\ wreq' = wreq
    BY <1>5, QueueAssumption DEF RequestRaises, QueueTypes, TypeOK
  <2>2. faults' # 0
    BY <2>1
  <2>3. UNCHANGED <<request, running, cpc, fate, crashes>>
    BY <1>5 DEF RequestRaises, FilesKept, fileVars, apiVars
  <2>4. QED
    BY <2>1, <2>2, <2>3 DEF Calm
<1>6. CASE ServiceCrash
  <2>1. crashes' # 0 /\ wreq' = wreq
    BY <1>6, CrashesCount DEF ServiceCrash, QueueTypes, TypeOK
  <2>2. QED
    BY <2>1
<1>7. QED
  BY <1>1, <1>2, <1>3, <1>4, <1>5, <1>6 DEF Next, vars, RunWorker, WorkerDies

LEMMA CalmInit == Init => Calm
BY QueueAssumption DEF Init, LockInit, Calm

LEMMA LineageInit == Init => Lineage
BY QueueAssumption DEF Init, Lineage, UnpublishedIsNowhere, PublishedIsKept, Unpublished

\* When the service has disposed of a request, its collection is over.
THEOREM DisposedIsOver == Spec => []DisposedMeansOver
<1>1. Calm => DisposedMeansOver
  BY QueueAssumption DEF Calm, DisposedMeansOver
<1>2. QED
  BY <1>1, CalmInit, CalmStep, LineageInit, LineageStep, OneWayInit, OneWayStep,
     QueueTypeCorrect, PTL DEF Spec

\* The dashboard's requests alone never collect at the same time.
THEOREM ManualRunsExclude == Spec => []ManualRunsExclusive
<1>1. Calm => ManualRunsExclusive
  <2> SUFFICES ASSUME Calm, crashes = 0, faults = 0, \A w \in CronWorkers : wpc[w] = "new",
                      NEW v \in Workers, wpc[v] = "collect", v \notin dead
               PROVE  v = child
    BY DEF ManualRunsExclusive, Exclusive
  <2>1. Alive(v) /\ v \notin CronWorkers
    BY DEF Alive, Exited
  <2>2. QED
    BY <2>1 DEF Calm
<1>2. QED
  BY <1>1, CalmInit, CalmStep, LineageInit, LineageStep, OneWayInit, OneWayStep,
     QueueTypeCorrect, PTL DEF Spec

----------------------------------------------------------------------------
(* How often a request is collected.                                         *)
Served(c) == {w \in Workers : wreq[w] = c}

\* A request that may still be handed to a worker has been once per crash at most.
Attempts ==
  /\ \A c \in Clients :
       /\ IsFiniteSet(Served(c)) /\ Cardinality(Served(c)) <= 1 + crashes
       /\ c = request \/ (c = running /\ spc \notin {"poll", "finish"}) =>
            Cardinality(Served(c)) <= crashes
  /\ request # NoFile => request # running

\* A step that starts no worker and moves no request to where it may be taken again.
LEMMA QuietAttempts ==
  ASSUME QueueTypes, Attempts, UNCHANGED <<wreq, crashes>>,
         request' # NoFile => request' # running',
         \A c \in Clients :
           c = request' \/ (c = running' /\ spc' \notin {"poll", "finish"}) =>
             \/ c = request \/ (c = running /\ spc \notin {"poll", "finish"})
             \/ \A w \in Workers : wreq[w] # c
  PROVE  Attempts'
<1>1. \A c \in Clients : Served(c)' = Served(c)
  BY DEF Served
<1>2. ASSUME NEW c \in Clients, \A w \in Workers : wreq[w] # c PROVE Cardinality(Served(c)) = 0
  <2>1. Served(c) = {}
    BY <1>2 DEF Served
  <2>2. QED
    BY <2>1, FS_EmptySet
<1>3. crashes \in Nat
  BY QueueAssumption DEF QueueTypes, TypeOK
<1>4. QED
  BY <1>1, <1>2, <1>3 DEF Attempts

\* The inductive step.
LEMMA AttemptsStep == QueueTypes /\ Lineage /\ Attempts /\ [Next]_vars => Attempts'
<1> SUFFICES ASSUME QueueTypes, Lineage, Attempts, [Next]_vars PROVE Attempts'
  OBVIOUS
<1>a. request # NoFile => request # running
  BY DEF Attempts
<1>1. ASSUME NEW c \in Clients, SnapshotLock(c) \/ ClientStep(c) PROVE Attempts'
  <2>1. FileMove(c) /\ UNCHANGED <<running, spc, crashes, wreq>>
    BY <1>1, PostEffect DEF PostMove, serviceVars, countVars, QueueTypes, TypeOK
  <2>2. request' = request \/ (cpc[c] = "rename" /\ request' \in {c, NoFile})
    BY <2>1 DEF FileMove, QueueTypes, OwnTemp
  <2>3. cpc[c] = "rename" => c # running /\ \A w \in Workers : wreq[w] # c
    BY DEF Lineage, UnpublishedIsNowhere, Unpublished
  <2>4. NoFile \notin Clients
    BY QueueAssumption
  <2>5. request' # NoFile => request' # running'
    BY <1>a, <2>1, <2>2, <2>3
  <2>6. QED
    BY <2>1, <2>2, <2>3, <2>4, <2>5, QuietAttempts
<1>2. CASE UNCHANGED queueVars
  BY <1>2, <1>a, QuietAttempts DEF queueVars, fileVars, serviceVars, countVars
<1>3. CASE ApiCrash
  BY <1>3, <1>a, QuietAttempts DEF ApiCrash, ApiOnly, fileVars, serviceVars, countVars
<1>4. CASE ServiceStep
  <2> USE <1>a, QuietAttempts DEF SGoto, ServiceOnly, FilesKept, fileVars, countVars
  <2>1. CASE Boot
    BY <2>1 DEF Boot
  <2>2. CASE RecoverNothing
    BY <2>2 DEF RecoverNothing
  <2>3. CASE RecoverLook
    BY <2>3 DEF RecoverLook, LookingOn, LockActive, LockInactive,
      ServiceSeesLock, ServiceSeesActive, ServiceSeesStale, ServiceReaps
  <2>4. CASE Requeue
    BY <2>4 DEF Requeue
  <2>5. CASE RenameBack
    BY <2>5, QueueAssumption DEF RenameBack, QueueTypes, RunningHeld
  <2>6. CASE Take
    BY <2>6 DEF Take
  <2>7. CASE AwaitLock
    BY <2>7 DEF AwaitLock, LookingOn, LockActive, LockInactive,
      ServiceSeesLock, ServiceSeesActive, ServiceSeesStale, ServiceReaps
  <2>8. ASSUME NEW w \in Workers \ CronWorkers, Spawn(w) PROVE Attempts'
    <3>1. /\ spc = "spawn" /\ spc' = "poll" /\ wreq' = [wreq EXCEPT ![w] = running]
          /\ UNCHANGED <<request, running, crashes>>
      BY <2>8 DEF Spawn
    <3>2. running \in Clients /\ crashes \in Nat /\ wreq \in [Workers -> Clients \cup {None}]
      BY <3>1, QueueAssumption DEF QueueTypes, TypeOK, RunningHeld
    <3>3. ASSUME NEW c \in Clients, c # running
          PROVE  IsFiniteSet(Served(c)') /\ Cardinality(Served(c)') <= Cardinality(Served(c))
                 /\ Cardinality(Served(c)') \in Nat /\ Cardinality(Served(c)) \in Nat
      <4>1. Served(c)' \subseteq Served(c) /\ IsFiniteSet(Served(c))
        BY <3>1, <3>2, <3>3 DEF Served, Attempts
      <4>2. QED
        BY <4>1, FS_Subset, FS_CardinalityType
    <3>4. ASSUME NEW c \in Clients, c = running
          PROVE  IsFiniteSet(Served(c)') /\ Cardinality(Served(c)') <= 1 + crashes
      <4>1. Served(c)' = Served(c) \cup {w}
        BY <3>1, <3>2, <3>4 DEF Served
      <4>2. IsFiniteSet(Served(c)) /\ Cardinality(Served(c)) <= crashes
        BY <3>1, <3>4 DEF Attempts
      <4>3. /\ IsFiniteSet(Served(c) \cup {w}) /\ Cardinality(Served(c)) \in Nat
            /\ Cardinality(Served(c) \cup {w}) \in {Cardinality(Served(c)), Cardinality(Served(c)) + 1}
        BY <4>2, FS_AddElement, FS_CardinalityType
      <4>4. QED
        BY <3>2, <4>1, <4>2, <4>3
    <3>5. ASSUME NEW c \in Clients
          PROVE  /\ IsFiniteSet(Served(c)') /\ Cardinality(Served(c)') <= 1 + crashes'
                 /\ c = request' => Cardinality(Served(c)') <= crashes'
      <4>1. CASE c = running
        BY <1>a, <3>1, <3>2, <3>4, <4>1, QueueAssumption
      <4>2. CASE c # running
        <5>1. Cardinality(Served(c)) <= 1 + crashes /\ (c = request => Cardinality(Served(c)) <= crashes)
          BY DEF Attempts
        <5>2. QED
          BY <3>1, <3>2, <3>3, <4>2, <5>1
      <4>3. QED
        BY <4>1, <4>2
    <3>6. QED
      BY <3>1, <3>5 DEF Attempts
  <2>9. CASE Poll
    BY <2>9 DEF Poll
  <2>10. CASE Finish
    BY <2>10, QueueAssumption DEF Finish
  <2>11. QED
    BY <1>4, <2>1, <2>2, <2>3, <2>4, <2>5, <2>6, <2>7, <2>8, <2>9, <2>10 DEF ServiceStep
<1>5. CASE RequestRaises
  BY <1>5, <1>a, QuietAttempts DEF RequestRaises, FilesKept, fileVars, apiVars
<1>6. CASE ServiceCrash
  <2>1. crashes' = crashes + 1 /\ crashes \in Nat /\ UNCHANGED <<wreq, request, running>>
    BY <1>6, QueueAssumption DEF ServiceCrash, FilesKept, fileVars, QueueTypes, TypeOK
  <2>2. \A c \in Clients : Served(c)' = Served(c) /\ IsFiniteSet(Served(c))
    BY <2>1 DEF Served, Attempts
  <2>3. \A c \in Clients : Cardinality(Served(c)) \in Nat /\ Cardinality(Served(c)) <= 1 + crashes
    BY <2>2, FS_CardinalityType DEF Attempts
  <2>4. \A c \in Clients : Cardinality(Served(c)') <= crashes' /\ Cardinality(Served(c)') <= 1 + crashes'
    BY <2>1, <2>2, <2>3
  <2>5. QED
    BY <1>a, <2>1, <2>2, <2>4 DEF Attempts
<1>7. QED
  BY <1>1, <1>2, <1>3, <1>4, <1>5, <1>6 DEF Next, vars, RunWorker, WorkerDies, CronStarts

\* A request is collected once, and once more per crash of the service at most.
THEOREM RerunsArePaidByCrashes == Spec => []RerunOnlyAfterCrash
<1>1. Init => Attempts
  <2> SUFFICES ASSUME Init PROVE Attempts
    OBVIOUS
  <2>1. \A c \in Clients : Served(c) = {}
    BY QueueAssumption DEF Init, Served
  <2>2. \A c \in Clients : IsFiniteSet(Served(c)) /\ Cardinality(Served(c)) = 0
    BY <2>1, FS_EmptySet
  <2>3. crashes = 0 /\ request = NoFile
    BY DEF Init
  <2>4. QED
    BY <2>2, <2>3 DEF Attempts
<1>2. Attempts => RerunOnlyAfterCrash
  BY DEF Attempts, Served, RerunOnlyAfterCrash
<1>3. QED
  BY <1>1, <1>2, LineageInit, LineageStep, AttemptsStep, QueueTypeCorrect, PTL DEF Spec

----------------------------------------------------------------------------
(* The files are a queue with a single slot, until the service is killed.    *)
\* Publishing, taking and finishing move one request by one phase; nothing else does.
LEMMA SlotStep ==
  QueueTypes /\ Lineage /\ OneWay /\ Calm /\ crashes = 0 /\ [Next]_vars
    => [Slot!Next]_[c \in Clients |-> PhaseOf(c)]
<1> SUFFICES ASSUME QueueTypes, Lineage, OneWay, Calm, crashes = 0, [Next]_vars
             PROVE  Slot!Next \/ UNCHANGED [c \in Clients |-> PhaseOf(c)]
  OBVIOUS
<1> DEFINE Moves(c, from, to) ==
      /\ PhaseOf(c) = from /\ PhaseOf(c)' = to
      /\ \A d \in Clients \ {c} : PhaseOf(d)' = PhaseOf(d)
<1>a. ASSUME NEW c \in Clients, NEW from, NEW to, Moves(c, from, to)
      PROVE  /\ [d \in Clients |-> PhaseOf(d)][c] = from
             /\ [d \in Clients |-> PhaseOf(d)]'
                  = [[d \in Clients |-> PhaseOf(d)] EXCEPT ![c] = to]
  BY <1>a
<1>b. ASSUME UNCHANGED <<request, running, fate>>
      PROVE  UNCHANGED [c \in Clients |-> PhaseOf(c)]
  BY <1>b DEF PhaseOf
<1>1. ASSUME NEW c \in Clients, Publish(c), temp # NoFile PROVE Slot!Enqueue(c)
  <2>1. cpc[c] = "rename" /\ request' = c /\ UNCHANGED <<running, fate>>
    BY <1>1 DEF Publish, CGoto, QueueTypes, OwnTemp, serviceVars
  <2>2. request = NoFile /\ running = NoFile /\ NoFile \notin Clients
    BY <2>1, QueueAssumption DEF OneWay
  <2>3. fate[c] = "none"
    BY <2>1 DEF Calm, Unpublished
  <2>4. \A d \in Clients : PhaseOf(d) \in {"out", "settled"}
    BY <2>2 DEF PhaseOf
  <2>5. Moves(c, "out", "queued")
    BY <2>1, <2>2, <2>3 DEF PhaseOf
  <2> HIDE DEF Moves
  <2>6. \A d \in Clients : [e \in Clients |-> PhaseOf(e)][d] \in {"out", "settled"}
    BY <2>4
  <2>7. QED
    BY <1>a, <2>5, <2>6 DEF Slot!Enqueue, Slot!Move, Slot!Free
<1>2. ASSUME Take, spc' = "wait" PROVE Slot!Next
  <2>1. /\ request \in Clients /\ running = NoFile /\ running' = request /\ request' = NoFile
        /\ UNCHANGED fate /\ NoFile \notin Clients
    BY <1>2, QueueAssumption DEF Take, SGoto, QueueTypes, TypeOK
  <2> PICK c \in Clients : c = request
    BY <2>1
  <2>2. fate[c] = "none"
    BY <2>1 DEF Calm
  <2>3. Moves(c, "queued", "taken")
    BY <2>1, <2>2 DEF PhaseOf
  <2> HIDE DEF Moves
  <2>4. Slot!TakeUp(c)
    BY <1>a, <2>3 DEF Slot!TakeUp, Slot!Move
  <2>5. QED
    BY <2>4 DEF Slot!Next
<1>3. ASSUME Finish PROVE Slot!Next
  <2>1. /\ running \in Clients /\ running' = NoFile /\ NoFile \notin Clients
        /\ UNCHANGED request
    BY <1>3, QueueAssumption DEF Finish, SGoto, QueueTypes, TypeOK, RunningHeld
  <2> PICK c \in Clients : c = running
    BY <2>1
  <2>2. fate[c] = "none"
    BY <2>1 DEF Calm
  <2>3. fate'[c] # "none" /\ \A d \in Clients \ {c} : fate'[d] = fate[d]
    BY <1>3, <2>1 DEF Finish, FateOf, QueueTypes, TypeOK
  <2>4. Moves(c, "taken", "settled")
    BY <2>1, <2>2, <2>3 DEF PhaseOf
  <2> HIDE DEF Moves
  <2>5. Slot!Settle(c)
    BY <1>a, <2>4 DEF Slot!Settle, Slot!Move
  <2>6. QED
    BY <2>5 DEF Slot!Next
<1>4. ASSUME NEW c \in Clients, SnapshotLock(c) \/ ClientStep(c), ~(Publish(c) /\ temp # NoFile)
      PROVE  UNCHANGED <<request, running, fate>>
  BY <1>4 DEF SnapshotLock, ClientStep, SnapshotRequest, SnapshotRunning, TakeGuard,
    CheckRequest, CheckRunning, CheckLock, Check, WriteTemp, Publish, PatchStatus, CleanTemp,
    ApiOnly, fileVars, serviceVars
<1>5. ASSUME ServiceStep, ~Finish, ~(Take /\ spc' = "wait")
      PROVE  UNCHANGED <<request, running, fate>>
  <2>1. ~RenameBack
    BY DEF RenameBack, SGoto, OneWay
  <2>2. CASE Boot \/ RecoverNothing \/ RecoverLook \/ Requeue
    BY <2>2 DEF Boot, RecoverNothing, RecoverLook, Requeue, FilesKept, fileVars
  <2>3. CASE AwaitLock \/ Poll \/ (\E w \in Workers \ CronWorkers : Spawn(w))
    BY <2>3 DEF AwaitLock, Poll, Spawn, FilesKept, fileVars
  <2>4. CASE Take
    BY <1>5, <2>4 DEF Take, SGoto
  <2>5. QED
    BY <1>5, <2>1, <2>2, <2>3, <2>4 DEF ServiceStep
<1>6. ASSUME \/ ApiCrash \/ RequestRaises \/ ServiceCrash \/ UNCHANGED queueVars
      PROVE  UNCHANGED <<request, running, fate>>
  BY <1>6 DEF ApiCrash, ApiOnly, RequestRaises, ServiceCrash, FilesKept, queueVars, fileVars,
    serviceVars
<1>7. QED
  <2>1. CASE \E c \in Clients : SnapshotLock(c) \/ ClientStep(c)
    BY <1>1, <1>4, <1>b, <2>1 DEF Slot!Next
  <2>2. CASE ServiceStep
    BY <1>2, <1>3, <1>5, <1>b, <2>2
  <2>3. CASE ApiCrash \/ RequestRaises \/ ServiceCrash \/ UNCHANGED queueVars
    BY <1>6, <1>b, <2>3
  <2>4. QED
    BY <2>1, <2>2, <2>3 DEF Next, vars, RunWorker, WorkerDies, CronStarts

\* Until the service is killed, requests enter one at a time and each is taken and
\* settled once, whatever workers, cron and the API's own crashes do.
THEOREM QueueIsASlot == Spec /\ [](crashes = 0) => ImplementsSlot
<1>1. Init => Slot!Init
  BY QueueAssumption DEF Init, Slot!Init, PhaseOf
<1>2. Spec => [](QueueTypes /\ Lineage /\ OneWay /\ Calm)
  BY CalmInit, CalmStep, LineageInit, LineageStep, OneWayInit, OneWayStep,
     QueueTypeCorrect, PTL DEF Spec
<1>3. QED
  BY <1>1, <1>2, SlotStep, PTL DEF Spec, ImplementsSlot, Slot!Spec
=============================================================================
