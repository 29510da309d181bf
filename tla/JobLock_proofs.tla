--------------------------- MODULE JobLock_proofs ---------------------------
(***************************************************************************)
(* Proofs about the lock file, for any set of workers: its state is well   *)
(* typed, and two workers collect at once only after the accidents that    *)
(* ExclusiveUnlessWronged and ExclusiveWithoutAccident name.               *)
(***************************************************************************)
EXTENDS JobLock, TLAPS

\* acquire_lock makes two rounds: a worker still in its loop has used up at most one.
RoundsLeft ==
  \A w \in Workers : wpc[w] \in {"new", "open", "probe", "unlink"} => tries[w] \in 0..1

\* The creator of the file at the path has not exited by itself: its own
\* release would have removed the file.
FileOwned ==
  lockFile # NoFile => wpc[lockFile] \in {"write", "collect", "finishing", "failing"}

LockTypes == LockTypeOK /\ RoundsLeft /\ FileOwned

\* The strengthening for exclusion: until a live owner has lost its file, every
\* worker that believes it owns the lock created the file at the path.
OwnersOwn == ~wronged => \A w \in Workers : Inside(w) => lockFile = w

\* The strengthening for the accidents: while nobody was killed and no verdict
\* was wrong, nobody is about to unlink a file it did not create.
NobodyUnlinks ==
  (dead = {} /\ ~misread) =>
    /\ ~wronged
    /\ look # "reap"
    /\ \A w \in Workers : wpc[w] # "unlink"

----------------------------------------------------------------------------
(* The lock's variables keep their types through every step of acquire_lock, *)
(* the collection, the release, a kill and the service's lock_active.        *)
LEMMA LockTypesStep == LockTypes /\ [LockNext]_lockVars => LockTypes'
<1> SUFFICES ASSUME LockTypes, [LockNext]_lockVars PROVE LockTypes'
  OBVIOUS
<1> USE LockAssumption DEF LockTypes, LockTypeOK, RoundsLeft, FileOwned, WorkerStates, Exited
<1>1. ASSUME NEW w \in Workers, StartWorker(w) PROVE LockTypes'
  BY <1>1 DEF StartWorker, Goto
<1>2. ASSUME NEW w \in Workers, WorkerStep(w) PROVE LockTypes'
  <2>1. CASE TryCreate(w)
    BY <2>1 DEF TryCreate, Goto
  <2>2. CASE WritePayload(w)
    BY <2>2 DEF WritePayload, Goto
  <2>3. CASE ProbeBusy(w)
    BY <2>3 DEF ProbeBusy, Goto
  <2>4. CASE ProbeStale(w)
    BY <2>4 DEF ProbeStale, JudgeStale, Goto
  <2>5. CASE UnlinkStale(w)
    <3>1. tries[w] \in 0..1
      BY <2>5 DEF UnlinkStale, Goto
    <3>2. QED
      BY <2>5, <3>1 DEF UnlinkStale, UnlinkLock, Goto
  <2>6. CASE Collect(w)
    BY <2>6 DEF Collect, Goto
  <2>7. CASE Release(w)
    BY <2>7 DEF Release, UnlinkLock, Goto
  <2>8. QED
    BY <1>2, <2>1, <2>2, <2>3, <2>4, <2>5, <2>6, <2>7 DEF WorkerStep
<1>3. ASSUME NEW w \in Workers, Die(w) PROVE LockTypes'
  BY <1>3 DEF Die
<1>4. CASE ServiceLooks
  BY <1>4 DEF ServiceLooks, ServiceSeesLock, ServiceSeesActive, ServiceSeesStale,
    ServiceReaps, JudgeStale, UnlinkLock
<1>5. CASE ServiceForgets
  BY <1>5 DEF ServiceForgets
<1>6. CASE UNCHANGED lockVars
  BY <1>6 DEF lockVars
<1>7. QED
  BY <1>1, <1>2, <1>3, <1>4, <1>5, <1>6 DEF LockNext

LEMMA LockTypesInit == LockInit => LockTypes
<1> SUFFICES ASSUME LockInit PROVE LockTypes
  OBVIOUS
<1> USE DEF LockInit
<1>1. wpc \in [Workers -> WorkerStates] /\ tries \in [Workers -> 0..2]
  BY DEF WorkerStates
<1>2. misread \in BOOLEAN /\ wronged \in BOOLEAN /\ look \in {"away", "seen", "reap"}
  BY Zenon
<1>3. RoundsLeft /\ FileOwned
  BY DEF RoundsLeft, FileOwned
<1>4. QED
  BY <1>1, <1>2, <1>3 DEF LockTypes, LockTypeOK

\* Type correctness of the lock protocol.
THEOREM LockTypeCorrect == LockSpec => []LockTypeOK
<1>1. LockTypes => LockTypeOK
  BY DEF LockTypes
<1>2. QED
  BY <1>1, LockTypesInit, LockTypesStep, PTL DEF LockSpec

\* When no worker runs, the file at the path, if any, is a killed process's.
THEOREM OrphansAreDead == LockSpec => []NoOrphanWithoutDeath
<1>1. LockTypes => NoOrphanWithoutDeath
  BY DEF LockTypes, LockTypeOK, FileOwned, NoOrphanWithoutDeath, Alive, Exited
<1>2. QED
  BY <1>1, LockTypesInit, LockTypesStep, PTL DEF LockSpec

----------------------------------------------------------------------------
(* A step keeps OwnersOwn: the exclusive create finds no file, so no other   *)
(* owner was left; an unlink removes the remover's own file or is recorded.  *)
LEMMA OwnersOwnStep ==
  LockTypes /\ OwnersOwn /\ [LockNext]_lockVars => OwnersOwn'
<1> SUFFICES ASSUME LockTypes, OwnersOwn, [LockNext]_lockVars, ~wronged',
                    NEW v \in Workers, Inside(v)'
             PROVE  lockFile' = v
  BY DEF OwnersOwn
<1> USE LockAssumption DEF LockTypes, LockTypeOK, OwnersOwn, Inside
<1>1. ASSUME NEW w \in Workers, StartWorker(w) PROVE lockFile' = v
  BY <1>1 DEF StartWorker, Goto
<1>2. ASSUME NEW w \in Workers, WorkerStep(w) PROVE lockFile' = v
  <2>1. CASE TryCreate(w)
    BY <2>1 DEF TryCreate, Goto
  <2>2. CASE WritePayload(w)
    BY <2>2 DEF WritePayload, Goto
  <2>3. CASE ProbeBusy(w)
    BY <2>3 DEF ProbeBusy, Goto
  <2>4. CASE ProbeStale(w)
    BY <2>4 DEF ProbeStale, JudgeStale, Goto
  <2>5. CASE UnlinkStale(w)
    BY <2>5 DEF UnlinkStale, UnlinkLock, Goto
  <2>6. CASE Collect(w)
    BY <2>6 DEF Collect, Goto
  <2>7. CASE Release(w)
    BY <2>7 DEF Release, UnlinkLock, Goto
  <2>8. QED
    BY <1>2, <2>1, <2>2, <2>3, <2>4, <2>5, <2>6, <2>7 DEF WorkerStep
<1>3. ASSUME NEW w \in Workers, Die(w) PROVE lockFile' = v
  BY <1>3 DEF Die
<1>4. CASE ServiceLooks
  BY <1>4 DEF ServiceLooks, ServiceSeesLock, ServiceSeesActive, ServiceSeesStale,
    ServiceReaps, JudgeStale, UnlinkLock
<1>5. CASE ServiceForgets
  BY <1>5 DEF ServiceForgets
<1>6. CASE UNCHANGED lockVars
  BY <1>6 DEF lockVars
<1>7. QED
  BY <1>1, <1>2, <1>3, <1>4, <1>5, <1>6 DEF LockNext

LEMMA OwnersOwnExclude == OwnersOwn => ExclusiveUnlessWronged
BY DEF OwnersOwn, ExclusiveUnlessWronged, Exclusive, Inside

\* Two processes collect at once only after a live owner's file was removed.
THEOREM ExclusionBroken == LockSpec => []ExclusiveUnlessWronged
<1>1. LockInit => OwnersOwn
  BY DEF LockInit, OwnersOwn, Inside
<1>2. QED
  BY <1>1, LockTypesInit, LockTypesStep, OwnersOwnStep, OwnersOwnExclude, PTL
  DEF LockSpec

----------------------------------------------------------------------------
(* A step keeps NobodyUnlinks: a verdict "stale" without a death is a wrong  *)
(* one, and the only other unlink is the owner's own.                        *)
LEMMA NobodyUnlinksStep ==
  LockTypes /\ OwnersOwn /\ NobodyUnlinks /\ [LockNext]_lockVars => NobodyUnlinks'
<1> SUFFICES ASSUME LockTypes, OwnersOwn, NobodyUnlinks, [LockNext]_lockVars,
                    dead' = {}, ~misread'
             PROVE  /\ ~wronged'
                    /\ look' # "reap"
                    /\ \A v \in Workers : wpc'[v] # "unlink"
  BY DEF NobodyUnlinks
<1> USE LockAssumption DEF LockTypes, LockTypeOK, FileOwned, NobodyUnlinks
<1> DEFINE Goal == /\ ~wronged'
                   /\ look' # "reap"
                   /\ \A v \in Workers : wpc'[v] # "unlink"
<1>1. ASSUME NEW w \in Workers, StartWorker(w) PROVE Goal
  BY <1>1 DEF StartWorker, Goto
<1>2. ASSUME NEW w \in Workers, WorkerStep(w) PROVE Goal
  <2>1. CASE TryCreate(w)
    BY <2>1 DEF TryCreate, Goto
  <2>2. CASE WritePayload(w)
    BY <2>2 DEF WritePayload, Goto
  <2>3. CASE ProbeBusy(w)
    BY <2>3 DEF ProbeBusy, Goto
  <2>4. CASE ProbeStale(w)
    BY <2>4 DEF ProbeStale, JudgeStale, InForce, Unwritten, Alive, Goto, Exited
  <2>5. CASE UnlinkStale(w)
    BY <2>5 DEF UnlinkStale, UnlinkLock, Goto
  <2>6. CASE Collect(w)
    BY <2>6 DEF Collect, Goto
  <2>7. CASE Release(w)
    BY <2>7 DEF Release, UnlinkLock, Goto, OwnersOwn, Inside
  <2>8. QED
    BY <1>2, <2>1, <2>2, <2>3, <2>4, <2>5, <2>6, <2>7 DEF WorkerStep
<1>3. ASSUME NEW w \in Workers, Die(w) PROVE Goal
  BY <1>3 DEF Die
<1>4. CASE ServiceLooks
  <2>1. CASE ServiceSeesLock
    BY <2>1 DEF ServiceSeesLock
  <2>2. CASE ServiceSeesActive
    BY <2>2 DEF ServiceSeesActive
  <2>3. CASE ServiceSeesStale
    BY <2>3 DEF ServiceSeesStale, JudgeStale, InForce, Unwritten, Alive, Exited
  <2>4. CASE ServiceReaps
    BY <2>4 DEF ServiceReaps
  <2>5. QED
    BY <1>4, <2>1, <2>2, <2>3, <2>4 DEF ServiceLooks
<1>5. CASE ServiceForgets
  BY <1>5 DEF ServiceForgets
<1>6. CASE UNCHANGED lockVars
  BY <1>6 DEF lockVars
<1>7. QED
  BY <1>1, <1>2, <1>3, <1>4, <1>5, <1>6 DEF LockNext

\* With no kill and no misjudged lock, the lock excludes.
THEOREM ExclusionWithoutAccident == LockSpec => []ExclusiveWithoutAccident
<1>1. LockInit => OwnersOwn /\ NobodyUnlinks
  BY DEF LockInit, OwnersOwn, Inside, NobodyUnlinks
<1>2. OwnersOwn /\ NobodyUnlinks => ExclusiveWithoutAccident
  BY OwnersOwnExclude DEF NobodyUnlinks, ExclusiveWithoutAccident, ExclusiveUnlessWronged
<1>3. QED
  BY <1>1, <1>2, LockTypesInit, LockTypesStep, OwnersOwnStep, NobodyUnlinksStep, PTL
  DEF LockSpec
=============================================================================
