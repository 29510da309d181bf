--------------------------- MODULE Inventory_proofs ---------------------------
(***************************************************************************)
(* Proofs about the inventory's synchronisation, for any number of runs,   *)
(* rows and days: the lock of the syncs excludes until a process is killed *)
(* or the lock misleads, a day's history is written once, the state tells  *)
(* of the snapshot or that it could not be written, quiet syncs without a  *)
(* gap tell the stock, and a day without history has a cause.              *)
(***************************************************************************)
EXTENDS Inventory, Sequences, SumLemmas

----------------------------------------------------------------------------
(***************************************************************************)
(* The parts go on alone: a behaviour of the whole is one of each of them. *)
(***************************************************************************)

\* What holds of the syncs, of a merge or of the calendar holds of the whole.
THEOREM PartsGoOnAlone == InventorySpec => Spec /\ Merge!Spec /\ Calendar!Spec
<1>1. InventoryInit => Init /\ Merge!Init /\ Calendar!Init
  BY DEF InventoryInit
<1>2. [InventoryNext]_inventoryVars => [Next]_vars
  BY DEF InventoryNext, inventoryVars
<1>3. [InventoryNext]_inventoryVars => [Merge!Next]_(Merge!vars)
  BY DEF InventoryNext, inventoryVars, mergeVars, Merge!vars, Merge!syncVars, Merge!historyVars
<1>4. [InventoryNext]_inventoryVars => [Calendar!Next]_(Calendar!vars)
  BY DEF InventoryNext, inventoryVars, dayVars, Calendar!vars, Calendar!containerVars, Calendar!historyVars
<1>5. QED
  BY <1>1, <1>2, <1>3, <1>4, PTL DEF InventorySpec, Spec, Merge!Spec, Calendar!Spec

----------------------------------------------------------------------------
(***************************************************************************)
(* The syncs.                                                              *)
(***************************************************************************)

\* A run that goes on after its requests has built a snapshot.
DraftFits ==
  \A p \in Runs :
    pc[p] \in {"history", "write history", "save", "read state", "write state"}
      => draft[p] \in Snapshots

Types == TypeOK /\ DraftFits

NobodyKilled == \A p \in Runs : pc[p] # "crashed"

\* The strengthening for the lock: while nobody was killed and no lock has misled,
\* the run past the lock is the one whose token is in it, a lock that is judged old
\* is the one whose process was read, and nobody is about to unlink one.
Exclusion ==
  /\ ~met
  /\ lock # None => lock.token # None /\ pc[lock.token] \in Inside
  /\ \A p \in Runs : pc[p] \in Inside => lock # None /\ lock.token = p
  /\ \A p \in Runs : pc[p] \notin {"unlink", "recreate"}
  /\ \A p \in Runs :
       pc[p] = "judge" /\ lock # None /\ lock.old => existing[p] = lock.token

LockExcludes == NobodyKilled /\ ~misled => Exclusion

\* The strengthening for the history: runs that have not met are past the lock
\* one at a time, and what a run has not found is still missing when it writes.
OneWriter ==
  /\ \A p, q \in Working : p = q
  /\ \A p \in Runs :
       pc[p] = "write history" /\ unwritten[p] => history[Day(now[p])] = None

HistoryMissing == ~met => OneWriter

\* The strengthening for the state: until two runs have met or merged at once or
\* one was killed, a failure is merged into the state that is there and a success
\* is the snapshot that is there.
OneMerger ==
  /\ NobodyKilled
  /\ \A p, q \in Merging : p = q
  /\ \A p \in Runs : pc[p] = "write failure" => read[p] = state
  /\ \A p \in Runs : pc[p] \in {"read state", "write state"} => snapshot = draft[p]
  /\ StateTellsSnapshot

StateMerges == ~lost /\ ~met => OneMerger

----------------------------------------------------------------------------
LEMMA TimeGoesOn == \A t \in Times : t < MaxTime => t + 1 \in Times
  BY SyncAssumption DEF Times

\* What a run does that finds no lock: it takes it, or leaves one that is nobody's.
LEMMA TakesLock ==
  ASSUME NEW p \in Runs, CreateLock(p) \/ RecreateLock(p), lock = None
  PROVE  /\ pc[p] \in {"create", "recreate"}
         /\ \/ /\ pc' = [pc EXCEPT ![p] = "fetch"] /\ lock'.token = p /\ ~lock'.old
               /\ (met' <=> met \/ Working # {}) /\ misled' = misled
            \/ pc' = [pc EXCEPT ![p] = "failed"] /\ met' = met /\ misled'
         /\ lock' \in Locks /\ lock' # None /\ met' \in BOOLEAN \cup {met}
         /\ misled' \in BOOLEAN \cup {misled}
         /\ UNCHANGED <<now, existing, draft, unwritten, snapshot, history, state, read, telling,
                       clock, lost>>
<1>1. /\ pc[p] \in {"create", "recreate"}
      /\ UNCHANGED <<now, existing, draft, unwritten, snapshot, history, state, read, telling,
                    clock, lost>>
  BY DEF CreateLock, RecreateLock, TakeLock, Goto, fileVars, stateVars
<1>2. \A t \in Runs \cup {None} : [token |-> t, old |-> FALSE] \in Locks
  BY DEF Locks
<1>3. CASE /\ pc' = [pc EXCEPT ![p] = "fetch"] /\ lock' = [token |-> p, old |-> FALSE]
           /\ met' = (met \/ Working # {}) /\ UNCHANGED misled
  <2>1. met' \in BOOLEAN /\ (met' <=> met \/ Working # {})
    BY <1>3, Zenon
  <2>2. lock' \in Locks /\ lock' # None /\ lock'.token = p /\ ~lock'.old
    BY <1>2, <1>3, SyncAssumption
  <2>3. QED
    BY <1>1, <1>3, <2>1, <2>2
<1>4. CASE /\ pc' = [pc EXCEPT ![p] = "failed"] /\ lock' = [token |-> None, old |-> FALSE]
           /\ misled' = TRUE /\ UNCHANGED met
  <2>1. lock' \in Locks /\ lock' # None
    BY <1>2, <1>4, SyncAssumption
  <2>2. QED
    BY <1>1, <1>4, <2>1
<1>5. QED
  BY <1>3, <1>4 DEF CreateLock, RecreateLock, TakeLock, Goto

\* What a run does that finds a lock: it looks at it, or gives up.
LEMMA FindsLock ==
  ASSUME NEW p \in Runs, CreateLock(p) \/ RecreateLock(p), lock # None
  PROVE  /\ \/ pc[p] = "create" /\ pc' = [pc EXCEPT ![p] = "examine"]
            \/ pc[p] = "recreate" /\ pc' = [pc EXCEPT ![p] = "failed"]
         /\ UNCHANGED <<lock, met, misled, now, existing, draft, unwritten, snapshot, history, state,
                       read, telling, clock, lost>>
  BY DEF CreateLock, RecreateLock, TakeLock, Goto, fileVars, stateVars

\* What a run does that judges a lock: it goes on to unlink one that is old, and whose
\* process it has not found, or gives up.
LEMMA JudgesLock ==
  ASSUME NEW p \in Runs, JudgeLock(p)
  PROVE  /\ pc[p] = "judge"
         /\ \/ /\ lock # None /\ lock.old /\ pc' = [pc EXCEPT ![p] = "unlink"]
               /\ existing[p] # None /\ Alive(existing[p]) => misled'
            \/ pc' = [pc EXCEPT ![p] = "failed"]
         /\ existing' = [existing EXCEPT ![p] = None]
         /\ misled => misled'
         /\ misled' \in BOOLEAN \cup {misled}
         /\ UNCHANGED <<lock, met, now, draft, unwritten, snapshot, history, state, read, telling,
                       clock, lost>>
<1>1. /\ pc[p] = "judge" /\ existing' = [existing EXCEPT ![p] = None]
      /\ UNCHANGED <<lock, met, now, draft, unwritten, snapshot, history, state, read, telling,
                    clock, lost>>
  BY DEF JudgeLock, Goto, fileVars, stateVars
<1> DEFINE stray == /\ existing[p] # None /\ Alive(existing[p])
                    /\ Container[existing[p]] # Container[p]
<1>2. PICK running \in PidRunning(p) :
        IF StaleLock(running)
        THEN pc' = [pc EXCEPT ![p] = "unlink"] /\ misled' = (misled \/ stray)
        ELSE pc' = [pc EXCEPT ![p] = "failed"] /\ UNCHANGED misled
  BY DEF JudgeLock, Goto
<1>3. CASE StaleLock(running)
  <2>1. misled' = (misled \/ stray) /\ pc' = [pc EXCEPT ![p] = "unlink"]
    BY <1>2, <1>3
  <2>2. misled' \in BOOLEAN /\ (misled' <=> misled \/ stray)
    BY <2>1, Zenon
  <2>3. lock # None /\ lock.old /\ ~running
    BY <1>3 DEF StaleLock
  <2>4. ASSUME existing[p] # None, Alive(existing[p]) PROVE stray
    BY <2>3, <2>4, <1>2 DEF PidRunning
  <2>5. QED
    BY <1>1, <2>1, <2>2, <2>3, <2>4
<1>4. CASE ~StaleLock(running)
  BY <1>1, <1>2, <1>4
<1>5. QED
  BY <1>3, <1>4

LEMMA InitTypes == Init => Types
<1> SUFFICES ASSUME Init PROVE Types
  OBVIOUS
<1>1. 0 \in Times
  BY SyncAssumption DEF Times
<1>2. QED
  BY <1>1, SyncAssumption DEF Init, Types, TypeOK, DraftFits, Stages, States, NoState

\* No step of a run, no kill and no passing of time leaves the types.
LEMMA StepTypes == Types /\ [Next]_vars => Types'
<1> SUFFICES ASSUME Types, [Next]_vars PROVE Types'
  OBVIOUS
<1> USE DEF Types, TypeOK, DraftFits, Stages, Quick, Inside, States, NoState, Goto, Raise,
  lockVars, fileVars, stateVars
<1>1. ASSUME NEW p \in Runs, Start(p) PROVE Types'
  BY <1>1 DEF Start
<1>2. ASSUME NEW p \in Runs, RunStep(p) PROVE Types'
  <2>1. CASE CreateLock(p)
    <3>1. CASE lock = None
      <4>1. /\ \E s \in {"fetch", "failed"} : pc' = [pc EXCEPT ![p] = s]
            /\ lock' \in Locks /\ met' \in BOOLEAN /\ misled' \in BOOLEAN
            /\ UNCHANGED <<now, existing, draft, unwritten, snapshot, history, state, read, telling,
                          clock, lost>>
        BY <2>1, <3>1, TakesLock
      <4>2. QED
        BY <4>1
    <3>2. CASE lock # None
      <4>1. PICK s \in {"examine", "failed"} : pc' = [pc EXCEPT ![p] = s]
        BY <2>1, <3>2, FindsLock
      <4>2. UNCHANGED <<lock, met, misled, now, existing, draft, unwritten, snapshot, history, state,
                          read, telling, clock, lost>>
        BY <2>1, <3>2, FindsLock
      <4>3. QED
        BY <4>1, <4>2
    <3>3. QED
      BY <3>1, <3>2
  <2>2. CASE ExamineLock(p)
    <3>1. existing' \in [Runs -> Runs \cup {None}]
      BY <2>2 DEF ExamineLock, Locks
    <3>2. QED
      BY <2>2, <3>1 DEF ExamineLock
  <2>3. CASE JudgeLock(p)
    <3>1. PICK s \in {"unlink", "failed"} : pc' = [pc EXCEPT ![p] = s]
      BY <2>3, JudgesLock
    <3>2. /\ misled' \in BOOLEAN /\ existing' \in [Runs -> Runs \cup {None}]
          /\ UNCHANGED <<lock, met, now, draft, unwritten, snapshot, history, state, read, telling,
                        clock, lost>>
      BY <2>3, JudgesLock
    <3>3. QED
      BY <3>1, <3>2
  <2>4. CASE UnlinkStale(p)
    BY <2>4 DEF UnlinkStale
  <2>5. CASE RecreateLock(p)
    <3>1. CASE lock = None
      <4>1. /\ \E s \in {"fetch", "failed"} : pc' = [pc EXCEPT ![p] = s]
            /\ lock' \in Locks /\ met' \in BOOLEAN /\ misled' \in BOOLEAN
            /\ UNCHANGED <<now, existing, draft, unwritten, snapshot, history, state, read, telling,
                          clock, lost>>
        BY <2>5, <3>1, TakesLock
      <4>2. QED
        BY <4>1
    <3>2. CASE lock # None
      <4>1. PICK s \in {"examine", "failed"} : pc' = [pc EXCEPT ![p] = s]
        BY <2>5, <3>2, FindsLock
      <4>2. UNCHANGED <<lock, met, misled, now, existing, draft, unwritten, snapshot, history, state,
                          read, telling, clock, lost>>
        BY <2>5, <3>2, FindsLock
      <4>3. QED
        BY <4>1, <4>2
    <3>3. QED
      BY <3>1, <3>2
  <2>6. CASE ReleaseLock(p)
    BY <2>6 DEF ReleaseLock
  <2>7. CASE Unlock(p)
    BY <2>7 DEF Unlock
  <2>8. CASE FetchAndValidate(p)
    <3>1. BuildSnapshot(p) \in Snapshots
      BY DEF BuildSnapshot, Snapshots
    <3>2. draft' \in [Runs -> Snapshots \cup {None}]
      BY <2>8, <3>1 DEF FetchAndValidate
    <3>3. \A q \in Runs : q # p => draft'[q] = draft[q] /\ pc'[q] = pc[q]
      BY <2>8 DEF FetchAndValidate
    <3>4. PICK s \in {"history", "save", "release"} : pc' = [pc EXCEPT ![p] = s]
      BY <2>8 DEF FetchAndValidate
    <3>5. pc'[p] # "release" => draft'[p] \in Snapshots
      BY <2>8, <3>1, <3>4 DEF FetchAndValidate
    <3>6. UNCHANGED <<now, lock, existing, unwritten, snapshot, history, state, read, telling, clock,
                     met, lost, misled>>
      BY <2>8 DEF FetchAndValidate
    <3>7. pc' \in [Runs -> Stages]
      BY <3>4
    <3>8. DraftFits'
      BY <3>3, <3>4, <3>5
    <3>9. QED
      BY <3>2, <3>6, <3>7, <3>8
  <2>9. CASE ReadHistory(p)
    BY <2>9 DEF ReadHistory
  <2>10. CASE WriteHistory(p)
    <3>1. history' \in [Days -> Snapshots \cup {None}]
      BY <2>10 DEF WriteHistory, Days
    <3>2. /\ unwritten' \in [Runs -> BOOLEAN]
          /\ UNCHANGED <<now, lock, existing, snapshot, state, read, telling, clock, met, lost, misled>>
      BY <2>10 DEF WriteHistory
    <3>3. CASE pc' = [pc EXCEPT ![p] = "save"] /\ draft' = draft /\ pc[p] = "write history"
      BY <3>1, <3>2, <3>3
    <3>4. CASE pc' = [pc EXCEPT ![p] = "release"] /\ draft' = [draft EXCEPT ![p] = None]
      BY <3>1, <3>2, <3>4
    <3>5. QED
      BY <2>10, <3>3, <3>4 DEF WriteHistory
  <2>11. CASE SaveSnapshot(p)
    <3>1. /\ snapshot' \in Snapshots \cup {None}
          /\ UNCHANGED <<now, lock, existing, unwritten, history, state, read, telling, clock, met,
                        lost, misled>>
      BY <2>11 DEF SaveSnapshot
    <3>2. CASE pc' = [pc EXCEPT ![p] = "read state"] /\ draft' = draft /\ pc[p] = "save"
      BY <3>1, <3>2
    <3>3. CASE pc' = [pc EXCEPT ![p] = "release"] /\ draft' = [draft EXCEPT ![p] = None]
      BY <3>1, <3>3
    <3>4. QED
      BY <2>11, <3>2, <3>3 DEF SaveSnapshot
  <2>12. CASE ReadState(p)
    BY <2>12 DEF ReadState
  <2>13. CASE WriteState(p)
    <3>1. pc[p] = "write state" /\ draft[p] \in Snapshots
      BY <2>13 DEF WriteState
    <3>2. /\ draft[p].at \in Times /\ draft[p].analytics \in Times
      BY <3>1 DEF Snapshots
    <3>3. [synced |-> draft[p].at, analytics |-> draft[p].analytics, failure |-> None] \in States
      BY <3>2
    <3>4. state' \in States /\ telling' \in {"told", "failed", "recorded"}
      BY <2>13, <3>3 DEF WriteState
    <3>5. /\ read' \in [Runs -> States]
          /\ UNCHANGED <<now, lock, existing, unwritten, snapshot, history, clock, met, lost, misled>>
      BY <2>13 DEF WriteState
    <3>6. /\ pc' = [pc EXCEPT ![p] = "release"]
          /\ draft' = draft \/ draft' = [draft EXCEPT ![p] = None]
      BY <2>13 DEF WriteState
    <3>7. draft' \in [Runs -> Snapshots \cup {None}] /\ pc' \in [Runs -> Stages]
      BY <3>6
    <3>8. \A q \in Runs : q # p => draft'[q] = draft[q] /\ pc'[q] = pc[q]
      BY <3>6
    <3>9. pc'[p] = "release"
      BY <3>6
    <3>10. DraftFits'
      BY <3>8, <3>9
    <3>11. QED
      BY <3>4, <3>5, <3>7, <3>10
  <2>14. CASE RecordFailure(p)
    <3>1. [read[p] EXCEPT !.failure = now[p]] \in States
      OBVIOUS
    <3>2. state' \in States /\ telling' \in {"told", "failed", "recorded"}
      BY <2>14, <3>1 DEF RecordFailure
    <3>3. /\ read' \in [Runs -> States] /\ pc' = [pc EXCEPT ![p] = "over"]
          /\ UNCHANGED <<now, lock, existing, draft, unwritten, snapshot, history, clock, met, lost,
                        misled>>
      BY <2>14 DEF RecordFailure
    <3>4. QED
      BY <3>2, <3>3
  <2>15. QED
    BY <1>2, <2>1, <2>2, <2>3, <2>4, <2>5, <2>6, <2>7, <2>8, <2>9, <2>10,
       <2>11, <2>12, <2>13, <2>14 DEF RunStep
<1>3. ASSUME NEW p \in Runs, Crash(p) PROVE Types'
  BY <1>3 DEF Crash
<1>4. CASE LockAges
  <2>1. lock \in Locks
    BY <1>4 DEF LockAges
  <2>2. [lock EXCEPT !.old = TRUE] \in Locks
    BY <2>1 DEF Locks
  <2>3. lock' = [lock EXCEPT !.old = TRUE]
    BY <1>4 DEF LockAges
  <2>4. lock' \in Locks
    BY <2>2, <2>3
  <2>5. QED
    BY <1>4, <2>4 DEF LockAges
<1>5. CASE Tick
  <2>1. clock' \in Times
    BY <1>5, TimeGoesOn DEF Tick
  <2>2. QED
    BY <1>5, <2>1 DEF Tick
<1>6. CASE UNCHANGED vars
  BY <1>6 DEF vars, lockVars, fileVars, stateVars
<1>7. QED
  BY <1>1, <1>2, <1>3, <1>4, <1>5, <1>6 DEF Next

\* Type correctness of the inventory sync.
THEOREM SyncTypeCorrect == Spec => []TypeOK
<1>1. Types => TypeOK
  BY DEF Types
<1>2. QED
  BY <1>1, InitTypes, StepTypes, PTL DEF Spec

----------------------------------------------------------------------------
\* A killed process does nothing more.
LEMMA TheKilledStay ==
  ASSUME Types, [Next]_vars, NEW q \in Runs, pc[q] = "crashed" PROVE pc'[q] = "crashed"
<1> USE DEF Types, TypeOK, Goto
<1>1. ASSUME NEW p \in Runs, Start(p) PROVE pc'[q] = "crashed"
  BY <1>1 DEF Start
<1>2. ASSUME NEW p \in Runs, RunStep(p) PROVE pc'[q] = "crashed"
  <2>1. CASE CreateLock(p)
    BY <2>1, TakesLock, FindsLock
  <2>2. CASE ExamineLock(p)
    BY <2>2 DEF ExamineLock
  <2>3. CASE JudgeLock(p)
    BY <2>3, JudgesLock
  <2>4. CASE UnlinkStale(p)
    BY <2>4 DEF UnlinkStale
  <2>5. CASE RecreateLock(p)
    BY <2>5, TakesLock, FindsLock
  <2>6. CASE ReleaseLock(p)
    BY <2>6 DEF ReleaseLock
  <2>7. CASE Unlock(p)
    BY <2>7 DEF Unlock
  <2>8. CASE FetchAndValidate(p)
    BY <2>8 DEF FetchAndValidate, Raise, Goto
  <2>9. CASE ReadHistory(p)
    BY <2>9 DEF ReadHistory
  <2>10. CASE WriteHistory(p)
    BY <2>10 DEF WriteHistory, Raise, Goto
  <2>11. CASE SaveSnapshot(p)
    BY <2>11 DEF SaveSnapshot, Raise, Goto
  <2>12. CASE ReadState(p)
    BY <2>12 DEF ReadState
  <2>13. CASE WriteState(p)
    BY <2>13 DEF WriteState, Raise, Goto
  <2>14. CASE RecordFailure(p)
    BY <2>14 DEF RecordFailure
  <2>15. QED
    BY <1>2, <2>1, <2>2, <2>3, <2>4, <2>5, <2>6, <2>7, <2>8, <2>9, <2>10,
       <2>11, <2>12, <2>13, <2>14 DEF RunStep
<1>3. ASSUME NEW p \in Runs, Crash(p) PROVE pc'[q] = "crashed"
  BY <1>3 DEF Crash
<1>4. CASE LockAges
  BY <1>4 DEF LockAges
<1>5. CASE Tick
  BY <1>5 DEF Tick
<1>6. CASE UNCHANGED vars
  BY <1>6 DEF vars, lockVars, fileVars, stateVars
<1>7. QED
  BY <1>1, <1>2, <1>3, <1>4, <1>5, <1>6 DEF Next

\* That two runs have met is not forgotten.
LEMMA MetStays == [Next]_vars /\ met => met'
<1> SUFFICES ASSUME [Next]_vars, met PROVE met'
  OBVIOUS
<1>1. ASSUME NEW p \in Runs, Start(p) PROVE met'
  BY <1>1 DEF Start
<1>2. ASSUME NEW p \in Runs, RunStep(p) PROVE met'
  <2>1. CASE CreateLock(p)
    BY <2>1, TakesLock, FindsLock
  <2>2. CASE ExamineLock(p)
    BY <2>2 DEF ExamineLock
  <2>3. CASE JudgeLock(p)
    BY <2>3, JudgesLock
  <2>4. CASE UnlinkStale(p)
    BY <2>4 DEF UnlinkStale
  <2>5. CASE RecreateLock(p)
    BY <2>5, TakesLock, FindsLock
  <2>6. CASE ReleaseLock(p)
    BY <2>6 DEF ReleaseLock
  <2>7. CASE Unlock(p)
    BY <2>7 DEF Unlock
  <2>8. CASE FetchAndValidate(p)
    BY <2>8 DEF FetchAndValidate, Raise, Goto
  <2>9. CASE ReadHistory(p)
    BY <2>9 DEF ReadHistory
  <2>10. CASE WriteHistory(p)
    BY <2>10 DEF WriteHistory, Raise, Goto
  <2>11. CASE SaveSnapshot(p)
    BY <2>11 DEF SaveSnapshot, Raise, Goto
  <2>12. CASE ReadState(p)
    BY <2>12 DEF ReadState
  <2>13. CASE WriteState(p)
    BY <2>13 DEF WriteState, Raise, Goto
  <2>14. CASE RecordFailure(p)
    BY <2>14 DEF RecordFailure
  <2>15. QED
    BY <1>2, <2>1, <2>2, <2>3, <2>4, <2>5, <2>6, <2>7, <2>8, <2>9, <2>10,
       <2>11, <2>12, <2>13, <2>14 DEF RunStep
<1>3. ASSUME NEW p \in Runs, Crash(p) PROVE met'
  BY <1>3 DEF Crash
<1>4. CASE LockAges
  BY <1>4 DEF LockAges
<1>5. CASE Tick
  BY <1>5 DEF Tick
<1>6. CASE UNCHANGED vars
  BY <1>6 DEF vars, lockVars, fileVars, stateVars
<1>7. QED
  BY <1>1, <1>2, <1>3, <1>4, <1>5, <1>6 DEF Next

\* Nor that two have merged at once or that one was killed.
LEMMA LostStays == [Next]_vars /\ lost => lost'
<1> SUFFICES ASSUME [Next]_vars, lost PROVE lost'
  OBVIOUS
<1>1. ASSUME NEW p \in Runs, Start(p) PROVE lost'
  BY <1>1 DEF Start
<1>2. ASSUME NEW p \in Runs, RunStep(p) PROVE lost'
  <2>1. CASE CreateLock(p)
    BY <2>1, TakesLock, FindsLock
  <2>2. CASE ExamineLock(p)
    BY <2>2 DEF ExamineLock
  <2>3. CASE JudgeLock(p)
    BY <2>3, JudgesLock
  <2>4. CASE UnlinkStale(p)
    BY <2>4 DEF UnlinkStale
  <2>5. CASE RecreateLock(p)
    BY <2>5, TakesLock, FindsLock
  <2>6. CASE ReleaseLock(p)
    BY <2>6 DEF ReleaseLock
  <2>7. CASE Unlock(p)
    BY <2>7 DEF Unlock
  <2>8. CASE FetchAndValidate(p)
    BY <2>8 DEF FetchAndValidate, Raise, Goto
  <2>9. CASE ReadHistory(p)
    BY <2>9 DEF ReadHistory
  <2>10. CASE WriteHistory(p)
    BY <2>10 DEF WriteHistory, Raise, Goto
  <2>11. CASE SaveSnapshot(p)
    BY <2>11 DEF SaveSnapshot, Raise, Goto
  <2>12. CASE ReadState(p)
    BY <2>12 DEF ReadState
  <2>13. CASE WriteState(p)
    BY <2>13 DEF WriteState, Raise, Goto
  <2>14. CASE RecordFailure(p)
    BY <2>14 DEF RecordFailure
  <2>15. QED
    BY <1>2, <2>1, <2>2, <2>3, <2>4, <2>5, <2>6, <2>7, <2>8, <2>9, <2>10,
       <2>11, <2>12, <2>13, <2>14 DEF RunStep
<1>3. ASSUME NEW p \in Runs, Crash(p) PROVE lost'
  BY <1>3 DEF Crash
<1>4. CASE LockAges
  BY <1>4 DEF LockAges
<1>5. CASE Tick
  BY <1>5 DEF Tick
<1>6. CASE UNCHANGED vars
  BY <1>6 DEF vars, lockVars, fileVars, stateVars
<1>7. QED
  BY <1>1, <1>2, <1>3, <1>4, <1>5, <1>6 DEF Next

\* Nor that a lock has misled.
LEMMA MisledStays == [Next]_vars /\ misled => misled'
<1> SUFFICES ASSUME [Next]_vars, misled PROVE misled'
  OBVIOUS
<1>1. ASSUME NEW p \in Runs, Start(p) PROVE misled'
  BY <1>1 DEF Start
<1>2. ASSUME NEW p \in Runs, RunStep(p) PROVE misled'
  <2>1. CASE CreateLock(p)
    BY <2>1, TakesLock, FindsLock
  <2>2. CASE ExamineLock(p)
    BY <2>2 DEF ExamineLock
  <2>3. CASE JudgeLock(p)
    BY <2>3, JudgesLock
  <2>4. CASE UnlinkStale(p)
    BY <2>4 DEF UnlinkStale
  <2>5. CASE RecreateLock(p)
    BY <2>5, TakesLock, FindsLock
  <2>6. CASE ReleaseLock(p)
    BY <2>6 DEF ReleaseLock
  <2>7. CASE Unlock(p)
    BY <2>7 DEF Unlock
  <2>8. CASE FetchAndValidate(p)
    BY <2>8 DEF FetchAndValidate, Raise, Goto
  <2>9. CASE ReadHistory(p)
    BY <2>9 DEF ReadHistory
  <2>10. CASE WriteHistory(p)
    BY <2>10 DEF WriteHistory, Raise, Goto
  <2>11. CASE SaveSnapshot(p)
    BY <2>11 DEF SaveSnapshot, Raise, Goto
  <2>12. CASE ReadState(p)
    BY <2>12 DEF ReadState
  <2>13. CASE WriteState(p)
    BY <2>13 DEF WriteState, Raise, Goto
  <2>14. CASE RecordFailure(p)
    BY <2>14 DEF RecordFailure
  <2>15. QED
    BY <1>2, <2>1, <2>2, <2>3, <2>4, <2>5, <2>6, <2>7, <2>8, <2>9, <2>10,
       <2>11, <2>12, <2>13, <2>14 DEF RunStep
<1>3. ASSUME NEW p \in Runs, Crash(p) PROVE misled'
  BY <1>3 DEF Crash
<1>4. CASE LockAges
  BY <1>4 DEF LockAges
<1>5. CASE Tick
  BY <1>5 DEF Tick
<1>6. CASE UNCHANGED vars
  BY <1>6 DEF vars, lockVars, fileVars, stateVars
<1>7. QED
  BY <1>1, <1>2, <1>3, <1>4, <1>5, <1>6 DEF Next

LEMMA InitLockExcludes == Init => LockExcludes
  BY DEF Init, LockExcludes, Exclusion, Inside

(* The token in the lock is that of a run past it, so that the judgement of  *)
(* an old one finds its process alive; a lock that is created later is young *)
(* until no run is looking at it.                                            *)
LEMMA StepLockExcludes == Types /\ LockExcludes /\ [Next]_vars => LockExcludes'
<1> SUFFICES ASSUME Types, LockExcludes, [Next]_vars, NobodyKilled', ~misled' PROVE Exclusion'
  BY DEF LockExcludes
<1>0. Exclusion
  BY TheKilledStay, MisledStays DEF LockExcludes, NobodyKilled
<1> USE <1>0 DEF Exclusion, Inside, Goto, Raise, lockVars
<1>a. /\ pc \in [Runs -> Stages] /\ existing \in [Runs -> Runs \cup {None}]
      /\ lock # None => lock \in Locks /\ lock.token \in Runs \cup {None} /\ lock.old \in BOOLEAN
  BY DEF Types, TypeOK, Locks
<1> USE <1>a
<1>1. ASSUME NEW p \in Runs, Start(p) PROVE Exclusion'
  BY <1>1 DEF Start
<1>2. ASSUME NEW p \in Runs, RunStep(p) PROVE Exclusion'
  <2>1. CASE CreateLock(p)
    <3>1. CASE lock = None
      <4>1. \A q \in Runs : pc[q] \notin Inside
        BY <3>1
      <4>2. ~met'
        BY <2>1, <3>1, <4>1, TakesLock DEF Working
      <4>3. \A q \in Runs : pc'[q] = IF q = p THEN "fetch" ELSE pc[q]
        BY <2>1, <3>1, TakesLock
      <4>4. lock' # None /\ lock'.token = p /\ ~lock'.old /\ existing' = existing
        BY <2>1, <3>1, TakesLock
      <4>5. QED
        BY <3>1, <4>1, <4>2, <4>3, <4>4, SyncAssumption
    <3>2. CASE lock # None
      <4>1. pc[p] = "create" /\ pc' = [pc EXCEPT ![p] = "examine"]
        BY <2>1, <3>2, FindsLock
      <4>2. UNCHANGED <<lock, existing, met>>
        BY <2>1, <3>2, FindsLock
      <4>3. QED
        BY <3>2, <4>1, <4>2
    <3>3. QED
      BY <3>1, <3>2
  <2>2. CASE ExamineLock(p)
    BY <2>2 DEF ExamineLock, lockVars
  <2>3. CASE JudgeLock(p)
    <3>1. CASE lock # None /\ lock.old
      <4>1. existing[p] = lock.token /\ existing[p] # None /\ Alive(existing[p])
        BY <2>3, <3>1, JudgesLock DEF Alive
      <4>2. pc' = [pc EXCEPT ![p] = "failed"]
        BY <2>3, <4>1, JudgesLock
      <4>3. QED
        BY <2>3, <4>2, JudgesLock
    <3>2. CASE ~(lock # None /\ lock.old)
      <4>1. pc' = [pc EXCEPT ![p] = "failed"]
        BY <2>3, <3>2, JudgesLock
      <4>2. QED
        BY <2>3, <4>1, JudgesLock
    <3>3. QED
      BY <3>1, <3>2
  <2>4. CASE UnlinkStale(p)
    BY <2>4 DEF UnlinkStale
  <2>5. CASE RecreateLock(p)
    BY <2>5 DEF RecreateLock, TakeLock
  <2>6. CASE ReleaseLock(p)
    BY <2>6 DEF ReleaseLock
  <2>7. CASE Unlock(p)
    <3>1. \A q \in Runs \ {p} : pc'[q] = pc[q] /\ pc[q] \notin Inside
      BY <2>7 DEF Unlock
    <3>2. pc'[p] \in {"failed", "over"} /\ lock' = None
      BY <2>7 DEF Unlock
    <3>3. QED
      BY <2>7, <3>1, <3>2 DEF Unlock
  <2>8. CASE FetchAndValidate(p)
    BY <2>8 DEF FetchAndValidate, BuildSnapshot
  <2>9. CASE ReadHistory(p)
    BY <2>9 DEF ReadHistory
  <2>10. CASE WriteHistory(p)
    BY <2>10 DEF WriteHistory
  <2>11. CASE SaveSnapshot(p)
    BY <2>11 DEF SaveSnapshot
  <2>12. CASE ReadState(p)
    <3>1. \/ pc[p] = "read state" /\ pc' = [pc EXCEPT ![p] = "write state"]
          \/ pc[p] = "failed" /\ pc' = [pc EXCEPT ![p] = "write failure"]
      BY <2>12 DEF ReadState
    <3>2. UNCHANGED <<lock, existing, met>>
      BY <2>12 DEF ReadState, lockVars
    <3>3. QED
      BY <3>1, <3>2
  <2>13. CASE WriteState(p)
    BY <2>13 DEF WriteState
  <2>14. CASE RecordFailure(p)
    BY <2>14 DEF RecordFailure
  <2>15. QED
    BY <1>2, <2>1, <2>2, <2>3, <2>4, <2>5, <2>6, <2>7, <2>8, <2>9, <2>10,
       <2>11, <2>12, <2>13, <2>14 DEF RunStep
<1>3. ASSUME NEW p \in Runs, Crash(p) PROVE Exclusion'
  BY <1>3 DEF Crash, NobodyKilled
<1>4. CASE LockAges
  <2>1. lock' \in Locks /\ lock'.token = lock.token
    BY <1>4 DEF LockAges, Locks
  <2>2. \A p \in Runs : pc'[p] = pc[p] /\ pc[p] # "judge"
    BY <1>4 DEF LockAges, Quick
  <2>3. lock' # None /\ lock # None /\ met' = met
    BY <1>4, <2>1, SyncAssumption DEF LockAges
  <2>4. QED
    BY <2>1, <2>2, <2>3
<1>5. CASE Tick
  BY <1>5 DEF Tick
<1>6. CASE UNCHANGED vars
  BY <1>6 DEF vars, lockVars, fileVars, stateVars
<1>7. QED
  BY <1>1, <1>2, <1>3, <1>4, <1>5, <1>6 DEF Next

\* Two runs are past the lock at once only after one was killed.
THEOREM LockExcludesUntilAccident == Spec => []MeetOnlyAfterAccident
<1>1. Init => Types /\ LockExcludes
  BY InitTypes, InitLockExcludes
<1>2. Types /\ LockExcludes /\ [Next]_vars => Types' /\ LockExcludes'
  BY StepTypes, StepLockExcludes
<1>3. LockExcludes => MeetOnlyAfterAccident
  BY DEF LockExcludes, Exclusion, MeetOnlyAfterAccident, NobodyKilled
<1>4. QED
  BY <1>1, <1>2, <1>3, PTL DEF Spec

----------------------------------------------------------------------------
(* Whoever comes past the lock while another is past it is recorded as met,  *)
(* so the run that looked for the day's history still is the only one.       *)
LEMMA StepHistoryMissing == Types /\ HistoryMissing /\ [Next]_vars => HistoryMissing'
<1> SUFFICES ASSUME Types, HistoryMissing, [Next]_vars, ~met' PROVE OneWriter'
  BY DEF HistoryMissing
<1>0. OneWriter
  BY MetStays DEF HistoryMissing
<1>a. /\ pc \in [Runs -> Stages] /\ unwritten \in [Runs -> BOOLEAN]
      /\ now \in [Runs -> Times] /\ \A p \in Runs : Day(now[p]) \in Days
      /\ history \in [Days -> Snapshots \cup {None}]
  BY DEF Types, TypeOK, Days
<1> USE <1>0, <1>a DEF OneWriter, Working, Inside, Goto, Raise, fileVars
<1>1. ASSUME NEW p \in Runs, Start(p) PROVE OneWriter'
  BY <1>1 DEF Start
<1>2. ASSUME NEW p \in Runs, RunStep(p) PROVE OneWriter'
  <2>1. CASE CreateLock(p)
    <3>1. CASE lock = None
      <4>1. UNCHANGED <<history, unwritten, now>>
        BY <2>1, <3>1, TakesLock
      <4>2. CASE pc' = [pc EXCEPT ![p] = "fetch"] /\ Working = {}
        BY <4>1, <4>2
      <4>3. CASE pc' = [pc EXCEPT ![p] = "failed"]
        BY <4>1, <4>3
      <4>4. QED
        BY <2>1, <3>1, <4>2, <4>3, TakesLock
    <3>2. CASE lock # None
      <4>1. PICK s \in {"examine", "failed"} : pc' = [pc EXCEPT ![p] = s]
        BY <2>1, <3>2, FindsLock
      <4>2. UNCHANGED <<history, unwritten, now>>
        BY <2>1, <3>2, FindsLock
      <4>3. QED
        BY <4>1, <4>2
    <3>3. QED
      BY <3>1, <3>2
  <2>2. CASE ExamineLock(p)
    BY <2>2 DEF ExamineLock
  <2>3. CASE JudgeLock(p)
    <3>1. PICK s \in {"unlink", "failed"} : pc' = [pc EXCEPT ![p] = s]
      BY <2>3, JudgesLock
    <3>2. UNCHANGED <<history, unwritten, now>>
      BY <2>3, JudgesLock
    <3>3. QED
      BY <3>1, <3>2
  <2>4. CASE UnlinkStale(p)
    BY <2>4 DEF UnlinkStale
  <2>5. CASE RecreateLock(p)
    <3>1. CASE lock = None
      <4>1. UNCHANGED <<history, unwritten, now>>
        BY <2>5, <3>1, TakesLock
      <4>2. CASE pc' = [pc EXCEPT ![p] = "fetch"] /\ Working = {}
        BY <4>1, <4>2
      <4>3. CASE pc' = [pc EXCEPT ![p] = "failed"]
        BY <4>1, <4>3
      <4>4. QED
        BY <2>5, <3>1, <4>2, <4>3, TakesLock
    <3>2. CASE lock # None
      <4>1. PICK s \in {"examine", "failed"} : pc' = [pc EXCEPT ![p] = s]
        BY <2>5, <3>2, FindsLock
      <4>2. UNCHANGED <<history, unwritten, now>>
        BY <2>5, <3>2, FindsLock
      <4>3. QED
        BY <4>1, <4>2
    <3>3. QED
      BY <3>1, <3>2
  <2>6. CASE ReleaseLock(p)
    BY <2>6 DEF ReleaseLock
  <2>7. CASE Unlock(p)
    BY <2>7 DEF Unlock
  <2>8. CASE FetchAndValidate(p)
    BY <2>8 DEF FetchAndValidate, BuildSnapshot
  <2>9. CASE ReadHistory(p)
    BY <2>9 DEF ReadHistory
  <2>10. CASE WriteHistory(p)
    <3>1. \A q \in Runs : q # p => pc'[q] = pc[q] /\ pc[q] \notin Inside
      BY <2>10 DEF WriteHistory
    <3>2. pc'[p] \in {"save", "release"}
      BY <2>10 DEF WriteHistory
    <3>3. QED
      BY <3>1, <3>2
  <2>11. CASE SaveSnapshot(p)
    BY <2>11 DEF SaveSnapshot
  <2>12. CASE ReadState(p)
    <3>1. \/ pc[p] = "read state" /\ pc' = [pc EXCEPT ![p] = "write state"]
          \/ pc[p] = "failed" /\ pc' = [pc EXCEPT ![p] = "write failure"]
      BY <2>12 DEF ReadState
    <3>2. UNCHANGED <<history, unwritten, now>>
      BY <2>12 DEF ReadState
    <3>3. QED
      BY <3>1, <3>2
  <2>13. CASE WriteState(p)
    BY <2>13 DEF WriteState
  <2>14. CASE RecordFailure(p)
    BY <2>14 DEF RecordFailure
  <2>15. QED
    BY <1>2, <2>1, <2>2, <2>3, <2>4, <2>5, <2>6, <2>7, <2>8, <2>9, <2>10,
       <2>11, <2>12, <2>13, <2>14 DEF RunStep
<1>3. ASSUME NEW p \in Runs, Crash(p) PROVE OneWriter'
  BY <1>3 DEF Crash
<1>4. CASE LockAges
  BY <1>4 DEF LockAges
<1>5. CASE Tick
  BY <1>5 DEF Tick
<1>6. CASE UNCHANGED vars
  BY <1>6 DEF vars, lockVars, fileVars, stateVars
<1>7. QED
  BY <1>1, <1>2, <1>3, <1>4, <1>5, <1>6 DEF Next

\* Until two runs have met, the history of a day is written once.
THEOREM HistoryIsWrittenOnce == Spec => HistoryImmutable
<1>1. Init => Types /\ HistoryMissing
  BY InitTypes DEF Init, HistoryMissing, OneWriter, Working, Inside
<1>2. Types /\ HistoryMissing /\ [Next]_vars => Types' /\ HistoryMissing'
  BY StepTypes, StepHistoryMissing
<1>3. Types /\ HistoryMissing /\ [Next]_vars
        => [~met => \A d \in Days : history[d] # None => history'[d] = history[d]]_vars
  <2> SUFFICES ASSUME Types, HistoryMissing, [Next]_vars, ~met, NEW d \in Days, history[d] # None
               PROVE  history'[d] = history[d]
    OBVIOUS
  <2>1. ASSUME NEW p \in Runs, WriteHistory(p) PROVE history'[d] = history[d]
    BY <2>1 DEF WriteHistory, Goto, Types, TypeOK, HistoryMissing, OneWriter
  <2>2. ASSUME NEW p \in Runs, RunStep(p), ~WriteHistory(p) PROVE history' = history
    BY <2>2, TakesLock, FindsLock DEF RunStep, CreateLock, ExamineLock, JudgeLock, UnlinkStale,
      RecreateLock, ReleaseLock, Unlock, FetchAndValidate, ReadHistory, SaveSnapshot, ReadState,
      WriteState, RecordFailure, fileVars
  <2>3. ASSUME NEW p \in Runs, Start(p) \/ Crash(p) PROVE history' = history
    BY <2>3 DEF Start, Crash, fileVars
  <2>4. CASE LockAges \/ Tick \/ UNCHANGED vars
    BY <2>4 DEF LockAges, Tick, vars, fileVars
  <2>5. QED
    BY <2>1, <2>2, <2>3, <2>4 DEF Next
<1>4. QED
  BY <1>1, <1>2, <1>3, PTL DEF Spec, HistoryImmutable

----------------------------------------------------------------------------
(* A run that reads the state while another merges is recorded as lost, so   *)
(* what is merged is the state that is there; and since the lock excludes    *)
(* while nobody is killed, the snapshot between a run's save and its state   *)
(* is its own.                                                               *)
LEMMA StepStateMerges ==
  Types /\ HistoryMissing /\ StateMerges /\ [Next]_vars => StateMerges'
<1> SUFFICES ASSUME Types, HistoryMissing, StateMerges, [Next]_vars, ~lost', ~met' PROVE OneMerger'
  BY DEF StateMerges
<1>0. ~lost /\ ~met /\ OneMerger
  BY LostStays, MetStays DEF StateMerges
<1>a. \A p, q \in Runs : pc[p] \in Inside /\ pc[q] \in Inside => p = q
  BY <1>0 DEF HistoryMissing, OneWriter, Working
<1>b. /\ pc \in [Runs -> Stages] /\ read \in [Runs -> States] /\ state \in States
      /\ draft \in [Runs -> Snapshots \cup {None}]
  BY DEF Types, TypeOK
<1>c. \A p \in Runs : pc[p] \in {"save", "write state"} => draft[p] # None
  BY SyncAssumption DEF Types, DraftFits
<1>d. state \in [synced : Times \cup {None}, analytics : Times \cup {None}, failure : Times \cup {None}]
  BY <1>b DEF States
<1> DEFINE Merges == {"read state", "write state", "write failure", "crashed"}
<1> USE <1>0, <1>a, <1>b, <1>c DEF OneMerger, NobodyKilled, StateTellsSnapshot, Merging, Inside, Goto, Raise,
  lockVars, fileVars, stateVars
<1>1. ASSUME NEW p \in Runs, Start(p) PROVE OneMerger'
  BY <1>1 DEF Start
<1>2. ASSUME NEW p \in Runs, RunStep(p) PROVE OneMerger'
  <2>1. CASE CreateLock(p)
    <3>1. PICK s \in {"fetch", "examine", "failed"} : pc' = [pc EXCEPT ![p] = s]
      BY <2>1, TakesLock, FindsLock
    <3>2. pc[p] \in {"create", "recreate"} /\ UNCHANGED <<snapshot, draft, state, read, telling>>
      BY <2>1, TakesLock, FindsLock
    <3>3. \A q \in Runs : pc'[q] = pc[q] \/ (pc'[q] \notin Merges /\ pc[q] \notin Merges)
      BY <3>1, <3>2
    <3>4. QED
      BY <3>2, <3>3
  <2>2. CASE ExamineLock(p)
    BY <2>2 DEF ExamineLock
  <2>3. CASE JudgeLock(p)
    <3>1. PICK s \in {"unlink", "failed"} : pc' = [pc EXCEPT ![p] = s]
      BY <2>3, JudgesLock
    <3>2. pc[p] = "judge" /\ UNCHANGED <<snapshot, draft, state, read, telling>>
      BY <2>3, JudgesLock
    <3>3. \A q \in Runs : pc'[q] = pc[q] \/ (pc'[q] \notin Merges /\ pc[q] \notin Merges)
      BY <3>1, <3>2
    <3>4. QED
      BY <3>2, <3>3
  <2>4. CASE UnlinkStale(p)
    BY <2>4 DEF UnlinkStale
  <2>5. CASE RecreateLock(p)
    <3>1. PICK s \in {"fetch", "examine", "failed"} : pc' = [pc EXCEPT ![p] = s]
      BY <2>5, TakesLock, FindsLock
    <3>2. pc[p] \in {"create", "recreate"} /\ UNCHANGED <<snapshot, draft, state, read, telling>>
      BY <2>5, TakesLock, FindsLock
    <3>3. \A q \in Runs : pc'[q] = pc[q] \/ (pc'[q] \notin Merges /\ pc[q] \notin Merges)
      BY <3>1, <3>2
    <3>4. QED
      BY <3>2, <3>3
  <2>6. CASE ReleaseLock(p)
    BY <2>6 DEF ReleaseLock
  <2>7. CASE Unlock(p)
    BY <2>7 DEF Unlock
  <2>8. CASE FetchAndValidate(p)
    <3>1. \A q \in Runs : q # p => pc'[q] = pc[q] /\ draft'[q] = draft[q]
      BY <2>8 DEF FetchAndValidate
    <3>2. pc[p] \notin Merges /\ pc'[p] \notin Merges
      BY <2>8 DEF FetchAndValidate
    <3>3. UNCHANGED <<snapshot, state, read, telling>>
      BY <2>8 DEF FetchAndValidate
    <3>4. QED
      BY <3>1, <3>2, <3>3
  <2>9. CASE ReadHistory(p)
    BY <2>9 DEF ReadHistory
  <2>10. CASE WriteHistory(p)
    <3>1. \A q \in Runs : q # p => pc'[q] = pc[q] /\ draft'[q] = draft[q]
      BY <2>10 DEF WriteHistory
    <3>2. pc[p] \notin Merges /\ pc'[p] \notin Merges
      BY <2>10 DEF WriteHistory
    <3>3. UNCHANGED <<snapshot, state, read, telling>>
      BY <2>10 DEF WriteHistory
    <3>4. QED
      BY <3>1, <3>2, <3>3
  <2>11. CASE SaveSnapshot(p)
    <3>1. \A q \in Runs : q # p =>
            pc'[q] = pc[q] /\ draft'[q] = draft[q] /\ pc[q] \notin {"read state", "write state"}
      BY <2>11 DEF SaveSnapshot
    <3>2. pc[p] \notin Merges /\ UNCHANGED <<state, read, telling>>
      BY <2>11 DEF SaveSnapshot
    <3>3. CASE pc'[p] = "release" /\ snapshot' = snapshot
      BY <3>1, <3>2, <3>3
    <3>4. CASE pc'[p] = "read state" /\ snapshot' = draft[p] /\ draft' = draft
      <4>1. \A q \in Runs : pc'[q] \in {"read state", "write state"} => q = p
        BY <3>1
      <4>2. Merging' = Merging
        BY <3>1, <3>2, <3>4
      <4>3. NobodyKilled'
        BY <3>1, <3>4
      <4>4. \A q \in Runs : pc'[q] = "write failure" => read'[q] = state'
        BY <3>1, <3>2, <3>4
      <4>5. StateTellsSnapshot'
        BY <3>4
      <4>6. QED
        BY <3>4, <4>1, <4>2, <4>3, <4>4, <4>5
    <3>5. QED
      BY <2>11, <3>3, <3>4 DEF SaveSnapshot
  <2>12. CASE ReadState(p)
    <3>1. Merging = {}
      BY <2>12 DEF ReadState
    <3>2. \/ pc[p] = "read state" /\ pc' = [pc EXCEPT ![p] = "write state"]
          \/ pc[p] = "failed" /\ pc' = [pc EXCEPT ![p] = "write failure"]
      BY <2>12 DEF ReadState
    <3>3. read'[p] = state /\ UNCHANGED <<state, snapshot, draft, telling>>
      BY <2>12 DEF ReadState
    <3>4. CASE pc[p] = "read state"
      <4>1. pc'[p] = "write state" /\ \A q \in Runs : q # p => pc'[q] = pc[q]
        BY <3>2, <3>4
      <4>2. \A q \in Runs : q # p => pc'[q] \notin {"write state", "write failure"}
        BY <3>1, <4>1
      <4>3. QED
        BY <3>3, <3>4, <4>1, <4>2
    <3>5. CASE pc[p] = "failed"
      <4>1. read'[p] = state' /\ \A q \in Runs : q # p => pc'[q] # "write failure"
        BY <3>1, <3>2, <3>3, <3>5
      <4>2. \A q \in Runs : q # p => pc'[q] = pc[q]
        BY <3>2
      <4>3. QED
        BY <3>1, <3>2, <3>3, <3>5, <4>1, <4>2
    <3>6. QED
      BY <3>2, <3>4, <3>5
  <2>13. CASE WriteState(p)
    <3>1. snapshot = draft[p] /\ snapshot # None /\ snapshot' = snapshot
      BY <2>13 DEF WriteState
    <3>2. /\ \A q \in Runs : q # p => pc'[q] = pc[q] /\ pc[q] \notin Merges
          /\ pc'[p] = "release"
      BY <2>13 DEF WriteState
    <3>3. CASE /\ state' = [synced |-> draft[p].at, analytics |-> draft[p].analytics, failure |-> None]
               /\ telling' = "told"
      <4>1. state'.synced = snapshot'.at /\ state'.analytics = snapshot'.analytics /\ snapshot' # None
        BY <3>1, <3>3
      <4>2. QED
        BY <3>2, <3>3, <4>1
    <3>4. CASE telling' = "failed"
      BY <3>2, <3>4
    <3>5. QED
      BY <2>13, <3>3, <3>4 DEF WriteState
  <2>14. CASE RecordFailure(p)
    <3>1. \A q \in Runs : q # p => pc'[q] = pc[q] /\ pc[q] \notin {"write state", "write failure"}
      BY <2>14 DEF RecordFailure
    <3>2. pc[p] \notin {"read state", "write state"} /\ pc'[p] = "over" /\ UNCHANGED <<snapshot, draft>>
      BY <2>14 DEF RecordFailure
    <3>3. CASE /\ state' = [read[p] EXCEPT !.failure = now[p]]
               /\ telling' = IF telling = "failed" THEN "recorded" ELSE telling
      <4>1. read[p] = state
        BY <2>14 DEF RecordFailure
      <4>2. state'.synced = state.synced /\ state'.analytics = state.analytics
        BY <3>3, <4>1, <1>d
      <4>3. state'.failure = now[p]
        BY <3>3, <4>1, <1>d
      <4>4. now[p] \in Times
        BY DEF Types, TypeOK
      <4>5. now[p] # None
        BY <4>4, SyncAssumption
      <4>6. QED
        BY <3>1, <3>2, <3>3, <4>2, <4>3, <4>5
    <3>4. CASE UNCHANGED <<state, telling>>
      BY <3>1, <3>2, <3>4
    <3>5. QED
      BY <2>14, <3>3, <3>4 DEF RecordFailure
  <2>15. QED
    BY <1>2, <2>1, <2>2, <2>3, <2>4, <2>5, <2>6, <2>7, <2>8, <2>9, <2>10,
       <2>11, <2>12, <2>13, <2>14 DEF RunStep
<1>3. ASSUME NEW p \in Runs, Crash(p) PROVE OneMerger'
  BY <1>3 DEF Crash
<1>4. CASE LockAges
  BY <1>4 DEF LockAges
<1>5. CASE Tick
  BY <1>5 DEF Tick
<1>6. CASE UNCHANGED vars
  BY <1>6 DEF vars, lockVars, fileVars, stateVars
<1>7. QED
  BY <1>1, <1>2, <1>3, <1>4, <1>5, <1>6 DEF Next

\* When no run is between its snapshot and its state, the state tells of the snapshot,
\* or of a failure if it could not be written, until two runs have met or merged at once
\* or one was killed.
THEOREM StateTells == Spec => []StateTellsSnapshot
<1>1. Init => Types /\ HistoryMissing /\ StateMerges
  BY InitTypes
  DEF Init, NoState, HistoryMissing, OneWriter, Working, Inside, StateMerges, OneMerger,
    NobodyKilled, Merging, StateTellsSnapshot
<1>2. Types /\ HistoryMissing /\ StateMerges /\ [Next]_vars
        => Types' /\ HistoryMissing' /\ StateMerges'
  BY StepTypes, StepHistoryMissing, StepStateMerges
<1>3. StateMerges => StateTellsSnapshot
  BY DEF StateMerges, OneMerger, StateTellsSnapshot
<1>4. QED
  BY <1>1, <1>2, <1>3, PTL DEF Spec

----------------------------------------------------------------------------
(***************************************************************************)
(* What a sync fetches and merges.                                         *)
(***************************************************************************)

MergeTypes ==
  /\ mergeClock \in Nat /\ page \in Nat /\ pages \in Nat
  /\ source \in [Merge!KeySet -> [at : Nat, gone : BOOLEAN]]
  /\ \A k \in Merge!KeySet : source[k].at <= mergeClock
  /\ end # None => end \in Nat /\ end <= mergeClock
  /\ covered # None =>
       /\ covered \in [first : Nat, last : Nat] /\ covered.last <= mergeClock
       /\ end # None => covered.last <= end

\* A row that was fetched is the source's, or it has changed since.
RowsFetched ==
  IF end = None THEN DOMAIN fetched = {}
  ELSE \A k \in DOMAIN fetched :
         k \in Merge!KeySet /\ (fetched[k] = source[k] \/ source[k].at > end)

Position(i) == Merge!Cardinality(Merge!Before(i, Merge!Listed(end)))

\* While the source is quiet the pages are those of one list, and the rows of the
\* pages before the next have been fetched.
PagesFetched ==
  end # None /\ quiet =>
    /\ pages = (Merge!Cardinality(Merge!Listed(end)) + PageSize - 1) \div PageSize
    /\ \A i \in Merge!Listed(end) :
         Position(i) \div PageSize < page => Keys[i] \in DOMAIN fetched

MergeInv == MergeTypes /\ RowsFetched /\ PagesFetched /\ SnapshotTellsStock

LEMMA CountsRows == \A S : Merge!Cardinality(S) = Cardinality(S)
  BY DEF Merge!Cardinality, Cardinality

LEMMA PageExists ==
  ASSUME NEW a \in Nat, NEW c \in Nat, NEW p \in Nat \ {0}, a < c
  PROVE  a \div p < (c + p - 1) \div p
<1> DEFINE q == a \div p
           r == (c + p - 1) \div p
<1>1. q \in Nat /\ p * q <= a
  OBVIOUS
<1>2. r \in Nat /\ c + p - 1 < p * r + p
  OBVIOUS
<1> HIDE DEF q, r
<1>3. CASE r <= q
  <2>1. p * r <= p * q
    BY <1>1, <1>2, <1>3
  <2>2. QED
    BY <2>1, <1>1, <1>2, <1>3
<1>4. QED
  BY <1>1, <1>2, <1>3 DEF q, r

LEMMA RowsBefore ==
  ASSUME NEW t, NEW i \in Merge!Listed(t)
  PROVE  Merge!Cardinality(Merge!Before(i, Merge!Listed(t))) \in Nat
         /\ Merge!Cardinality(Merge!Listed(t)) \in Nat
         /\ Merge!Cardinality(Merge!Before(i, Merge!Listed(t))) < Merge!Cardinality(Merge!Listed(t))
<1> DEFINE L == Merge!Listed(t)
           B == Merge!Before(i, L)
<1>1. L \subseteq 1..Len(Keys) /\ Len(Keys) \in Nat
  BY InventoryAssumption DEF Merge!MergeAssumption, Merge!Listed
<1>2. IsFiniteSet(L)
  <2>1. IsFiniteSet(1..Len(Keys))
    BY <1>1, FS_Interval
  <2> HIDE DEF L
  <2>2. QED
    BY <1>1, <2>1, FS_Subset
<1>3. B \subseteq L /\ i \in L /\ i \notin B
  BY <1>1 DEF Merge!Before
<1> HIDE DEF L, B
<1>4. IsFiniteSet(B) /\ Cardinality(B) <= Cardinality(L) /\ Cardinality(B) # Cardinality(L)
  BY <1>2, <1>3, FS_Subset
<1>5. Cardinality(B) \in Nat /\ Cardinality(L) \in Nat
  BY <1>2, <1>4, FS_CardinalityType
<1>6. QED
  BY <1>4, <1>5, CountsRows DEF L, B

LEMMA MergeInitial == InventoryInit => MergeInv
<1> SUFFICES ASSUME Merge!Init PROVE MergeInv
  BY DEF InventoryInit
<1>1. mergeClock = 0 /\ page = 0 /\ pages = 0 /\ end = None /\ covered = None /\ fetched = <<>>
  BY DEF Merge!Init
<1>2. source = [k \in Merge!KeySet |-> [at |-> 0, gone |-> FALSE]]
  BY DEF Merge!Init
<1>3. DOMAIN fetched = {}
  BY <1>1
<1>4. MergeTypes
  BY <1>1, <1>2 DEF MergeTypes
<1>5. QED
  BY <1>1, <1>3, <1>4 DEF MergeInv, RowsFetched, PagesFetched, SnapshotTellsStock, Merge!SnapshotTellsStock

\* What is in scope of the snapshot stays as it is while the source's row does.
LEMMA ChangeKeepsMerge ==
  ASSUME MergeInv, NEW key \in Merge!KeySet, Merge!Change(key)
  PROVE  MergeInv'
<1> USE DEF MergeInv
<1>1. PICK gone \in BOOLEAN : source' = [source EXCEPT ![key] = [at |-> mergeClock, gone |-> gone]]
  BY DEF Merge!Change
<1>2. /\ end # None => mergeClock > end
      /\ UNCHANGED <<mergeClock, merged, end, pages, page, fetched, covered>>
      /\ quiet' = (end = None)
  BY DEF Merge!Change, Merge!syncVars
<1>3. /\ source'[key].at = mergeClock
      /\ \A k \in Merge!KeySet : k # key => source'[k] = source[k]
      /\ source' \in [Merge!KeySet -> [at : Nat, gone : BOOLEAN]]
  BY <1>1 DEF MergeTypes
<1>4. MergeTypes'
  BY <1>2, <1>3 DEF MergeTypes
<1>5. RowsFetched'
  BY <1>2, <1>3 DEF MergeTypes, RowsFetched
<1>6. PagesFetched'
  BY <1>2 DEF PagesFetched
<1>7. SnapshotTellsStock'
  <2> SUFFICES ASSUME covered # None, NEW k \in Merge!KeySet,
                      covered.first <= source'[k].at, source'[k].at < covered.last
               PROVE  Merge!Correct(k)'
    BY <1>2 DEF SnapshotTellsStock, Merge!SnapshotTellsStock
  <2>1. k # key
    BY <1>2, <1>3 DEF MergeTypes
  <2>2. Merge!Correct(k)
    BY <1>3, <2>1 DEF SnapshotTellsStock, Merge!SnapshotTellsStock
  <2>3. QED
    BY <1>2, <1>3, <2>1, <2>2 DEF Merge!Correct
<1>8. QED
  BY <1>4, <1>5, <1>6, <1>7

\* Rows that are collected are the source's.
LEMMA CollectKeepsRows ==
  ASSUME NEW rows, rows \subseteq Merge!KeySet, NEW e,
         \A k \in DOMAIN fetched :
           k \in Merge!KeySet /\ (fetched[k] = source[k] \/ source[k].at > e),
         NEW all, all = Merge!Collect(rows)
  PROVE  /\ DOMAIN all = DOMAIN fetched \cup rows
         /\ \A k \in DOMAIN all :
              k \in Merge!KeySet /\ (all[k] = source[k] \/ source[k].at > e)
  BY DEF Merge!Collect

LEMMA PagesAreRows ==
  ASSUME NEW t, NEW n PROVE Merge!PageOf(Merge!Listed(t), n) \subseteq Merge!KeySet
  BY InventoryAssumption DEF Merge!PageOf, Merge!Listed, Merge!KeySet, Merge!Range

LEMMA FirstPageKeepsMerge ==
  ASSUME MergeInv, Merge!FetchFirst PROVE MergeInv'
<1> USE DEF MergeInv
<1> DEFINE rows == Merge!PageOf(Merge!Listed(mergeClock), 0)
<1>1. /\ end = None /\ end' = mergeClock /\ page' = 1
      /\ pages' = (Merge!Cardinality(Merge!Listed(mergeClock)) + PageSize - 1) \div PageSize
      /\ fetched' = Merge!Collect(rows)
      /\ UNCHANGED <<mergeClock, source, merged, quiet, covered>>
  BY DEF Merge!FetchFirst, Merge!historyVars
<1>2. DOMAIN fetched = {}
  BY <1>1 DEF RowsFetched
<1>3. rows \subseteq Merge!KeySet
  BY PagesAreRows
<1>4. /\ DOMAIN fetched' = rows
      /\ \A k \in DOMAIN fetched' : k \in Merge!KeySet /\ fetched'[k] = source[k]
  BY <1>1, <1>2, <1>3 DEF Merge!Collect
<1>5. Merge!Cardinality(Merge!Listed(mergeClock)) \in Nat
  <2>1. Merge!Listed(mergeClock) \subseteq 1..Len(Keys) /\ Len(Keys) \in Nat
    BY InventoryAssumption DEF Merge!MergeAssumption, Merge!Listed
  <2>2. IsFiniteSet(1..Len(Keys))
    BY <2>1, FS_Interval
  <2>3. IsFiniteSet(Merge!Listed(mergeClock))
    BY <2>1, <2>2, FS_Subset
  <2>4. QED
    BY <2>3, FS_CardinalityType, CountsRows
<1>6. pages' \in Nat
  BY <1>1, <1>5, InventoryAssumption DEF Merge!MergeAssumption
<1>7. MergeTypes'
  BY <1>1, <1>6 DEF MergeTypes
<1>8. RowsFetched'
  <2>1. mergeClock # None
    BY InventoryAssumption DEF MergeTypes, Merge!MergeAssumption
  <2>2. QED
    BY <1>1, <1>4, <2>1 DEF RowsFetched
<1>9. PagesFetched'
  <2>1. Merge!Listed(end)' = Merge!Listed(mergeClock)
    BY <1>1 DEF Merge!Listed
  <2>2. ASSUME NEW i \in Merge!Listed(mergeClock),
               Merge!Cardinality(Merge!Before(i, Merge!Listed(mergeClock))) \div PageSize < 1
        PROVE  Keys[i] \in DOMAIN fetched'
    <3>1. Merge!Cardinality(Merge!Before(i, Merge!Listed(mergeClock))) \in Nat
      BY RowsBefore
    <3>2. Merge!Cardinality(Merge!Before(i, Merge!Listed(mergeClock))) \div PageSize = 0
      BY <2>2, <3>1, InventoryAssumption DEF Merge!MergeAssumption
    <3>3. QED
      BY <3>2, <1>4 DEF Merge!PageOf
  <2>3. QED
    BY <1>1, <2>1, <2>2 DEF PagesFetched, Position
<1>10. SnapshotTellsStock'
  BY <1>1 DEF SnapshotTellsStock, Merge!SnapshotTellsStock, Merge!Correct
<1>11. QED
  BY <1>7, <1>8, <1>9, <1>10

LEMMA NextPageKeepsMerge ==
  ASSUME MergeInv, Merge!FetchNext PROVE MergeInv'
<1> USE DEF MergeInv
<1> DEFINE rows == Merge!PageOf(Merge!Listed(end), page)
<1>1. /\ end # None /\ page' = page + 1 /\ fetched' = Merge!Collect(rows)
      /\ UNCHANGED <<mergeClock, source, merged, end, pages, quiet, covered>>
  BY DEF Merge!FetchNext, Merge!historyVars
<1>2. rows \subseteq Merge!KeySet
  BY PagesAreRows
<1>3. /\ DOMAIN fetched' = DOMAIN fetched \cup rows
      /\ \A k \in DOMAIN fetched' :
           k \in Merge!KeySet /\ (fetched'[k] = source[k] \/ source[k].at > end)
  BY <1>1, <1>2, CollectKeepsRows DEF RowsFetched
<1>4. MergeTypes'
  BY <1>1 DEF MergeTypes
<1>5. RowsFetched'
  BY <1>1, <1>3 DEF RowsFetched
<1>6. PagesFetched'
  <2>1. Merge!Listed(end)' = Merge!Listed(end)
    BY <1>1 DEF Merge!Listed
  <2>2. ASSUME quiet, NEW i \in Merge!Listed(end), Position(i) \div PageSize < page + 1
        PROVE  Keys[i] \in DOMAIN fetched'
    <3>1. Position(i) \in Nat
      BY RowsBefore DEF Position
    <3>2. Position(i) \div PageSize < page \/ Position(i) \div PageSize = page
      BY <2>2, <3>1, InventoryAssumption DEF Merge!MergeAssumption, MergeTypes
    <3>3. CASE Position(i) \div PageSize < page
      BY <1>1, <1>3, <2>2, <3>3 DEF PagesFetched
    <3>4. CASE Position(i) \div PageSize = page
      BY <1>3, <3>4 DEF Merge!PageOf, Position
    <3>5. QED
      BY <3>2, <3>3, <3>4
  <2>3. QED
    BY <1>1, <2>1, <2>2 DEF PagesFetched, Position
<1>7. SnapshotTellsStock'
  BY <1>1 DEF SnapshotTellsStock, Merge!SnapshotTellsStock, Merge!Correct
<1>8. QED
  BY <1>4, <1>5, <1>6, <1>7

\* When the last page is there, so is every row of the list.
LEMMA QuietPagesAreAll ==
  ASSUME MergeInv, end # None, quiet, page >= pages, NEW k \in Merge!KeySet,
         Merge!From(end) <= source[k].at, source[k].at <= end
  PROVE  k \in DOMAIN fetched
<1>1. PICK i \in DOMAIN Keys : Keys[i] = k
  BY DEF Merge!KeySet, Merge!Range
<1>2. source[k].at \in Nat /\ end \in Nat /\ Merge!From(end) \in Int
  BY InventoryAssumption DEF MergeInv, MergeTypes, Merge!From, Merge!MergeAssumption
<1>3. i \in Merge!Listed(end)
  BY <1>1, <1>2 DEF Merge!Listed
<1>4. /\ Position(i) \in Nat /\ Merge!Cardinality(Merge!Listed(end)) \in Nat
      /\ Position(i) < Merge!Cardinality(Merge!Listed(end))
  BY <1>3, RowsBefore DEF Position
<1>5. Position(i) \div PageSize < pages
  <2>1. PageSize \in Nat \ {0}
    BY InventoryAssumption DEF Merge!MergeAssumption
  <2>2. Position(i) \div PageSize < (Merge!Cardinality(Merge!Listed(end)) + PageSize - 1) \div PageSize
    BY <1>4, <2>1, PageExists
  <2>3. QED
    BY <2>2 DEF MergeInv, PagesFetched
<1>6. Position(i) \div PageSize < page
  <2>1. Position(i) \div PageSize \in Int
    BY <1>4, InventoryAssumption DEF Merge!MergeAssumption
  <2>2. QED
    BY <1>5, <2>1 DEF MergeInv, MergeTypes
<1>7. QED
  BY <1>1, <1>3, <1>6 DEF MergeInv, PagesFetched

\* A merge puts right the rows that were fetched and leaves the others alone.
LEMMA MergePutsRight ==
  ASSUME MergeInv, end # None, merged' = Merge!MergeInventory, UNCHANGED source,
         NEW k \in Merge!KeySet, source[k].at <= end,
         k \in DOMAIN fetched \/ Merge!Correct(k)
  PROVE  Merge!Correct(k)'
<1>1. k \in DOMAIN fetched => fetched[k] = source[k]
  <2>1. source[k].at \in Nat /\ end \in Nat
    BY DEF MergeInv, MergeTypes
  <2>2. QED
    BY <2>1 DEF MergeInv, RowsFetched
<1>2. CASE k \in DOMAIN fetched
  BY <1>1, <1>2 DEF Merge!MergeInventory, Merge!Correct
<1>3. CASE k \notin DOMAIN fetched
  BY <1>3 DEF Merge!MergeInventory, Merge!Correct
<1>4. QED
  BY <1>2, <1>3

LEMMA SaveKeepsMerge ==
  ASSUME MergeInv, Merge!SaveSnapshot PROVE MergeInv'
<1> USE DEF MergeInv
<1>1. /\ end # None /\ page >= pages /\ merged' = Merge!MergeInventory
      /\ end' = None /\ pages' = 0 /\ page' = 0 /\ fetched' = <<>> /\ quiet' = TRUE
      /\ UNCHANGED <<mergeClock, source>>
      /\ Merge!Cover
  BY DEF Merge!SaveSnapshot, Merge!Idle
<1>2. end \in Nat /\ end <= mergeClock /\ Merge!From(end) \in Nat /\ mergeClock \in Nat
  BY <1>1, InventoryAssumption DEF MergeTypes, Merge!From, Merge!MergeAssumption
<1>3. \/ UNCHANGED covered
      \/ /\ quiet /\ covered # None /\ Merge!From(end) <= covered.last
         /\ covered' = [covered EXCEPT !.last = end]
      \/ quiet /\ covered' = [first |-> Merge!From(end), last |-> end]
  BY <1>1 DEF Merge!Cover
<1>4. MergeTypes'
  BY <1>1, <1>2, <1>3 DEF MergeTypes
<1>5. RowsFetched' /\ PagesFetched'
  BY <1>1 DEF RowsFetched, PagesFetched
<1>6. SnapshotTellsStock'
  <2> SUFFICES ASSUME covered' # None, NEW k \in Merge!KeySet,
                      covered'.first <= source[k].at, source[k].at < covered'.last
               PROVE  Merge!Correct(k)'
    BY <1>1 DEF SnapshotTellsStock, Merge!SnapshotTellsStock
  <2>0. source[k].at \in Nat
    BY DEF MergeTypes
  <2>1. CASE UNCHANGED covered
    <3>1. Merge!Correct(k)
      BY <2>1 DEF SnapshotTellsStock, Merge!SnapshotTellsStock
    <3>2. source[k].at <= end
      BY <1>1, <1>2, <2>0, <2>1 DEF MergeTypes
    <3>3. QED
      BY <1>1, <3>1, <3>2, MergePutsRight
  <2>2. CASE /\ quiet /\ covered # None /\ Merge!From(end) <= covered.last
             /\ covered' = [covered EXCEPT !.last = end]
    <3>1. /\ covered'.first = covered.first /\ covered'.last = end
          /\ covered.first \in Nat /\ covered.last \in Nat
      BY <2>2 DEF MergeTypes
    <3>2. source[k].at <= end /\ covered.first <= source[k].at
      BY <1>2, <2>0, <3>1
    <3>3. CASE source[k].at < covered.last
      <4>1. Merge!Correct(k)
        BY <2>2, <3>2, <3>3 DEF SnapshotTellsStock, Merge!SnapshotTellsStock
      <4>2. QED
        BY <1>1, <3>2, <4>1, MergePutsRight
    <3>4. CASE ~ (source[k].at < covered.last)
      <4>1. Merge!From(end) <= source[k].at
        BY <1>2, <2>0, <2>2, <3>1, <3>4
      <4>2. k \in DOMAIN fetched
        BY <1>1, <2>2, <3>2, <4>1, QuietPagesAreAll
      <4>3. QED
        BY <1>1, <3>2, <4>2, MergePutsRight
    <3>5. QED
      BY <3>3, <3>4
  <2>3. CASE quiet /\ covered' = [first |-> Merge!From(end), last |-> end]
    <3>1. Merge!From(end) <= source[k].at /\ source[k].at <= end
      BY <1>2, <2>0, <2>3
    <3>2. k \in DOMAIN fetched
      BY <1>1, <2>3, <3>1, QuietPagesAreAll
    <3>3. QED
      BY <1>1, <3>1, <3>2, MergePutsRight
  <2>4. QED
    BY <1>3, <2>1, <2>2, <2>3
<1>7. QED
  BY <1>4, <1>5, <1>6

LEMMA MergeStep == MergeInv /\ [Merge!Next]_mergeVars => MergeInv'
<1> SUFFICES ASSUME MergeInv, [Merge!Next]_mergeVars PROVE MergeInv'
  OBVIOUS
<1>1. ASSUME NEW key \in Merge!KeySet, Merge!Change(key) PROVE MergeInv'
  BY <1>1, ChangeKeepsMerge
<1>2. CASE Merge!Tick
  <2>1. /\ mergeClock' = mergeClock + 1
        /\ UNCHANGED <<source, merged, end, pages, page, fetched, quiet, covered>>
    BY <1>2 DEF Merge!Tick, Merge!syncVars, Merge!historyVars
  <2>2. MergeTypes'
    BY <2>1 DEF MergeInv, MergeTypes
  <2>3. QED
    BY <2>1, <2>2 DEF MergeInv, RowsFetched, PagesFetched, Position, Merge!Listed, Merge!Before,
                      SnapshotTellsStock, Merge!SnapshotTellsStock, Merge!Correct
<1>3. CASE Merge!FetchFirst
  BY <1>3, FirstPageKeepsMerge
<1>4. CASE Merge!FetchNext
  BY <1>4, NextPageKeepsMerge
<1>5. CASE Merge!SaveSnapshot
  BY <1>5, SaveKeepsMerge
<1>6. CASE Merge!Fail
  <2>1. /\ end' = None /\ pages' = 0 /\ page' = 0 /\ fetched' = <<>>
        /\ UNCHANGED <<mergeClock, source, merged, covered>>
    BY <1>6 DEF Merge!Fail, Merge!Idle
  <2>2. DOMAIN fetched' = {}
    BY <2>1
  <2>3. MergeTypes'
    BY <2>1 DEF MergeInv, MergeTypes
  <2>4. QED
    BY <2>1, <2>2, <2>3 DEF MergeInv, RowsFetched, PagesFetched,
                      SnapshotTellsStock, Merge!SnapshotTellsStock, Merge!Correct
<1>7. CASE UNCHANGED mergeVars
  BY <1>7 DEF mergeVars, MergeInv, MergeTypes, RowsFetched, PagesFetched, Position, Merge!Listed, Merge!Before,
              SnapshotTellsStock, Merge!SnapshotTellsStock, Merge!Correct
<1>8. QED
  BY <1>1, <1>2, <1>3, <1>4, <1>5, <1>6, <1>7 DEF Merge!Next

\* Of every row that changed since the gapless time began, the snapshot has the present
\* version, for any number of rows on pages of any size.
THEOREM SnapshotTells == InventorySpec => []SnapshotTellsStock
<1>1. InventoryInit => MergeInv
  BY MergeInitial
<1>2. MergeInv /\ [InventoryNext]_inventoryVars => MergeInv'
  <2>1. [InventoryNext]_inventoryVars => [Merge!Next]_mergeVars
    BY DEF InventoryNext, inventoryVars
  <2>2. QED
    BY <2>1, MergeStep
<1>3. MergeInv => SnapshotTellsStock
  BY DEF MergeInv
<1>4. QED
  BY <1>1, <1>2, <1>3, PTL DEF InventorySpec

----------------------------------------------------------------------------
(***************************************************************************)
(* The days.                                                               *)
(***************************************************************************)

Came == 1..day

CalendarTypes ==
  /\ day \in 1..MaxDay /\ partOfDay \in {"night", "three", "later"}
  /\ dayOfSnapshot \in {None} \cup Came
  /\ written \subseteq Came /\ missed \subseteq Came /\ started \subseteq Came

\* Of the present day.
DayTells ==
  /\ partOfDay = "night" => day \notin missed /\ day \notin started
  /\ dayOfSnapshot = day => day \in written \cup failed \cup started \cup early

CalendarInv ==
  CalendarTypes /\ DayTells /\ Calendar!HistoryGapExplained

LEMMA CalendarInitial == InventoryInit => CalendarInv
  BY InventoryAssumption DEF InventoryInit, Calendar!Init, CalendarInv, CalendarTypes, DayTells, Came,
     Calendar!HistoryGapExplained, Calendar!Past, Calendar!Days, Calendar!DaysAssumption

LEMMA CalendarStep == CalendarInv /\ [Calendar!Next]_dayVars => CalendarInv'
<1> SUFFICES ASSUME CalendarInv, [Calendar!Next]_dayVars PROVE CalendarInv'
  OBVIOUS
<1> USE InventoryAssumption DEF Calendar!DaysAssumption, Calendar!Days, Calendar!Past, CalendarInv, CalendarTypes, DayTells, Came, Calendar!HistoryGapExplained
<1>1. CASE Calendar!Hourly
  BY <1>1 DEF Calendar!Hourly, Calendar!RefreshSync
<1>2. CASE Calendar!AtThree
  <2>1. CASE Calendar!DailySync /\ UNCHANGED <<missed, failed>>
    BY <1>2, <2>1 DEF Calendar!AtThree, Calendar!DailySync
  <2>2. CASE Calendar!NoSync /\ failed' = failed \cup {day} /\ UNCHANGED missed
    BY <1>2, <2>2 DEF Calendar!AtThree, Calendar!NoSync
  <2>3. CASE Calendar!NoSync /\ missed' = missed \cup {day} /\ UNCHANGED failed
    BY <1>2, <2>3 DEF Calendar!AtThree, Calendar!NoSync
  <2>4. QED
    BY <1>2, <2>1, <2>2, <2>3 DEF Calendar!AtThree
<1>3. CASE Calendar!AfterThree
  BY <1>3 DEF Calendar!AfterThree, Calendar!historyVars
<1>4. CASE Calendar!Midnight
  BY <1>4 DEF Calendar!Midnight, Calendar!historyVars
<1>5. CASE Calendar!ToggleCollector \/ Calendar!StopApi \/ Calendar!Configure
  BY <1>5 DEF Calendar!ToggleCollector, Calendar!StopApi, Calendar!Configure, Calendar!historyVars
<1>6. CASE Calendar!BootApi
  <2>0. /\ started' \in {started, started \cup {day}} /\ (partOfDay = "night" => started' = started)
        /\ UNCHANGED <<day, partOfDay, missed, early>>
    BY <1>6 DEF Calendar!BootApi
  <2>1. CASE Calendar!NoSync /\ UNCHANGED failed /\ ~configured
    <3>1. started' = started
      BY <1>6, <2>1 DEF Calendar!BootApi
    <3>2. QED
      BY <2>0, <2>1, <3>1 DEF Calendar!NoSync
  <2>2. CASE Calendar!NoSync /\ UNCHANGED failed /\ Calendar!UpToDate
    BY <2>0, <2>2 DEF Calendar!UpToDate, Calendar!ExpectedDate, Calendar!NoSync
  <2>3. CASE Calendar!DailySync /\ UNCHANGED failed
    BY <2>0, <2>3 DEF Calendar!DailySync
  <2>4. CASE Calendar!NoSync /\ failed' = failed \cup {day}
    BY <2>0, <2>4 DEF Calendar!NoSync
  <2>5. QED
    BY <1>6, <2>1, <2>2, <2>3, <2>4 DEF Calendar!BootApi
<1>7. CASE UNCHANGED dayVars
  BY <1>7 DEF dayVars
<1>8. QED
  BY <1>1, <1>2, <1>3, <1>4, <1>5, <1>6, <1>7 DEF Calendar!Next

LEMMA CountsDays == \A S : Calendar!Cardinality(S) = Cardinality(S)
  BY DEF Calendar!Cardinality, Cardinality

LEMMA DaysInARow ==
  ASSUME CalendarInv PROVE Calendar!TurnoverOfDaysInARow
<1> DEFINE L == Calendar!Latest(written)
           m == Calendar!Min(L)
           n == Calendar!Max(L)
<1> SUFFICES ASSUME Calendar!TurnoverReady(written)
             PROVE  \E first \in Calendar!Days : L = first..(first + TurnoverDays - 1)
  BY DEF Calendar!TurnoverOfDaysInARow
<1>1. L \subseteq 1..MaxDay /\ MaxDay \in Nat /\ TurnoverDays \in Nat \ {0}
  <2>1. L \subseteq written
    BY DEF Calendar!Latest
  <2>2. written \subseteq 1..day /\ day \in 1..MaxDay
    BY DEF CalendarInv, CalendarTypes, Came
  <2>3. MaxDay \in Nat /\ TurnoverDays \in Nat \ {0}
    BY InventoryAssumption DEF Calendar!DaysAssumption
  <2> HIDE DEF L
  <2>4. L \subseteq 1..MaxDay
    BY <2>1, <2>2, <2>3
  <2>5. QED
    BY <2>3, <2>4
<1>2. Cardinality(L) = TurnoverDays /\ n - m = TurnoverDays - 1
  BY CountsDays DEF Calendar!TurnoverReady
<1> HIDE DEF L
<1>3. IsFiniteSet(L)
  <2>1. IsFiniteSet(1..MaxDay)
    BY <1>1, FS_Interval
  <2>2. QED
    BY <1>1, <2>1, FS_Subset
<1>4. L # {}
  BY <1>1, <1>2, FS_EmptySet
<1>5. m \in L /\ n \in L /\ \A x \in L : m <= x /\ x <= n
  <2>1. L \subseteq Nat /\ L \subseteq 0..MaxDay
    BY <1>1
  <2>2. \E x \in L : \A y \in L : x <= y
    BY <2>1, <1>4, LeastNatural
  <2>3. m \in L /\ \A y \in L : m <= y
    BY <2>2 DEF Calendar!Min
  <2>4. \E x \in L : \A y \in L : y <= x
    BY <2>1, <1>1, <1>4, GreatestNatural
  <2>5. n \in L /\ \A y \in L : n >= y
    BY <2>1, <2>4 DEF Calendar!Max
  <2>6. QED
    BY <2>1, <2>3, <2>5
<1> HIDE DEF m, n
<1>6. L \subseteq m..n
  BY <1>1, <1>5
<1>7. Cardinality(m..n) = TurnoverDays /\ IsFiniteSet(m..n)
  BY <1>1, <1>2, <1>5, FS_Interval
<1>8. L = m..n
  BY <1>2, <1>6, <1>7, FS_Subset
<1>9. n = m + TurnoverDays - 1
  BY <1>1, <1>2, <1>5
<1>10. QED
  BY <1>1, <1>5, <1>8, <1>9 DEF Calendar!Days

\* A day without history has a cause, and the turnover is computed from days in a row,
\* however long the calendar.
THEOREM HistoryIsAccounted == InventorySpec => []HistoryAccounted
<1>1. InventoryInit => CalendarInv
  BY CalendarInitial
<1>2. CalendarInv /\ [InventoryNext]_inventoryVars => CalendarInv'
  <2>1. [InventoryNext]_inventoryVars => [Calendar!Next]_dayVars
    BY DEF InventoryNext, inventoryVars
  <2>2. QED
    BY <2>1, CalendarStep
<1>3. CalendarInv => HistoryAccounted
  BY DaysInARow DEF CalendarInv, HistoryAccounted
<1>4. QED
  BY <1>1, <1>2, <1>3, PTL DEF InventorySpec
=============================================================================
