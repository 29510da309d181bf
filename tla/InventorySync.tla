----------------------------- MODULE InventorySync -----------------------------
(***************************************************************************)
(* Syncs of the stock that meet: run_sync of                               *)
(* apps/inventory_py/inventory_sync.py, with its lock file, the snapshot,  *)
(* the daily history and sync_state.json.                                  *)
(*                                                                         *)
(* A run is a process of one of the two containers, which share the files  *)
(* but not their process ids: the daily run, one that only refreshes the   *)
(* snapshot, or the hourly one that also keeps the analytics it has.  Its  *)
(* files are replaced atomically, or the write fails and leaves them; a    *)
(* crash leaves all of them, and the lock, as they are.  What a run has    *)
(* read is forgotten once it is used.  What is fetched and merged is in    *)
(* InventoryMerge.                                                         *)
(***************************************************************************)
EXTENDS Naturals, FiniteSets

CONSTANTS
  Runs,       \* processes
  Kind,       \* daily, refresh (--refresh-only) or hourly (--inventory-only)
  Container,  \* that of each run: cron's runs are the collector's, the catch-up the API's
  Slots,      \* points in time of a day
  MaxTime,    \* bound: the last point in time
  Crashes,    \* bound: the runs that may crash
  Failures,   \* bound: the runs whose writes may fail
  None

Times     == 0..MaxTime
Day(t)    == t \div Slots
Days      == {Day(t) : t \in Times}
Locks     == [token : Runs \cup {None}, old : BOOLEAN]
Snapshots == [at : Times, analytics : Times]

ASSUME SyncAssumption ==
  /\ Kind \in [Runs -> {"daily", "refresh", "hourly"}]
  /\ Container \in [Runs -> {"collector", "api"}]
  /\ None \notin Runs \cup Times /\ None \notin Locks /\ None \notin Snapshots
  /\ Slots \in Nat \ {0} /\ MaxTime \in Nat /\ Crashes \subseteq Runs /\ Failures \subseteq Runs

VARIABLES
  pc,        \* where each run is
  now,       \* the time that each run took at its start
  lock,      \* .sync.lock: its token, if it was written, and whether it is too old; or None
  existing,  \* the token of the lock that each run has read
  draft,     \* the snapshot that each run has built, None if it has failed
  snapshot,  \* inventory_snapshot.json: captured_at and analytics_captured_at
  history,   \* history/<day>.json
  unwritten, \* whether each run has found no history of its day
  state,     \* sync_state.json
  read,      \* the state that each run has read
  clock,     \* the time
  met,       \* history: two runs have been past the lock at once
  lost,      \* history: two have read and written the state at once, or one has crashed
  misled,    \* history: a lock was left without its token, or was judged stale though
             \* its run was alive in the other container
  telling    \* history: whether the last write of a success into the state was done
             \* ("told"), or not ("failed"), and a failure was recorded since ("recorded")

lockVars == <<lock, existing>>
fileVars == <<snapshot, history>>
stateVars == <<state, read, telling>>
vars == <<pc, now, lockVars, draft, unwritten, fileVars, stateVars, clock, met, lost, misled>>

Goto(p, from, to) == pc[p] = from /\ pc' = [pc EXCEPT ![p] = to]

\* An exception past the lock: what the run has built is dropped.
Raise(p, from) == Goto(p, from, "release") /\ draft' = [draft EXCEPT ![p] = None]

\* That nothing was ever done.
NoState == [synced |-> None, analytics |-> None, failure |-> None]

\* Past the lock.
Inside == {"fetch", "history", "write history", "save", "read state", "write state", "release", "unlock"}
Working == {p \in Runs : pc[p] \in Inside}
\* Between reading the state and writing it.
Merging == {p \in Runs : pc[p] \in {"write state", "write failure"}}

Init ==
  /\ pc = [p \in Runs |-> "off"] /\ now = [p \in Runs |-> 0]
  /\ lock = None /\ existing = [p \in Runs |-> None]
  /\ draft = [p \in Runs |-> None] /\ unwritten = [p \in Runs |-> FALSE]
  /\ snapshot = None /\ history = [d \in Days |-> None]
  /\ state = NoState /\ read = [p \in Runs |-> NoState]
  /\ clock = 0 /\ met = FALSE /\ lost = FALSE /\ misled = FALSE /\ telling = "told"

----------------------------------------------------------------------------
(***************************************************************************)
(* sync_lock                                                               *)
(***************************************************************************)
Start(p) ==
  /\ Goto(p, "off", "create")
  /\ now' = [now EXCEPT ![p] = clock]
  /\ UNCHANGED <<lockVars, draft, unwritten, fileVars, stateVars, clock, met, lost, misled>>

\* os.open with O_EXCL, and then the token is written.  If that fails, the lock that
\* is left has none, and "finally" does not know it for the run's.
TakeLock(p, from) ==
  /\ lock = None
  /\ \/ Goto(p, from, "fetch") /\ lock' = [token |-> p, old |-> FALSE]
        /\ met' = (met \/ Working # {}) /\ UNCHANGED misled
     \/ p \in Failures /\ Goto(p, from, "failed") /\ lock' = [token |-> None, old |-> FALSE]
        /\ misled' = TRUE /\ UNCHANGED met

CreateLock(p) ==
  /\ \/ TakeLock(p, "create")
     \/ lock # None /\ Goto(p, "create", "examine") /\ UNCHANGED <<lock, met, misled>>
  /\ UNCHANGED <<now, existing, draft, unwritten, fileVars, stateVars, clock, lost>>

\* FileExistsError: the lock is read ...
ExamineLock(p) ==
  /\ Goto(p, "examine", "judge")
  /\ existing' = [existing EXCEPT ![p] = IF lock = None THEN None ELSE lock.token]
  /\ UNCHANGED <<now, lock, draft, unwritten, fileVars, stateVars, clock, met, lost, misled>>

Alive(q) == pc[q] \notin {"off", "over", "crashed"}

\* What os.kill may say of the pid that was read, in the namespace of the run's own
\* container: a live process of it is found, but the pid of one that is gone, or is of
\* the other container, may be anyone's.  A lock without a pid belongs to nobody.
PidRunning(p) ==
  LET q == existing[p]
  IN IF q = None THEN {FALSE}
     ELSE IF Alive(q) /\ Container[q] = Container[p] THEN {TRUE} ELSE BOOLEAN

\* Mutant: an old lock is stale, whoever has it.
StaleLock_Old(running) == lock # None /\ lock.old

StaleLock(running) == lock # None /\ lock.old /\ ~running

\* ... and its time stamp, and it is left alone unless it is old and its process is gone.
JudgeLock(p) ==
  /\ \E running \in PidRunning(p) :
       IF StaleLock(running)
       THEN /\ Goto(p, "judge", "unlink")
            /\ misled' = (misled \/ (existing[p] # None /\ Alive(existing[p])
                                     /\ Container[existing[p]] # Container[p]))
       ELSE Goto(p, "judge", "failed") /\ UNCHANGED misled
  /\ existing' = [existing EXCEPT ![p] = None]
  /\ UNCHANGED <<now, lock, draft, unwritten, fileVars, stateVars, clock, met, lost>>

UnlinkStale(p) ==
  /\ Goto(p, "unlink", "recreate") /\ lock' = None
  /\ UNCHANGED <<now, existing, draft, unwritten, fileVars, stateVars, clock, met, lost, misled>>

\* The second os.open, whose FileExistsError is not caught.
RecreateLock(p) ==
  /\ \/ TakeLock(p, "recreate")
     \/ lock # None /\ Goto(p, "recreate", "failed") /\ UNCHANGED <<lock, met, misled>>
  /\ UNCHANGED <<now, existing, draft, unwritten, fileVars, stateVars, clock, lost>>

\* finally: the lock is read, and removed if it has the run's token.
ReleaseLock(p) ==
  /\ pc[p] = "release"
  /\ pc' = [pc EXCEPT ![p] =
       IF lock # None /\ lock.token = p THEN "unlock" ELSE IF draft[p] = None THEN "failed" ELSE "over"]
  /\ UNCHANGED <<now, lockVars, draft, unwritten, fileVars, stateVars, clock, met, lost, misled>>

Unlock(p) ==
  /\ Goto(p, "unlock", IF draft[p] = None THEN "failed" ELSE "over") /\ lock' = None
  /\ UNCHANGED <<now, existing, draft, unwritten, fileVars, stateVars, clock, met, lost, misled>>

----------------------------------------------------------------------------
(***************************************************************************)
(* The work                                                                *)
(***************************************************************************)

\* build_snapshot: the hourly run keeps the analytics of the snapshot, if there is one.
BuildSnapshot(p) ==
  [at |-> now[p],
   analytics |-> IF Kind[p] = "hourly" /\ snapshot # None THEN snapshot.analytics ELSE now[p]]

\* All requests and checks succeed, or nothing is written.
FetchAndValidate(p) ==
  /\ \/ /\ Goto(p, "fetch", IF Kind[p] = "daily" THEN "history" ELSE "save")
        /\ draft' = [draft EXCEPT ![p] = BuildSnapshot(p)]
     \/ Raise(p, "fetch")
  /\ UNCHANGED <<now, lockVars, unwritten, fileVars, stateVars, clock, met, lost, misled>>

\* Mutant: the history of the day is the latest run's.
ReadHistory_Latest(p) ==
  /\ Goto(p, "history", "write history")
  /\ unwritten' = [unwritten EXCEPT ![p] = TRUE]
  /\ UNCHANGED <<now, lockVars, draft, fileVars, stateVars, clock, met, lost, misled>>

\* save_daily_history: whether the day has one ...
ReadHistory(p) ==
  /\ Goto(p, "history", "write history")
  /\ unwritten' = [unwritten EXCEPT ![p] = history[Day(now[p])] = None]
  /\ UNCHANGED <<now, lockVars, draft, fileVars, stateVars, clock, met, lost, misled>>

\* ... and if not, the draft, before it is the snapshot; the write may fail.
WriteHistory(p) ==
  /\ \/ /\ Goto(p, "write history", "save") /\ UNCHANGED draft
        /\ history' = IF unwritten[p] THEN [history EXCEPT ![Day(now[p])] = draft[p]] ELSE history
     \/ p \in Failures /\ unwritten[p] /\ Raise(p, "write history") /\ UNCHANGED history
  /\ unwritten' = [unwritten EXCEPT ![p] = FALSE]
  /\ UNCHANGED <<now, lockVars, snapshot, stateVars, clock, met, lost, misled>>

SaveSnapshot(p) ==
  /\ \/ Goto(p, "save", "read state") /\ snapshot' = draft[p] /\ UNCHANGED draft
     \/ p \in Failures /\ Raise(p, "save") /\ UNCHANGED snapshot
  /\ UNCHANGED <<now, lockVars, unwritten, history, stateVars, clock, met, lost, misled>>

----------------------------------------------------------------------------
(***************************************************************************)
(* The state                                                               *)
(***************************************************************************)
ReadState(p) ==
  /\ Goto(p, "read state", "write state") \/ Goto(p, "failed", "write failure")
  /\ read' = [read EXCEPT ![p] = state]
  /\ lost' = (lost \/ Merging # {})
  /\ UNCHANGED <<now, lockVars, draft, unwritten, fileVars, state, telling, clock, met, misled>>

\* Mutant: a success leaves the analytics as they are.
WriteState_Part(p) ==
  /\ Goto(p, "write state", "release") /\ telling' = "told"
  /\ state' = [read[p] EXCEPT !.synced = draft[p].at, !.failure = None]
  /\ read' = [read EXCEPT ![p] = NoState]
  /\ UNCHANGED <<now, lockVars, draft, unwritten, fileVars, clock, met, lost, misled>>

\* The snapshot is there already when the state of it is written, or is not.
WriteState(p) ==
  /\ \/ /\ Goto(p, "write state", "release") /\ telling' = "told" /\ UNCHANGED draft
        /\ state' = [synced |-> draft[p].at, analytics |-> draft[p].analytics, failure |-> None]
     \/ p \in Failures /\ Raise(p, "write state") /\ telling' = "failed" /\ UNCHANGED state
  /\ read' = [read EXCEPT ![p] = NoState]
  /\ UNCHANGED <<now, lockVars, unwritten, fileVars, clock, met, lost, misled>>

\* record_failure, of a run that was refused too, after the lock is gone: the state that
\* was read, of the snapshot before maybe, with the failure; its write may fail as well.
RecordFailure(p) ==
  /\ Goto(p, "write failure", "over")
  /\ \/ /\ state' = [read[p] EXCEPT !.failure = now[p]]
        /\ telling' = IF telling = "failed" THEN "recorded" ELSE telling
     \/ p \in Failures /\ UNCHANGED <<state, telling>>
  /\ read' = [read EXCEPT ![p] = NoState]
  /\ UNCHANGED <<now, lockVars, draft, unwritten, fileVars, clock, met, lost, misled>>

----------------------------------------------------------------------------
(***************************************************************************)
(* Crashes and time                                                        *)
(***************************************************************************)
Crash(p) ==
  /\ p \in Crashes /\ pc[p] \notin {"off", "over", "crashed"}
  /\ pc' = [pc EXCEPT ![p] = "crashed"]
  /\ lost' = TRUE
  /\ UNCHANGED <<now, lockVars, draft, unwritten, fileVars, stateVars, clock, met, misled>>

Quick == {"examine", "judge", "unlink", "recreate"}

\* Three hours pass, for the lock, and not while a run looks at it.
LockAges ==
  /\ lock # None /\ ~lock.old /\ \A p \in Runs : pc[p] \notin Quick
  /\ lock' = [lock EXCEPT !.old = TRUE]
  /\ UNCHANGED <<pc, now, existing, draft, unwritten, fileVars, stateVars, clock, met, lost, misled>>

Tick ==
  /\ clock < MaxTime /\ clock' = clock + 1
  /\ UNCHANGED <<pc, now, lockVars, draft, unwritten, fileVars, stateVars, met, lost, misled>>

RunStep(p) ==
  \/ CreateLock(p) \/ ExamineLock(p) \/ JudgeLock(p) \/ UnlinkStale(p)
  \/ RecreateLock(p) \/ ReleaseLock(p) \/ Unlock(p)
  \/ FetchAndValidate(p) \/ ReadHistory(p) \/ WriteHistory(p) \/ SaveSnapshot(p)
  \/ ReadState(p) \/ WriteState(p) \/ RecordFailure(p)

Next == (\E p \in Runs : Start(p) \/ RunStep(p) \/ Crash(p)) \/ LockAges \/ Tick

Spec == Init /\ [][Next]_vars

----------------------------------------------------------------------------
(***************************************************************************)
(* Properties.                                                             *)
(***************************************************************************)
Stages == {"off", "create", "over", "crashed", "failed", "write failure"} \cup Quick \cup Inside

States == [synced : Times \cup {None}, analytics : Times \cup {None},
           failure : Times \cup {None}]

TypeOK ==
  /\ pc \in [Runs -> Stages] /\ now \in [Runs -> Times] /\ clock \in Times
  /\ lock \in Locks \cup {None}
  /\ existing \in [Runs -> Runs \cup {None}]
  /\ draft \in [Runs -> Snapshots \cup {None}] /\ unwritten \in [Runs -> BOOLEAN]
  /\ snapshot \in Snapshots \cup {None} /\ history \in [Days -> Snapshots \cup {None}]
  /\ state \in States /\ read \in [Runs -> States]
  /\ met \in BOOLEAN /\ lost \in BOOLEAN /\ misled \in BOOLEAN
  /\ telling \in {"told", "failed", "recorded"}

\* Two syncs are past the lock at once only after a run has died with the lock, a lock
\* was left without its token, or the lock of a run that had worked for three hours was
\* judged from the other container, where its pid says nothing.  Otherwise a lock that is
\* read, judged, removed and made again in separate steps still excludes.
MeetOnlyAfterAccident == met => misled \/ \E p \in Runs : pc[p] = "crashed"

\* The history of a day is written once, for runs that have not met.
HistoryImmutable ==
  [][~met => \A d \in Days : history[d] # None => history'[d] = history[d]]_vars

\* When no run is past its snapshot and before its state, sync_state.json tells of the
\* snapshot that is there, whatever failures and refusals were recorded in between; and
\* if the state of the last success could not be written, a failure stands in it once one
\* is recorded.  Unless two runs have met or written the state at once, or one was killed.
StateTellsSnapshot ==
  ~lost /\ ~met /\ (\A p \in Runs : pc[p] \notin {"read state", "write state"})
    => /\ telling = "told" =>
            IF snapshot = None THEN state.synced = None
            ELSE state.synced = snapshot.at /\ state.analytics = snapshot.analytics
       /\ telling = "recorded" => state.failure # None
=============================================================================
