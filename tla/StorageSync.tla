---------------------------- MODULE StorageSync ----------------------------
(***************************************************************************)
(* The files and their copy in SQLite, crates/storage/src/lib.rs.  The API *)
(* answers from SQLite; sync_all copies one source after another into it,  *)
(* each read from the files first and written in a transaction of its own. *)
(* The API runs it after a commit and after an undo of an import batch,    *)
(* the worker after a collection, and nothing keeps two of them apart.  A  *)
(* sync that fails is logged and leaves what it has written.               *)
(*                                                                         *)
(* A batch of imported orders and a collected day stand for themselves:    *)
(* the operations are made of both, the channels of the days, the imports  *)
(* of the batches.  The other payloads of sync_all (Douyin, task status,   *)
(* inventory) are copied like channel_dashboard and left out.  That a       *)
(* table is empty and the API then reads the files is left out as well.    *)
(***************************************************************************)
EXTENDS Naturals, FiniteSets

CONSTANTS Requests,  \* handlers of the API, each one commit or one undo
          Workers,   \* worker processes, each one collection
          Batches, Days

Syncs == Requests \cup Workers

VARIABLES files,     \* the ledger's batches and the days collected
          db,        \* the tables operation_records, channel_daily and
                     \* order_import_batches; channel_dashboard and
                     \* order_imports_public of app_kv
          place,     \* where each handler is
          held,      \* what its sync has read and not yet written
          alone,     \* history: the running sync has met no other
          clean,     \* history: the sync that ended last met no other, began
                     \* after the last change of the files and did not fail
          failed     \* history: a sync has failed

syncVars == <<files, db, place, held, alone, clean, failed>>

Operations == files.batches \cup files.days
InSync(p) == place[p] \notin {"idle", "sync", "end"}

SyncInit ==
  /\ files = [batches |-> {}, days |-> {}]
  /\ db = [operations |-> {}, channels |-> {}, dashboard |-> {}, batches |-> {}, imports |-> {}]
  /\ place = [p \in Syncs |-> "idle"]
  /\ held = [p \in Syncs |-> {}]
  /\ alone = [p \in Syncs |-> TRUE]
  /\ clean = FALSE
  /\ failed = FALSE

Goto(p, step) == place' = [place EXCEPT ![p] = step]

Change(p, new) ==
  /\ place[p] = "idle"
  /\ files' = new
  /\ Goto(p, "sync")
  /\ clean' = FALSE
  /\ alone' = [q \in Syncs |-> alone[q] /\ ~InSync(q)]
  /\ UNCHANGED <<db, held, failed>>

\* commit_order_import and remove_order_import: the ledger first.
CommitImport(r, b) ==
  /\ b \notin files.batches
  /\ Change(r, [files EXCEPT !.batches = @ \cup {b}])

RemoveImport(r, b) ==
  /\ b \in files.batches
  /\ Change(r, [files EXCEPT !.batches = @ \ {b}])

\* The worker's collection has saved a day.
Collect(w, d) ==
  /\ d \notin files.days
  /\ Change(w, [files EXCEPT !.days = @ \cup {d}])

(***************************************************************************)
(* sync_all.  Reading a source is one step, writing it another.            *)
(***************************************************************************)
ReadOperations(p) ==
  /\ place[p] = "sync"
  /\ held' = [held EXCEPT ![p] = Operations]
  /\ alone' = [q \in Syncs |->
                 IF q = p THEN \A o \in Syncs \ {p} : ~InSync(o) ELSE alone[q] /\ ~InSync(q)]
  /\ clean' = FALSE
  /\ Goto(p, "operations")
  /\ UNCHANGED <<files, db, failed>>

\* Mutant: the rows are added to those there are, without the DELETE.
WriteOperations_Insert(p) ==
  /\ place[p] = "operations"
  /\ db' = [db EXCEPT !.operations = @ \cup held[p]]
  /\ Goto(p, "readChannels")
  /\ UNCHANGED <<files, held, alone, clean, failed>>

\* sync_operations: without records it returns before the DELETE.
WriteOperations(p) ==
  /\ place[p] = "operations"
  /\ db' = [db EXCEPT !.operations = IF held[p] = {} THEN @ ELSE held[p]]
  /\ Goto(p, "readChannels")
  /\ UNCHANGED <<files, held, alone, clean, failed>>

ReadChannels(p) ==
  /\ place[p] = "readChannels"
  /\ held' = [held EXCEPT ![p] = files.days]
  /\ Goto(p, "channels")
  /\ UNCHANGED <<files, db, alone, clean, failed>>

\* sync_channels deletes and inserts, with records or without.
WriteChannels(p) ==
  /\ place[p] = "channels"
  /\ db' = [db EXCEPT !.channels = held[p]]
  /\ Goto(p, "dashboard")
  /\ UNCHANGED <<files, held, alone, clean, failed>>

\* upsert_kv of channel_dashboard, after the transaction.
WriteDashboard(p) ==
  /\ place[p] = "dashboard"
  /\ db' = [db EXCEPT !.dashboard = held[p]]
  /\ Goto(p, "readImports")
  /\ UNCHANGED <<files, held, alone, clean, failed>>

\* public_imports.
ReadImports(p) ==
  /\ place[p] = "readImports"
  /\ held' = [held EXCEPT ![p] = files.batches]
  /\ Goto(p, "imports")
  /\ UNCHANGED <<files, db, alone, clean, failed>>

\* The transaction of sync_order_imports, skipped when there are no batches.
WriteBatches(p) ==
  /\ place[p] = "imports"
  /\ db' = [db EXCEPT !.batches = IF held[p] = {} THEN @ ELSE held[p]]
  /\ Goto(p, "publicImports")
  /\ UNCHANGED <<files, held, alone, clean, failed>>

\* upsert_kv of order_imports_public, the last of the copies modelled.
WriteImports(p) ==
  /\ place[p] = "publicImports"
  /\ db' = [db EXCEPT !.imports = held[p]]
  /\ clean' = alone[p]
  /\ held' = [held EXCEPT ![p] = {}]
  /\ Goto(p, "end")
  /\ UNCHANGED <<files, alone, failed>>

\* A file does not parse or SQLite stays busy: sync_all returns the error,
\* sync_storage_best_effort logs it.
Fail(p) ==
  /\ InSync(p) \/ place[p] = "sync"
  /\ failed' = TRUE
  /\ held' = [held EXCEPT ![p] = {}]
  /\ Goto(p, "end")
  /\ UNCHANGED <<files, db, alone, clean>>

SyncNext ==
  \/ \E r \in Requests, b \in Batches : CommitImport(r, b) \/ RemoveImport(r, b)
  \/ \E w \in Workers, d \in Days : Collect(w, d)
  \/ \E p \in Syncs :
       \/ ReadOperations(p) \/ WriteOperations(p) \/ ReadChannels(p) \/ WriteChannels(p)
       \/ WriteDashboard(p) \/ ReadImports(p) \/ WriteBatches(p) \/ WriteImports(p) \/ Fail(p)

SyncSpec == SyncInit /\ [][SyncNext]_syncVars

-----------------------------------------------------------------------------
SyncTypeOK ==
  /\ files \in [batches : SUBSET Batches, days : SUBSET Days]
  /\ db \in [operations : SUBSET (Batches \cup Days), channels : SUBSET Days,
             dashboard : SUBSET Days, batches : SUBSET Batches, imports : SUBSET Batches]
  /\ place \in [Syncs -> {"idle", "sync", "operations", "readChannels", "channels",
                          "dashboard", "readImports", "imports", "publicImports", "end"}]
  /\ held \in [Syncs -> SUBSET (Batches \cup Days)]
  /\ alone \in [Syncs -> BOOLEAN] /\ clean \in BOOLEAN /\ failed \in BOOLEAN

(***************************************************************************)
(* Safety: one sync that meets no other and no change of the files heals   *)
(* what overlapping and failed ones left: the API then answers with the    *)
(* imports and channel days of the files, and with their operations when   *)
(* they have any (sync_all).                                               *)
(***************************************************************************)
HealedBySync ==
  clean => /\ db.imports = files.batches
           /\ db.channels = files.days /\ db.dashboard = files.days
           /\ Operations # {} => db.operations = Operations
=============================================================================
