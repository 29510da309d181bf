----------------------------- MODULE OrderLedger -----------------------------
(***************************************************************************)
(* External order imports, crates/orders/src/lib.rs: upload a workbook and *)
(* preview it, commit the preview, undo a batch.                           *)
(*                                                                         *)
(* The ledger import_ledger.json is written under the flock .import.lock   *)
(* and the snapshot orders_daily.json, which the dashboard reads, after it *)
(* under the same flock.  A preview takes the flock for the load only and  *)
(* is computed from what it has read.                                      *)
(*                                                                         *)
(* Order numbers are not kept: an order's key is an HMAC of its number     *)
(* under a secret, modelled as the pair of the two.  The secret is made by *)
(* the first digest that finds none, without any lock.                     *)
(*                                                                         *)
(* A waiter for the flock changes nothing, so only its holder is modelled. *)
(***************************************************************************)
EXTENDS Naturals, FiniteSets

CONSTANTS
  Orders,        \* order numbers
  Files,         \* workbooks, told apart by the hash of their content
  Previews,      \* the POST /orders/preview calls; each one is its token
  OrdersIn,      \* the orders of each workbook
  Upload,        \* the workbooks of each call
  DayOf,         \* the date, shop and source that each order is counted under
  NoBatch,       \* no batch
  MaxSecrets,    \* bound: secrets that are made up, with the one that was there
  MaxBatches,    \* bound: commits that write
  MaxFailures    \* bound: writes that fail, crashes of the API

ASSUME LedgerAssumption ==
  /\ OrdersIn \in [Files -> SUBSET Orders]
  /\ Upload \in [Previews -> SUBSET Files]
  /\ MaxSecrets \in Nat /\ MaxBatches \in Nat /\ MaxFailures \in Nat
  /\ NoBatch \notin Nat

VARIABLES
  secret,     \* the secret in import_dedupe_secret.txt, 0 when it is absent or empty
  minted,     \* how many secrets there were so far
  pc,         \* where each preview call is
  todo,       \* the orders each call has still to digest
  known,      \* the order keys each call has read from the ledger
  keys,       \* the keys each preview will add
  entries,    \* the ledger's orders: secret, order and batch
  batches,    \* the ledger's batches
  last,       \* the number of the latest batch
  snapshot,   \* orders_daily.json: the number of orders per day
  step,       \* how far the holder of the flock is, or "free"
  target,     \* the preview that the holder commits
  stale,      \* history: the last write of the snapshot did not take place
  failures    \* failed writes and crashes so far

secretVars == <<secret, minted>>
previewVars == <<pc, todo, known, keys>>
ledgerVars == <<entries, batches, last>>
writeVars == <<snapshot, step, target, stale>>
vars == <<secretVars, previewVars, ledgerVars, writeVars, failures>>

\* No key is made under the empty secret.
Keys == (Nat \ {0}) \X Orders
Entries == [secret : Nat \ {0}, order : Orders, batch : Nat]
BatchRecords == [id : Nat, files : SUBSET Files, added : Nat]

TypeOK ==
  /\ secret \in Nat /\ minted \in Nat
  /\ pc \in [Previews -> {"idle", "digest", "truncate", "write", "stored", "gone"}]
  /\ todo \in [Previews -> SUBSET Orders]
  /\ known \in [Previews -> SUBSET Keys]
  /\ keys \in [Previews -> SUBSET Keys]
  /\ entries \subseteq Entries
  /\ batches \subseteq BatchRecords
  /\ last \in 0..MaxBatches
  /\ step \in {"free", "commit snapshot", "remove preview", "delete snapshot"}
  /\ target \in Previews \cup {NoBatch}
  /\ stale \in BOOLEAN
  /\ failures \in 0..MaxFailures

----------------------------------------------------------------------------
KeyOf(e) == <<e.secret, e.order>>

\* known_order_hashes(ledger) and known_file_hashes(ledger)
KnownKeys == {KeyOf(e) : e \in entries}
KnownFiles == UNION {b.files : b \in batches}

\* daily_records_from_orders: one record per day that has orders, which counts them.
DailyRecords(es) ==
  [d \in {DayOf[e.order] : e \in es} |-> Cardinality({e \in es : DayOf[e.order] = d})]

----------------------------------------------------------------------------
(***************************************************************************)
(* preview_upload                                                          *)
(***************************************************************************)
PGoto(p, from, to) == pc[p] = from /\ pc' = [pc EXCEPT ![p] = to]

\* Under the flock: load_ledger.  A file that is known adds no orders.
PreviewLoad(p) ==
  /\ step = "free"
  /\ PGoto(p, "idle", "digest")
  /\ todo' = [todo EXCEPT ![p] = UNION {OrdersIn[f] : f \in Upload[p] \ KnownFiles}]
  /\ known' = [known EXCEPT ![p] = KnownKeys]
  /\ UNCHANGED <<keys, secretVars, ledgerVars, writeVars, failures>>

\* The digest of order o under secret s is a new candidate, or a duplicate.
Candidate(p, s, o) ==
  /\ todo' = [todo EXCEPT ![p] = @ \ {o}]
  /\ keys' = [keys EXCEPT ![p] = @ \cup ({<<s, o>>} \ known[p])]
  /\ UNCHANGED known

\* order_digest with the secret that is in the file.
Digest(p) ==
  /\ PGoto(p, "digest", "digest")
  /\ secret # 0
  /\ \E o \in todo[p] : Candidate(p, secret, o)
  /\ UNCHANGED <<secretVars, ledgerVars, writeVars, failures>>

\* dedupe_secret: there is no file, or an empty one.
NoSecret(p) ==
  /\ PGoto(p, "digest", "truncate")
  /\ todo[p] # {} /\ secret = 0
  /\ UNCHANGED <<todo, known, keys, secretVars, ledgerVars, writeVars, failures>>

\* fs::write creates or truncates the file, whatever it holds by now ...
TruncateSecret(p) ==
  /\ PGoto(p, "truncate", "write")
  /\ secret' = 0
  /\ UNCHANGED <<minted, todo, known, keys, ledgerVars, writeVars, failures>>

\* ... and writes 32 random bytes, which this digest uses.
WriteSecret(p) ==
  /\ PGoto(p, "write", "digest")
  /\ minted < MaxSecrets /\ minted' = minted + 1
  /\ secret' = minted'
  /\ \E o \in todo[p] : Candidate(p, minted', o)
  /\ UNCHANGED <<ledgerVars, writeVars, failures>>

\* The preview is written under its token and shown.
StorePreview(p) ==
  /\ PGoto(p, "digest", "stored")
  /\ todo[p] = {}
  /\ UNCHANGED <<todo, known, keys, secretVars, ledgerVars, writeVars, failures>>

----------------------------------------------------------------------------
(***************************************************************************)
(* commit_preview and delete_batch                                         *)
(***************************************************************************)

\* Mutant: the orders are not compared with the ledger again.
NewKeys_AsPreviewed(p) == keys[p]

\* new_orders: the previewed orders that no batch has imported meanwhile.
NewKeys(p) == keys[p] \ KnownKeys

\* The preview's 15 minutes are over: it is removed.
CommitExpired(p) ==
  /\ step = "free"
  /\ PGoto(p, "stored", "gone")
  /\ UNCHANGED <<todo, known, keys, secretVars, ledgerVars, writeVars, failures>>

\* The ledger is written; a commit that would add nothing changes nothing.
Commit(p) ==
  /\ step = "free" /\ pc[p] = "stored"
  /\ NewKeys(p) # {}
  /\ last < MaxBatches /\ last' = last + 1
  /\ entries' = entries \cup {[secret |-> k[1], order |-> k[2], batch |-> last'] : k \in NewKeys(p)}
  /\ batches' = batches \cup
       {[id |-> last', files |-> Upload[p], added |-> Cardinality(NewKeys(p))]}
  /\ step' = "commit snapshot" /\ target' = p
  /\ UNCHANGED <<secretVars, previewVars, snapshot, stale, failures>>

\* Mutant: the snapshot is left for later.
Delete_NoSnapshot ==
  /\ step = "free"
  /\ \E b \in batches :
       /\ batches' = batches \ {b}
       /\ entries' = {e \in entries : e.batch # b.id}
  /\ UNCHANGED <<last, secretVars, previewVars, snapshot, target, stale, failures, step>>

\* Mutant: the orders of the batch stay in the ledger.
Delete_KeepsOrders ==
  /\ step = "free"
  /\ \E b \in batches : batches' = batches \ {b}
  /\ step' = "delete snapshot"
  /\ UNCHANGED <<entries, last, secretVars, previewVars, snapshot, target, stale, failures>>

\* The batch and its orders leave the ledger.
Delete ==
  /\ step = "free"
  /\ \E b \in batches :
       /\ batches' = batches \ {b}
       /\ entries' = {e \in entries : e.batch # b.id}
  /\ step' = "delete snapshot"
  /\ UNCHANGED <<last, secretVars, previewVars, snapshot, target, stale, failures>>

\* write_snapshot of the ledger just written.
WriteSnapshot ==
  /\ \/ step = "commit snapshot" /\ step' = "remove preview" /\ UNCHANGED target
     \/ step = "delete snapshot" /\ step' = "free" /\ target' = NoBatch
  /\ snapshot' = DailyRecords(entries) /\ stale' = FALSE
  /\ UNCHANGED <<secretVars, previewVars, ledgerVars, failures>>

\* The commit's last act; a failure to remove the file is ignored.
RemovePreview ==
  /\ step = "remove preview" /\ step' = "free" /\ target' = NoBatch
  /\ \/ pc' = [pc EXCEPT ![target] = "gone"]
     \/ UNCHANGED pc
  /\ UNCHANGED <<todo, known, keys, secretVars, ledgerVars, snapshot, stale, failures>>

\* The snapshot cannot be written: the call fails and the flock is released.
SnapshotFails ==
  /\ step \in {"commit snapshot", "delete snapshot"}
  /\ failures < MaxFailures /\ failures' = failures + 1
  /\ step' = "free" /\ target' = NoBatch /\ stale' = TRUE
  /\ UNCHANGED <<secretVars, previewVars, ledgerVars, snapshot>>

\* The API is killed: the flock is freed, the calls are lost, the files stay.
Crash ==
  /\ failures < MaxFailures /\ failures' = failures + 1
  /\ pc' = [p \in Previews |-> IF pc[p] \in {"idle", "stored"} THEN pc[p] ELSE "gone"]
  /\ step' = "free" /\ target' = NoBatch
  /\ stale' = (stale \/ step \in {"commit snapshot", "delete snapshot"})
  /\ UNCHANGED <<todo, known, keys, secretVars, ledgerVars, snapshot>>

PreviewStep(p) ==
  \/ PreviewLoad(p) \/ Digest(p) \/ NoSecret(p) \/ TruncateSecret(p) \/ WriteSecret(p)
  \/ StorePreview(p)

\* The secret is there from earlier uploads, or not.
Init ==
  /\ secret \in {0, 1}
  /\ minted = secret
  /\ pc = [p \in Previews |-> "idle"]
  /\ todo = [p \in Previews |-> {}]
  /\ known = [p \in Previews |-> {}]
  /\ keys = [p \in Previews |-> {}]
  /\ entries = {} /\ batches = {} /\ last = 0
  /\ snapshot = DailyRecords({}) /\ step = "free" /\ target = NoBatch
  /\ stale = FALSE /\ failures = 0

Next ==
  \/ \E p \in Previews : PreviewStep(p) \/ CommitExpired(p) \/ Commit(p)
  \/ Delete \/ WriteSnapshot \/ RemovePreview
  \/ SnapshotFails \/ Crash

Spec == Init /\ [][Next]_vars

----------------------------------------------------------------------------
(***************************************************************************)
(* Properties.                                                             *)
(***************************************************************************)

\* No key is in the ledger twice, however many previews of the same orders are
\* committed, repeated after a failure or committed again after an undo: the
\* commit compares with the ledger once more, under the flock.
NoDuplicateKey == \A d, e \in entries : KeyOf(d) = KeyOf(e) => d = e

\* No order is counted twice.
NoDuplicateOrder == \A d, e \in entries : d.order = e.order => d = e

\* As long as there was one secret only, that of earlier uploads or the one made by the
\* first, keys stand for orders, although uploads empty and fill its file without a lock.
NoDuplicateOrderWithSecret == minted <= 1 => NoDuplicateOrder

\* Orders and batches of the ledger fit together: every order is under a batch
\* of the ledger, and a batch shows the number of orders that undoing it removes.
BatchesOwnTheirOrders ==
  /\ \A e \in entries : \E b \in batches : e.batch = b.id
  /\ \A b \in batches : b.added = Cardinality({e \in entries : e.batch = b.id})
  /\ \A b, c \in batches : b.id = c.id => b = c

\* Whenever nobody is writing, the dashboard's snapshot tells what the ledger
\* holds, unless the last writer failed or died before it wrote the snapshot.
SnapshotTellsLedger ==
  (step = "free" /\ ~stale) => snapshot = DailyRecords(entries)

\* A file that the preview skips as already imported has brought something that
\* is still there.  The code does not guarantee it: a batch lists every file of
\* its upload, also one that was skipped, and undoing the batch which had really
\* brought the file's orders leaves it listed: it cannot be imported again.
SkippedFileIsImported ==
  \A f \in KnownFiles : OrdersIn[f] # {} => \E e \in entries : e.order \in OrdersIn[f]

\* The ledger is the book of orders that imports promise.
BatchOf(o) ==
  IF \E e \in entries : e.order = o
  THEN (CHOOSE e \in entries : e.order = o).batch
  ELSE NoBatch

Book == INSTANCE ImportBook WITH book <- [o \in Orders |-> BatchOf(o)]

ImplementsBook == Book!Spec
=============================================================================
