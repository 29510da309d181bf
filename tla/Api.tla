---------------------------------- MODULE Api ----------------------------------
(***************************************************************************)
(* What the API and the upload pages keep: the order ledger of the API,    *)
(* the copy in SQLite, the accounts, the Python order store, the           *)
(* settlement files and the JD ledger.  They share no variable: "part"     *)
(* says which of them runs, so a property of one holds here exactly when   *)
(* it holds of that part alone.                                            *)
(***************************************************************************)
EXTENDS OrderLedger, StorageSync, Accounts

CONSTANTS
  \* OrderStore
  Exports, Source, Tabs, OrderUploads, Blank,
  MaxPreviews, MaxStoreBatches, Bounds,
  \* SettlementUpload
  CsvUploads, BytesOf, ShopOf, NameOf,
  \* JdImport
  JdPreviews, Commits, Workbooks, SlotOf, FilesOf, Empty, Garbage

VARIABLES
  part,       \* what runs
  \* OrderStore
  ledger, storeSnapshot, temp, previews, upload, storeSecret, storeMinted, storeBatches,
  holder, writing, command, bound, direct, storeFailed,
  \* SettlementUpload
  csvFiles, torn, shops, uploadPc, read, uploadTarget, uploadsMet, lost,
  \* JdImport
  jdLedger, imports, jdPreview, jdPc, token, merged, expected, commitsMet, broken

\* The export files' rows; TLC parses a definition's once, a constant's in every state.
Workbook == Exports

Store == INSTANCE OrderStore WITH
  Uploads <- OrderUploads, MaxBatches <- MaxStoreBatches,
  snapshot <- storeSnapshot, secret <- storeSecret, minted <- storeMinted,
  batches <- storeBatches, failed <- storeFailed

Settlements == INSTANCE SettlementUpload WITH
  Uploads <- CsvUploads, files <- csvFiles, pc <- uploadPc, target <- uploadTarget,
  overlapped <- uploadsMet

Jd == INSTANCE JdImport WITH
  Previews <- JdPreviews, ledger <- jdLedger, preview <- jdPreview, pc <- jdPc,
  overlapped <- commitsMet

\* What the instances assume of their constants.
ASSUME InstancesAssumption ==
  Store!StoreAssumption /\ Settlements!UploadsAssumption /\ Jd!ImportAssumption

storeVars == <<ledger, storeSnapshot, temp, previews, upload, storeSecret, storeMinted,
               storeBatches, holder, writing, command, bound, direct, storeFailed>>
settlementVars == <<csvFiles, torn, shops, uploadPc, read, uploadTarget, uploadsMet, lost>>
jdVars == <<jdLedger, imports, jdPreview, jdPc, token, merged, expected, commitsMet, broken>>
apiVars == <<part, vars, syncVars, accountsVars, storeVars, settlementVars, jdVars>>

\* A part that does not run is in one of its initial states.
ApiInit ==
  /\ part \in {"ledger", "storage", "accounts", "store", "settlements", "jd"}
  /\ Init /\ SyncInit /\ AccountsInit /\ Store!Init /\ Settlements!Init /\ Jd!Init
  /\ part = "ledger" \/ secret = 0
  /\ part = "store" \/ (storeSecret = 0 /\ bound = CHOOSE b \in Bounds : TRUE)
  /\ part = "accounts" \/ legacy = CHOOSE l \in LegacyFiles : TRUE

ApiNext ==
  /\ UNCHANGED part
  /\ \/ /\ part = "ledger" /\ Next
        /\ UNCHANGED <<syncVars, accountsVars, storeVars, settlementVars, jdVars>>
     \/ /\ part = "storage" /\ SyncNext
        /\ UNCHANGED <<vars, accountsVars, storeVars, settlementVars, jdVars>>
     \/ /\ part = "accounts" /\ AccountsNext
        /\ UNCHANGED <<vars, syncVars, storeVars, settlementVars, jdVars>>
     \/ /\ part = "store" /\ Store!Next
        /\ UNCHANGED <<vars, syncVars, accountsVars, settlementVars, jdVars>>
     \/ /\ part = "settlements" /\ Settlements!Next
        /\ UNCHANGED <<vars, syncVars, accountsVars, storeVars, jdVars>>
     \/ /\ part = "jd" /\ Jd!Next
        /\ UNCHANGED <<vars, syncVars, accountsVars, storeVars, settlementVars>>

ApiSpec == ApiInit /\ [][ApiNext]_apiVars

-----------------------------------------------------------------------------
(***************************************************************************)
(* The properties of the instances.                                        *)
(***************************************************************************)

\* The Python store counts every order once: each order of a batch's files is added or
\* told of as a duplicate, a purchase with a number is in the ledger once with its own
\* amount, batches own what they say, and the snapshot counts the ledger's numbers
\* (order_store.preview_upload, commit_preview, delete_batch).
StoreCountsOnce ==
  /\ Store!EveryOrderCounted /\ Store!AmountCountedOnce
  /\ Store!BatchesOwnTheirOrders /\ Store!SnapshotTellsLedger

\* Unless two settlement uploads overlapped, bytes are stored once, and the file of an
\* upload that ended well has a shop that somebody named for its bytes
\* (save_settlement_upload).
UploadsStored == Settlements!BytesOnceUnlessOverlapped /\ Settlements!ShopsTellFiles

\* The JD ledger never has one day of one kind twice, and when no commits have overlapped
\* and none stopped in the middle of its write it holds what they say one after another
\* (jd.commit_preview, jd.write).
CommitsTold == Jd!DayCountedOnce /\ Jd!LedgerTellsCommits
=============================================================================
