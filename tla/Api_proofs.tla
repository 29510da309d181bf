------------------------------ MODULE Api_proofs ------------------------------
(***************************************************************************)
(* Proofs about what the API and the upload pages keep, for any number of  *)
(* requests, workers, accounts, uploads and commits.                       *)
(*                                                                         *)
(*   ledger       see OrderLedger_proofs                                   *)
(*   storage      one undisturbed sync_all heals the tables                *)
(*   accounts     a session belongs to an account, and an administrator    *)
(*                stays unless two removals ran into each other            *)
(*   store        every order is counted once, with its own amount and     *)
(*                under its batch                                          *)
(*   settlements  uploads that do not overlap store bytes once and tell    *)
(*                the shop of every file                                   *)
(*   jd           the ledger has a day once, and what the commits say      *)
(***************************************************************************)
EXTENDS Api, Sequences, SumLemmas

\* What holds of a part alone holds of it in the whole.
THEOREM PartsGoOnAlone ==
  ApiSpec => /\ Spec /\ SyncSpec /\ AccountsSpec
             /\ Store!Spec /\ Settlements!Spec /\ Jd!Spec
<1>1. ApiInit => Init /\ SyncInit /\ AccountsInit /\ Store!Init /\ Settlements!Init /\ Jd!Init
  BY DEF ApiInit
<1>2. [ApiNext]_apiVars => [Next]_vars
  BY DEF ApiNext, apiVars
<1>3. [ApiNext]_apiVars => [SyncNext]_syncVars
  BY DEF ApiNext, apiVars
<1>4. [ApiNext]_apiVars => [AccountsNext]_accountsVars
  BY DEF ApiNext, apiVars
<1>5. [ApiNext]_apiVars => [Store!Next]_(Store!vars)
  BY DEF ApiNext, apiVars, storeVars, Store!vars, Store!uploadVars, Store!ledgerVars, Store!fileVars
<1>6. [ApiNext]_apiVars => [Settlements!Next]_(Settlements!vars)
  BY DEF ApiNext, apiVars, settlementVars, Settlements!vars
<1>7. [ApiNext]_apiVars => [Jd!Next]_(Jd!vars)
  BY DEF ApiNext, apiVars, jdVars, Jd!vars
<1>8. QED
  BY <1>1, <1>2, <1>3, <1>4, <1>5, <1>6, <1>7, PTL
  DEF ApiSpec, Spec, SyncSpec, AccountsSpec, Store!Spec, Settlements!Spec, Jd!Spec

----------------------------------------------------------------------------
(***************************************************************************)
(* The copy in SQLite.                                                     *)
(***************************************************************************)

\* The steps of sync_all after which each table has been written.
AfterDashboard  == {"readImports", "imports", "publicImports"}
AfterChannels   == AfterDashboard \cup {"dashboard"}
AfterOperations == AfterChannels \cup {"readChannels", "channels"}

OperationsCopied == Operations # {} => db.operations = Operations

\* A sync that has met no other and no change so far: nobody else is in one,
\* it holds what the files say and has copied what it is done with.
AloneIsCurrent ==
  \A p \in Syncs : alone[p] /\ InSync(p) =>
    /\ \A q \in Syncs \ {p} : ~InSync(q)
    /\ place[p] = "operations" => held[p] = Operations
    /\ place[p] \in AfterOperations => OperationsCopied
    /\ place[p] \in {"channels", "dashboard"} => held[p] = files.days
    /\ place[p] \in AfterChannels => db.channels = files.days
    /\ place[p] \in AfterDashboard => db.dashboard = files.days
    /\ place[p] \in {"imports", "publicImports"} => held[p] = files.batches

\* After a clean sync no other is under way that could still write.
CleanIsQuiet == clean => \A p \in Syncs : ~InSync(p)

\* What a sync holds is what the table it writes next is made of.
HeldFits ==
  \A p \in Syncs : /\ place[p] \in {"channels", "dashboard"} => held[p] \subseteq Days
                   /\ place[p] \in {"imports", "publicImports"} => held[p] \subseteq Batches

Types == SyncTypeOK /\ HeldFits

Healing == Types /\ AloneIsCurrent /\ CleanIsQuiet /\ HealedBySync

----------------------------------------------------------------------------
LEMMA InitHealing == SyncInit => Healing
<1> SUFFICES ASSUME SyncInit PROVE Healing
  OBVIOUS
<1>1. Types
  BY DEF SyncInit, Types, SyncTypeOK, HeldFits
<1>2. QED
  BY <1>1 DEF SyncInit, Healing, AloneIsCurrent, CleanIsQuiet, HealedBySync, InSync

\* The files and the tables hold batches and days, each in its place.
LEMMA StepTypes == Types /\ [SyncNext]_syncVars => Types'
<1> SUFFICES ASSUME Types, [SyncNext]_syncVars PROVE Types'
  OBVIOUS
<1> USE DEF Types, SyncTypeOK, HeldFits, Goto, Operations, Syncs, InSync
<1>1. ASSUME NEW r \in Requests, NEW b \in Batches, CommitImport(r, b) PROVE Types'
  BY <1>1 DEF CommitImport, Change
<1>2. ASSUME NEW r \in Requests, NEW b \in Batches, RemoveImport(r, b) PROVE Types'
  BY <1>2 DEF RemoveImport, Change
<1>3. ASSUME NEW w \in Workers, NEW d \in Days, Collect(w, d) PROVE Types'
  BY <1>3 DEF Collect, Change
<1>4. ASSUME NEW p \in Syncs, ReadOperations(p) PROVE Types'
  BY <1>4 DEF ReadOperations
<1>5. ASSUME NEW p \in Syncs, WriteOperations(p) PROVE Types'
  BY <1>5 DEF WriteOperations
<1>6. ASSUME NEW p \in Syncs, ReadChannels(p) PROVE Types'
  BY <1>6 DEF ReadChannels
<1>7. ASSUME NEW p \in Syncs, WriteChannels(p) PROVE Types'
  BY <1>7 DEF WriteChannels
<1>8. ASSUME NEW p \in Syncs, WriteDashboard(p) PROVE Types'
  BY <1>8 DEF WriteDashboard
<1>9. ASSUME NEW p \in Syncs, ReadImports(p) PROVE Types'
  BY <1>9 DEF ReadImports
<1>10. ASSUME NEW p \in Syncs, WriteBatches(p) PROVE Types'
  BY <1>10 DEF WriteBatches
<1>11. ASSUME NEW p \in Syncs, WriteImports(p) PROVE Types'
  BY <1>11 DEF WriteImports
<1>12. ASSUME NEW p \in Syncs, Fail(p) PROVE Types'
  BY <1>12 DEF Fail
<1>13. CASE UNCHANGED syncVars
  BY <1>13 DEF syncVars
<1>14. QED
  BY <1>1, <1>2, <1>3, <1>4, <1>5, <1>6, <1>7, <1>9, <1>10, <1>11, <1>12, <1>13, <1>8
     DEF SyncNext

\* Type correctness of the files, the tables and the syncs between them.
THEOREM StorageTypeCorrect == SyncSpec => []SyncTypeOK
<1>1. SyncInit => Types
  BY InitHealing DEF Healing
<1>2. Types => SyncTypeOK
  BY DEF Types
<1>3. QED
  BY <1>1, <1>2, StepTypes, PTL DEF SyncSpec

----------------------------------------------------------------------------
(* A change of the files and the start of another sync end the solitude of   *)
(* every sync under way; the last write of a sync that is still alone makes  *)
(* the tables clean.                                                         *)
LEMMA StepHealing == Healing /\ [SyncNext]_syncVars => Healing'
<1> SUFFICES ASSUME Healing, [SyncNext]_syncVars
             PROVE  AloneIsCurrent' /\ CleanIsQuiet' /\ HealedBySync'
  BY StepTypes DEF Healing
<1> DEFINE Goal == AloneIsCurrent' /\ CleanIsQuiet' /\ HealedBySync'
<1> USE DEF Healing, Types, SyncTypeOK, AloneIsCurrent, CleanIsQuiet, HealedBySync, OperationsCopied,
  AfterOperations, AfterChannels, AfterDashboard, InSync, Goto, Operations, Syncs
<1>1. ASSUME NEW r \in Requests, NEW b \in Batches, CommitImport(r, b) PROVE Goal
  BY <1>1 DEF CommitImport, Change
<1>2. ASSUME NEW r \in Requests, NEW b \in Batches, RemoveImport(r, b) PROVE Goal
  BY <1>2 DEF RemoveImport, Change
<1>3. ASSUME NEW w \in Workers, NEW d \in Days, Collect(w, d) PROVE Goal
  BY <1>3 DEF Collect, Change
<1>4. ASSUME NEW p \in Syncs, ReadOperations(p) PROVE Goal
  BY <1>4 DEF ReadOperations
<1>5. ASSUME NEW p \in Syncs, WriteOperations(p) PROVE Goal
  BY <1>5 DEF WriteOperations
<1>6. ASSUME NEW p \in Syncs, ReadChannels(p) PROVE Goal
  BY <1>6 DEF ReadChannels
<1>7. ASSUME NEW p \in Syncs, WriteChannels(p) PROVE Goal
  BY <1>7 DEF WriteChannels
<1>8. ASSUME NEW p \in Syncs, WriteDashboard(p) PROVE Goal
  BY <1>8 DEF WriteDashboard
<1>9. ASSUME NEW p \in Syncs, ReadImports(p) PROVE Goal
  BY <1>9 DEF ReadImports
<1>10. ASSUME NEW p \in Syncs, WriteBatches(p) PROVE Goal
  BY <1>10 DEF WriteBatches
<1>11. ASSUME NEW p \in Syncs, WriteImports(p) PROVE Goal
  BY <1>11 DEF WriteImports
<1>12. ASSUME NEW p \in Syncs, Fail(p) PROVE Goal
  BY <1>12 DEF Fail
<1>13. CASE UNCHANGED syncVars
  BY <1>13 DEF syncVars
<1>14. QED
  BY <1>1, <1>2, <1>3, <1>4, <1>5, <1>6, <1>7, <1>9, <1>10, <1>11, <1>12, <1>13, <1>8
     DEF SyncNext

\* One sync that meets no other and no change leaves the tables as the files.
THEOREM SyncHeals == SyncSpec => []HealedBySync
<1>1. Healing => HealedBySync
  BY DEF Healing
<1>2. QED
  BY <1>1, InitHealing, StepHealing, PTL DEF SyncSpec

----------------------------------------------------------------------------
(***************************************************************************)
(* Accounts and sessions.                                                  *)
(***************************************************************************)

\* A request has a target from its authorization on, and none outlives the API.
RequestsFit ==
  /\ \A h \in Removals : removal[h].at # "idle" => removal[h].target \in Users
  /\ ~up => \A h \in Removals : removal[h] = Idle

AccountTypes == AccountsTypeOK /\ RequestsFit

\* The strengthening for the administrators: one of them is not about to be
\* deleted, except before the first start.
OneIsSafe ==
  \/ ~up /\ \A u \in Users : role[u] = None
  \/ \E a \in Admins : \A h \in Removals : removal[h].at = "delete" => removal[h].target # a

SafeUnlessRaced == ~raced /\ ~LegacyOfViewers => OneIsSafe

----------------------------------------------------------------------------
LEMMA InitAccountTypes == AccountsInit => AccountTypes
<1> SUFFICES ASSUME AccountsInit PROVE AccountTypes
  OBVIOUS
<1>1. AccountsTypeOK
  BY DEF AccountsInit, AccountsTypeOK, Idle
<1>2. RequestsFit
  BY DEF AccountsInit, RequestsFit, Idle
<1>3. QED
  BY <1>1, <1>2 DEF AccountTypes

LEMMA StepAccountTypes == AccountTypes /\ [AccountsNext]_accountsVars => AccountTypes'
<1> SUFFICES ASSUME AccountTypes, [AccountsNext]_accountsVars PROVE AccountTypes'
  OBVIOUS
<1> USE AccountsAssumption DEF AccountTypes, AccountsTypeOK, RequestsFit, Idle, Roles
<1>1. CASE StartUp
  BY <1>1 DEF StartUp
<1>2. CASE Stop
  BY <1>2 DEF Stop
<1>3. ASSUME NEW h \in Logins, NEW u \in Users, CheckPassword(h, u) PROVE AccountTypes'
  BY <1>3 DEF CheckPassword
<1>4. ASSUME NEW h \in Logins, CreateSession(h) PROVE AccountTypes'
  BY <1>4 DEF CreateSession
<1>5. ASSUME NEW u \in Users, EndSession(u) PROVE AccountTypes'
  BY <1>5 DEF EndSession
<1>6. ASSUME NEW by \in Users, NEW u \in Users, NEW r \in Roles, CreateUser(by, u, r) PROVE AccountTypes'
  BY <1>6 DEF CreateUser
<1>7. ASSUME NEW h \in Removals, NEW by \in Users, NEW u \in Users, Authorize(h, by, u) PROVE AccountTypes'
  BY <1>7 DEF Authorize
<1>8. ASSUME NEW h \in Removals, ReadRole(h) PROVE AccountTypes'
  BY <1>8 DEF ReadRole
<1>9. ASSUME NEW h \in Removals, CountAdmins(h) PROVE AccountTypes'
  BY <1>9 DEF CountAdmins
<1>10. ASSUME NEW h \in Removals, DeleteUser(h) PROVE AccountTypes'
  BY <1>10 DEF DeleteUser
<1>11. CASE UNCHANGED accountsVars
  BY <1>11 DEF accountsVars
<1>12. QED
  BY <1>1, <1>2, <1>3, <1>4, <1>5, <1>6, <1>7, <1>8, <1>9, <1>10, <1>11 DEF
     AccountsNext

\* Type correctness of accounts, sessions and the requests under way.
THEOREM AccountsTypeCorrect == AccountsSpec => []AccountsTypeOK
<1>1. AccountTypes => AccountsTypeOK
  BY DEF AccountTypes
<1>2. QED
  BY <1>1, InitAccountTypes, StepAccountTypes, PTL DEF AccountsSpec

----------------------------------------------------------------------------
(* An account goes with its sessions, and a session is created only for one  *)
(* that is still there.                                                      *)
LEMMA StepSessions == AccountTypes /\ SessionHasAccount /\ [AccountsNext]_accountsVars => SessionHasAccount'
<1> SUFFICES ASSUME AccountTypes, SessionHasAccount, [AccountsNext]_accountsVars PROVE SessionHasAccount'
  OBVIOUS
<1> USE AccountsAssumption DEF AccountTypes, AccountsTypeOK, RequestsFit, SessionHasAccount, Accounts, Roles
<1>1. CASE StartUp
  BY <1>1 DEF StartUp
<1>2. CASE Stop
  BY <1>2 DEF Stop
<1>3. ASSUME NEW h \in Logins, NEW u \in Users, CheckPassword(h, u) PROVE SessionHasAccount'
  BY <1>3 DEF CheckPassword
<1>4. ASSUME NEW h \in Logins, CreateSession(h) PROVE SessionHasAccount'
  BY <1>4 DEF CreateSession
<1>5. ASSUME NEW u \in Users, EndSession(u) PROVE SessionHasAccount'
  BY <1>5 DEF EndSession
<1>6. ASSUME NEW by \in Users, NEW u \in Users, NEW r \in Roles, CreateUser(by, u, r) PROVE SessionHasAccount'
  BY <1>6 DEF CreateUser
<1>7. ASSUME NEW h \in Removals, NEW by \in Users, NEW u \in Users, Authorize(h, by, u) PROVE SessionHasAccount'
  BY <1>7 DEF Authorize
<1>8. ASSUME NEW h \in Removals, ReadRole(h) PROVE SessionHasAccount'
  BY <1>8 DEF ReadRole
<1>9. ASSUME NEW h \in Removals, CountAdmins(h) PROVE SessionHasAccount'
  BY <1>9 DEF CountAdmins
<1>10. ASSUME NEW h \in Removals, DeleteUser(h) PROVE SessionHasAccount'
  BY <1>10 DEF DeleteUser
<1>11. CASE UNCHANGED accountsVars
  BY <1>11 DEF accountsVars
<1>12. QED
  BY <1>1, <1>2, <1>3, <1>4, <1>5, <1>6, <1>7, <1>8, <1>9, <1>10, <1>11 DEF
     AccountsNext

\* A session belongs to an account that exists.
THEOREM SessionsHaveAccounts == AccountsSpec => []SessionHasAccount
<1>1. AccountsInit => AccountTypes /\ SessionHasAccount
  BY InitAccountTypes DEF AccountsInit, SessionHasAccount
<1>2. AccountTypes /\ SessionHasAccount /\ [AccountsNext]_accountsVars => AccountTypes' /\ SessionHasAccount'
  BY StepAccountTypes, StepSessions
<1>3. QED
  BY <1>1, <1>2, PTL DEF AccountsSpec

----------------------------------------------------------------------------
\* Of two or more administrators, one is not the one to be removed.
LEMMA AnotherAdmin ==
  ASSUME NEW t, Cardinality(Admins) > 1 PROVE \E a \in Admins : a # t
<1>1. IsFiniteSet(Admins)
  BY AccountsAssumption, FS_Subset DEF Admins
<1>2. SUFFICES ASSUME \A a \in Admins : a = t PROVE FALSE
  OBVIOUS
<1>3. CASE Admins = {}
  BY <1>3, FS_EmptySet
<1>4. CASE Admins # {}
  <2>1. Admins = {t}
    BY <1>2, <1>4
  <2>2. Cardinality({t}) = 1
    BY FS_Singleton
  <2>3. QED
    BY <2>1, <2>2
<1>5. QED
  BY <1>3, <1>4

(* A removal that has counted leaves another administrator who, as nobody    *)
(* else is before a DELETE, is safe; a removal of a viewer threatens none.   *)
LEMMA StepSafe == AccountTypes /\ SafeUnlessRaced /\ [AccountsNext]_accountsVars => SafeUnlessRaced'
<1> SUFFICES ASSUME AccountTypes, SafeUnlessRaced, [AccountsNext]_accountsVars, ~raced',
                    ~LegacyOfViewers'
             PROVE  OneIsSafe'
  BY DEF SafeUnlessRaced
<1>0. legacy' = legacy /\ ~LegacyOfViewers
  BY DEF LegacyOfViewers, accountsVars, AccountsNext, StartUp, Stop, CheckPassword, CreateSession,
         EndSession, CreateUser, Authorize, ReadRole, CountAdmins, DeleteUser
<1> USE <1>0, AccountsAssumption DEF AccountTypes, AccountsTypeOK, RequestsFit, SafeUnlessRaced, OneIsSafe, Admins, Idle, Roles
<1>1. CASE StartUp
  <2>1. CASE \A u \in Users : role[u] = None
    <3>1. CASE \A u \in Users : legacy[u] = None
      BY <1>1, <2>1, <3>1 DEF StartUp, Idle
    <3>2. CASE \E u \in Users : legacy[u] = "admin"
      BY <1>1, <2>1, <3>2 DEF StartUp, Idle
    <3>3. QED
      BY <3>1, <3>2 DEF LegacyOfViewers
  <2>2. CASE \E u \in Users : role[u] # None
    BY <1>1, <2>2 DEF StartUp, Idle
  <2>3. QED
    BY <2>1, <2>2
<1>2. CASE Stop
  BY <1>2 DEF Stop
<1>3. ASSUME NEW h \in Logins, NEW u \in Users, CheckPassword(h, u) PROVE OneIsSafe'
  BY <1>3 DEF CheckPassword
<1>4. ASSUME NEW h \in Logins, CreateSession(h) PROVE OneIsSafe'
  BY <1>4 DEF CreateSession
<1>5. ASSUME NEW u \in Users, EndSession(u) PROVE OneIsSafe'
  BY <1>5 DEF EndSession
<1>6. ASSUME NEW by \in Users, NEW u \in Users, NEW r \in Roles, CreateUser(by, u, r) PROVE OneIsSafe'
  BY <1>6 DEF CreateUser
<1>7. ASSUME NEW h \in Removals, NEW by \in Users, NEW u \in Users, Authorize(h, by, u) PROVE OneIsSafe'
  BY <1>7 DEF Authorize
<1>8. ASSUME NEW h \in Removals, ReadRole(h) PROVE OneIsSafe'
  <2>1. /\ \A g \in Removals : g # h => removal'[g] = removal[g]
        /\ role' = role /\ ~raced /\ up
    BY <1>8 DEF ReadRole
  <2>2. removal'[h].at = "delete" => role[removal'[h].target] = "viewer"
    BY <1>8 DEF ReadRole
  <2>3. PICK a \in Admins : \A g \in Removals : removal[g].at = "delete" => removal[g].target # a
    BY <2>1
  <2>4. QED
    BY <2>1, <2>2, <2>3
<1>9. ASSUME NEW h \in Removals, CountAdmins(h) PROVE OneIsSafe'
  <2>1. ~raced /\ up
    BY <1>9 DEF CountAdmins, Idle
  <2>2. CASE Cardinality(Admins) <= 1
    BY <1>9, <2>1, <2>2 DEF CountAdmins, Idle
  <2>3. CASE ~(Cardinality(Admins) <= 1)
    <3>1. PICK a \in Admins : a # removal[h].target
      <4> HIDE DEF Admins
      <4>0. IsFiniteSet(Admins)
        BY FS_Subset DEF Admins
      <4>1. Cardinality(Admins) > 1
        BY <2>3, <4>0, FS_CardinalityType
      <4>2. QED
        BY <4>1, AnotherAdmin
    <3>2. \A g \in Removals : g # h => removal[g].at # "delete"
      BY <1>9, <2>1 DEF CountAdmins
    <3>3. /\ removal' = [removal EXCEPT ![h] = [removal[h] EXCEPT !.at = "delete"]]
          /\ role' = role
      BY <1>9, <2>3 DEF CountAdmins
    <3>4. \A g \in Removals : removal'[g].at = "delete" => removal'[g].target # a
      BY <3>1, <3>2, <3>3
    <3>5. QED
      BY <3>1, <3>3, <3>4
  <2>4. QED
    BY <2>2, <2>3
<1>10. ASSUME NEW h \in Removals, DeleteUser(h) PROVE OneIsSafe'
  <2>1. up /\ ~raced
    BY <1>10 DEF DeleteUser
  <2>2. PICK a \in Admins : \A g \in Removals : removal[g].at = "delete" => removal[g].target # a
    BY <2>1
  <2>3. role'[a] = "admin" /\ \A g \in Removals : g # h => removal'[g] = removal[g]
    BY <1>10, <2>2 DEF DeleteUser
  <2>4. removal'[h].at = "idle"
    BY <1>10 DEF DeleteUser
  <2>5. QED
    BY <2>2, <2>3, <2>4
<1>11. CASE UNCHANGED accountsVars
  BY <1>11 DEF accountsVars
<1>12. QED
  BY <1>1, <1>2, <1>3, <1>4, <1>5, <1>6, <1>7, <1>8, <1>9, <1>10, <1>11 DEF
     AccountsNext

\* A dashboard that serves has an administrator, whether the legacy file has one or
\* there is no legacy account, unless two removals ran between each other's count and
\* delete.
THEOREM AdminStaysUnlessRaced == AccountsSpec => []AdminUnlessRaced
<1>1. AccountsInit => AccountTypes /\ SafeUnlessRaced
  BY InitAccountTypes DEF AccountsInit, SafeUnlessRaced, OneIsSafe
<1>2. AccountTypes /\ SafeUnlessRaced /\ [AccountsNext]_accountsVars => AccountTypes' /\ SafeUnlessRaced'
  BY StepAccountTypes, StepSafe
<1>3. SafeUnlessRaced => AdminUnlessRaced
  BY DEF SafeUnlessRaced, OneIsSafe, AdminUnlessRaced
<1>4. QED
  BY <1>1, <1>2, <1>3, PTL DEF AccountsSpec

----------------------------------------------------------------------------
(***************************************************************************)
(* The settlement files.                                                   *)
(***************************************************************************)

Uploading == {u \in CsvUploads : Settlements!Under(u)}

UploadTypes ==
  /\ uploadPc \in [CsvUploads -> {"idle", "scan", "store", "write", "note", "done", "cut"}]
  /\ DOMAIN read = CsvUploads /\ DOMAIN uploadTarget = CsvUploads
  /\ torn \subseteq csvFiles

\* The upload under way is alone and has read the map that is there; what it is about
\* to store or to note is what its bytes want, and no other whole file has these bytes
\* before its own is whole.
OneUpload ==
  /\ \A u, v \in Uploading : u = v
  /\ \A u \in Uploading : read[u] = shops
  /\ \A u \in CsvUploads :
       /\ uploadPc[u] \in {"store", "write"} =>
            /\ uploadTarget[u].bytes = BytesOf[u]
            /\ \A f \in Settlements!Whole : f.bytes # BytesOf[u]
       /\ uploadPc[u] = "write" => uploadTarget[u] \in csvFiles
       /\ uploadPc[u] = "note" =>
            uploadTarget[u] \in Settlements!Whole /\ uploadTarget[u].bytes = BytesOf[u]
  /\ \A f \in csvFiles :
       \/ f \in DOMAIN shops \cup lost
       \/ \E u \in CsvUploads : uploadPc[u] \in {"write", "note"} /\ uploadTarget[u] = f

UploadInv ==
  UploadTypes /\ (~uploadsMet => OneUpload) /\ UploadsStored

LEMMA UploadInitial == Settlements!Init => UploadInv
  BY DEF Settlements!Init, UploadInv, UploadTypes, OneUpload, Uploading, Settlements!Under,
     UploadsStored, Settlements!BytesOnceUnlessOverlapped, Settlements!ShopsTellFiles,
     Settlements!Whole

LEMMA UploadStep == UploadInv /\ [Settlements!Next]_settlementVars => UploadInv'
<1> SUFFICES ASSUME UploadInv, [Settlements!Next]_settlementVars PROVE UploadInv'
  OBVIOUS
<1> USE DEF UploadInv, UploadsStored
<1> DEFINE Bytes == Settlements!BytesOnceUnlessOverlapped
           Shops == Settlements!ShopsTellFiles
<1>1. ASSUME NEW u \in CsvUploads, Settlements!ReadShops(u) PROVE UploadInv'
  <2>1. /\ uploadPc[u] \in {"idle", "cut"} /\ uploadPc' = [uploadPc EXCEPT ![u] = "scan"]
        /\ read' = [read EXCEPT ![u] = shops]
        /\ uploadsMet' = (uploadsMet \/ \E v \in CsvUploads \ {u} : Settlements!Under(v))
        /\ UNCHANGED <<csvFiles, torn, shops, uploadTarget, lost>>
    BY <1>1 DEF Settlements!ReadShops, Settlements!Goto
  <2>2. UploadTypes'
    BY <2>1 DEF UploadTypes
  <2>3. CASE ~uploadsMet'
    <3>1. ~uploadsMet /\ Uploading = {} /\ Uploading' = {u}
      BY <2>1, <2>3 DEF Uploading, Settlements!Under, UploadTypes
    <3>2. \A v \in CsvUploads : uploadPc[v] \notin {"scan", "store", "write", "note"}
      BY <3>1 DEF Uploading, Settlements!Under
    <3>3. OneUpload'
      BY <2>1, <3>1, <3>2 DEF OneUpload, UploadTypes, Settlements!Whole
    <3>4. Bytes'
      BY <2>1, <3>1, <3>2 DEF UploadTypes, Settlements!BytesOnceUnlessOverlapped, Settlements!Whole
    <3>5. Shops'
      BY <2>1, <3>1, <3>2 DEF OneUpload, UploadTypes, Settlements!ShopsTellFiles
    <3>6. QED
      BY <2>2, <3>3, <3>4, <3>5
  <2>4. QED
    BY <2>2, <2>3 DEF Settlements!BytesOnceUnlessOverlapped, Settlements!ShopsTellFiles
<1>2. ASSUME NEW u \in CsvUploads, Settlements!Scan(u) PROVE UploadInv'
  <2>1. /\ uploadPc[u] = "scan" /\ UNCHANGED <<csvFiles, torn, shops, read, uploadsMet, lost>>
        /\ \/ \E f \in Settlements!Whole :
                f.bytes = BytesOf[u] /\ uploadTarget' = [uploadTarget EXCEPT ![u] = f]
                /\ uploadPc' = [uploadPc EXCEPT ![u] = "note"]
           \/ /\ \A f \in Settlements!Whole : f.bytes # BytesOf[u]
              /\ uploadTarget' = [uploadTarget EXCEPT ![u] = Settlements!FileOf(u)]
              /\ uploadPc' = [uploadPc EXCEPT ![u] = "store"]
    BY <1>2 DEF Settlements!Scan, Settlements!Goto
  <2>2. UploadTypes'
    BY <2>1 DEF UploadTypes
  <2>3. CASE ~uploadsMet'
    <3>1. Uploading' = Uploading
      BY <2>1 DEF Uploading, Settlements!Under, UploadTypes
    <3>2. \A v \in CsvUploads \ {u} : uploadPc'[v] = uploadPc[v] /\ uploadTarget'[v] = uploadTarget[v]
      BY <2>1 DEF UploadTypes
    <3>3. /\ uploadPc'[u] \in {"store", "note"} /\ uploadTarget'[u].bytes = BytesOf[u]
          /\ uploadPc'[u] = "store" => \A f \in Settlements!Whole : f.bytes # BytesOf[u]
          /\ uploadPc'[u] = "note" => uploadTarget'[u] \in Settlements!Whole
      BY <2>1 DEF UploadTypes, Settlements!FileOf
    <3>4. Settlements!Whole' = Settlements!Whole
      BY <2>1 DEF Settlements!Whole
    <3>5. OneUpload'
      BY <2>1, <2>3, <3>1, <3>2, <3>3, <3>4 DEF OneUpload
    <3>6. Bytes'
      BY <2>1, <2>3, <3>2, <3>3, <3>4 DEF Settlements!BytesOnceUnlessOverlapped
    <3>7. Shops'
      <4>1. \A v \in CsvUploads : uploadPc'[v] = "done" => uploadTarget'[v] \in DOMAIN shops
        BY <2>1, <2>3, <3>2, <3>3 DEF Settlements!ShopsTellFiles
      <4>2. \A f \in csvFiles : f \in DOMAIN shops \cup lost
                \/ \E v \in CsvUploads : uploadPc'[v] \in {"write", "note"} /\ uploadTarget'[v] = f
        BY <2>1, <2>3, <3>5 DEF OneUpload
      <4>3. QED
        BY <2>1, <2>3, <4>1, <4>2 DEF Settlements!ShopsTellFiles, Settlements!Under
    <3>8. QED
      BY <2>2, <3>5, <3>6, <3>7
  <2>4. QED
    BY <2>2, <2>3 DEF Settlements!BytesOnceUnlessOverlapped, Settlements!ShopsTellFiles
<1>3. ASSUME NEW u \in CsvUploads, Settlements!Store(u) PROVE UploadInv'
  <2>1. /\ uploadPc[u] = "store" /\ uploadPc' = [uploadPc EXCEPT ![u] = "write"]
        /\ csvFiles' = csvFiles \cup {uploadTarget[u]} /\ torn' = torn \cup {uploadTarget[u]}
        /\ UNCHANGED <<shops, read, uploadTarget, uploadsMet, lost>>
    BY <1>3 DEF Settlements!Store, Settlements!Goto
  <2>2. UploadTypes'
    BY <2>1 DEF UploadTypes
  <2>3. CASE ~uploadsMet'
    <3>1. Uploading' = Uploading /\ u \in Uploading
      BY <2>1 DEF Uploading, Settlements!Under, UploadTypes
    <3>2. uploadTarget[u].bytes = BytesOf[u] /\ \A f \in Settlements!Whole : f.bytes # BytesOf[u]
      BY <2>1, <2>3 DEF OneUpload
    <3>3. \A v \in CsvUploads \ {u} : /\ uploadPc'[v] = uploadPc[v]
                                      /\ uploadPc[v] \notin {"scan", "store", "write", "note"}
      BY <2>1, <2>3, <3>1 DEF OneUpload, Uploading, Settlements!Under, UploadTypes
    <3>4. Settlements!Whole' = Settlements!Whole
      BY <2>1, <3>2 DEF Settlements!Whole
    <3>5. uploadPc'[u] = "write"
      BY <2>1 DEF UploadTypes
    <3>6. OneUpload'
      BY <2>1, <2>3, <3>1, <3>2, <3>3, <3>4, <3>5 DEF OneUpload
    <3>7. Bytes'
      <4>1. \A f \in torn' : f \in lost \/ \E v \in CsvUploads : uploadPc'[v] = "write" /\ uploadTarget[v] = f
        BY <2>1, <2>3, <3>3, <3>5 DEF Settlements!BytesOnceUnlessOverlapped
      <4>2. QED
        BY <2>1, <2>3, <3>3, <3>4, <3>5, <4>1 DEF Settlements!BytesOnceUnlessOverlapped
    <3>8. Shops'
      BY <2>1, <2>3, <3>3, <3>5, <3>6 DEF Settlements!ShopsTellFiles, OneUpload, Settlements!Under
    <3>9. QED
      BY <2>2, <3>6, <3>7, <3>8
  <2>4. QED
    BY <2>2, <2>3 DEF Settlements!BytesOnceUnlessOverlapped, Settlements!ShopsTellFiles
<1>4. ASSUME NEW u \in CsvUploads, Settlements!StoreBytes(u) PROVE UploadInv'
  <2>1. /\ uploadPc[u] = "write" /\ uploadPc' = [uploadPc EXCEPT ![u] = "note"]
        /\ torn' = torn \ {uploadTarget[u]}
        /\ UNCHANGED <<csvFiles, shops, read, uploadTarget, uploadsMet, lost>>
    BY <1>4 DEF Settlements!StoreBytes, Settlements!Goto
  <2>2. UploadTypes'
    BY <2>1 DEF UploadTypes
  <2>3. CASE ~uploadsMet'
    <3>1. Uploading' = Uploading /\ u \in Uploading
      BY <2>1 DEF Uploading, Settlements!Under, UploadTypes
    <3>2. /\ uploadTarget[u].bytes = BytesOf[u] /\ uploadTarget[u] \in csvFiles
          /\ \A f \in Settlements!Whole : f.bytes # BytesOf[u]
      BY <2>1, <2>3 DEF OneUpload
    <3>3. \A v \in CsvUploads \ {u} : /\ uploadPc'[v] = uploadPc[v]
                                      /\ uploadPc[v] \notin {"scan", "store", "write", "note"}
      BY <2>1, <2>3, <3>1 DEF OneUpload, Uploading, Settlements!Under, UploadTypes
    <3>4. Settlements!Whole' = Settlements!Whole \cup {uploadTarget[u]}
      BY <2>1, <3>2 DEF Settlements!Whole
    <3>5. uploadPc'[u] = "note"
      BY <2>1 DEF UploadTypes
    <3>6. OneUpload'
      BY <2>1, <2>3, <3>1, <3>2, <3>3, <3>4, <3>5 DEF OneUpload
    <3>7. Bytes'
      <4>1. \A f, g \in Settlements!Whole' : f.bytes = g.bytes => f = g
        BY <2>1, <2>3, <3>2, <3>4 DEF Settlements!BytesOnceUnlessOverlapped
      <4>2. \A f \in torn' : f \in lost \/ \E v \in CsvUploads : uploadPc'[v] = "write" /\ uploadTarget[v] = f
        BY <2>1, <2>3, <3>3 DEF Settlements!BytesOnceUnlessOverlapped
      <4>3. QED
        BY <2>1, <2>3, <3>3, <3>4, <3>5, <4>1, <4>2 DEF Settlements!BytesOnceUnlessOverlapped
    <3>8. Shops'
      BY <2>1, <2>3, <3>3, <3>5, <3>6 DEF Settlements!ShopsTellFiles, OneUpload, Settlements!Under
    <3>9. QED
      BY <2>2, <3>6, <3>7, <3>8
  <2>4. QED
    BY <2>2, <2>3 DEF Settlements!BytesOnceUnlessOverlapped, Settlements!ShopsTellFiles
<1>5. ASSUME NEW u \in CsvUploads, Settlements!Note(u) PROVE UploadInv'
  <2>1. /\ uploadPc[u] = "note" /\ uploadPc' = [uploadPc EXCEPT ![u] = "done"]
        /\ shops' = [n \in DOMAIN read[u] \cup {uploadTarget[u]} |->
                      IF n = uploadTarget[u] THEN ShopOf[u] ELSE read[u][n]]
        /\ UNCHANGED <<csvFiles, torn, read, uploadTarget, uploadsMet, lost>>
    BY <1>5 DEF Settlements!Note, Settlements!Goto
  <2>2. UploadTypes'
    BY <2>1 DEF UploadTypes
  <2>3. CASE ~uploadsMet'
    <3>1. Uploading = {u} /\ Uploading' = {}
      BY <2>1, <2>3 DEF OneUpload, Uploading, Settlements!Under, UploadTypes
    <3>2. /\ read[u] = shops /\ uploadTarget[u] \in Settlements!Whole
          /\ uploadTarget[u].bytes = BytesOf[u]
      BY <2>1, <2>3, <3>1 DEF OneUpload
    <3>3. /\ DOMAIN shops' = DOMAIN shops \cup {uploadTarget[u]}
          /\ \A n \in DOMAIN shops' : shops'[n] = IF n = uploadTarget[u] THEN ShopOf[u] ELSE shops[n]
      BY <2>1, <3>2
    <3>4. \A v \in CsvUploads \ {u} : /\ uploadPc'[v] = uploadPc[v]
                                      /\ uploadPc[v] \notin {"scan", "store", "write", "note"}
      BY <2>1, <3>1 DEF Uploading, Settlements!Under, UploadTypes
    <3>5. Settlements!Whole' = Settlements!Whole /\ uploadPc'[u] = "done"
      BY <2>1 DEF Settlements!Whole, UploadTypes
    <3>6. \A f \in csvFiles : f \in DOMAIN shops' \cup lost
      BY <2>1, <2>3, <3>3, <3>4 DEF OneUpload
    <3>7. OneUpload'
      BY <2>1, <3>1, <3>4, <3>5, <3>6 DEF OneUpload
    <3>8. Bytes'
      <4>1. \A f \in torn : f \in lost
        BY <2>1, <2>3, <3>4 DEF Settlements!BytesOnceUnlessOverlapped
      <4>2. QED
        BY <2>1, <2>3, <3>2, <3>4, <3>5, <4>1 DEF Settlements!BytesOnceUnlessOverlapped
    <3>9. \A v \in CsvUploads : uploadPc'[v] = "done" => uploadTarget[v] \in DOMAIN shops'
      BY <2>1, <2>3, <3>3, <3>4 DEF Settlements!ShopsTellFiles
    <3>10. \A f \in DOMAIN shops' : \E v \in CsvUploads : f.bytes = BytesOf[v] /\ shops'[f] = ShopOf[v]
      BY <2>3, <3>2, <3>3, <2>1 DEF Settlements!ShopsTellFiles
    <3>11. Shops'
      BY <2>1, <3>6, <3>9, <3>10 DEF Settlements!ShopsTellFiles
    <3>12. QED
      BY <2>2, <3>7, <3>8, <3>11
  <2>4. QED
    BY <2>2, <2>3 DEF Settlements!BytesOnceUnlessOverlapped, Settlements!ShopsTellFiles
<1>6. ASSUME NEW u \in CsvUploads, Settlements!Cut(u) PROVE UploadInv'
  <2>1. /\ uploadPc' = [uploadPc EXCEPT ![u] = "cut"]
        /\ uploadPc[u] \in {"write", "note"} => lost' = lost \cup {uploadTarget[u]}
        /\ lost \subseteq lost'
        /\ UNCHANGED <<csvFiles, torn, shops, read, uploadTarget, uploadsMet>>
    BY <1>6 DEF Settlements!Cut, Settlements!Goto
  <2>2. UploadTypes'
    BY <2>1 DEF UploadTypes
  <2>3. CASE ~uploadsMet'
    <3>1. Uploading' \subseteq Uploading
      BY <2>1 DEF Uploading, Settlements!Under, UploadTypes
    <3>2. /\ \A v \in CsvUploads \ {u} : uploadPc'[v] = uploadPc[v]
          /\ uploadPc'[u] = "cut"
          /\ Settlements!Whole' = Settlements!Whole
      BY <2>1 DEF UploadTypes, Settlements!Whole
    <3>3. OneUpload'
      BY <2>1, <2>3, <3>1, <3>2 DEF OneUpload
    <3>4. Bytes'
      BY <2>1, <2>3, <3>2 DEF Settlements!BytesOnceUnlessOverlapped
    <3>5. Shops'
      BY <2>1, <2>3, <3>2, <3>3 DEF Settlements!ShopsTellFiles, OneUpload, Settlements!Under
    <3>6. QED
      BY <2>2, <3>3, <3>4, <3>5
  <2>4. QED
    BY <2>2, <2>3 DEF Settlements!BytesOnceUnlessOverlapped, Settlements!ShopsTellFiles
<1>7. CASE UNCHANGED settlementVars
  BY <1>7 DEF settlementVars, UploadTypes, OneUpload, Uploading, Settlements!Under,
     Settlements!BytesOnceUnlessOverlapped, Settlements!ShopsTellFiles, Settlements!Whole
<1>8. QED
  BY <1>1, <1>2, <1>3, <1>4, <1>5, <1>6, <1>7 DEF Settlements!Next

\* Whole bytes are stored once, a truncated file is one whose write goes on or was cut
\* off, and shops tell of the files, for any number of uploads that do not overlap.
THEOREM UploadsAreStored == ApiSpec => []UploadsStored
<1>1. ApiInit => UploadInv
  BY UploadInitial DEF ApiInit
<1>2. UploadInv /\ [ApiNext]_apiVars => UploadInv'
  <2>1. [ApiNext]_apiVars => [Settlements!Next]_settlementVars
    BY DEF ApiNext, apiVars
  <2>2. QED
    BY <2>1, UploadStep
<1>3. UploadInv => UploadsStored
  BY DEF UploadInv
<1>4. QED
  BY <1>1, <1>2, <1>3, PTL DEF ApiSpec

----------------------------------------------------------------------------
(***************************************************************************)
(* The JD ledger.                                                          *)
(***************************************************************************)

JdTypes ==
  /\ jdPc \in [Commits -> {"idle", "truncate", "fill", "remove", "done"}]
  /\ DOMAIN token = Commits /\ DOMAIN merged = Commits /\ DOMAIN jdPreview = JdPreviews
  /\ imports \in [JdPreviews -> SUBSET Nat]
  /\ \A c \in Jd!Writing : token[c] \in JdPreviews /\ jdPreview[token[c]] # "none"

SlotsOnce(filed) == \A f, g \in filed : SlotOf[f] = SlotOf[g] => f = g

LedgersCountOnce ==
  /\ Jd!DayCountedOnce
  /\ \A c \in Jd!Writing : SlotsOnce(merged[c])

\* The commit that writes is alone, and it is about to write what comes next.
OneCommit ==
  /\ \A c, d \in Jd!Writing : c = d
  /\ \A c \in Jd!Writing : merged[c] = Jd!Merge(expected, FilesOf[token[c]], imports[token[c]])
  /\ \A c \in Commits : jdPc[c] = "fill" => jdLedger = Empty
  /\ (\A c \in Commits : jdPc[c] # "fill") => jdLedger = expected

CommitsFollow == ~commitsMet /\ ~broken => OneCommit

JdInv == JdTypes /\ LedgersCountOnce /\ CommitsFollow

LEMMA MergeCountsOnce ==
  ASSUME NEW filed, SlotsOnce(filed), NEW brought, NEW new \in SUBSET Nat
  PROVE  SlotsOnce(Jd!Merge(filed, brought, new))
<1> DEFINE latest == {i \in new : \A j \in new : j > i => SlotOf[brought[j]] # SlotOf[brought[i]]}
           kept == {b \in filed : \A i \in new : SlotOf[brought[i]] # SlotOf[b]}
<1> SUFFICES ASSUME NEW f \in kept \cup {brought[i] : i \in latest},
                    NEW g \in kept \cup {brought[i] : i \in latest}, SlotOf[f] = SlotOf[g]
             PROVE  f = g
  BY DEF SlotsOnce, Jd!Merge
<1>1. CASE f \in kept /\ g \in kept
  BY <1>1 DEF SlotsOnce
<1>2. CASE f \in kept /\ g \notin kept
  BY <1>2
<1>3. CASE f \notin kept /\ g \in kept
  BY <1>3
<1>4. CASE f \notin kept /\ g \notin kept
  <2>1. PICK i \in latest, j \in latest : f = brought[i] /\ g = brought[j]
    BY <1>4
  <2>2. i \in Nat /\ j \in Nat /\ ~ (j > i) /\ ~ (i > j)
    BY <2>1
  <2>3. i = j
    BY <2>2
  <2>4. QED
    BY <2>1, <2>3
<1>5. QED
  BY <1>1, <1>2, <1>3, <1>4

LEMMA JdInitial == Jd!Init => JdInv
<1> SUFFICES ASSUME Jd!Init PROVE JdInv
  OBVIOUS
<1>1. Jd!Writing = {}
  BY DEF Jd!Init, Jd!Writing
<1>2. JdTypes
  BY <1>1 DEF Jd!Init, JdTypes
<1>3. QED
  BY <1>1, <1>2 DEF Jd!Init, JdInv, LedgersCountOnce, Jd!DayCountedOnce, CommitsFollow, OneCommit

LEMMA JdStep == JdInv /\ [Jd!Next]_jdVars => JdInv'
<1> SUFFICES ASSUME JdInv, [Jd!Next]_jdVars PROVE JdInv'
  OBVIOUS
<1> USE DEF JdInv
<1>0. \A c : c \in Jd!Writing <=> c \in Commits /\ jdPc[c] \in {"truncate", "fill"}
  BY DEF Jd!Writing
<1>1. ASSUME NEW p \in JdPreviews, Jd!Preview(p) PROVE JdInv'
  <2>1. /\ jdPreview[p] = "none" /\ jdPreview' = [jdPreview EXCEPT ![p] = "stored"]
        /\ imports' = [imports EXCEPT ![p] = Jd!NewFiles(FilesOf[p], jdLedger)]
        /\ UNCHANGED <<jdLedger, jdPc, token, merged, expected, commitsMet, broken>>
    BY <1>1 DEF Jd!Preview
  <2>2. Jd!NewFiles(FilesOf[p], jdLedger) \subseteq Nat
    BY InstancesAssumption DEF Jd!NewFiles, Jd!ImportAssumption
  <2>3. Jd!Writing' = Jd!Writing
    BY <2>1 DEF Jd!Writing
  <2>4. JdTypes'
    BY <2>1, <2>2, <2>3 DEF JdTypes
  <2>5. \A c \in Jd!Writing : imports'[token[c]] = imports[token[c]]
    BY <2>1 DEF JdTypes
  <2>6. LedgersCountOnce'
    BY <2>1, <2>3 DEF LedgersCountOnce, Jd!DayCountedOnce, Jd!Readable
  <2>7. CommitsFollow'
    BY <2>1, <2>3, <2>5 DEF CommitsFollow, OneCommit
  <2>8. QED
    BY <2>4, <2>6, <2>7
<1>2. ASSUME NEW c \in Commits, NEW p \in JdPreviews, Jd!ReadLedger(c, p) PROVE JdInv'
  <2>1. /\ jdPc[c] = "idle" /\ jdPc' = [jdPc EXCEPT ![c] = "truncate"]
        /\ jdPreview[p] = "stored" /\ Jd!Readable(jdLedger)
        /\ token' = [token EXCEPT ![c] = p]
        /\ merged' = [merged EXCEPT ![c] = Jd!Merge(jdLedger, FilesOf[p], imports[p])]
        /\ commitsMet' = (commitsMet \/ Jd!Writing # {})
        /\ UNCHANGED <<jdLedger, imports, jdPreview, expected, broken>>
    BY <1>2 DEF Jd!ReadLedger, Jd!Goto
  <2>2. /\ Jd!Writing' = Jd!Writing \cup {c} /\ c \notin Jd!Writing
        /\ \A d \in Commits : d # c => token'[d] = token[d] /\ merged'[d] = merged[d]
        /\ token'[c] = p /\ merged'[c] = Jd!Merge(jdLedger, FilesOf[p], imports[p])
    BY <2>1 DEF Jd!Writing, JdTypes
  <2>3. JdTypes'
    BY <2>1, <2>2, <1>0 DEF JdTypes
  <2>4. SlotsOnce(merged'[c])
    <3>1. SlotsOnce(jdLedger) /\ imports[p] \in SUBSET Nat
      BY <2>1 DEF LedgersCountOnce, Jd!DayCountedOnce, SlotsOnce, JdTypes
    <3>2. QED
      BY <2>2, <3>1, MergeCountsOnce
  <2>5. LedgersCountOnce'
    BY <2>1, <2>2, <2>4, <1>0 DEF LedgersCountOnce, Jd!DayCountedOnce, Jd!Readable
  <2>6. CASE ~commitsMet' /\ ~broken'
    <3>1. Jd!Writing = {} /\ ~commitsMet /\ ~broken
      BY <2>1, <2>6
    <3>2. \A d \in Commits : jdPc[d] # "fill" /\ jdPc'[d] # "fill"
      BY <1>0, <2>1, <3>1 DEF JdTypes
    <3>3. jdLedger = expected
      BY <3>1, <3>2 DEF CommitsFollow, OneCommit
    <3>4. OneCommit'
      BY <2>1, <2>2, <3>1, <3>2, <3>3 DEF OneCommit
    <3>5. QED
      BY <2>3, <2>5, <3>4 DEF CommitsFollow
  <2>7. QED
    BY <2>3, <2>5, <2>6 DEF CommitsFollow
<1>3. ASSUME NEW c \in Commits, Jd!Truncate(c) PROVE JdInv'
  <2>1. /\ jdPc[c] = "truncate" /\ jdPc' = [jdPc EXCEPT ![c] = "fill"] /\ jdLedger' = Empty
        /\ UNCHANGED <<imports, jdPreview, token, merged, expected, commitsMet, broken>>
    BY <1>3 DEF Jd!Truncate, Jd!Goto
  <2>2. Jd!Writing' = Jd!Writing /\ c \in Jd!Writing
    BY <2>1 DEF Jd!Writing, JdTypes
  <2>3. JdTypes'
    BY <2>1, <2>2 DEF JdTypes
  <2>4. LedgersCountOnce'
    BY <2>1, <2>2 DEF LedgersCountOnce, Jd!DayCountedOnce, Jd!Readable
  <2>5. jdPc'[c] = "fill"
    BY <2>1 DEF JdTypes
  <2>6. CommitsFollow'
    BY <2>1, <2>2, <2>5 DEF CommitsFollow, OneCommit
  <2>7. QED
    BY <2>3, <2>4, <2>6
<1>4. ASSUME NEW c \in Commits, Jd!Fill(c) PROVE JdInv'
  <2>1. /\ jdPc[c] = "fill" /\ jdPc' = [jdPc EXCEPT ![c] = "remove"]
        /\ jdLedger' \in {merged[c]} \cup (IF jdLedger = Empty THEN {} ELSE {Garbage})
        /\ expected' = Jd!Merge(expected, FilesOf[token[c]], imports[token[c]])
        /\ UNCHANGED <<imports, jdPreview, token, merged, commitsMet, broken>>
    BY <1>4 DEF Jd!Fill, Jd!Goto
  <2>2. Jd!Writing' = Jd!Writing \ {c} /\ c \in Jd!Writing
    BY <2>1 DEF Jd!Writing, JdTypes
  <2>3. JdTypes'
    BY <2>1, <2>2 DEF JdTypes
  <2>4. LedgersCountOnce'
    BY <2>1, <2>2 DEF LedgersCountOnce, Jd!DayCountedOnce, Jd!Readable, SlotsOnce
  <2>5. CASE ~commitsMet' /\ ~broken'
    <3>1. OneCommit
      BY <2>1, <2>5 DEF CommitsFollow
    <3>2. jdLedger' = merged[c]
      BY <2>1, <3>1 DEF OneCommit
    <3>3. Jd!Writing' = {}
      BY <2>2, <3>1 DEF OneCommit
    <3>4. \A d \in Commits : jdPc'[d] # "fill"
      BY <3>3 DEF Jd!Writing
    <3>5. jdLedger' = expected'
      BY <2>1, <2>2, <3>1, <3>2 DEF OneCommit
    <3>6. OneCommit'
      BY <3>3, <3>4, <3>5 DEF OneCommit
    <3>7. QED
      BY <2>3, <2>4, <3>6 DEF CommitsFollow
  <2>6. QED
    BY <2>3, <2>4, <2>5 DEF CommitsFollow
<1>5. ASSUME NEW c \in Commits, Jd!WriteFails(c) PROVE JdInv'
  <2>1. /\ jdPc' = [jdPc EXCEPT ![c] = "done"] /\ broken'
        /\ UNCHANGED <<jdLedger, imports, jdPreview, token, merged, expected, commitsMet>>
    BY <1>5 DEF Jd!WriteFails, Jd!Goto
  <2>2. Jd!Writing' \subseteq Jd!Writing
    BY <2>1 DEF Jd!Writing, JdTypes
  <2>3. QED
    BY <2>1, <2>2 DEF JdTypes, LedgersCountOnce, Jd!DayCountedOnce, Jd!Readable, CommitsFollow
<1>6. ASSUME NEW c \in Commits, Jd!RemovePreview(c) PROVE JdInv'
  <2>1. /\ jdPc[c] = "remove" /\ jdPc' = [jdPc EXCEPT ![c] = "done"]
        /\ jdPreview' \in {jdPreview, [jdPreview EXCEPT ![token[c]] = "removed"]}
        /\ UNCHANGED <<jdLedger, imports, token, merged, expected, commitsMet, broken>>
    BY <1>6 DEF Jd!RemovePreview, Jd!Goto
  <2>2. Jd!Writing' = Jd!Writing
    BY <2>1 DEF Jd!Writing, JdTypes
  <2>3. \A d \in Commits : jdPc'[d] = "fill" <=> jdPc[d] = "fill"
    BY <2>1 DEF JdTypes
  <2>4. JdTypes'
    BY <2>1, <2>2 DEF JdTypes
  <2>5. QED
    BY <2>1, <2>2, <2>3, <2>4 DEF LedgersCountOnce, Jd!DayCountedOnce, Jd!Readable, CommitsFollow, OneCommit
<1>7. CASE Jd!Crash
  <2>1. /\ broken' = (broken \/ \E c \in Commits : jdPc[c] = "fill")
        /\ jdPc' = [c \in Commits |-> IF jdPc[c] = "idle" THEN "idle" ELSE "done"]
        /\ UNCHANGED <<jdLedger, imports, jdPreview, token, merged, expected, commitsMet>>
    BY <1>7 DEF Jd!Crash
  <2>2. Jd!Writing' = {}
    BY <2>1 DEF Jd!Writing
  <2>3. JdTypes'
    BY <2>1, <2>2 DEF JdTypes
  <2>4. LedgersCountOnce'
    BY <2>1, <2>2 DEF LedgersCountOnce, Jd!DayCountedOnce, Jd!Readable
  <2>5. CommitsFollow'
    BY <2>1, <2>2 DEF CommitsFollow, OneCommit
  <2>6. QED
    BY <2>3, <2>4, <2>5
<1>8. CASE UNCHANGED jdVars
  BY <1>8 DEF jdVars, JdTypes, LedgersCountOnce, Jd!DayCountedOnce, Jd!Readable, CommitsFollow, OneCommit, Jd!Writing
<1>9. QED
  BY <1>1, <1>2, <1>3, <1>4, <1>5, <1>6, <1>7, <1>8 DEF Jd!Next

\* A day counts once in the JD ledger, and the ledger holds what the commits say, for
\* any number of uploads and commits.
THEOREM CommitsAreTold == ApiSpec => []CommitsTold
<1>1. ApiInit => JdInv
  BY JdInitial DEF ApiInit
<1>2. JdInv /\ [ApiNext]_apiVars => JdInv'
  <2>1. [ApiNext]_apiVars => [Jd!Next]_jdVars
    BY DEF ApiNext, apiVars
  <2>2. QED
    BY <2>1, JdStep
<1>3. JdInv => CommitsTold
  <2>1. CommitsFollow => Jd!LedgerTellsCommits
    BY DEF CommitsFollow, OneCommit, Jd!LedgerTellsCommits, Jd!Writing
  <2>2. QED
    BY <2>1 DEF JdInv, LedgersCountOnce, CommitsTold
<1>4. QED
  BY <1>1, <1>2, <1>3, PTL DEF ApiSpec

----------------------------------------------------------------------------
(***************************************************************************)
(* The Python order store.                                                 *)
(***************************************************************************)

LEMMA StoreCounts == \A S : Store!Cardinality(S) = Cardinality(S)
  BY DEF Store!Cardinality, Cardinality

\* A total is a sum over the records.
LEMMA TotalIsSum ==
  ASSUME NEW field, NEW F, NEW S, IsFiniteSet(S), \A r \in S : F[r] = r[field]
  PROVE  Store!Total(field, S) = SumOf(F, S)
<1> DEFINE G == [r \in S |-> r[field]]
           P(it) == it = [s \in SUBSET S |->
                            IF s = {} THEN 0 ELSE (Some(s))[field] + it[s \ {Some(s)}]]
           v == CHOOSE it : P(it)
<1>1. Store!Total(field, S) = v[S]
  BY DEF Store!Total, Store!MapThenSumSet, Store!MapThenFoldSet, Some
<1>2. \A s \in SUBSET S : s # {} => (Some(s))[field] = F[Some(s)]
  BY SomeIsIn
<1>3. PICK f : Sums(f, F, S)
  BY SumIsComputed
<1>4. P(f)
  BY <1>2, <1>3 DEF Sums
<1>5. P(v)
  BY <1>4
<1>6. Sums(v, F, S)
  BY <1>2, <1>5 DEF Sums
<1> HIDE DEF v
<1>7. QED
  BY <1>1, <1>6, SumIsAny

\* What an order is made of, and that its amount is that of the rows of its number.
Fields(o) ==
  o = [number |-> o.number, key |-> o.key, day |-> o.day, shop |-> o.shop,
       amount |-> o.amount, quantity |-> o.quantity, source |-> o.source, batch |-> o.batch]

OwnAmount(o) ==
  \A f \in Store!FileNames : \A i \in Store!Accepted(f) :
    /\ Workbook[f][i].number # Blank
    /\ o.number = <<"no", Workbook[f][i].number>>
    => o.amount = Workbook[f][i].amount

KeysOnce(orders) == \A o, p \in orders : o.key = p.key => o = p

LEMMA AcceptedRows ==
  ASSUME NEW f \in Store!FileNames
  PROVE  Store!Accepted(f) \subseteq Nat /\ IsFiniteSet(Store!Accepted(f))
<1>1. Workbook[f] \in Seq(Store!ToSet(Workbook[f]))
  BY InstancesAssumption DEF Store!StoreAssumption
<1>2. Store!Accepted(f) \subseteq 1..Len(Workbook[f]) /\ Len(Workbook[f]) \in Nat
  BY <1>1 DEF Store!Accepted
<1>3. IsFiniteSet(1..Len(Workbook[f]))
  BY <1>2, FS_Interval
<1>4. QED
  BY <1>2, <1>3, FS_Subset

LEMMA LeastRow ==
  ASSUME NEW S, S \subseteq Nat, S # {}
  PROVE  Store!Min(S) \in S
<1>1. PICK n \in S : \A m \in S : n <= m
  BY LeastNatural
<1>2. QED
  BY <1>1 DEF Store!Min

\* The order that some rows of a file make.
LEMMA OrderMade ==
  ASSUME NEW f \in Store!FileNames, NEW group \in SUBSET Store!Accepted(f), group # {}
  PROVE  LET o == Store!OrderOfRows(f, group)
         IN Fields(o) /\ o.day \in Nat /\ OwnAmount(o)
<1> DEFINE i == Store!Min(group)
           o == Store!OrderOfRows(f, group)
<1>1. i \in Store!Accepted(f)
  BY AcceptedRows, LeastRow
<1>2. Fields(o)
  BY DEF Store!OrderOfRows, Fields
<1>3. o.number = Store!NumberOf(f, i) /\ o.day = Workbook[f][i].paid /\ o.amount = Workbook[f][i].amount
  BY DEF Store!OrderOfRows, Store!Day
<1>4. o.day \in Nat
  BY <1>1, <1>3, InstancesAssumption DEF Store!StoreAssumption
<1> HIDE DEF i, o
<1>5. ASSUME NEW g \in Store!FileNames, NEW k \in Store!Accepted(g), Workbook[g][k].number # Blank,
             o.number = <<"no", Workbook[g][k].number>>
      PROVE  o.amount = Workbook[g][k].amount
  <2>1. Workbook[f][i].number # Blank /\ Workbook[f][i].number = Workbook[g][k].number
    BY <1>3, <1>5 DEF Store!NumberOf
  <2>2. Workbook[f][i].amount = Workbook[g][k].amount
    BY <1>1, <2>1, InstancesAssumption DEF Store!StoreAssumption
  <2>3. QED
    BY <1>3, <2>2
<1>6. QED
  BY <1>2, <1>4, <1>5 DEF OwnAmount, o

LEMMA OrdersParsed ==
  ASSUME NEW f \in Store!FileNames
  PROVE  /\ IsFiniteSet(Store!Parsed[f])
         /\ \A o \in Store!Parsed[f] : Fields(o) /\ o.day \in Nat /\ OwnAmount(o)
<1> DEFINE Same(i, k) == /\ Store!NumberOf(f, i) = Store!NumberOf(f, k)
                         /\ Store!Day(Workbook[f][i]) = Store!Day(Workbook[f][k])
                         /\ Workbook[f][i].shop = Workbook[f][k].shop
           group(i) == {k \in Store!Accepted(f) : Same(i, k)}
           m == [i \in Store!Accepted(f) |-> Store!OrderOfRows(f, group(i))]
<1>1. Store!Parsed[f] = {m[i] : i \in Store!Accepted(f)}
  BY DEF Store!Parsed, Store!ParseOrders
<1>2. \A i \in Store!Accepted(f) : group(i) \in SUBSET Store!Accepted(f) /\ group(i) # {}
  OBVIOUS
<1>3. \A i \in Store!Accepted(f) : m[i] = Store!OrderOfRows(f, group(i))
  OBVIOUS
<1> HIDE DEF group, m
<1>4. IsFiniteSet({m[i] : i \in Store!Accepted(f)})
  BY AcceptedRows, ImageIsFinite
<1>5. ASSUME NEW o \in Store!Parsed[f] PROVE Fields(o) /\ o.day \in Nat /\ OwnAmount(o)
  <2>1. PICK i \in Store!Accepted(f) : o = Store!OrderOfRows(f, group(i))
    BY <1>1, <1>3
  <2>2. QED
    BY <1>2, <2>1, OrderMade
<1>6. QED
  BY <1>1, <1>4, <1>5

\* One order is left of each key.
LEMMA OneIsLeft ==
  ASSUME NEW orders, \A o \in orders : o.day \in Nat
  PROVE  /\ Store!OnePerKey(orders) \subseteq orders
         /\ KeysOnce(Store!OnePerKey(orders))
         /\ Store!Keys(Store!OnePerKey(orders)) = Store!Keys(orders)
<1> DEFINE Earliest(k, o) == o.key = k /\ \A p \in orders : p.key = k => o.day <= p.day
           One(k) == CHOOSE o \in orders : Earliest(k, o)
<1>1. ASSUME NEW k \in Store!Keys(orders) PROVE One(k) \in orders /\ Earliest(k, One(k))
  <2> DEFINE days == {o.day : o \in {p \in orders : p.key = k}}
  <2>1. days \subseteq Nat /\ days # {}
    BY DEF Store!Keys
  <2>2. PICK d \in days : \A e \in days : d <= e
    <3> HIDE DEF days
    <3>1. QED
      BY <2>1, LeastNatural
  <2>3. \E o \in orders : Earliest(k, o)
    BY <2>2
  <2>4. QED
    BY <2>3
<1>2. Store!OnePerKey(orders) = {One(k) : k \in Store!Keys(orders)}
  BY DEF Store!OnePerKey
<1>3. \A k \in Store!Keys(orders) : One(k) \in orders /\ One(k).key = k
  BY <1>1
<1> HIDE DEF One
<1>4. QED
  BY <1>2, <1>3 DEF KeysOnce, Store!Keys

----------------------------------------------------------------------------
(***************************************************************************)
(* A preview of the order store: the loop over the files of an upload.     *)
(***************************************************************************)

\* The orders of the files under any secret.
Under(o, made) == [o EXCEPT !.key = <<made, o.number>>]

Candidates == UNION {{Under(o, made) : o \in Store!Parsed[f], made \in Nat} : f \in Store!FileNames}

FileRows ==
  [file : Store!FileNames, accepted : Nat, added : Nat, duplicates : Nat, known : BOOLEAN]

PreviewRecords == [orders : SUBSET Candidates, files : SUBSET FileRows]

AddedIn      == [row \in FileRows |-> row.added]
AcceptedIn   == [row \in FileRows |-> row.accepted]
DuplicatesIn == [row \in FileRows |-> row.duplicates]

\* What the loop over the files has got so far fits what was read of the ledger: every
\* key of a file that counts is taken or among the orders, so that a file that comes
\* twice adds nothing the second time; its digests are under the secrets it has met.
LoopFits(acc, seen, taken, under, met) ==
  /\ acc \in PreviewRecords
  /\ IsFiniteSet(acc.orders) /\ KeysOnce(acc.orders) /\ IsFiniteSet(acc.files)
  /\ \A o \in acc.orders : o.key[1] \in met
  /\ \A row \in acc.files :
       /\ row.accepted = Cardinality(Store!Parsed[row.file])
       /\ row.accepted = row.added + row.duplicates
       /\ row.known <=> row.file \in seen
       /\ \/ row.file \in seen
          \/ Store!Keys(Store!Digested(row.file, under)) \subseteq taken \cup Store!Keys(acc.orders)
  /\ Cardinality(acc.orders) = SumOf(AddedIn, acc.files)

\* What was looked up for a file's orders when the file is not skipped.
LookedUp(f, seen, under, met) ==
  f \notin seen => \A o \in Store!Parsed[f] : under[<<f, o>>] \in met

LEMMA OrderUnder ==
  ASSUME NEW f \in Store!FileNames, NEW o \in Store!Parsed[f], NEW made
  PROVE  /\ Fields(Under(o, made)) /\ Under(o, made).day \in Nat /\ OwnAmount(Under(o, made))
         /\ Under(o, made).key = <<made, o.number>> /\ Under(o, made).number = o.number
<1> DEFINE d == Under(o, made)
<1>1. Fields(o) /\ o.day \in Nat /\ OwnAmount(o)
  BY OrdersParsed
<1>2. /\ d = [number |-> o.number, key |-> <<made, o.number>>, day |-> o.day, shop |-> o.shop,
              amount |-> o.amount, quantity |-> o.quantity, source |-> o.source, batch |-> o.batch]
  <2>1. o = [number |-> o.number, key |-> o.key, day |-> o.day, shop |-> o.shop,
             amount |-> o.amount, quantity |-> o.quantity, source |-> o.source, batch |-> o.batch]
    BY <1>1 DEF Fields
  <2>2. QED
    BY <2>1 DEF Under
<1> HIDE DEF d
<1>3. /\ d.number = o.number /\ d.key = <<made, o.number>> /\ d.day = o.day
      /\ d.amount = o.amount
  BY <1>2
<1>4. Fields(d)
  BY <1>2 DEF Fields
<1>5. OwnAmount(d)
  BY <1>1, <1>3 DEF OwnAmount
<1>6. QED
  BY <1>1, <1>3, <1>4, <1>5 DEF d

LEMMA CandidatesAre ==
  \A o \in Candidates : /\ Fields(o) /\ o.day \in Nat /\ OwnAmount(o)
                        /\ o.key = <<o.key[1], o.number>>
<1> SUFFICES ASSUME NEW f \in Store!FileNames, NEW q \in Store!Parsed[f], NEW made \in Nat
             PROVE  /\ Fields(Under(q, made)) /\ Under(q, made).day \in Nat
                    /\ OwnAmount(Under(q, made))
                    /\ Under(q, made).key = <<Under(q, made).key[1], Under(q, made).number>>
  BY DEF Candidates
<1>1. QED
  BY OrderUnder

\* The digested orders of a file that is not skipped.
LEMMA OrdersDigested ==
  ASSUME NEW f \in Store!FileNames, NEW under, NEW met, met \subseteq Nat,
         \A o \in Store!Parsed[f] : under[<<f, o>>] \in met
  PROVE  LET digested == Store!Digested(f, under)
         IN /\ digested \subseteq Candidates /\ IsFiniteSet(digested)
            /\ Cardinality(digested) <= Cardinality(Store!Parsed[f])
            /\ \A o \in digested : o.key[1] \in met /\ o.day \in Nat
<1> DEFINE m == [o \in Store!Parsed[f] |-> Under(o, under[<<f, o>>])]
           digested == Store!Digested(f, under)
<1>1. digested = {m[o] : o \in Store!Parsed[f]}
  BY DEF Store!Digested, Under
<1>2. ASSUME NEW o \in Store!Parsed[f]
      PROVE  m[o] \in Candidates /\ m[o].key[1] \in met /\ m[o].day \in Nat
  <2> DEFINE made == under[<<f, o>>]
             d == Under(o, made)
  <2>1. made \in met /\ made \in Nat /\ m[o] = d
    OBVIOUS
  <2> HIDE DEF made, m
  <2>2. d \in Candidates
    BY <2>1 DEF Candidates
  <2>3. d.key = <<made, o.number>> /\ d.day \in Nat
    BY OrderUnder
  <2> HIDE DEF d
  <2>4. d.key[1] = made
    BY <2>3
  <2>5. QED
    BY <2>1, <2>2, <2>3, <2>4
<1>3. m \in Surjection(Store!Parsed[f], {m[o] : o \in Store!Parsed[f]})
  BY DEF Surjection
<1> HIDE DEF m, digested
<1>4. IsFiniteSet(digested) /\ Cardinality(digested) <= Cardinality(Store!Parsed[f])
  BY <1>1, <1>3, OrdersParsed, FS_Surjection DEF ExistsSurjection
<1>5. QED
  BY <1>1, <1>2, <1>4 DEF digested

LEMMA FileAdded ==
  ASSUME NEW acc, NEW f \in Store!FileNames, NEW seen, NEW taken, NEW under, NEW met,
         met \subseteq Nat, LookedUp(f, seen, under, met),
         LoopFits(acc, seen, taken, under, met)
  PROVE  LoopFits(Store!AddFile(acc, f, seen, taken, under), seen, taken, under, met)
<1> DEFINE digested == Store!Digested(f, under)
           parsed == Store!Parsed[f]
           open   == {o \in digested : o.key \notin taken \cup Store!Keys(acc.orders)}
           added  == IF f \in seen THEN {} ELSE Store!OnePerKey(open)
           row    == [file |-> f, accepted |-> Cardinality(parsed), added |-> Cardinality(added),
                      duplicates |-> Cardinality(parsed) - Cardinality(added),
                      known |-> f \in seen]
           new    == Store!AddFile(acc, f, seen, taken, under)
<1>0. IsFiniteSet(acc.files) /\ acc.files \subseteq FileRows /\ acc.orders \subseteq Candidates
  BY DEF LoopFits, PreviewRecords
<1>1. /\ new = [orders |-> new.orders, files |-> new.files]
      /\ new.orders = acc.orders \cup added /\ new.files = acc.files \cup {row}
  BY StoreCounts DEF Store!AddFile
<1>2. /\ IsFiniteSet(parsed)
      /\ f \notin seen => /\ digested \subseteq Candidates /\ IsFiniteSet(digested)
                          /\ Cardinality(digested) <= Cardinality(parsed)
                          /\ \A o \in digested : o.key[1] \in met /\ o.day \in Nat
  BY OrdersParsed, OrdersDigested DEF LookedUp
<1> HIDE DEF digested, parsed
<1>3. /\ added \subseteq open /\ KeysOnce(added)
      /\ f \notin seen => Store!Keys(added) = Store!Keys(open)
  <2>1. CASE f \in seen
    BY <2>1 DEF KeysOnce
  <2>2. CASE f \notin seen
    <3>1. \A o \in open : o.day \in Nat
      BY <1>2, <2>2
    <3> HIDE DEF open
    <3>2. QED
      BY <2>2, <3>1, OneIsLeft
  <2>3. QED
    BY <2>1, <2>2
<1>4. /\ IsFiniteSet(added) /\ Cardinality(added) \in Nat
      /\ Cardinality(parsed) \in Nat /\ Cardinality(added) <= Cardinality(parsed)
      /\ added \subseteq Candidates /\ \A o \in added : o.key[1] \in met
  <2>1. CASE f \in seen
    BY <1>2, <2>1, FS_EmptySet, FS_CardinalityType
  <2>2. CASE f \notin seen
    <3>1. added \subseteq digested
      BY <1>3
    <3>2. /\ digested \subseteq Candidates /\ IsFiniteSet(digested)
          /\ Cardinality(digested) <= Cardinality(parsed)
          /\ \A o \in digested : o.key[1] \in met
      BY <1>2, <2>2
    <3> HIDE DEF added
    <3>3. IsFiniteSet(added) /\ Cardinality(added) <= Cardinality(digested)
      BY <3>1, <3>2, FS_Subset
    <3>4. Cardinality(added) \in Nat /\ Cardinality(digested) \in Nat /\ Cardinality(parsed) \in Nat
      BY <1>2, <3>2, <3>3, FS_CardinalityType
    <3>5. QED
      BY <3>1, <3>2, <3>3, <3>4
  <2>3. QED
    BY <2>1, <2>2
<1> HIDE DEF new, added
<1>5. row \in FileRows
  BY <1>4 DEF FileRows
<1>6. \A o \in added : o.key \notin taken /\ \A p \in acc.orders : p.key # o.key
  BY <1>3 DEF Store!Keys
<1>7. added \cap acc.orders = {}
  BY <1>6
<1>8. KeysOnce(new.orders)
  BY <1>1, <1>3, <1>6 DEF LoopFits, KeysOnce
<1>9. Store!Keys(new.orders) = Store!Keys(acc.orders) \cup Store!Keys(added)
  BY <1>1 DEF Store!Keys
<1>10. f \in seen \/ Store!Keys(digested) \subseteq taken \cup Store!Keys(new.orders)
  <2>1. Store!Keys(digested) \subseteq
          taken \cup Store!Keys(acc.orders) \cup Store!Keys(open)
    BY DEF Store!Keys
  <2>2. QED
    BY <1>3, <1>9, <2>1
<1>11. IsFiniteSet(new.orders) /\ Cardinality(new.orders) = Cardinality(acc.orders) + Cardinality(added)
  <2>1. IsFiniteSet(acc.orders)
    BY DEF LoopFits
  <2>2. Cardinality(acc.orders) \in Nat
    BY <2>1, FS_CardinalityType
  <2>3. /\ IsFiniteSet(acc.orders \cup added)
        /\ Cardinality(acc.orders \cup added)
             = Cardinality(acc.orders) + Cardinality(added) - Cardinality(acc.orders \cap added)
    BY <1>4, <2>1, FS_Union
  <2>4. Cardinality(acc.orders \cap added) = 0
    BY <1>7, FS_EmptySet
  <2>5. QED
    BY <1>1, <1>4, <2>2, <2>3, <2>4
<1> HIDE DEF row
<1>12. /\ row.file = f /\ row.accepted = Cardinality(parsed) /\ row.added = Cardinality(added)
       /\ row.duplicates = Cardinality(parsed) - Cardinality(added)
       /\ row.known <=> f \in seen
  BY DEF row
<1>13. SumOf(AddedIn, new.files) = SumOf(AddedIn, acc.files) + Cardinality(added)
  <2>1. \A r \in FileRows : AddedIn[r] = r.added /\ r.added \in Nat
    BY DEF AddedIn, FileRows
  <2>2. CASE row \in acc.files
    <3>1. f \in seen \/ Store!Keys(digested) \subseteq taken \cup Store!Keys(acc.orders)
      BY <1>12, <2>2 DEF LoopFits, digested
    <3>2. added = {}
      <4>1. open = {} \/ f \in seen
        BY <3>1 DEF Store!Keys
      <4>2. QED
        BY <1>3, <4>1 DEF added
    <3>3. Cardinality(added) = 0
      BY <3>2, FS_EmptySet
    <3>4. new.files = acc.files
      BY <1>1, <2>2
    <3>5. SumOf(AddedIn, acc.files) \in Nat
      BY <1>0, <2>1, SumIsNat
    <3>6. QED
      BY <3>3, <3>4, <3>5
  <2>3. CASE row \notin acc.files
    <3>1. \A r \in acc.files \cup {row} : AddedIn[r] \in Nat
      BY <1>0, <1>5, <2>1
    <3>2. SumOf(AddedIn, acc.files \cup {row}) = SumOf(AddedIn, acc.files) + AddedIn[row]
      BY <1>0, <2>3, <3>1, SumAdds
    <3>3. QED
      BY <1>1, <1>5, <1>12, <2>1, <3>2
  <2>4. QED
    BY <2>2, <2>3
<1>14. new.files \subseteq FileRows /\ IsFiniteSet(new.files)
  BY <1>0, <1>1, <1>5, FS_AddElement
<1>15. new \in PreviewRecords
  <2>1. new.orders \subseteq Candidates
    BY <1>0, <1>1, <1>4
  <2>2. QED
    BY <1>1, <1>14, <2>1 DEF PreviewRecords
<1>16. ASSUME NEW r \in new.files
       PROVE  /\ r.accepted = Cardinality(Store!Parsed[r.file])
              /\ r.accepted = r.added + r.duplicates
              /\ r.known <=> r.file \in seen
              /\ \/ r.file \in seen
                 \/ Store!Keys(Store!Digested(r.file, under)) \subseteq taken \cup Store!Keys(new.orders)
  <2>1. CASE r \in acc.files
    BY <1>9, <2>1 DEF LoopFits
  <2>2. CASE r = row
    BY <1>4, <1>10, <1>12, <2>2 DEF digested, parsed
  <2>3. QED
    BY <1>1, <2>1, <2>2
<1>17. Cardinality(new.orders) = SumOf(AddedIn, new.files)
  BY <1>11, <1>13 DEF LoopFits
<1>18. \A o \in new.orders : o.key[1] \in met
  BY <1>1, <1>4 DEF LoopFits
<1>19. LoopFits(new, seen, taken, under, met)
  BY <1>8, <1>11, <1>14, <1>15, <1>16, <1>17, <1>18 DEF LoopFits
<1>20. QED
  BY <1>19 DEF new

\* "it" computes what the loop has got after some of the files.
Loops(it, S, brought, seen, taken, under) ==
  it = [s \in SUBSET S |->
          IF s = {} THEN [orders |-> {}, files |-> {}]
          ELSE Store!AddFile(it[s \ {Store!Max(s)}], brought[Store!Max(s)], seen, taken, under)]

LEMMA LastOf ==
  ASSUME NEW n \in Nat, NEW s, s \subseteq 1..n, s # {}
  PROVE  /\ Store!Max(s) \in s /\ \A i \in s : i <= Store!Max(s)
         /\ n \in s => Store!Max(s) = n
<1>1. s \subseteq 0..n
  OBVIOUS
<1>2. PICK m \in s : \A y \in s : y <= m
  BY <1>1, GreatestNatural
<1>3. \E x \in s : \A y \in s : x >= y
  BY <1>2
<1>4. Store!Max(s) \in s /\ \A y \in s : Store!Max(s) >= y
  BY <1>3 DEF Store!Max
<1> DEFINE top == Store!Max(s)
<1>5. \A y \in s : y \in Nat /\ y <= n
  OBVIOUS
<1>6. top \in s /\ \A y \in s : top >= y
  BY <1>4
<1> HIDE DEF top
<1>7. \A i \in s : i <= top
  BY <1>5, <1>6
<1>8. ASSUME n \in s PROVE top = n
  <2>1. top <= n /\ top >= n /\ top \in Nat
    BY <1>5, <1>6, <1>8
  <2>2. QED
    BY <2>1
<1>9. QED
  BY <1>6, <1>7, <1>8 DEF top

LEMMA LoopIsComputed ==
  ASSUME NEW brought, NEW seen, NEW taken, NEW under, NEW n \in Nat
  PROVE  \E it : Loops(it, 1..n, brought, seen, taken, under)
<1> DEFINE Without == {k \in Nat : ~ \E it : Loops(it, 1..k, brought, seen, taken, under)}
<1>1. SUFFICES ASSUME Without # {} PROVE FALSE
  OBVIOUS
<1>2. PICK k \in Without : \A m \in Without : k <= m
  <2>1. Without \subseteq Nat
    OBVIOUS
  <2> HIDE DEF Without
  <2>2. QED
    BY <1>1, <2>1, LeastNatural
<1>3. CASE k = 0
  <2>1. 1..k = {}
    BY <1>3
  <2>2. Loops([s \in {{}} |-> [orders |-> {}, files |-> {}]], {}, brought, seen, taken, under)
    BY DEF Loops
  <2>3. QED
    BY <1>2, <2>1, <2>2
<1>4. CASE k # 0
  <2>1. k - 1 \in Nat /\ k - 1 \notin Without
    BY <1>2, <1>4
  <2>2. PICK f : Loops(f, 1..(k - 1), brought, seen, taken, under)
    BY <2>1
  <2>3. \A s \in SUBSET (1..k) : s \ {k} \in SUBSET (1..(k - 1))
    BY <2>1
  <2> DEFINE g == [s \in SUBSET (1..k) |->
                     IF k \in s THEN Store!AddFile(f[s \ {k}], brought[k], seen, taken, under) ELSE f[s]]
  <2>4. ASSUME NEW s \in SUBSET (1..k), s # {}
        PROVE  g[s] = Store!AddFile(g[s \ {Store!Max(s)}], brought[Store!Max(s)], seen, taken, under)
    <3>1. Store!Max(s) \in s /\ (k \in s => Store!Max(s) = k)
      BY <2>4, LastOf
    <3> HIDE DEF g
    <3>2. g[s \ {Store!Max(s)}] = f[s \ {Store!Max(s)}]
      BY <3>1 DEF g
    <3>3. CASE k \in s
      BY <3>1, <3>2, <3>3 DEF g
    <3>4. CASE k \notin s
      <4>1. s \in SUBSET (1..(k - 1))
        BY <2>3, <3>4
      <4>2. g[s] = f[s]
        BY <3>4 DEF g
      <4>3. f[s] = Store!AddFile(f[s \ {Store!Max(s)}], brought[Store!Max(s)], seen, taken, under)
        BY <2>2, <2>4, <4>1 DEF Loops
      <4>4. QED
        BY <3>2, <4>2, <4>3
    <3>5. QED
      BY <3>3, <3>4
  <2>5. g[{}] = [orders |-> {}, files |-> {}]
    BY <2>2 DEF Loops
  <2>6. g = [s \in SUBSET (1..k) |-> g[s]]
    OBVIOUS
  <2> HIDE DEF g
  <2>7. Loops(g, 1..k, brought, seen, taken, under)
    BY <2>4, <2>5, <2>6 DEF Loops
  <2>8. QED
    BY <1>2, <2>7
<1>5. QED
  BY <1>3, <1>4

LEMMA LoopHolds ==
  ASSUME NEW brought \in Seq(Store!FileNames), NEW seen, NEW taken, NEW under, NEW met,
         met \subseteq Nat, \A i \in 1..Len(brought) : LookedUp(brought[i], seen, under, met),
         NEW it,
         Loops(it, 1..Len(brought), brought, seen, taken, under)
  PROVE  LoopFits(it[1..Len(brought)], seen, taken, under, met)
<1> DEFINE Other == {s \in SUBSET (1..Len(brought)) : ~LoopFits(it[s], seen, taken, under, met)}
<1>0. IsFiniteSet(1..Len(brought)) /\ Len(brought) \in Nat
  BY FS_Interval
<1>1. ASSUME Other # {} PROVE FALSE
  <2>1. PICK s \in Other : \A u \in Other : Cardinality(s) <= Cardinality(u)
    <3>1. \A s \in Other : IsFiniteSet(s)
      BY <1>0, FS_Subset
    <3> HIDE DEF Other
    <3>2. QED
      BY <1>1, <3>1, SmallestSet
  <2>2. s \subseteq 1..Len(brought) /\ IsFiniteSet(s) /\ ~LoopFits(it[s], seen, taken, under, met)
    BY <1>0, FS_Subset
  <2>3. CASE s = {}
    <3>1. it[s] = [orders |-> {}, files |-> {}]
      BY <2>2, <2>3 DEF Loops
    <3>2. LoopFits(it[s], seen, taken, under, met)
      BY <3>1, SumEmpty, FS_EmptySet DEF LoopFits, KeysOnce, PreviewRecords
    <3>3. QED
      BY <2>2, <3>2
  <2>4. CASE s # {}
    <3> DEFINE x == Store!Max(s)
               u == s \ {x}
    <3>1. x \in s
      BY <1>0, <2>2, <2>4, LastOf
    <3>2. it[s] = Store!AddFile(it[u], brought[x], seen, taken, under)
      BY <2>2, <2>4 DEF Loops
    <3> HIDE DEF x
    <3>3. /\ u \in SUBSET (1..Len(brought)) /\ brought[x] \in Store!FileNames
          /\ LookedUp(brought[x], seen, under, met)
      BY <2>2, <3>1
    <3>4. Cardinality(u) \in Nat /\ Cardinality(s) = Cardinality(u) + 1
      BY <2>2, <3>1, OneLess
    <3>5. u \notin Other
      <4> HIDE DEF u, Other
      <4>1. QED
        BY <2>1, <3>4
    <3>6. LoopFits(it[u], seen, taken, under, met)
      BY <3>3, <3>5
    <3>7. LoopFits(it[s], seen, taken, under, met)
      <4> HIDE DEF u
      <4>1. QED
        BY <3>2, <3>3, <3>6, FileAdded
    <3>8. QED
      BY <2>2, <3>7
  <2>5. QED
    BY <2>3, <2>4
<1>2. QED
  BY <1>1

LEMMA PreviewMade ==
  ASSUME NEW brought \in Seq(Store!FileNames), NEW seen, NEW taken, NEW under, NEW met,
         met \subseteq Nat, \A i \in 1..Len(brought) : LookedUp(brought[i], seen, under, met)
  PROVE  LoopFits(Store!PreviewOf(brought, seen, taken, under), seen, taken, under, met)
<1> DEFINE P(it) == Loops(it, 1..Len(brought), brought, seen, taken, under)
           v == CHOOSE it : P(it)
<1>1. Store!PreviewOf(brought, seen, taken, under) = v[1..Len(brought)]
  <2>1. DOMAIN brought = 1..Len(brought)
    OBVIOUS
  <2>2. Store!PreviewOf(brought, seen, taken, under)
          = (CHOOSE it : Loops(it, DOMAIN brought, brought, seen, taken, under))[DOMAIN brought]
    BY DEF Store!PreviewOf, Store!FoldLeft, Store!MapThenFoldSet, Loops
  <2>3. QED
    BY <2>1, <2>2
<1>2. P(v)
  BY LoopIsComputed
<1> HIDE DEF v
<1>3. QED
  BY <1>1, <1>2, LoopHolds

----------------------------------------------------------------------------
\* Daily records count each order once.
LEMMA RecordsCount ==
  ASSUME NEW orders, IsFiniteSet(orders), NEW file
  PROVE  Store!Total("pay_cnt", Store!DailyRecords(orders, file)) = Cardinality(orders)
<1> DEFINE Group(o) == {p \in orders : <<p.day, p.shop, p.source>> = <<o.day, o.shop, o.source>>}
           m == [o \in orders |->
                  [day |-> o.day, shop |-> o.shop, source |-> o.source, file |-> file,
                   pay_cnt |-> Cardinality(Group(o)),
                   pay_amt |-> Store!Total("amount", Group(o)),
                   pay_item_cnt |-> Store!Total("quantity", Group(o))]]
           C == [v \in {m[o] : o \in orders} |-> v["pay_cnt"]]
<1>1. Store!DailyRecords(orders, file) = {m[o] : o \in orders}
  BY StoreCounts DEF Store!DailyRecords
<1>2. ASSUME NEW x \in orders PROVE C[m[x]] = Cardinality({y \in orders : m[y] = m[x]})
  <2>1. C[m[x]] = Cardinality(Group(x))
    OBVIOUS
  <2>2. ASSUME NEW y \in orders PROVE y \in Group(x) <=> m[y] = m[x]
    <3>1. ASSUME m[y] = m[x] PROVE y \in Group(x)
      <4>1. /\ m[y].day = y.day /\ m[y].shop = y.shop /\ m[y].source = y.source
            /\ m[x].day = x.day /\ m[x].shop = x.shop /\ m[x].source = x.source
        OBVIOUS
      <4> HIDE DEF m
      <4>2. QED
        BY <3>1, <4>1
    <3>2. ASSUME y \in Group(x) PROVE m[y] = m[x]
      <4>1. y.day = x.day /\ y.shop = x.shop /\ y.source = x.source
        BY <3>2
      <4>2. Group(y) = Group(x)
        BY <4>1
      <4> HIDE DEF Group
      <4>3. QED
        BY <4>1, <4>2
    <3>3. QED
      BY <3>1, <3>2
  <2>3. Group(x) = {y \in orders : m[y] = m[x]}
    <3> HIDE DEF m
    <3>1. QED
      BY <2>2
  <2> HIDE DEF m, Group, C
  <2>4. QED
    BY <2>1, <2>3
<1>3. \A v \in {m[o] : o \in orders} : C[v] = v["pay_cnt"]
  OBVIOUS
<1> HIDE DEF m, C
<1>4. IsFiniteSet({m[o] : o \in orders})
  BY ImageIsFinite
<1>5. Store!Total("pay_cnt", {m[o] : o \in orders}) = SumOf(C, {m[o] : o \in orders})
  <2> DEFINE records == {m[o] : o \in orders}
  <2> HIDE DEF records
  <2>1. QED
    BY <1>3, <1>4, TotalIsSum DEF records
<1>6. SumOf(C, {m[o] : o \in orders}) = Cardinality(orders)
  BY <1>2, CountByKind
<1>7. QED
  BY <1>1, <1>5, <1>6

LEMMA KeysCount ==
  ASSUME NEW orders, IsFiniteSet(orders), KeysOnce(orders)
  PROVE  Cardinality(Store!Keys(orders)) = Cardinality(orders)
<1> DEFINE f == [o \in orders |-> o.key]
<1>1. f \in Bijection(orders, Store!Keys(orders))
  BY DEF Bijection, Injection, Surjection, IsInjective, KeysOnce, Store!Keys
<1>2. QED
  BY <1>1, FS_Bijection DEF ExistsBijection

\* The orders of a new batch.
Assigned(orders, id) == {[o EXCEPT !.batch = id] : o \in orders}

LEMMA OrdersAssigned ==
  ASSUME NEW orders \in SUBSET Candidates, IsFiniteSet(orders), KeysOnce(orders), NEW id
  PROVE  /\ IsFiniteSet(Assigned(orders, id)) /\ KeysOnce(Assigned(orders, id))
         /\ Cardinality(Assigned(orders, id)) = Cardinality(orders)
         /\ \A q \in Assigned(orders, id) :
              /\ q.batch = id /\ OwnAmount(q) /\ q.key = <<q.key[1], q.number>>
              /\ \E o \in orders : q.key = o.key
<1> DEFINE f == [o \in orders |-> [o EXCEPT !.batch = id]]
<1>1. ASSUME NEW o \in orders
      PROVE  /\ f[o].key = o.key /\ f[o].batch = id /\ OwnAmount(f[o])
             /\ f[o].number = o.number /\ o.key = <<o.key[1], o.number>>
  <2>1. Fields(o) /\ OwnAmount(o) /\ o.key = <<o.key[1], o.number>>
    BY CandidatesAre
  <2> DEFINE q == [o EXCEPT !.batch = id]
  <2>2. q.key = o.key /\ q.number = o.number /\ q.batch = id /\ q.amount = o.amount
    BY <2>1 DEF Fields
  <2>3. f[o] = q
    OBVIOUS
  <2> HIDE DEF q, f
  <2>4. QED
    BY <2>1, <2>2, <2>3 DEF OwnAmount
<1>2. Assigned(orders, id) = {f[o] : o \in orders} /\ f = [o \in orders |-> f[o]]
  BY DEF Assigned
<1> HIDE DEF f
<1>3. f \in Bijection(orders, Assigned(orders, id))
  BY <1>1, <1>2 DEF Bijection, Injection, Surjection, IsInjective, KeysOnce
<1>4. /\ IsFiniteSet(Assigned(orders, id))
      /\ Cardinality(Assigned(orders, id)) = Cardinality(orders)
  BY <1>3, FS_Bijection DEF ExistsBijection
<1>5. KeysOnce(Assigned(orders, id))
  BY <1>1, <1>2 DEF KeysOnce
<1>6. QED
  BY <1>1, <1>2, <1>4, <1>5

\* What a batch says adds up.
LEMMA BatchAddsUp ==
  ASSUME NEW n, NEW id, NEW seen, NEW taken, NEW under, NEW met,
         LoopFits(previews[n].p, seen, taken, under, met)
  PROVE  LET b == Store!BatchOf(n, id)
         IN /\ b.id = id /\ b.added = Cardinality(Store!NewOrders(n))
            /\ b.added + b.duplicates = Store!Total("accepted", b.files)
<1> DEFINE p  == previews[n].p
           m  == [row \in p.files |->
                    IF row.file \in Store!KnownFiles(ledger)
                    THEN [row EXCEPT !.added = 0, !.known = TRUE] ELSE row]
           b  == Store!BatchOf(n, id)
<1>1. /\ p.files \subseteq FileRows /\ IsFiniteSet(p.files) /\ IsFiniteSet(p.orders)
      /\ Cardinality(p.orders) = SumOf(AddedIn, p.files)
  BY DEF LoopFits, PreviewRecords
<1>2. /\ b.id = id /\ b.files = {m[row] : row \in p.files}
      /\ b.added = Cardinality(Store!NewOrders(n))
      /\ b.duplicates = Store!Total("duplicates", b.files)
                          + (Cardinality(p.orders) - Cardinality(Store!NewOrders(n)))
  BY StoreCounts DEF Store!BatchOf
<1>3. ASSUME NEW row \in p.files
      PROVE  /\ m[row] \in FileRows /\ m[row].file = row.file
             /\ m[row].accepted = row.accepted /\ m[row].duplicates = row.duplicates
  BY <1>1 DEF FileRows
<1> HIDE DEF m, b
<1>4. ASSUME NEW x \in p.files, NEW y \in p.files, m[x] = m[y] PROVE x = y
  <2>1. x.file = y.file /\ x.duplicates = y.duplicates
    BY <1>3, <1>4
  <2>2. /\ x.accepted = y.accepted /\ x.known = y.known
        /\ x.accepted = x.added + x.duplicates /\ y.accepted = y.added + y.duplicates
    <3>1. x.known \in BOOLEAN /\ y.known \in BOOLEAN
      BY <1>1 DEF FileRows
    <3>2. /\ x.accepted = Cardinality(Store!Parsed[x.file]) /\ x.accepted = x.added + x.duplicates
          /\ x.known <=> x.file \in seen
      BY DEF LoopFits
    <3>3. /\ y.accepted = Cardinality(Store!Parsed[y.file]) /\ y.accepted = y.added + y.duplicates
          /\ y.known <=> y.file \in seen
      BY DEF LoopFits
    <3>4. QED
      BY <2>1, <3>1, <3>2, <3>3
  <2>3. x \in FileRows /\ y \in FileRows
    BY <1>1
  <2>4. x.added = y.added
    <3>1. x.added \in Nat /\ y.added \in Nat /\ x.duplicates \in Nat
      BY <2>3 DEF FileRows
    <3>2. x.added + x.duplicates = y.added + x.duplicates
      BY <2>1, <2>2
    <3>3. QED
      BY <3>1, <3>2
  <2>5. QED
    BY <2>1, <2>2, <2>3, <2>4 DEF FileRows
<1>5. \A r \in FileRows :
        /\ AddedIn[r] = r.added /\ AcceptedIn[r] = r["accepted"] /\ DuplicatesIn[r] = r["duplicates"]
        /\ r.added \in Nat /\ r["accepted"] \in Nat /\ r["duplicates"] \in Nat
  BY DEF FileRows, AddedIn, AcceptedIn, DuplicatesIn
<1>6. b.files \subseteq FileRows /\ IsFiniteSet(b.files)
  BY <1>1, <1>2, <1>3, ImageIsFinite
<1>7. /\ Store!Total("accepted", b.files) = SumOf(AcceptedIn, b.files)
      /\ Store!Total("duplicates", b.files) = SumOf(DuplicatesIn, b.files)
  BY <1>5, <1>6, TotalIsSum
<1>8. SumOf(AcceptedIn, b.files) = SumOf(AcceptedIn, p.files)
  <2>1. \A x \in p.files : AcceptedIn[x] \in Nat /\ AcceptedIn[m[x]] = AcceptedIn[x]
    BY <1>1, <1>3, <1>5
  <2>2. QED
    BY <1>1, <1>2, <1>4, <2>1, SumOfImage
<1>9. SumOf(DuplicatesIn, b.files) = SumOf(DuplicatesIn, p.files)
  <2>1. \A x \in p.files : DuplicatesIn[x] \in Nat /\ DuplicatesIn[m[x]] = DuplicatesIn[x]
    BY <1>1, <1>3, <1>5
  <2>2. QED
    BY <1>1, <1>2, <1>4, <2>1, SumOfImage
<1>10. SumOf(AcceptedIn, p.files) = SumOf(AddedIn, p.files) + SumOf(DuplicatesIn, p.files)
  <2>1. \A x \in p.files : /\ AddedIn[x] \in Nat /\ DuplicatesIn[x] \in Nat
                           /\ AcceptedIn[x] = AddedIn[x] + DuplicatesIn[x]
    <3>1. \A x \in p.files : x.accepted = x.added + x.duplicates
      BY DEF LoopFits
    <3>2. QED
      BY <1>1, <1>5, <3>1
  <2>2. QED
    BY <1>1, <2>1, SumOfSums
<1>11. /\ SumOf(AddedIn, p.files) \in Nat /\ SumOf(DuplicatesIn, p.files) \in Nat
       /\ Cardinality(Store!NewOrders(n)) \in Nat
  <2>1. \A x \in p.files : AddedIn[x] \in Nat /\ DuplicatesIn[x] \in Nat
    BY <1>1, <1>5
  <2>2. IsFiniteSet(Store!NewOrders(n))
    BY <1>1, FS_Subset DEF Store!NewOrders
  <2>3. QED
    BY <1>1, <2>1, <2>2, SumIsNat, FS_CardinalityType
<1> HIDE DEF p
<1>12. b.added + b.duplicates = Store!Total("accepted", b.files)
  BY <1>1, <1>2, <1>7, <1>8, <1>9, <1>10, <1>11
<1>13. QED
  BY <1>2, <1>12 DEF b

----------------------------------------------------------------------------
(***************************************************************************)
(* The ledger of the order store.                                          *)
(***************************************************************************)

StoredPreviews == [p : PreviewRecords, valid : BOOLEAN]
Secrets == 1..storeMinted

\* An upload under way knows secrets that were made.
UploadFits(u, made) ==
  u \in [files : OrderUploads, at : {"parse", "empty", "fill"}, met : SUBSET (1..made),
         known : {u.known}, keys : {u.keys}]

StoreTypes ==
  /\ previews \in Seq(StoredPreviews)
  /\ DOMAIN upload = Tabs /\ \A t \in Tabs : upload[t] # None => UploadFits(upload[t], storeMinted)
  /\ storeMinted \in Nat /\ storeSecret \in 0..storeMinted
  /\ storeBatches \in Nat
  /\ \A b \in ledger.batches : b.id \in Nat /\ b.id <= storeBatches
  /\ holder # None => holder \in Store!Holders
  /\ DOMAIN writing = Store!Writers

PreviewFits(p, made) ==
  \E seen, taken, under, met :
    LoopFits(p, seen, taken, under, met) /\ met \subseteq 1..made

PreviewsFit == \A k \in DOMAIN previews : PreviewFits(previews[k].p, storeMinted)

\* The ledger has a key once, under a secret there was, with the order's own amount and
\* under its batch.
LedgerFits ==
  /\ IsFiniteSet(ledger.orders) /\ KeysOnce(ledger.orders)
  /\ \A o \in ledger.orders :
       OwnAmount(o) /\ o.key = <<o.key[1], o.number>> /\ o.key[1] \in Secrets
  /\ Store!EveryOrderCounted /\ Store!BatchesOwnTheirOrders

\* The store writes while it holds the flock.
WriterFits == writing["store"] # "no" => holder # None /\ holder.step = "write"

OfLedger == Store!Whole(Store!DailyRecords(ledger.orders, Blank))

\* Unless the importer runs: nobody else writes, what the store has open is .tmp, and the
\* snapshot is that of the ledger when nothing is left to write and no write has failed.
SnapshotFits ==
  \/ direct
  \/ /\ writing["direct"] = "no"
     /\ writing["store"] \in {"no", "temp", "filled"}
     /\ writing["store"] = "temp" => temp = Store!EmptyFile
     /\ writing["store"] = "filled" => temp = OfLedger
     /\ (holder = None \/ holder.step = "unlink") /\ ~storeFailed =>
          \/ storeSnapshot = OfLedger
          \/ storeSnapshot = Store!Absent /\ ledger.orders = {}

StoreInv == StoreTypes /\ PreviewsFit /\ LedgerFits /\ WriterFits /\ SnapshotFits

LEMMA StoreInitial == Store!Init => StoreInv
<1> SUFFICES ASSUME Store!Init PROVE StoreInv
  OBVIOUS
<1> USE DEF Store!Init
<1>1. ledger.orders = {} /\ ledger.batches = {}
  OBVIOUS
<1>2. StoreTypes /\ PreviewsFit
  BY <1>1 DEF StoreTypes, PreviewsFit
<1>3. LedgerFits
  BY <1>1, FS_EmptySet DEF LedgerFits, KeysOnce, Store!EveryOrderCounted, Store!BatchesOwnTheirOrders
<1>4. WriterFits /\ SnapshotFits
  BY <1>1 DEF WriterFits, SnapshotFits, Store!Writers
<1>5. QED
  BY <1>2, <1>3, <1>4 DEF StoreInv

LEMMA InSequence ==
  ASSUME NEW S, NEW m, NEW n \in Nat, m = [k \in 1..n |-> m[k]], \A k \in 1..n : m[k] \in S
  PROVE  m \in Seq(S)
  OBVIOUS

\* Previews of which one was withdrawn.
Withdrawn(marked) == \E n : marked = [previews EXCEPT ![n].valid = FALSE]

LEMMA PreviewMarked ==
  ASSUME StoreTypes, NEW marked, Withdrawn(marked)
  PROVE  /\ marked \in Seq(StoredPreviews) /\ DOMAIN marked = DOMAIN previews
         /\ \A k \in DOMAIN previews : marked[k].p = previews[k].p
<1>a. PICK n : marked = [previews EXCEPT ![n].valid = FALSE]
  BY DEF Withdrawn
<1>0. PICK v \in BOOLEAN : marked = [previews EXCEPT ![n].valid = v]
  BY <1>a, Zenon
<1>1. previews \in Seq(StoredPreviews)
  BY DEF StoreTypes
<1>2. \A k \in DOMAIN previews : previews[k] \in StoredPreviews
  BY <1>1
<1>3. marked = [k \in DOMAIN previews |->
                  IF k = n THEN [previews[k] EXCEPT !.valid = v] ELSE previews[k]]
  BY <1>0
<1>4. ASSUME NEW k \in DOMAIN previews
      PROVE  marked[k] \in StoredPreviews /\ marked[k].p = previews[k].p
  <2>1. previews[k] = [p |-> previews[k].p, valid |-> previews[k].valid]
    BY <1>2 DEF StoredPreviews
  <2>2. previews[k].p \in PreviewRecords
    BY <1>2 DEF StoredPreviews
  <2> DEFINE old == previews[k]
             r == [old EXCEPT !.valid = v]
  <2>3. r = [p |-> old.p, valid |-> v]
    <3> HIDE DEF old
    <3>1. QED
      BY <2>1 DEF old
  <2>4. r \in StoredPreviews /\ r.p = old.p
    BY <2>2, <2>3 DEF StoredPreviews
  <2>5. CASE k = n
    BY <1>3, <2>4, <2>5
  <2>6. CASE k # n
    BY <1>2, <1>3, <2>6
  <2>7. QED
    BY <2>5, <2>6
<1>5. DOMAIN marked = 1..Len(previews) /\ DOMAIN previews = 1..Len(previews) /\ Len(previews) \in Nat
  BY <1>1, <1>3
<1>6. marked = [k \in 1..Len(previews) |-> marked[k]]
  BY <1>3, <1>5
<1>7. \A k \in 1..Len(previews) : marked[k] \in StoredPreviews
  BY <1>4, <1>5
<1>8. marked \in Seq(StoredPreviews)
  BY <1>5, <1>6, <1>7, InSequence
<1>9. QED
  BY <1>4, <1>5, <1>8

\* A secret more takes nothing from the previews.
LEMMA MoreSecrets ==
  ASSUME storeMinted \in Nat, storeMinted' \in Nat, storeMinted <= storeMinted',
         NEW p, PreviewFits(p, storeMinted)
  PROVE  PreviewFits(p, storeMinted')
<1>1. \A n \in 1..storeMinted : n \in 1..storeMinted'
  OBVIOUS
<1>2. QED
  BY <1>1 DEF PreviewFits

\* The ledger is written: what is left to do is the snapshot.
LEMMA LedgerWritten ==
  ASSUME StoreInv, NEW led, NEW n \in Nat, Store!WriteLedger(led, n)
  PROVE  /\ holder' \in Store!Holders /\ WriterFits' /\ SnapshotFits'
         /\ UNCHANGED <<previews, upload, storeSecret, storeMinted, writing>>
<1>1. /\ holder = None /\ holder' = [step |-> "open", token |-> n]
      /\ UNCHANGED <<previews, upload, storeSecret, storeMinted, writing, temp, direct,
                     storeSnapshot, storeFailed>>
  BY DEF Store!WriteLedger, Store!uploadVars, Store!fileVars
<1>2. holder' \in Store!Holders /\ holder' # None /\ holder'.step = "open"
  BY <1>1, InstancesAssumption DEF Store!Holders, Store!StoreAssumption
<1>3. writing["store"] = "no"
  BY <1>1 DEF StoreInv, WriterFits
<1>4. WriterFits' /\ SnapshotFits'
  BY <1>1, <1>2, <1>3 DEF StoreInv, WriterFits, SnapshotFits
<1>5. QED
  BY <1>1, <1>2, <1>4

LEMMA CommitKeepsStore ==
  ASSUME StoreInv, NEW n \in DOMAIN previews, Store!CommitPreview(n)
  PROVE  StoreInv'
<1> DEFINE id   == storeBatches + 1
           new  == Store!NewOrders(n)
           b    == Store!BatchOf(n, id)
           mine == Assigned(new, id)
<1> USE DEF StoreInv
<1>0. PICK led : Store!WriteLedger(led, n) /\ led = [batches |-> ledger.batches \cup {b},
                                                     orders  |-> ledger.orders \cup mine]
  BY DEF Store!CommitPreview, Assigned
<1>1. /\ ledger'.batches = ledger.batches \cup {b}
      /\ ledger'.orders = ledger.orders \cup mine
      /\ storeBatches' = id
  BY <1>0 DEF Store!CommitPreview, Store!WriteLedger
<1>2. PICK seen, taken, under, met :
        LoopFits(previews[n].p, seen, taken, under, met) /\ met \subseteq Secrets
  BY DEF PreviewsFit, PreviewFits, Secrets
<1>3. /\ new \subseteq previews[n].p.orders
      /\ \A o \in new : o.key \notin Store!Keys(ledger.orders)
  BY DEF Store!NewOrders
<1>4. /\ new \in SUBSET Candidates /\ IsFiniteSet(new) /\ KeysOnce(new)
      /\ \A o \in new : o.key[1] \in Secrets
  BY <1>2, <1>3, FS_Subset DEF LoopFits, KeysOnce, PreviewRecords
<1>5. b.id = id /\ b.added = Cardinality(new) /\ b.added + b.duplicates = Store!Total("accepted", b.files)
  BY <1>2, BatchAddsUp
<1>6. n \in Nat /\ holder' \in Store!Holders
      /\ UNCHANGED <<previews, upload, storeSecret, storeMinted, writing>>
      /\ WriterFits' /\ SnapshotFits'
  <2>1. n \in Nat
    BY DEF StoreTypes
  <2>2. QED
    BY <1>0, <2>1, LedgerWritten
<1> HIDE DEF new, b
<1>7. /\ IsFiniteSet(mine) /\ KeysOnce(mine) /\ Cardinality(mine) = Cardinality(new)
      /\ \A q \in mine : /\ q.batch = id /\ OwnAmount(q) /\ q.key = <<q.key[1], q.number>>
                         /\ \E o \in new : q.key = o.key
  BY <1>4, OrdersAssigned
<1>8. id \in Nat /\ \A c \in ledger.batches : c.id \in Nat /\ c.id < id
  BY DEF StoreTypes
<1> HIDE DEF mine, id
<1>9. StoreTypes'
  <2>1. \A c \in ledger'.batches : c.id \in Nat /\ c.id <= id
    BY <1>1, <1>5, <1>8
  <2>2. QED
    BY <1>1, <1>6, <1>8, <2>1 DEF StoreTypes, UploadFits, Secrets
<1>10. PreviewsFit'
  BY <1>6 DEF PreviewsFit
<1>11. KeysOnce(ledger'.orders)
  BY <1>1, <1>3, <1>7 DEF KeysOnce, LedgerFits, Store!Keys
<1>12. /\ IsFiniteSet(ledger'.orders)
       /\ \A o \in ledger'.orders :
            OwnAmount(o) /\ o.key = <<o.key[1], o.number>> /\ o.key[1] \in Secrets'
  <2>1. IsFiniteSet(ledger.orders) /\ IsFiniteSet(mine)
    BY <1>7 DEF LedgerFits
  <2>2. IsFiniteSet(ledger.orders \cup mine)
    BY <2>1, FS_Union
  <2>3. Secrets' = Secrets
    BY <1>6 DEF Secrets
  <2>4. QED
    BY <1>1, <1>4, <1>7, <2>2, <2>3 DEF LedgerFits
<1>13. Store!EveryOrderCounted'
  BY <1>1, <1>5 DEF LedgerFits, Store!EveryOrderCounted
<1>14. Store!BatchesOwnTheirOrders'
  <2>1. ASSUME NEW o \in ledger.orders PROVE \E c \in ledger.batches : o.batch = c.id
    BY DEF LedgerFits, Store!BatchesOwnTheirOrders
  <2>2. \A o \in ledger.orders : o.batch # id
    BY <1>8, <2>1
  <2>3. \A o \in ledger'.orders : \E c \in ledger'.batches : o.batch = c.id
    BY <1>1, <1>5, <1>7, <2>1
  <2>4. {o \in ledger'.orders : o.batch = id} = mine
    BY <1>1, <1>7, <2>2
  <2>5. ASSUME NEW c \in ledger.batches
        PROVE  {o \in ledger'.orders : o.batch = c.id} = {o \in ledger.orders : o.batch = c.id}
    BY <1>1, <1>7, <1>8
  <2>6. ASSUME NEW c \in ledger'.batches
        PROVE  Cardinality({o \in ledger'.orders : o.batch = c.id}) = c.added
    <3>1. CASE c = b
      BY <1>5, <1>7, <2>4, <3>1
    <3>2. CASE c \in ledger.batches
      BY <2>5, <3>2, StoreCounts DEF LedgerFits, Store!BatchesOwnTheirOrders
    <3>3. QED
      BY <1>1, <3>1, <3>2
  <2>7. QED
    BY <2>3, <2>6, StoreCounts DEF Store!BatchesOwnTheirOrders
<1>15. QED
  BY <1>6, <1>9, <1>10, <1>11, <1>12, <1>13, <1>14 DEF LedgerFits

LEMMA DeleteKeepsStore ==
  ASSUME StoreInv, NEW id, Store!DeleteBatch(id)
  PROVE  StoreInv'
<1> USE DEF StoreInv
<1>1. /\ ledger'.batches = {b \in ledger.batches : b.id # id}
      /\ ledger'.orders = {o \in ledger.orders : o.batch # id}
      /\ UNCHANGED storeBatches
  BY DEF Store!DeleteBatch, Store!WriteLedger
<1>2. /\ holder' \in Store!Holders /\ WriterFits' /\ SnapshotFits'
      /\ UNCHANGED <<previews, upload, storeSecret, storeMinted, writing>>
  BY LedgerWritten DEF Store!DeleteBatch
<1>3. StoreTypes' /\ PreviewsFit' /\ Secrets' = Secrets
  BY <1>1, <1>2 DEF StoreTypes, PreviewsFit, UploadFits, Secrets
<1>4. IsFiniteSet(ledger'.orders)
  <2>1. IsFiniteSet(ledger.orders) /\ ledger'.orders \in SUBSET ledger.orders
    BY <1>1 DEF LedgerFits
  <2>2. QED
    BY <2>1, FS_Subset
<1>5. /\ KeysOnce(ledger'.orders)
      /\ \A o \in ledger'.orders :
           OwnAmount(o) /\ o.key = <<o.key[1], o.number>> /\ o.key[1] \in Secrets'
  BY <1>1, <1>3 DEF LedgerFits, KeysOnce
<1>6. Store!EveryOrderCounted'
  BY <1>1 DEF LedgerFits, Store!EveryOrderCounted
<1>7. Store!BatchesOwnTheirOrders'
  <2>1. ASSUME NEW c \in ledger'.batches
        PROVE  {o \in ledger'.orders : o.batch = c.id} = {o \in ledger.orders : o.batch = c.id}
    BY <1>1
  <2>2. ASSUME NEW o \in ledger'.orders PROVE \E c \in ledger'.batches : o.batch = c.id
    <3>1. PICK c \in ledger.batches : o.batch = c.id
      BY <1>1 DEF LedgerFits, Store!BatchesOwnTheirOrders
    <3>2. QED
      BY <1>1, <3>1
  <2>3. QED
    BY <1>1, <2>1, <2>2 DEF LedgerFits, Store!BatchesOwnTheirOrders
<1>8. QED
  BY <1>2, <1>3, <1>4, <1>5, <1>6, <1>7 DEF LedgerFits

LEMMA UploadChanged ==
  ASSUME NEW u, NEW old \in Nat, NEW new \in Nat, old <= new, UploadFits(u, old),
         NEW at \in {"parse", "empty", "fill"}, NEW met, met \subseteq 1..new
  PROVE  /\ UploadFits([u EXCEPT !.at = at], new)
         /\ UploadFits([u EXCEPT !.met = met], new)
         /\ UploadFits([u EXCEPT !.at = at, !.met = met], new)
<1> DEFINE F(a, m) == [files : OrderUploads, at : {a}, met : {m}, known : {u.known}, keys : {u.keys}]
<1>1. u \in F(u.at, u.met) /\ u.at \in {"parse", "empty", "fill"} /\ u.met \subseteq 1..old
  BY DEF UploadFits
<1>2. u.met \subseteq 1..new
  BY <1>1
<1>3. ASSUME NEW v, NEW a \in {"parse", "empty", "fill"}, NEW m, m \subseteq 1..new, v \in F(a, m)
      PROVE  UploadFits(v, new)
  BY <1>3 DEF UploadFits
<1>4. /\ [u EXCEPT !.at = at] \in F(at, u.met)
      /\ [u EXCEPT !.met = met] \in F(u.at, met)
      /\ [u EXCEPT !.at = at, !.met = met] \in F(at, met)
  BY <1>1
<1> HIDE DEF F
<1>5. QED
  BY <1>1, <1>2, <1>3, <1>4

\* What an upload does: it reads, it looks for the secret and makes one, it stores.
LEMMA UploadKeepsStore ==
  ASSUME StoreInv, NEW t \in Tabs,
         \/ Store!ReadLedger(t) \/ Store!FindSecret(t) \/ Store!FindNone(t)
         \/ Store!EmptySecret(t) \/ Store!FillSecret(t) \/ Store!StorePreview(t)
  PROVE  StoreInv'
<1> USE DEF StoreInv
<1>1. UNCHANGED <<ledger, storeBatches, holder, storeFailed, storeSnapshot, temp, writing, direct>>
  BY DEF Store!ReadLedger, Store!FindSecret, Store!FindNone, Store!EmptySecret, Store!FillSecret,
         Store!StorePreview, Store!ledgerVars, Store!fileVars
<1>2. WriterFits' /\ SnapshotFits'
  BY <1>1 DEF WriterFits, SnapshotFits, OfLedger
<1>3. /\ storeMinted' \in Nat /\ storeMinted <= storeMinted' /\ storeSecret' \in 0..storeMinted'
      /\ Secrets \subseteq Secrets'
  BY DEF StoreTypes, Store!ReadLedger, Store!FindSecret, Store!FindNone, Store!EmptySecret,
         Store!FillSecret, Store!StorePreview, Secrets
<1>4. LedgerFits'
  BY <1>1, <1>3 DEF LedgerFits, Store!EveryOrderCounted, Store!BatchesOwnTheirOrders
<1>5. SUFFICES /\ previews' \in Seq(StoredPreviews) /\ PreviewsFit'
               /\ DOMAIN upload' = Tabs
               /\ \A s \in Tabs \ {t} : upload'[s] = upload[s]
               /\ upload'[t] # None => UploadFits(upload'[t], storeMinted')
  <2>1. ASSUME NEW s \in Tabs, upload'[s] = upload[s], upload[s] # None PROVE UploadFits(upload'[s], storeMinted')
    BY <1>3, <2>1 DEF StoreTypes, UploadFits, Secrets
  <2>2. StoreTypes'
    BY <1>1, <1>3, <1>5, <2>1 DEF StoreTypes
  <2>3. QED
    BY <1>2, <1>4, <1>5, <2>2
<1>6. ASSUME UNCHANGED previews PROVE previews' \in Seq(StoredPreviews) /\ PreviewsFit'
  BY <1>3, <1>6, MoreSecrets DEF StoreTypes, PreviewsFit
<1>7. CASE Store!ReadLedger(t)
  <2>1. PICK brought \in OrderUploads :
          upload' = [upload EXCEPT ![t] = [files |-> brought, at |-> "parse", met |-> {},
                                           known |-> Store!KnownFiles(ledger),
                                           keys  |-> Store!Keys(ledger.orders)]]
    BY <1>7 DEF Store!ReadLedger
  <2>2. UNCHANGED previews
    BY <1>7 DEF Store!ReadLedger
  <2>3. UploadFits(upload'[t], storeMinted')
    BY <2>1 DEF StoreTypes, UploadFits
  <2>4. QED
    BY <1>6, <2>1, <2>2, <2>3 DEF StoreTypes
<1>8. ASSUME NEW v, UploadFits(v, storeMinted'), UNCHANGED previews, upload' = [upload EXCEPT ![t] = v]
      PROVE  /\ previews' \in Seq(StoredPreviews) /\ PreviewsFit' /\ DOMAIN upload' = Tabs
             /\ \A s \in Tabs \ {t} : upload'[s] = upload[s]
             /\ UploadFits(upload'[t], storeMinted')
  BY <1>6, <1>8 DEF StoreTypes
<1>9. CASE Store!FindSecret(t)
  <2> DEFINE met == upload[t].met \cup {storeSecret}
             v == [upload[t] EXCEPT !.met = met]
  <2>1. /\ UploadFits(upload[t], storeMinted) /\ UNCHANGED <<previews, storeMinted>>
        /\ storeSecret \in Secrets
    BY <1>9 DEF Store!FindSecret, Store!At, StoreTypes, Secrets
  <2>2. upload' = [upload EXCEPT ![t] = v]
    BY <1>9 DEF Store!FindSecret
  <2>3. met \subseteq 1..storeMinted'
    BY <1>3, <2>1 DEF UploadFits, Secrets
  <2> HIDE DEF met
  <2>4. UploadFits(v, storeMinted')
    BY <1>3, <2>1, <2>3, UploadChanged DEF StoreTypes
  <2>5. QED
    BY <1>8, <2>1, <2>2, <2>4
<1>10. CASE Store!FindNone(t) \/ Store!EmptySecret(t)
  <2>1. PICK at \in {"parse", "empty", "fill"} : upload' = [upload EXCEPT ![t] = [upload[t] EXCEPT !.at = at]]
    BY <1>10 DEF Store!FindNone, Store!EmptySecret
  <2>2. UploadFits(upload[t], storeMinted) /\ UNCHANGED previews
    BY <1>10 DEF Store!FindNone, Store!EmptySecret, Store!At, StoreTypes
  <2>3. {} \subseteq 1..storeMinted'
    OBVIOUS
  <2>4. UploadFits([upload[t] EXCEPT !.at = at], storeMinted')
    BY <1>3, <2>2, <2>3, UploadChanged DEF StoreTypes
  <2>5. QED
    BY <1>8, <2>1, <2>2, <2>4
<1>11. CASE Store!FillSecret(t)
  <2> DEFINE met == upload[t].met \cup {storeMinted'}
             v == [upload[t] EXCEPT !.at = "parse", !.met = met]
  <2>1. UploadFits(upload[t], storeMinted) /\ UNCHANGED previews /\ storeMinted' = storeMinted + 1
    BY <1>11 DEF Store!FillSecret, Store!At, StoreTypes
  <2>2. upload' = [upload EXCEPT ![t] = v]
    BY <1>11 DEF Store!FillSecret
  <2>3. met \subseteq 1..storeMinted'
    <3>1. storeMinted' \in Secrets'
      BY <1>3, <2>1 DEF StoreTypes, Secrets
    <3>2. QED
      BY <1>3, <2>1, <3>1 DEF UploadFits, Secrets
  <2> HIDE DEF met
  <2>4. UploadFits(v, storeMinted')
    BY <1>3, <2>1, <2>3, UploadChanged DEF StoreTypes
  <2>5. QED
    BY <1>8, <2>1, <2>2, <2>4
<1>12. CASE Store!StorePreview(t)
  <2> DEFINE u == upload[t]
  <2>1. PICK under \in Store!Lookups(u) :
          previews' = Append(previews,
            [p |-> Store!PreviewOf(u.files, u.known, u.keys, under), valid |-> TRUE])
    BY <1>12 DEF Store!StorePreview
  <2> DEFINE p == Store!PreviewOf(u.files, u.known, u.keys, under)
  <2>2. u # None /\ UploadFits(u, storeMinted) /\ upload' = [upload EXCEPT ![t] = None] /\ UNCHANGED storeMinted
    BY <1>12 DEF Store!StorePreview, Store!At, StoreTypes
  <2>3. u.files \in Seq(Store!FileNames) /\ u.met \subseteq Secrets /\ u.met \subseteq Nat
    BY <2>2, InstancesAssumption DEF UploadFits, Store!StoreAssumption, Secrets
  <2>4. under \in [Store!ToDigest(u) -> u.met]
    BY DEF Store!Lookups
  <2> HIDE DEF u
  <2>5. ASSUME NEW i \in 1..Len(u.files) PROVE LookedUp(u.files[i], u.known, under, u.met)
    <3>1. SUFFICES ASSUME u.files[i] \notin u.known, NEW o \in Store!Parsed[u.files[i]]
                   PROVE  <<u.files[i], o>> \in Store!ToDigest(u)
      BY <2>4 DEF LookedUp
    <3>2. u.files[i] \in Store!ToSet(u.files)
      BY <2>3 DEF Store!ToSet
    <3>3. QED
      BY <3>1, <3>2 DEF Store!ToDigest
  <2>6. LoopFits(p, u.known, u.keys, under, u.met)
    BY <2>3, <2>5, PreviewMade
  <2>7. PreviewFits(p, storeMinted)
    BY <2>3, <2>6 DEF PreviewFits, Secrets
  <2> HIDE DEF p
  <2>8. [p |-> p, valid |-> TRUE] \in StoredPreviews
    BY <2>6 DEF LoopFits, StoredPreviews
  <2>9. previews \in Seq(StoredPreviews) /\ previews' = Append(previews, [p |-> p, valid |-> TRUE])
    BY <2>1 DEF StoreTypes, p
  <2>10. PreviewsFit'
    <3>1. ASSUME NEW k \in DOMAIN previews'
          PROVE  \/ k \in DOMAIN previews /\ previews'[k] = previews[k]
                 \/ previews'[k].p = p
      BY <2>8, <2>9
    <3>2. QED
      BY <2>2, <2>7, <3>1 DEF PreviewsFit
  <2>11. QED
    BY <2>2, <2>8, <2>9, <2>10 DEF StoreTypes
<1>13. QED
  BY <1>7, <1>9, <1>10, <1>11, <1>12

\* Steps that leave the ledger and the uploads alone.
LEMMA FilesKeepStore ==
  ASSUME StoreInv, UNCHANGED <<ledger, upload, storeSecret, storeMinted, storeBatches>>,
         UNCHANGED previews \/ Withdrawn(previews'),
         DOMAIN writing' = Store!Writers, holder' # None => holder' \in Store!Holders,
         WriterFits', SnapshotFits'
  PROVE  StoreInv'
<1>1. /\ previews' \in Seq(StoredPreviews) /\ DOMAIN previews' = DOMAIN previews
      /\ \A k \in DOMAIN previews : previews'[k].p = previews[k].p
  <2>1. CASE UNCHANGED previews
    BY <2>1 DEF StoreInv, StoreTypes
  <2>2. CASE Withdrawn(previews')
    BY <2>2, PreviewMarked DEF StoreInv
  <2>3. QED
    BY <2>1, <2>2
<1>2. StoreTypes'
  BY <1>1 DEF StoreInv, StoreTypes, UploadFits, Secrets
<1>3. PreviewsFit'
  BY <1>1 DEF StoreInv, PreviewsFit
<1>4. LedgerFits'
  BY DEF StoreInv, LedgerFits, Secrets, Store!EveryOrderCounted, Store!BatchesOwnTheirOrders
<1>5. QED
  BY <1>2, <1>3, <1>4 DEF StoreInv

LEMMA HolderMoves ==
  ASSUME holder # None, holder \in Store!Holders, NEW s \in {"open", "write", "unlink"},
         holder' = [holder EXCEPT !.step = s]
  PROVE  holder' \in Store!Holders /\ holder' # None /\ holder'.step = s
<1>1. holder' \in Store!Holders /\ holder'.step = s
  BY DEF Store!Holders
<1>2. QED
  BY <1>1, InstancesAssumption DEF Store!StoreAssumption

LEMMA StoreStep == StoreInv /\ [Store!Next]_storeVars => StoreInv'
<1> SUFFICES ASSUME StoreInv, [Store!Next]_storeVars PROVE StoreInv'
  OBVIOUS
<1> USE DEF Store!uploadVars, Store!ledgerVars, Store!fileVars
<1>0. StoreTypes /\ WriterFits /\ SnapshotFits
  BY DEF StoreInv
<1>a. OfLedger' = OfLedger \/ ledger' # ledger
  BY DEF OfLedger
<1>1. ASSUME NEW t \in Tabs,
             \/ Store!ReadLedger(t) \/ Store!FindSecret(t) \/ Store!FindNone(t)
             \/ Store!EmptySecret(t) \/ Store!FillSecret(t) \/ Store!StorePreview(t)
      PROVE  StoreInv'
  BY <1>1, UploadKeepsStore
<1>2. ASSUME NEW n \in DOMAIN previews, Store!Expire(n) PROVE StoreInv'
  <2>0. Withdrawn(previews')
    BY <1>2, Zenon DEF Store!Expire, Store!Withdraw, Withdrawn
  <2>1. /\ UNCHANGED <<upload, storeSecret, storeMinted, ledger, storeBatches, holder, storeFailed,
                       storeSnapshot, temp, writing, command, direct>>
    BY <1>2 DEF Store!Expire, Store!Withdraw
  <2>2. WriterFits' /\ SnapshotFits'
    BY <1>0, <1>a, <2>1 DEF WriterFits, SnapshotFits
  <2>3. QED
    BY <1>0, <2>0, <2>1, <2>2, FilesKeepStore DEF StoreTypes
<1>3. ASSUME NEW n \in DOMAIN previews, Store!CommitPreview(n) PROVE StoreInv'
  BY <1>3, CommitKeepsStore
<1>4. ASSUME NEW b \in ledger.batches, Store!DeleteBatch(b.id) PROVE StoreInv'
  BY <1>4, DeleteKeepsStore
<1>5. CASE Store!RemovePreview
  <2>0. UNCHANGED previews \/ Withdrawn(previews')
    <3>1. UNCHANGED previews \/ Store!Withdraw(holder.token)
      BY <1>5 DEF Store!RemovePreview
    <3>2. QED
      BY <3>1, Zenon DEF Store!Withdraw, Withdrawn
  <2>1. /\ UNCHANGED <<upload, storeSecret, storeMinted, ledger, storeBatches, storeFailed,
                       storeSnapshot, temp, writing, command, direct>>
        /\ holder # None /\ holder.step = "unlink" /\ holder' = None
    BY <1>5 DEF Store!RemovePreview, Store!Withdraw, Store!Release
  <2>2. WriterFits' /\ SnapshotFits'
    BY <1>0, <1>a, <2>1 DEF WriterFits, SnapshotFits
  <2>3. QED
    BY <1>0, <2>0, <2>1, <2>2, FilesKeepStore DEF StoreTypes
<1>6. CASE Store!StopBetween
  <2>1. /\ UNCHANGED <<previews, upload, storeSecret, storeMinted, ledger, storeBatches,
                       storeSnapshot, temp, writing, command, direct>>
        /\ holder # None /\ holder.step \in {"open", "unlink"} /\ holder' = None
        /\ storeFailed' = (storeFailed \/ holder.step = "open")
    BY <1>6 DEF Store!StopBetween, Store!Release
  <2>2. WriterFits' /\ SnapshotFits'
    BY <1>0, <1>a, <2>1 DEF WriterFits, SnapshotFits
  <2>3. QED
    BY <1>0, <2>1, <2>2, FilesKeepStore DEF StoreTypes
<1>7. CASE Store!OpenStore
  <2>1. /\ UNCHANGED <<previews, upload, storeSecret, storeMinted, ledger, storeBatches,
                       storeSnapshot, command>>
        /\ holder # None /\ holder' = [holder EXCEPT !.step = "write"]
        /\ direct' = (writing["direct"] # "no") /\ temp' = Store!EmptyFile
        /\ writing' = [writing EXCEPT !["store"] = "temp"]
    BY <1>7 DEF Store!OpenStore, Store!Open
  <2>2. holder' \in Store!Holders /\ holder' # None /\ holder'.step = "write"
    BY <1>0, <2>1, HolderMoves DEF StoreTypes
  <2>3. DOMAIN writing' = Store!Writers /\ writing'["store"] = "temp" /\ writing'["direct"] = writing["direct"]
    BY <1>0, <2>1 DEF StoreTypes, Store!Writers
  <2>4. WriterFits' /\ SnapshotFits'
    BY <2>1, <2>2, <2>3 DEF WriterFits, SnapshotFits
  <2>5. QED
    BY <2>1, <2>2, <2>3, <2>4, FilesKeepStore
<1>8. ASSUME NEW brought, Store!OpenDirect(brought) PROVE StoreInv'
  <2>1. /\ UNCHANGED <<previews, upload, storeSecret, storeMinted, ledger, storeBatches, holder,
                       storeFailed, storeSnapshot>>
        /\ direct' /\ writing' = [writing EXCEPT !["direct"] = "temp"]
    BY <1>8 DEF Store!OpenDirect, Store!Open
  <2>2. DOMAIN writing' = Store!Writers /\ writing'["store"] = writing["store"]
    BY <1>0, <2>1 DEF StoreTypes, Store!Writers
  <2>3. WriterFits' /\ SnapshotFits'
    BY <1>0, <2>1, <2>2 DEF WriterFits, SnapshotFits
  <2>4. QED
    BY <1>0, <2>1, <2>2, <2>3, FilesKeepStore DEF StoreTypes
<1>9. ASSUME NEW w \in Store!Writers, Store!Fill(w) PROVE StoreInv'
  <2>1. /\ UNCHANGED <<previews, upload, storeSecret, storeMinted, ledger, storeBatches, holder,
                       storeFailed, command, direct>>
        /\ writing[w] \in {"temp", "snapshot", "lost"} /\ writing' = [writing EXCEPT ![w] = "filled"]
        /\ writing[w] = "temp" => temp' \in Store!Written(temp, w)
        /\ writing[w] = "temp" => UNCHANGED storeSnapshot
    BY <1>9 DEF Store!Fill
  <2>2. /\ DOMAIN writing' = Store!Writers /\ writing'[w] = "filled"
        /\ \A v \in Store!Writers \ {w} : writing'[v] = writing[v]
    BY <1>0, <2>1 DEF StoreTypes
  <2>3. WriterFits'
    BY <1>0, <2>1, <2>2 DEF WriterFits, Store!Writers
  <2>4. SnapshotFits'
    <3>1. CASE direct
      BY <2>1, <3>1 DEF SnapshotFits
    <3>2. CASE ~direct
      <4>1. w = "store" /\ writing["store"] = "temp" /\ temp = Store!EmptyFile
        BY <1>0, <2>1, <3>2 DEF SnapshotFits, Store!Writers
      <4>2. Store!Written(temp, "store") = {OfLedger}
        BY <4>1 DEF Store!Written, Store!EmptyFile, Store!Records, OfLedger
      <4>3. temp' = OfLedger
        BY <2>1, <4>1, <4>2
      <4>4. QED
        BY <1>0, <1>a, <2>1, <2>2, <3>2, <4>1, <4>3 DEF SnapshotFits, Store!Writers
    <3>3. QED
      BY <3>1, <3>2
  <2>5. QED
    BY <1>0, <2>1, <2>2, <2>3, <2>4, FilesKeepStore DEF StoreTypes
<1>10. ASSUME NEW w \in Store!Writers, Store!Replace(w) PROVE StoreInv'
  <2>1. /\ UNCHANGED <<previews, upload, storeSecret, storeMinted, ledger, storeBatches, direct>>
        /\ writing[w] = "filled" /\ storeSnapshot' = temp
        /\ writing' = [v \in Store!Writers |-> Store!Moved(Store!Closed(w)[v])]
        /\ w = "store" => holder' = [holder EXCEPT !.step = "unlink"]
        /\ w # "store" => UNCHANGED holder
    BY <1>10 DEF Store!Replace
  <2>2. /\ DOMAIN writing' = Store!Writers
        /\ \A v \in Store!Writers : writing'[v] # "no" => writing[v] # "no" /\ v # w
    BY <2>1 DEF Store!Moved, Store!Closed
  <2>3. CASE w = "store"
    <3>1. holder # None /\ holder \in Store!Holders
      BY <1>0, <2>1, <2>3 DEF WriterFits, StoreTypes
    <3>2. holder' \in Store!Holders /\ holder' # None /\ holder'.step = "unlink"
      BY <2>1, <2>3, <3>1, HolderMoves
    <3>3. writing'["store"] = "no"
      BY <2>2, <2>3 DEF Store!Writers
    <3>4. WriterFits'
      BY <3>3 DEF WriterFits
    <3>5. SnapshotFits'
      <4>1. CASE direct
        BY <2>1, <4>1 DEF SnapshotFits
      <4>2. CASE ~direct
        <5>1. writing["direct"] = "no" /\ temp = OfLedger
          BY <1>0, <2>1, <2>3, <4>2 DEF SnapshotFits
        <5>2. writing'["direct"] = "no"
          BY <2>2, <5>1 DEF Store!Writers
        <5>3. QED
          BY <1>a, <2>1, <3>3, <5>1, <5>2 DEF SnapshotFits
      <4>3. QED
        BY <4>1, <4>2
    <3>6. QED
      BY <2>1, <2>2, <3>2, <3>4, <3>5, FilesKeepStore
  <2>4. CASE w # "store"
    <3>1. w = "direct" /\ UNCHANGED holder
      BY <2>1, <2>4 DEF Store!Writers
    <3>2. direct
      BY <1>0, <2>1, <3>1 DEF SnapshotFits
    <3>3. WriterFits' /\ SnapshotFits'
      BY <1>0, <2>1, <2>2, <3>1, <3>2 DEF WriterFits, SnapshotFits, Store!Writers
    <3>4. QED
      BY <1>0, <2>1, <2>2, <3>1, <3>3, FilesKeepStore DEF StoreTypes
  <2>5. QED
    BY <2>3, <2>4
<1>11. ASSUME NEW w \in Store!Writers, Store!StopWriting(w) PROVE StoreInv'
  <2>1. /\ UNCHANGED <<previews, upload, storeSecret, storeMinted, ledger, storeBatches, direct>>
        /\ writing[w] # "no" /\ writing' = Store!Closed(w)
        /\ w = "store" => holder' = None /\ storeFailed'
        /\ w # "store" => UNCHANGED <<holder, storeFailed>>
    BY <1>11 DEF Store!StopWriting, Store!Release
  <2>2. /\ DOMAIN writing' = Store!Writers /\ writing'[w] = "no"
        /\ \A v \in Store!Writers \ {w} : writing'[v] = writing[v]
    BY <2>1 DEF Store!Closed
  <2>3. WriterFits'
    BY <1>0, <2>1, <2>2 DEF WriterFits, Store!Writers
  <2>4. SnapshotFits'
    <3>1. CASE direct
      BY <2>1, <3>1 DEF SnapshotFits
    <3>2. CASE ~direct
      <4>1. w = "store" /\ writing["direct"] = "no"
        BY <1>0, <2>1, <3>2 DEF SnapshotFits, Store!Writers
      <4>2. QED
        BY <2>1, <2>2, <4>1 DEF SnapshotFits, Store!Writers
    <3>3. QED
      BY <3>1, <3>2
  <2>5. QED
    BY <1>0, <2>1, <2>2, <2>3, <2>4, FilesKeepStore DEF StoreTypes
<1>12. CASE UNCHANGED storeVars
  <2>1. WriterFits' /\ SnapshotFits'
    BY <1>0, <1>12, <1>a DEF storeVars, WriterFits, SnapshotFits
  <2>2. QED
    BY <1>0, <1>12, <2>1, FilesKeepStore DEF storeVars, StoreTypes
<1>13. QED
  BY <1>1, <1>2, <1>3, <1>4, <1>5, <1>6, <1>7, <1>8, <1>9, <1>10, <1>11, <1>12 DEF Store!Next

\* The store counts every order once, for any workbooks, uploads and tabs: previews that
\* were overtaken, writes cut off at any step and the command line importer included;
\* a purchase is in the ledger once as long as there was one secret.
THEOREM OrdersAreCounted == ApiSpec => []StoreCountsOnce
<1>1. ApiInit => StoreInv
  BY StoreInitial DEF ApiInit
<1>2. StoreInv /\ [ApiNext]_apiVars => StoreInv'
  <2>1. [ApiNext]_apiVars => [Store!Next]_storeVars
    BY DEF ApiNext, apiVars
  <2>2. QED
    BY <2>1, StoreStep
<1>3. StoreInv => StoreCountsOnce
  <2> SUFFICES ASSUME StoreInv PROVE StoreCountsOnce
    OBVIOUS
  <2>1. Store!AmountCountedOnce
    <3> SUFFICES ASSUME NEW f \in Store!FileNames, NEW i \in Store!Accepted(f),
                        Workbook[f][i].number # Blank
                 PROVE  LET found == {o \in ledger.orders : o.number = <<"no", Workbook[f][i].number>>}
                        IN /\ storeMinted <= 1 => Cardinality(found) <= 1
                           /\ \A o \in found : o.amount = Workbook[f][i].amount
      BY StoreCounts DEF Store!AmountCountedOnce
    <3> DEFINE found == {o \in ledger.orders : o.number = <<"no", Workbook[f][i].number>>}
    <3>1. ASSUME storeMinted <= 1, NEW o \in found, NEW p \in found PROVE o = p
      <4>1. /\ o.key = <<o.key[1], o.number>> /\ p.key = <<p.key[1], p.number>>
            /\ o.key[1] \in Secrets /\ p.key[1] \in Secrets /\ o.number = p.number
        BY DEF StoreInv, LedgerFits
      <4>2. o.key[1] = 1 /\ p.key[1] = 1
        BY <3>1, <4>1 DEF StoreInv, StoreTypes, Secrets
      <4>3. o.key = p.key
        BY <4>1, <4>2
      <4>4. QED
        BY <4>3 DEF StoreInv, LedgerFits, KeysOnce
    <3>2. \A o \in found : o.amount = Workbook[f][i].amount
      BY DEF StoreInv, LedgerFits, OwnAmount
    <3> HIDE DEF found
    <3>3. storeMinted <= 1 => found = {} \/ \E o : found = {o}
      <4>1. ASSUME storeMinted <= 1, NEW o \in found PROVE found = {o}
        BY <3>1, <4>1
      <4>2. QED
        BY <4>1
    <3>4. storeMinted <= 1 => Cardinality(found) <= 1
      <4>1. CASE found = {}
        <5>1. Cardinality(found) = 0
          BY <4>1, FS_EmptySet
        <5>2. QED
          BY <5>1
      <4>2. ASSUME NEW o, found = {o} PROVE Cardinality(found) <= 1
        <5>1. Cardinality(found) = 1
          BY <4>2, FS_Singleton
        <5>2. QED
          BY <5>1
      <4>3. QED
        BY <3>3, <4>1, <4>2
    <3>5. QED
      BY <3>2, <3>4 DEF found
  <2>2. Store!SnapshotTellsLedger
    <3> SUFFICES ASSUME holder = None, ~storeFailed, ~direct
                 PROVE  /\ storeSnapshot.state \in {"absent", "whole"}
                        /\ Store!Total("pay_cnt", storeSnapshot.records) = Cardinality(Store!Keys(ledger.orders))
      BY StoreCounts DEF Store!SnapshotTellsLedger
    <3>1. IsFiniteSet(ledger.orders) /\ KeysOnce(ledger.orders)
      BY DEF StoreInv, LedgerFits
    <3>2. Store!Total("pay_cnt", Store!DailyRecords(ledger.orders, Blank))
            = Cardinality(Store!Keys(ledger.orders))
      BY <3>1, RecordsCount, KeysCount
    <3>3. \/ storeSnapshot = OfLedger
          \/ storeSnapshot = Store!Absent /\ ledger.orders = {}
      BY DEF StoreInv, SnapshotFits
    <3>4. CASE storeSnapshot = OfLedger
      BY <3>2, <3>4 DEF OfLedger, Store!Whole
    <3>5. CASE storeSnapshot = Store!Absent /\ ledger.orders = {}
      <4>1. Store!DailyRecords({}, Blank) = {}
        BY DEF Store!DailyRecords
      <4>2. storeSnapshot.state = "absent" /\ storeSnapshot.records = {}
        BY <3>5 DEF Store!Absent
      <4>3. QED
        BY <3>2, <3>5, <4>1, <4>2
    <3>6. QED
      BY <3>3, <3>4, <3>5
  <2>3. QED
    BY <2>1, <2>2 DEF StoreInv, LedgerFits, StoreCountsOnce
<1>4. QED
  BY <1>1, <1>2, <1>3, PTL DEF ApiSpec
=============================================================================
