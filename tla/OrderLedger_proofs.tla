------------------------- MODULE OrderLedger_proofs -------------------------
(***************************************************************************)
(* Proofs about the order imports, for any workbooks, any previews and any *)
(* number of failed writes and crashes: no key twice, batches that own     *)
(* their orders, a snapshot that tells the ledger, and, as long as there   *)
(* was one secret, no order twice.                                         *)
(***************************************************************************)
EXTENDS OrderLedger, FiniteSetTheorems, TLAPS

\* A preview has digested finitely many orders.
FinitePreviews == \A p \in Previews : IsFiniteSet(keys[p])

\* Batches are numbered in the order of their commits.
Numbered ==
  /\ \A e \in entries : e.batch \in 1..last
  /\ \A b \in batches : b.id \in 1..last

LedgerTypes == TypeOK /\ FinitePreviews /\ Numbered

\* Every key is made under a secret that there was, so with one secret under that.
SecretsMinted ==
  /\ secret <= minted
  /\ \A p \in Previews : \A k \in keys[p] : k[1] <= minted
  /\ \A e \in entries : e.secret <= minted

\* The snapshot is written from the ledger, and the ledger does not change while
\* it waits for its snapshot.
SnapshotIsCurrent ==
  (step \in {"free", "remove preview"} /\ ~stale) => snapshot = DailyRecords(entries)

----------------------------------------------------------------------------
(* Only a commit and an undo touch the ledger.                               *)
LEMMA WhoWritesTheLedger ==
  [Next]_vars => (UNCHANGED ledgerVars \/ Delete \/ \E p \in Previews : Commit(p))
BY DEF Next, vars, PreviewStep, PreviewLoad, Digest, NoSecret, TruncateSecret, WriteSecret,
  StorePreview, CommitExpired, WriteSnapshot, RemovePreview, SnapshotFails, Crash

\* What a commit adds is not in the ledger, and finite.
LEMMA NewKeysAreNew ==
  ASSUME LedgerTypes, NEW p \in Previews
  PROVE  /\ NewKeys(p) \subseteq Keys
         /\ \A k \in NewKeys(p), e \in entries : KeyOf(e) # k
         /\ IsFiniteSet(NewKeys(p)) /\ Cardinality(NewKeys(p)) \in Nat
<1>1. NewKeys(p) \subseteq keys[p] /\ keys[p] \subseteq Keys /\ IsFiniteSet(keys[p])
  BY DEF LedgerTypes, TypeOK, FinitePreviews, NewKeys
<1>2. IsFiniteSet(NewKeys(p))
  BY <1>1, FS_Subset
<1>3. Cardinality(NewKeys(p)) \in Nat
  BY <1>2, FS_CardinalityType
<1>4. \A k \in NewKeys(p), e \in entries : KeyOf(e) # k
  BY DEF NewKeys, KnownKeys
<1>5. QED
  BY <1>1, <1>2, <1>3, <1>4

\* The orders a commit adds, as entries of the ledger.
EntriesOf(ks, n) == {[secret |-> k[1], order |-> k[2], batch |-> n] : k \in ks}

\* The entries of a commit are well typed, under its batch, and as many as its keys.
LEMMA EntriesOfKeys ==
  ASSUME NEW ks \in SUBSET Keys, NEW n \in Nat, IsFiniteSet(ks)
  PROVE  /\ EntriesOf(ks, n) \subseteq Entries
         /\ \A e \in EntriesOf(ks, n) : e.batch = n /\ KeyOf(e) \in ks
         /\ Cardinality(EntriesOf(ks, n)) = Cardinality(ks)
<1>1. \A k \in ks : k \in Keys /\ k = <<k[1], k[2]>> /\ k[1] \in Nat \ {0} /\ k[2] \in Orders
  BY DEF Keys
<1>2. EntriesOf(ks, n) \subseteq Entries
  BY <1>1 DEF EntriesOf, Entries
<1>3. \A e \in EntriesOf(ks, n) : e.batch = n /\ KeyOf(e) \in ks
  BY <1>1 DEF EntriesOf, KeyOf
<1> DEFINE f == [k \in ks |-> [secret |-> k[1], order |-> k[2], batch |-> n]]
<1>4. f \in Bijection(ks, EntriesOf(ks, n))
  <2>1. f \in [ks -> EntriesOf(ks, n)]
    BY DEF EntriesOf
  <2>2. \A j, k \in ks : f[j] = f[k] => j = k
    <3>1. SUFFICES ASSUME NEW j \in ks, NEW k \in ks, f[j] = f[k] PROVE j = k
      OBVIOUS
    <3>2. f[j].secret = j[1] /\ f[j].order = j[2] /\ f[k].secret = k[1] /\ f[k].order = k[2]
      OBVIOUS
    <3>3. j[1] = k[1] /\ j[2] = k[2]
      BY <3>1, <3>2
    <3>4. QED
      BY <1>1, <3>3
  <2>3. \A e \in EntriesOf(ks, n) : \E k \in ks : f[k] = e
    BY DEF EntriesOf
  <2>4. QED
    BY <2>1, <2>2, <2>3 DEF Bijection, Injection, Surjection, IsInjective
<1>5. Cardinality(EntriesOf(ks, n)) = Cardinality(ks)
  BY <1>4, FS_Bijection DEF ExistsBijection
<1>6. QED
  BY <1>2, <1>3, <1>5

\* The ledger after a commit, in terms of its new keys.
LEMMA CommitEffect ==
  ASSUME LedgerTypes, NEW p \in Previews, Commit(p)
  PROVE  /\ last \in Nat /\ last' = last + 1 /\ last' \in 0..MaxBatches
         /\ entries' = entries \cup EntriesOf(NewKeys(p), last')
         /\ batches' = batches \cup
              {[id |-> last', files |-> Upload[p], added |-> Cardinality(NewKeys(p))]}
<1>1. last \in 0..MaxBatches /\ MaxBatches \in Nat
  BY LedgerAssumption DEF LedgerTypes, TypeOK
<1>2. last < MaxBatches /\ last' = last + 1
  BY DEF Commit
<1>3. last \in Nat /\ last' \in 0..MaxBatches
  BY <1>1, <1>2
<1>4. QED
  BY <1>2, <1>3 DEF Commit, EntriesOf

----------------------------------------------------------------------------
(* Types                                                                     *)

\* A step counts at most one failure, and only below the bound.
LEMMA FailuresBounded ==
  ASSUME TypeOK, [Next]_vars
  PROVE  failures' \in 0..MaxFailures
<1>1. failures \in 0..MaxFailures /\ MaxFailures \in Nat
  BY LedgerAssumption DEF TypeOK
<1>2. failures' = failures \/ (failures < MaxFailures /\ failures' = failures + 1)
  BY DEF Next, vars, PreviewStep, PreviewLoad, Digest, NoSecret, TruncateSecret, WriteSecret,
    StorePreview, CommitExpired, Commit, Delete, WriteSnapshot, RemovePreview, SnapshotFails, Crash
<1>3. QED
  BY <1>1, <1>2

\* A digest adds at most one key, under a secret that is not empty.
LEMMA CandidateTypes ==
  ASSUME LedgerTypes, NEW p \in Previews, NEW s \in Nat \ {0}, NEW o \in Orders,
         Candidate(p, s, o)
  PROVE  /\ todo' \in [Previews -> SUBSET Orders]
         /\ known' \in [Previews -> SUBSET Keys]
         /\ keys' \in [Previews -> SUBSET Keys]
         /\ FinitePreviews'
<1> USE DEF LedgerTypes, TypeOK
<1>1. todo' \in [Previews -> SUBSET Orders] /\ known' \in [Previews -> SUBSET Keys]
  BY DEF Candidate
<1>2. <<s, o>> \in Keys
  BY DEF Keys
<1>3. keys' = [keys EXCEPT ![p] = keys[p] \cup ({<<s, o>>} \ known[p])]
  BY DEF Candidate
<1>4. keys' \in [Previews -> SUBSET Keys]
  BY <1>2, <1>3
<1>5. IsFiniteSet(keys[p] \cup ({<<s, o>>} \ known[p]))
  <2>1. IsFiniteSet(keys[p])
    BY DEF FinitePreviews
  <2>2. IsFiniteSet({<<s, o>>} \ known[p])
    <3>1. IsFiniteSet({<<s, o>>})
      BY FS_Singleton
    <3>2. {<<s, o>>} \ known[p] \subseteq {<<s, o>>}
      OBVIOUS
    <3>3. QED
      BY <3>1, <3>2, FS_Subset
  <2>3. QED
    BY <2>1, <2>2, FS_Union
<1>6. FinitePreviews'
  BY <1>3, <1>5 DEF FinitePreviews
<1>7. QED
  BY <1>1, <1>4, <1>6

\* Every step of a preview keeps the types of what previews hold.
LEMMA PreviewTypes ==
  ASSUME LedgerTypes, [Next]_vars
  PROVE  /\ secret' \in Nat /\ minted' \in Nat
         /\ todo' \in [Previews -> SUBSET Orders]
         /\ known' \in [Previews -> SUBSET Keys]
         /\ keys' \in [Previews -> SUBSET Keys]
         /\ FinitePreviews'
<1> USE DEF LedgerTypes, TypeOK
<1>2. CASE \E p \in Previews : PreviewLoad(p)
  <2>1. PICK p \in Previews : PreviewLoad(p)
    BY <1>2
  <2>2. UNION {OrdersIn[f] : f \in Upload[p] \ KnownFiles} \subseteq Orders
    <3>1. Upload[p] \subseteq Files /\ \A f \in Files : OrdersIn[f] \subseteq Orders
      BY LedgerAssumption
    <3> HIDE DEF LedgerTypes, TypeOK
    <3>2. QED
      BY <3>1
  <2>3. KnownKeys \subseteq Keys
    <3>1. \A e \in entries : e.secret \in Nat \ {0} /\ e.order \in Orders
      BY DEF Entries
    <3> HIDE DEF LedgerTypes, TypeOK
    <3>2. \A e \in entries : KeyOf(e) \in Keys
      BY <3>1 DEF KeyOf, Keys
    <3>3. QED
      BY <3>2 DEF KnownKeys
  <2>4. UNCHANGED <<secret, minted, keys>>
    BY <2>1 DEF PreviewLoad, secretVars
  <2>5. todo' \in [Previews -> SUBSET Orders] /\ known' \in [Previews -> SUBSET Keys]
    BY <2>1, <2>2, <2>3 DEF PreviewLoad
  <2>6. QED
    BY <2>4, <2>5 DEF FinitePreviews
<1>3. CASE \E p \in Previews : Digest(p)
  <2>1. PICK p \in Previews : Digest(p)
    BY <1>3
  <2>2. PICK o \in todo[p] : Candidate(p, secret, o)
    BY <2>1 DEF Digest
  <2>3. secret \in Nat \ {0} /\ o \in Orders /\ UNCHANGED <<secret, minted>>
    BY <2>1, <2>2 DEF Digest, secretVars
  <2>4. QED
    BY <2>2, <2>3, CandidateTypes
<1>4. CASE \E p \in Previews : WriteSecret(p)
  <2>1. PICK p \in Previews : WriteSecret(p)
    BY <1>4
  <2>2. PICK o \in todo[p] : Candidate(p, minted', o)
    BY <2>1 DEF WriteSecret
  <2>3. minted' = minted + 1 /\ secret' = minted' /\ minted \in Nat
    BY <2>1 DEF WriteSecret
  <2>4. minted' \in Nat \ {0} /\ secret' \in Nat
    <3> HIDE DEF LedgerTypes, TypeOK
    <3>1. QED
      BY <2>3
  <2> o \in Orders
    BY <2>2
  <2>5. QED
    BY <2>2, <2>4, CandidateTypes
<1>5. CASE \E p \in Previews : TruncateSecret(p)
  <2>1. secret' = 0 /\ UNCHANGED <<minted, todo, known, keys>>
    BY <1>5 DEF TruncateSecret
  <2>2. QED
    BY <2>1 DEF FinitePreviews
<1>6. CASE UNCHANGED <<secretVars, todo, known, keys>>
  BY <1>6 DEF secretVars, FinitePreviews
<1>7. QED
  BY <1>2, <1>3, <1>4, <1>5, <1>6 DEF Next, PreviewStep, NoSecret, StorePreview, CommitExpired,
    Commit, Delete, WriteSnapshot, RemovePreview, SnapshotFails, Crash, vars, previewVars

\* Where calls and writers are after a step.
LEMMA ControlTypes ==
  ASSUME LedgerTypes, [Next]_vars
  PROVE  /\ pc' \in [Previews -> {"idle", "digest", "truncate", "write", "stored", "gone"}]
         /\ step' \in {"free", "commit snapshot", "remove preview", "delete snapshot"}
         /\ target' \in Previews \cup {NoBatch}
         /\ stale' \in BOOLEAN
<1> USE DEF LedgerTypes, TypeOK
<1>1. CASE \E p \in Previews : PreviewStep(p) \/ CommitExpired(p) \/ Commit(p)
  BY <1>1 DEF PreviewStep, PreviewLoad, Digest, NoSecret, TruncateSecret, WriteSecret,
    StorePreview, CommitExpired, Commit, PGoto, previewVars, writeVars
<1>2. CASE Delete \/ WriteSnapshot \/ RemovePreview \/ SnapshotFails \/ Crash \/ UNCHANGED vars
  BY <1>2 DEF Delete, WriteSnapshot, RemovePreview, SnapshotFails, Crash, vars, previewVars, writeVars
<1>3. QED
  BY <1>1, <1>2 DEF Next

\* The ledger after a step: only orders of known batches, only batches so far.
LEMMA LedgerStepTypes ==
  ASSUME LedgerTypes, [Next]_vars
  PROVE  /\ entries' \subseteq Entries /\ batches' \subseteq BatchRecords
         /\ last' \in 0..MaxBatches
         /\ Numbered'
<1> USE DEF LedgerTypes, TypeOK
<1>1. CASE UNCHANGED ledgerVars
  BY <1>1 DEF ledgerVars, Numbered
<1>2. CASE Delete
  BY <1>2 DEF Delete, Numbered
<1>3. CASE \E p \in Previews : Commit(p)
  <2>1. PICK p \in Previews : Commit(p)
    BY <1>3
  <2>2. /\ last \in Nat /\ last' = last + 1 /\ last' \in 0..MaxBatches
        /\ entries' = entries \cup EntriesOf(NewKeys(p), last')
        /\ batches' = batches \cup
             {[id |-> last', files |-> Upload[p], added |-> Cardinality(NewKeys(p))]}
    BY <2>1, CommitEffect
  <2>3. NewKeys(p) \subseteq Keys /\ IsFiniteSet(NewKeys(p)) /\ Cardinality(NewKeys(p)) \in Nat
    BY NewKeysAreNew
  <2>4. last' \in Nat /\ last' \in 1..last' /\ \A n \in 1..last : n \in 1..last'
    <3> HIDE DEF LedgerTypes, TypeOK
    <3>1. last \in Nat /\ last' = last + 1
      BY <2>2
    <3>2. QED
      BY <3>1
  <2>5. /\ EntriesOf(NewKeys(p), last') \subseteq Entries
        /\ \A e \in EntriesOf(NewKeys(p), last') : e.batch = last'
    BY <2>3, <2>4, EntriesOfKeys
  <2>6. [id |-> last', files |-> Upload[p], added |-> Cardinality(NewKeys(p))] \in BatchRecords
    BY <2>3, <2>4, LedgerAssumption DEF BatchRecords
  <2>7. Numbered'
    <3>1. \A e \in entries' : e.batch \in 1..last'
      BY <2>2, <2>4, <2>5 DEF Numbered
    <3>2. \A b \in batches' : b.id \in 1..last'
      <4>1. \A b \in batches : b.id \in 1..last
        BY DEF Numbered
      <4> HIDE DEF LedgerTypes, TypeOK
      <4> DEFINE new == [id |-> last', files |-> Upload[p], added |-> Cardinality(NewKeys(p))]
      <4>2. new.id = last' /\ batches' = batches \cup {new}
        BY <2>2
      <4> HIDE DEF new
      <4>3. QED
        BY <2>4, <4>1, <4>2
    <3>3. QED
      BY <3>1, <3>2 DEF Numbered
  <2>8. QED
    BY <2>2, <2>5, <2>6, <2>7
<1>4. QED
  BY <1>1, <1>2, <1>3, WhoWritesTheLedger

\* The types and the numbering of batches hold initially ...
LEMMA LedgerTypesInit == Init => LedgerTypes
<1>1. SUFFICES ASSUME Init PROVE LedgerTypes
  OBVIOUS
<1>2. TypeOK
  <2>1. secret \in Nat /\ minted \in Nat
    BY <1>1 DEF Init
  <2>2. last \in 0..MaxBatches /\ failures \in 0..MaxFailures
    BY <1>1, LedgerAssumption DEF Init
  <2>3. /\ pc \in [Previews -> {"idle", "digest", "truncate", "write", "stored", "gone"}]
        /\ todo \in [Previews -> SUBSET Orders]
        /\ known \in [Previews -> SUBSET Keys] /\ keys \in [Previews -> SUBSET Keys]
    BY <1>1 DEF Init
  <2>4. /\ entries \subseteq Entries /\ batches \subseteq BatchRecords
        /\ step = "free" /\ target = NoBatch /\ stale = FALSE
    BY <1>1 DEF Init
  <2>5. QED
    BY <2>1, <2>2, <2>3, <2>4 DEF TypeOK
<1>3. FinitePreviews
  BY <1>1, FS_EmptySet DEF Init, FinitePreviews
<1>4. Numbered
  BY <1>1 DEF Init, Numbered
<1>5. QED
  BY <1>2, <1>3, <1>4 DEF LedgerTypes

\* ... and no step breaks them.
LEMMA LedgerTypesStep == LedgerTypes /\ [Next]_vars => LedgerTypes'
<1>1. SUFFICES ASSUME LedgerTypes, [Next]_vars PROVE LedgerTypes'
  OBVIOUS
<1>2. TypeOK
  BY <1>1 DEF LedgerTypes
<1>3. failures' \in 0..MaxFailures
  BY <1>1, <1>2, FailuresBounded
<1>4. TypeOK'
  BY <1>1, <1>3, PreviewTypes, ControlTypes, LedgerStepTypes DEF TypeOK
<1>5. QED
  BY <1>1, <1>4, PreviewTypes, LedgerStepTypes DEF LedgerTypes

THEOREM LedgerTypesHold == Spec => []LedgerTypes
BY LedgerTypesInit, LedgerTypesStep, PTL DEF Spec

\* Calls, previews and the ledger have their types; in particular no key of the
\* ledger or of a preview was ever made under an empty secret.
THEOREM TypeCorrect == Spec => []TypeOK
<1>1. LedgerTypes => TypeOK
  BY DEF LedgerTypes
<1>2. QED
  BY <1>1, LedgerTypesHold, PTL

----------------------------------------------------------------------------
(* No key twice, no order twice                                              *)

\* The keys of a commit meet neither the ledger nor each other.
LEMMA NoDuplicateKeyStep ==
  ASSUME LedgerTypes, NoDuplicateKey, [Next]_vars
  PROVE  NoDuplicateKey'
<1>1. CASE UNCHANGED ledgerVars
  BY <1>1 DEF ledgerVars, NoDuplicateKey
<1>2. CASE Delete
  BY <1>2 DEF Delete, NoDuplicateKey
<1>3. CASE \E p \in Previews : Commit(p)
  <2>1. PICK p \in Previews : Commit(p)
    BY <1>3
  <2>2. entries' = entries \cup EntriesOf(NewKeys(p), last') /\ last' \in Nat
    <3>1. last \in Nat /\ last' = last + 1 /\ entries' = entries \cup EntriesOf(NewKeys(p), last')
      BY <2>1, CommitEffect
    <3>2. QED
      BY <3>1
  <2>3. \A e \in EntriesOf(NewKeys(p), last') : e.batch = last' /\ KeyOf(e) \in NewKeys(p)
    BY <2>2, NewKeysAreNew, EntriesOfKeys
  <2>4. \A d \in entries, e \in EntriesOf(NewKeys(p), last') : KeyOf(d) # KeyOf(e)
    BY <2>3, NewKeysAreNew
  <2>5. \A d, e \in EntriesOf(NewKeys(p), last') : KeyOf(d) = KeyOf(e) => d = e
    BY DEF EntriesOf, KeyOf
  <2>6. QED
    BY <2>2, <2>4, <2>5 DEF NoDuplicateKey
<1>4. QED
  BY <1>1, <1>2, <1>3, WhoWritesTheLedger

\* Whatever is previewed, committed, undone, repeated or interrupted, in any
\* order, no key is in the ledger twice.
THEOREM NoKeyTwice == Spec => []NoDuplicateKey
<1>1. Init => NoDuplicateKey
  BY DEF Init, NoDuplicateKey
<1>2. LedgerTypes /\ NoDuplicateKey /\ [Next]_vars => NoDuplicateKey'
  BY NoDuplicateKeyStep
<1>3. QED
  BY <1>1, <1>2, LedgerTypesHold, PTL DEF Spec

\* Secrets are numbered in the order in which they are made.
LEMMA SecretsStep ==
  ASSUME LedgerTypes, SecretsMinted, [Next]_vars
  PROVE  SecretsMinted'
<1>1. /\ secret \in Nat /\ minted \in Nat /\ keys \in [Previews -> SUBSET Keys]
      /\ entries \subseteq Entries
      /\ secret <= minted
      /\ \A p \in Previews : \A k \in keys[p] : k[1] \in Nat /\ k[1] <= minted
      /\ \A e \in entries : e.secret \in Nat /\ e.secret <= minted
  <2>1. /\ secret \in Nat /\ minted \in Nat /\ keys \in [Previews -> SUBSET Keys]
        /\ entries \subseteq Entries
    BY DEF LedgerTypes, TypeOK
  <2>2. \A p \in Previews : \A k \in keys[p] : k \in Keys
    BY <2>1
  <2>3. (\A k \in Keys : k[1] \in Nat) /\ \A e \in Entries : e.secret \in Nat
    BY DEF Keys, Entries
  <2>4. QED
    BY <2>1, <2>2, <2>3 DEF SecretsMinted
<1>2. CASE \E p \in Previews : Digest(p) \/ WriteSecret(p)
  <2>1. PICK p \in Previews : Digest(p) \/ WriteSecret(p)
    BY <1>2
  <2>2. UNCHANGED entries
    BY <2>1 DEF Digest, WriteSecret, ledgerVars
  <2>3. secret' \in Nat /\ minted' \in Nat /\ minted <= minted' /\ secret' <= minted'
    BY <1>1, <2>1 DEF Digest, WriteSecret, secretVars
  <2>4. PICK o \in todo[p] : Candidate(p, secret', o)
    BY <2>1 DEF Digest, WriteSecret, secretVars
  <2>5. \A q \in Previews : \A k \in keys'[q] : k \in keys[q] \/ k = <<secret', o>>
    BY <1>1, <2>4 DEF Candidate
  <2>6. QED
    BY <1>1, <2>2, <2>3, <2>5 DEF SecretsMinted
<1>3. CASE \E p \in Previews : TruncateSecret(p)
  <2>1. secret' = 0 /\ UNCHANGED <<minted, keys, entries>>
    BY <1>3 DEF TruncateSecret, ledgerVars
  <2>2. QED
    BY <1>1, <2>1 DEF SecretsMinted
<1>4. CASE \E p \in Previews : Commit(p)
  <2>1. PICK p \in Previews : Commit(p)
    BY <1>4
  <2>2. entries' = entries \cup EntriesOf(NewKeys(p), last') /\ UNCHANGED <<secret, minted, keys>>
    BY <2>1, CommitEffect DEF Commit, secretVars, previewVars
  <2>3. \A e \in EntriesOf(NewKeys(p), last') : e.secret <= minted
    BY <1>1 DEF EntriesOf, NewKeys
  <2>4. QED
    BY <1>1, <2>2, <2>3 DEF SecretsMinted
<1>5. CASE Delete
  BY <1>1, <1>5 DEF Delete, SecretsMinted, secretVars, previewVars
<1>6. CASE \/ WriteSnapshot \/ RemovePreview \/ SnapshotFails \/ Crash \/ UNCHANGED vars
           \/ \E p \in Previews : \/ PreviewLoad(p) \/ NoSecret(p) \/ StorePreview(p)
                                  \/ CommitExpired(p)
  <2>1. UNCHANGED <<secret, minted, keys, entries>>
    BY <1>6 DEF WriteSnapshot, RemovePreview, SnapshotFails, Crash, vars, PreviewLoad, NoSecret,
      StorePreview, CommitExpired, secretVars, previewVars, ledgerVars
  <2>2. QED
    BY <1>1, <2>1 DEF SecretsMinted
<1>7. QED
  BY <1>2, <1>3, <1>4, <1>5, <1>6 DEF Next, PreviewStep

\* One secret is number 1, of the orders in the ledger and of those in previews.
LEMMA UnderOneSecret ==
  ASSUME LedgerTypes, SecretsMinted, minted <= 1
  PROVE  /\ \A e \in entries : e.secret = 1
         /\ \A p \in Previews : \A k \in keys[p] : k[1] = 1
<1>1. \A n \in Nat \ {0} : n <= minted => n = 1
  <2>1. minted \in Nat
    BY DEF LedgerTypes, TypeOK
  <2>2. QED
    BY <2>1
<1>2. (\A k \in Keys : k[1] \in Nat \ {0}) /\ \A e \in Entries : e.secret \in Nat \ {0}
  BY DEF Keys, Entries
<1>3. /\ \A e \in entries : e \in Entries /\ e.secret <= minted
      /\ \A p \in Previews : \A k \in keys[p] : k \in Keys /\ k[1] <= minted
  BY DEF LedgerTypes, TypeOK, SecretsMinted
<1>4. QED
  BY <1>1, <1>2, <1>3

\* As long as there was one secret no order is in the ledger twice, not even under
\* two keys.
THEOREM NoOrderTwice == Spec => []NoDuplicateOrderWithSecret
<1>1. Init => SecretsMinted
  BY DEF Init, SecretsMinted
<1>2. LedgerTypes /\ SecretsMinted /\ [Next]_vars => SecretsMinted'
  BY SecretsStep
<1>3. LedgerTypes /\ SecretsMinted /\ NoDuplicateKey => NoDuplicateOrderWithSecret
  <2>1. SUFFICES ASSUME LedgerTypes, SecretsMinted, NoDuplicateKey, minted <= 1
                 PROVE  NoDuplicateOrder
    BY DEF NoDuplicateOrderWithSecret
  <2>2. \A e \in entries : e.secret = 1
    BY <2>1, UnderOneSecret
  <2>3. QED
    BY <2>1, <2>2 DEF NoDuplicateKey, NoDuplicateOrder, KeyOf
<1>4. QED
  BY <1>1, <1>2, <1>3, LedgerTypesHold, NoKeyTwice, PTL DEF Spec

----------------------------------------------------------------------------
(* The snapshot                                                              *)

\* A writer is between its ledger and its snapshot until it has written it.
LEMMA SnapshotStep ==
  ASSUME LedgerTypes, SnapshotIsCurrent, [Next]_vars
  PROVE  SnapshotIsCurrent'
<1>1. CASE \E p \in Previews : PreviewStep(p) \/ CommitExpired(p)
  <2>1. UNCHANGED <<entries, snapshot, step, stale>>
    BY <1>1 DEF PreviewStep, PreviewLoad, Digest, NoSecret, TruncateSecret,
      WriteSecret, StorePreview, CommitExpired, ledgerVars, writeVars
  <2>2. QED
    BY <2>1 DEF SnapshotIsCurrent
<1>2. CASE (\E p \in Previews : Commit(p)) \/ Delete
  BY <1>2 DEF SnapshotIsCurrent, Commit, Delete
<1>3. CASE WriteSnapshot
  BY <1>3 DEF SnapshotIsCurrent, WriteSnapshot, ledgerVars
<1>4. CASE RemovePreview
  BY <1>4 DEF SnapshotIsCurrent, RemovePreview, ledgerVars
<1>5. CASE SnapshotFails
  BY <1>5 DEF SnapshotIsCurrent, SnapshotFails
<1>6. CASE Crash
  <2>1. step \in {"free", "commit snapshot", "remove preview", "delete snapshot"}
    BY DEF LedgerTypes, TypeOK
  <2>2. ~stale' => ~stale /\ step \in {"free", "remove preview"}
    BY <1>6, <2>1 DEF Crash
  <2>3. UNCHANGED <<entries, snapshot>>
    BY <1>6 DEF Crash, ledgerVars
  <2>4. QED
    BY <2>2, <2>3 DEF SnapshotIsCurrent
<1>7. CASE UNCHANGED vars
  BY <1>7 DEF SnapshotIsCurrent, vars, ledgerVars, writeVars
<1>8. QED
  BY <1>1, <1>2, <1>3, <1>4, <1>5, <1>6, <1>7 DEF Next

\* What the dashboard reads while nobody writes is what the ledger holds, unless
\* the last writer was stopped before its snapshot.
THEOREM SnapshotTells == Spec => []SnapshotTellsLedger
<1>1. Init => SnapshotIsCurrent
  BY DEF Init, SnapshotIsCurrent
<1>2. LedgerTypes /\ SnapshotIsCurrent /\ [Next]_vars => SnapshotIsCurrent'
  BY SnapshotStep
<1>3. SnapshotIsCurrent => SnapshotTellsLedger
  BY DEF SnapshotIsCurrent, SnapshotTellsLedger
<1>4. QED
  BY <1>1, <1>2, <1>3, LedgerTypesHold, PTL DEF Spec

----------------------------------------------------------------------------
(* Batches and their orders                                                  *)

\* The orders of a batch
Under(es, n) == {e \in es : e.batch = n}

\* The new batch owns exactly the new orders, the others what they owned before.
LEMMA CommitOwns ==
  ASSUME LedgerTypes, BatchesOwnTheirOrders, NEW p \in Previews, Commit(p)
  PROVE  BatchesOwnTheirOrders'
<1> DEFINE new == [id |-> last', files |-> Upload[p], added |-> Cardinality(NewKeys(p))]
           es == EntriesOf(NewKeys(p), last')
<1>1. /\ last \in Nat /\ last' = last + 1
      /\ entries' = entries \cup es /\ batches' = batches \cup {new}
  BY CommitEffect
<1>2. new.id = last' /\ new.added = Cardinality(NewKeys(p))
  OBVIOUS
<1>3. last' \in Nat /\ \A n \in 1..last : n # last'
  BY <1>1
<1>4. (\A e \in es : e.batch = last') /\ Cardinality(es) = Cardinality(NewKeys(p))
  BY <1>3, NewKeysAreNew, EntriesOfKeys
<1>5. (\A e \in entries : e.batch # last') /\ (\A b \in batches : b.id # last')
  BY <1>3 DEF LedgerTypes, Numbered
<1> HIDE DEF new, es
<1>6. \A e \in entries' : \E b \in batches' : e.batch = b.id
  BY <1>1, <1>2, <1>4 DEF BatchesOwnTheirOrders
<1>7. \A b \in batches' : b.added = Cardinality(Under(entries', b.id))
  <2>1. SUFFICES ASSUME NEW b \in batches'
                 PROVE  b.added = Cardinality(Under(entries', b.id))
    OBVIOUS
  <2>2. CASE b = new
    <3>1. Under(entries', b.id) = es
      BY <1>1, <1>2, <1>4, <1>5, <2>2 DEF Under
    <3>2. QED
      BY <1>2, <1>4, <2>2, <3>1
  <2>3. CASE b \in batches
    <3>1. Under(entries', b.id) = Under(entries, b.id)
      BY <1>1, <1>4, <1>5, <2>3 DEF Under
    <3>2. b.added = Cardinality(Under(entries, b.id))
      BY <2>3 DEF BatchesOwnTheirOrders, Under
    <3>3. QED
      BY <3>1, <3>2
  <2>4. QED
    BY <1>1, <2>2, <2>3
<1>8. \A b, c \in batches' : b.id = c.id => b = c
  BY <1>1, <1>2, <1>5 DEF BatchesOwnTheirOrders
<1>9. QED
  BY <1>6, <1>7, <1>8 DEF BatchesOwnTheirOrders, Under

\* The batches that stay own what they owned before.
LEMMA DeleteOwns ==
  ASSUME BatchesOwnTheirOrders, Delete
  PROVE  BatchesOwnTheirOrders'
<1>1. PICK b \in batches : /\ batches' = batches \ {b}
                           /\ entries' = {e \in entries : e.batch # b.id}
  BY DEF Delete
<1>2. \A c \in batches' : c \in batches /\ c.id # b.id
  BY <1>1 DEF BatchesOwnTheirOrders
<1>3. \A e \in entries' : \E c \in batches' : e.batch = c.id
  BY <1>1 DEF BatchesOwnTheirOrders
<1>4. \A c \in batches' : c.added = Cardinality(Under(entries', c.id))
  <2>1. SUFFICES ASSUME NEW c \in batches'
                 PROVE  c.added = Cardinality(Under(entries', c.id))
    OBVIOUS
  <2>2. Under(entries', c.id) = Under(entries, c.id)
    BY <1>1, <1>2 DEF Under
  <2>3. c.added = Cardinality(Under(entries, c.id))
    BY <1>2 DEF BatchesOwnTheirOrders, Under
  <2>4. QED
    BY <2>2, <2>3
<1>5. \A c, d \in batches' : c.id = d.id => c = d
  BY <1>2 DEF BatchesOwnTheirOrders
<1>6. QED
  BY <1>3, <1>4, <1>5 DEF BatchesOwnTheirOrders, Under

\* Undoing a batch removes the number of orders that the batch shows, and there
\* is no order that undoing could not remove.
THEOREM BatchesOwn == Spec => []BatchesOwnTheirOrders
<1>1. Init => BatchesOwnTheirOrders
  BY DEF Init, BatchesOwnTheirOrders
<1>2. LedgerTypes /\ BatchesOwnTheirOrders /\ [Next]_vars => BatchesOwnTheirOrders'
  <2>1. SUFFICES ASSUME LedgerTypes, BatchesOwnTheirOrders, [Next]_vars
                 PROVE  BatchesOwnTheirOrders'
    OBVIOUS
  <2>2. CASE UNCHANGED ledgerVars
    BY <2>1, <2>2 DEF ledgerVars, BatchesOwnTheirOrders
  <2>3. QED
    BY <2>1, <2>2, CommitOwns, DeleteOwns, WhoWritesTheLedger
<1>3. QED
  BY <1>1, <1>2, LedgerTypesHold, PTL DEF Spec

----------------------------------------------------------------------------
(* The ledger is a book of orders                                            *)

\* Every batch has brought an order that is still there: undoing it shows.
NoEmptyBatch == \A b \in batches : \E e \in entries : e.batch = b.id

LEMMA NoEmptyBatchStep ==
  ASSUME LedgerTypes, BatchesOwnTheirOrders, NoEmptyBatch, [Next]_vars
  PROVE  NoEmptyBatch'
<1>1. CASE UNCHANGED ledgerVars
  BY <1>1 DEF ledgerVars, NoEmptyBatch
<1>2. CASE Delete
  BY <1>2 DEF Delete, NoEmptyBatch, BatchesOwnTheirOrders
<1>3. CASE \E p \in Previews : Commit(p)
  <2>1. PICK p \in Previews : Commit(p)
    BY <1>3
  <2> DEFINE new == [id |-> last', files |-> Upload[p], added |-> Cardinality(NewKeys(p))]
  <2>2. entries' = entries \cup EntriesOf(NewKeys(p), last') /\ batches' = batches \cup {new}
    BY <2>1, CommitEffect
  <2>3. new.id = last'
    OBVIOUS
  <2> HIDE DEF new
  <2>4. NewKeys(p) # {}
    BY <2>1 DEF Commit
  <2>5. PICK k \in NewKeys(p) : TRUE
    BY <2>4
  <2>6. \E e \in EntriesOf(NewKeys(p), last') : e.batch = last'
    <3> DEFINE e == [secret |-> k[1], order |-> k[2], batch |-> last']
    <3>1. e \in EntriesOf(NewKeys(p), last') /\ e.batch = last'
      BY <2>5 DEF EntriesOf
    <3>2. QED
      BY <3>1
  <2>7. QED
    BY <2>2, <2>3, <2>6 DEF NoEmptyBatch
<1>4. QED
  BY <1>1, <1>2, <1>3, WhoWritesTheLedger

\* What the book shows of an order, as long as no order is in the ledger twice.
LEMMA BatchOfEntry ==
  ASSUME NoDuplicateOrder
  PROVE  /\ \A e \in entries : BatchOf(e.order) = e.batch
         /\ \A o \in Orders : (\A e \in entries : e.order # o) => BatchOf(o) = NoBatch
BY DEF NoDuplicateOrder, BatchOf

BookInv ==
  /\ LedgerTypes /\ SecretsMinted /\ minted <= 1 /\ NoDuplicateOrder
  /\ BatchesOwnTheirOrders /\ NoEmptyBatch

\* A commit imports the orders of its new keys.
LEMMA CommitImports ==
  ASSUME BookInv, NoDuplicateOrder', NEW p \in Previews, Commit(p)
  PROVE  Book!Import
<1> DEFINE added == {k[2] : k \in NewKeys(p)}
<1>1. /\ last' = last + 1 /\ entries' = entries \cup EntriesOf(NewKeys(p), last')
  BY CommitEffect DEF BookInv
<1>2. /\ NewKeys(p) \subseteq Keys /\ NewKeys(p) # {}
      /\ \A k \in NewKeys(p), e \in entries : KeyOf(e) # k
  BY NewKeysAreNew DEF BookInv, Commit
<1>3. \A k \in NewKeys(p) : k = <<1, k[2]>> /\ k[2] \in Orders
  <2>1. \A k \in NewKeys(p) : k = <<k[1], k[2]>> /\ k[2] \in Orders
    BY <1>2 DEF Keys
  <2>2. \A k \in NewKeys(p) : k[1] = 1
    BY UnderOneSecret DEF BookInv, NewKeys
  <2>3. QED
    BY <2>1, <2>2
<1>4. \A e \in entries : KeyOf(e) = <<1, e.order>>
  BY UnderOneSecret DEF BookInv, KeyOf
<1>5. \A k \in NewKeys(p), e \in entries : e.order # k[2]
  BY <1>2, <1>3, <1>4
<1>6. added \subseteq Orders /\ added # {} /\ \A o \in added : BatchOf(o) = NoBatch
  BY <1>2, <1>3, <1>5, BatchOfEntry DEF BookInv
<1>7. \A o \in Orders : BatchOf(o)' = IF o \in added THEN last + 1 ELSE BatchOf(o)
  <2>1. SUFFICES ASSUME NEW o \in Orders
                 PROVE  BatchOf(o)' = IF o \in added THEN last + 1 ELSE BatchOf(o)
    OBVIOUS
  <2>2. /\ \A e \in entries' : BatchOf(e.order)' = e.batch
        /\ (\A e \in entries' : e.order # o) => BatchOf(o)' = NoBatch
    BY DEF NoDuplicateOrder, BatchOf
  <2>3. CASE o \in added
    <3>1. PICK k \in NewKeys(p) : o = k[2]
      BY <2>3
    <3> DEFINE e == [secret |-> k[1], order |-> k[2], batch |-> last']
    <3>2. e \in entries' /\ e.order = o /\ e.batch = last'
      BY <1>1, <3>1 DEF EntriesOf
    <3> HIDE DEF e
    <3>3. BatchOf(o)' = last'
      BY <2>2, <3>2
    <3>4. QED
      BY <1>1, <2>3, <3>3
  <2>4. CASE o \notin added
    <3>1. \A e \in EntriesOf(NewKeys(p), last') : e.order # o
      BY <2>4 DEF EntriesOf
    <3>2. CASE \E e \in entries : e.order = o
      <4>1. PICK e \in entries : e.order = o
        BY <3>2
      <4>2. BatchOf(o) = e.batch /\ BatchOf(o)' = e.batch
        BY <1>1, <2>2, <4>1, BatchOfEntry DEF BookInv
      <4>3. QED
        BY <2>4, <4>2
    <3>3. CASE \A e \in entries : e.order # o
      <4>1. BatchOf(o) = NoBatch /\ BatchOf(o)' = NoBatch
        BY <1>1, <2>2, <3>1, <3>3, BatchOfEntry DEF BookInv
      <4>2. QED
        BY <2>4, <4>1
    <3>4. QED
      BY <3>2, <3>3
  <2>5. QED
    BY <2>3, <2>4
<1> HIDE DEF added
<1>8. added \in (SUBSET Book!Absent) \ {{}}
  BY <1>6 DEF Book!Absent
<1>9. QED
  BY <1>1, <1>7, <1>8 DEF Book!Import

\* An undo takes out the orders of its batch.
LEMMA DeleteUndoes ==
  ASSUME BookInv, NoDuplicateOrder', Delete
  PROVE  Book!Undo
<1>1. PICK b \in batches : /\ batches' = batches \ {b}
                           /\ entries' = {e \in entries : e.batch # b.id}
                           /\ last' = last
  BY DEF Delete
<1>2. b.id \in 1..last
  BY DEF BookInv, LedgerTypes, Numbered
<1>3. \E o \in Orders : BatchOf(o) = b.id
  <2>1. PICK e \in entries : e.batch = b.id
    BY DEF BookInv, NoEmptyBatch
  <2>2. e.order \in Orders /\ BatchOf(e.order) = b.id
    BY <2>1, BatchOfEntry DEF BookInv, LedgerTypes, TypeOK, Entries
  <2>3. QED
    BY <2>2
<1>4. \A o \in Orders : BatchOf(o)' = IF BatchOf(o) = b.id THEN NoBatch ELSE BatchOf(o)
  <2>1. SUFFICES ASSUME NEW o \in Orders
                 PROVE  BatchOf(o)' = IF BatchOf(o) = b.id THEN NoBatch ELSE BatchOf(o)
    OBVIOUS
  <2>2. /\ \A e \in entries' : BatchOf(e.order)' = e.batch
        /\ (\A e \in entries' : e.order # o) => BatchOf(o)' = NoBatch
    BY DEF NoDuplicateOrder, BatchOf
  <2>3. CASE \E e \in entries : e.order = o
    <3>1. PICK e \in entries : e.order = o
      BY <2>3
    <3>2. BatchOf(o) = e.batch
      BY <3>1, BatchOfEntry DEF BookInv
    <3>3. CASE e.batch = b.id
      <4>1. \A d \in entries' : d.order # o
        BY <1>1, <3>1, <3>3 DEF BookInv, NoDuplicateOrder
      <4>2. QED
        BY <2>2, <3>2, <3>3, <4>1
    <3>4. CASE e.batch # b.id
      <4>1. e \in entries'
        BY <1>1, <3>4
      <4>2. QED
        BY <2>2, <3>1, <3>2, <3>4, <4>1
    <3>5. QED
      BY <3>3, <3>4
  <2>4. CASE \A e \in entries : e.order # o
    <3>1. BatchOf(o) = NoBatch /\ BatchOf(o)' = NoBatch
      BY <1>1, <2>2, <2>4, BatchOfEntry DEF BookInv
    <3>2. QED
      BY <3>1
  <2>5. QED
    BY <2>3, <2>4
<1>5. QED
  BY <1>1, <1>2, <1>3, <1>4 DEF Book!Undo

\* As long as there is one secret the ledger implements the book of orders:
\* a commit imports orders that were absent, an undo takes out exactly the
\* orders of one batch, and nothing else changes what is counted, neither a
\* failed write nor a crash.
THEOREM LedgerIsABook == Spec /\ [](minted <= 1) => ImplementsBook
<1>1. Init => Book!Init
  BY DEF Init, Book!Init, BatchOf
<1>2. BookInv /\ NoDuplicateOrder' /\ [Next]_vars
        => [Book!Next]_<<[o \in Orders |-> BatchOf(o)], last>>
  <2>1. SUFFICES ASSUME BookInv, NoDuplicateOrder', [Next]_vars
                 PROVE  \/ Book!Next
                        \/ UNCHANGED <<[o \in Orders |-> BatchOf(o)], last>>
    OBVIOUS
  <2>2. CASE UNCHANGED ledgerVars
    BY <2>2 DEF ledgerVars, BatchOf
  <2>3. QED
    BY <2>1, <2>2, CommitImports, DeleteUndoes, WhoWritesTheLedger DEF Book!Next
<1>3. Spec /\ [](minted <= 1) => []BookInv
  <2>1. Init => NoEmptyBatch /\ SecretsMinted
    BY DEF Init, NoEmptyBatch, SecretsMinted
  <2>2. LedgerTypes /\ BatchesOwnTheirOrders /\ NoEmptyBatch /\ [Next]_vars => NoEmptyBatch'
    BY NoEmptyBatchStep
  <2>3. LedgerTypes /\ SecretsMinted /\ [Next]_vars => SecretsMinted'
    BY SecretsStep
  <2>4. NoDuplicateOrderWithSecret /\ minted <= 1 => NoDuplicateOrder
    BY DEF NoDuplicateOrderWithSecret
  <2>5. QED
    BY <2>1, <2>2, <2>3, <2>4, LedgerTypesHold, NoOrderTwice, BatchesOwn, PTL DEF Spec, BookInv
<1>4. BookInv => NoDuplicateOrder
  BY DEF BookInv
<1>5. QED
  BY <1>1, <1>2, <1>3, <1>4, PTL DEF Spec, ImplementsBook, Book!Spec
=============================================================================
