----------------------------- MODULE OrderStore -----------------------------
(***************************************************************************)
(* The Python order store: apps/orders_py/import_external_orders.py turns  *)
(* the rows of an exported workbook into orders and these into daily       *)
(* records; external_order_store.py previews an upload against the ledger, *)
(* commits a preview as a batch and undoes a batch.                        *)
(*                                                                         *)
(* Which rows make one order and which orders are taken for duplicates is  *)
(* computed as the code does.  Orders are told apart by an HMAC of their   *)
(* number under a secret, modelled as the pair of the two; the secret is   *)
(* looked up, and made when there is none, without the flock that guards   *)
(* the ledger.  The holder of the flock writes the ledger, then the        *)
(* snapshot through orders_daily.json.tmp, and may stop in between; the    *)
(* command line importer writes through the same .tmp without the flock.   *)
(* A waiter for the flock changes nothing, so only its holder is modelled. *)
(*                                                                         *)
(* An order of the ledger keeps its number here, for the properties; the   *)
(* code only has the key.                                                  *)
(***************************************************************************)
EXTENDS Naturals, FiniteSets, Sequences, SequencesExt, FiniteSetsExt

CONSTANTS Workbook,     \* each export file's rows, in order
          Source,       \* each file's marketplace, from its name
          Tabs,         \* the browser tabs that upload
          Uploads,      \* the sequences of different files one upload may bring
          Blank,        \* an empty cell
          None,
          MaxPreviews,  \* bounds the previews ever stored or under way
          MaxBatches,   \* bounds the batches ever committed
          Bounds        \* bounds, one for each behaviour: the secrets ever made, with the
                        \* one that was there, and the files the command line brings

FileNames == DOMAIN Workbook

VARIABLES ledger,       \* import_ledger.json: its batches and its orders
          snapshot,     \* orders_daily.json
          temp,         \* orders_daily.json.tmp
          previews,     \* the preview files, by token
          upload,       \* where each tab's preview_upload is, and what it has read
          secret,       \* import_dedupe_secret.txt, 0 when it is absent or empty
          minted,       \* how many secrets there were so far
          batches,      \* counts the batches committed: their ids
          holder,       \* who holds the flock: what is left to do, for which preview
          writing,      \* the file that each writer of the snapshot has open
          command,      \* the files that the command line importer brings
          bound,        \* what this behaviour is bounded by
          direct,       \* history: the importer has run since the store's last write began
          failed        \* history: the last commit or undo did not write its snapshot

uploadVars == <<previews, upload, secret, minted>>
ledgerVars == <<ledger, batches, holder, failed>>
fileVars == <<snapshot, temp, writing, command, direct>>
vars == <<uploadVars, ledgerVars, fileVars, bound>>

-----------------------------------------------------------------------------
\* A row counts when it is paid, has a shop and is not closed.
Accepted(f) ==
  {i \in DOMAIN Workbook[f] :
     LET r == Workbook[f][i] IN r.paid # None /\ r.shop # Blank /\ ~r.closed}

\* A row without an order number gets one made from its place in the file.
NumberOf(f, i) ==
  IF Workbook[f][i].number = Blank THEN <<"row", i>> ELSE <<"no", Workbook[f][i].number>>

Day(r) == r.paid

\* What the holder of the flock has still to do.
Holders == [step : {"open", "write", "unlink"}, token : Nat]

\* What an instance assumes: rows stand in an order, one that counts was paid on
\* some day, and the amount in it is its order's.
StoreAssumption ==
  /\ \A f \in FileNames :
       /\ Workbook[f] \in Seq(ToSet(Workbook[f]))
       /\ \A i \in Accepted(f) : Workbook[f][i].paid \in Nat
  /\ \A f, g \in FileNames : \A i \in Accepted(f), k \in Accepted(g) :
       /\ Workbook[f][i].number # Blank
       /\ Workbook[f][i].number = Workbook[g][k].number
       => Workbook[f][i].amount = Workbook[g][k].amount
  /\ Uploads \subseteq Seq(FileNames)
  /\ Bounds \subseteq [secrets : Nat, commands : SUBSET Seq(FileNames)]
  /\ None \notin Holders

\* The sum of a field over records.
Total(field, records) == MapThenSumSet(LAMBDA r : r[field], records)

\* The rows of one day, shop and number are one order: the amount is the
\* order's and taken from the first of them, the quantities are added.  It has
\* no key and no batch yet.
OrderOfRows(f, group) ==
  LET i == Min(group)  r == Workbook[f][i]
  IN [number |-> NumberOf(f, i), key |-> None, day |-> Day(r), shop |-> r.shop,
      amount |-> r.amount,
      quantity |-> MapThenSumSet(LAMBDA k : Workbook[f][k].quantity, group),
      source |-> Source[f], batch |-> None]

\* parse_workbook_orders.
ParseOrders(f) ==
  LET Same(i, k) == /\ NumberOf(f, i) = NumberOf(f, k)
                    /\ Day(Workbook[f][i]) = Day(Workbook[f][k])
                    /\ Workbook[f][i].shop = Workbook[f][k].shop
  IN {OrderOfRows(f, {k \in Accepted(f) : Same(i, k)}) : i \in Accepted(f)}

\* The orders of each file: parsing depends on nothing else.
Parsed == [f \in FileNames |-> ParseOrders(f)]

\* daily_records_from_orders: one record for each day, shop and source.
DailyRecords(orders, file) ==
  {LET group == {p \in orders : <<p.day, p.shop, p.source>> = <<o.day, o.shop, o.source>>}
   IN [day |-> o.day, shop |-> o.shop, source |-> o.source, file |-> file,
       pay_cnt |-> Cardinality(group),
       pay_amt |-> Total("amount", group),
       pay_item_cnt |-> Total("quantity", group)] : o \in orders}

Keys(orders) == {o.key : o \in orders}

\* One of the orders with a key, the earliest: groups come sorted by day.
OnePerKey(orders) ==
  {CHOOSE o \in orders : o.key = k /\ \A p \in orders : p.key = k => o.day <= p.day :
     k \in Keys(orders)}

\* order_digest: the orders of a file under the secrets that their lookups found.
Digested(f, under) == {[o EXCEPT !.key = <<under[<<f, o>>], o.number>>] : o \in Parsed[f]}

\* The files a batch of the ledger names.
KnownFiles(led) == UNION {{row.file : row \in b.files} : b \in led.batches}

\* The loop of preview_upload over the files of an upload: a file known to
\* the ledger is skipped, an order known to it or met before in the upload
\* is a duplicate.
AddFile(acc, f, knownFiles, knownKeys, under) ==
  LET fresh == OnePerKey({o \in Digested(f, under) :
                            o.key \notin knownKeys \cup Keys(acc.orders)})
      added == IF f \in knownFiles THEN {} ELSE fresh
  IN [orders |-> acc.orders \cup added,
      files  |-> acc.files \cup
                   {[file |-> f, accepted |-> Cardinality(Parsed[f]),
                     added |-> Cardinality(added),
                     duplicates |-> Cardinality(Parsed[f]) - Cardinality(added),
                     known |-> f \in knownFiles]}]

PreviewOf(files, knownFiles, knownKeys, under) ==
  FoldLeft(LAMBDA acc, f : AddFile(acc, f, knownFiles, knownKeys, under),
           [orders |-> {}, files |-> {}], files)

-----------------------------------------------------------------------------
\* What a file holds: nothing that parses until all of a text is in it.
Absent == [state |-> "absent", records |-> {}]
EmptyFile  == [state |-> "empty", records |-> {}]
Torn   == [state |-> "torn", records |-> {}]
Whole(records) == [state |-> "whole", records |-> records]

Writers == {"store", "direct"}

Init ==
  /\ ledger = [batches |-> {}, orders |-> {}] /\ batches = 0
  /\ snapshot = Absent /\ temp = Absent
  /\ previews = <<>> /\ upload = [t \in Tabs |-> None]
  /\ secret \in {0, 1} /\ minted = secret
  /\ holder = None /\ writing = [w \in Writers |-> "no"] /\ command = None
  /\ direct = FALSE /\ failed = FALSE
  /\ bound \in Bounds

-----------------------------------------------------------------------------
(***************************************************************************)
(* preview_upload and get_dedupe_secret.                                   *)
(***************************************************************************)

\* The part of preview_upload that holds the lock.
ReadLedger(t) ==
  /\ holder = None
  /\ upload[t] = None
  /\ Len(previews) + Cardinality({x \in Tabs : upload[x] # None}) < MaxPreviews
  /\ \E files \in Uploads :
       upload' = [upload EXCEPT ![t] = [files |-> files, at |-> "parse", met |-> {},
                                        known |-> KnownFiles(ledger),
                                        keys  |-> Keys(ledger.orders)]]
  /\ UNCHANGED <<previews, secret, minted, ledgerVars, fileVars>>

\* The orders whose digests the loop computes.
ToDigest(u) == UNION {{f} \X Parsed[f] : f \in ToSet(u.files) \ u.known}

At(t, place) == upload[t] # None /\ upload[t].at = place

\* A digest finds a secret ...
FindSecret(t) ==
  /\ At(t, "parse") /\ ToDigest(upload[t]) # {}
  /\ secret # 0
  /\ upload' = [upload EXCEPT ![t].met = @ \cup {secret}]
  /\ UNCHANGED <<previews, secret, minted, ledgerVars, fileVars>>

\* ... or no file, or an empty one: it makes a secret, ...
FindNone(t) ==
  /\ At(t, "parse") /\ ToDigest(upload[t]) # {}
  /\ secret = 0
  /\ upload' = [upload EXCEPT ![t].at = "empty"]
  /\ UNCHANGED <<previews, secret, minted, ledgerVars, fileVars>>

\* ... write_text creates or truncates the file, whatever it holds by now ...
EmptySecret(t) ==
  /\ At(t, "empty")
  /\ secret' = 0
  /\ upload' = [upload EXCEPT ![t].at = "fill"]
  /\ UNCHANGED <<previews, minted, ledgerVars, fileVars>>

\* ... and fills it; the digest uses this secret.
FillSecret(t) ==
  /\ At(t, "fill") /\ minted < bound.secrets
  /\ minted' = minted + 1 /\ secret' = minted'
  /\ upload' = [upload EXCEPT ![t].at = "parse", ![t].met = @ \cup {minted'}]
  /\ UNCHANGED <<previews, ledgerVars, fileVars>>

\* Each order's digest is under a secret that a lookup found: secrets are numbered as they
\* come, so an order further down the files, or of a later day of its file, is not under
\* an earlier one.
Lookups(u) ==
  {under \in [ToDigest(u) -> u.met] :
     \A d, e \in ToDigest(u) :
       (\/ d[1] # e[1] /\ d[1] = Head(SelectSeq(u.files, LAMBDA f : f \in {d[1], e[1]}))
        \/ d[1] = e[1] /\ d[2].day < e[2].day) => under[d] <= under[e]}

\* The files are parsed and compared with what was read, and the preview is stored.  (An
\* upload that fails or is killed is one that takes no step any more.)
StorePreview(t) ==
  /\ At(t, "parse")
  /\ \E under \in Lookups(upload[t]) :
       previews' = Append(previews,
         [p |-> PreviewOf(upload[t].files, upload[t].known, upload[t].keys, under),
          valid |-> TRUE])
  /\ upload' = [upload EXCEPT ![t] = None]
  /\ UNCHANGED <<secret, minted, ledgerVars, fileVars>>

\* A preview that nobody can commit any more.
Withdraw(token) ==
  /\ previews' = [previews EXCEPT ![token].valid = FALSE]
  /\ UNCHANGED <<upload, secret, minted>>

\* Fifteen minutes pass; that a try to commit it then removes its file changes nothing.
Expire(token) ==
  /\ previews[token].valid
  /\ Withdraw(token)
  /\ UNCHANGED <<ledgerVars, fileVars>>

-----------------------------------------------------------------------------
(***************************************************************************)
(* commit_preview and delete_batch, under the flock.                       *)
(***************************************************************************)

\* The orders of the preview that the ledger has not got meanwhile.
NewOrders(token) ==
  {o \in previews[token].p.orders : o.key \notin Keys(ledger.orders)}

\* Mutant: the orders that came into the ledger after the preview are not
\* counted among the duplicates.
BatchOf_PreviewedDuplicates(token, id) ==
  LET p == previews[token].p
      files == {IF row.file \in KnownFiles(ledger)
                THEN [row EXCEPT !.added = 0, !.known = TRUE] ELSE row : row \in p.files}
  IN [id |-> id, files |-> files, added |-> Cardinality(NewOrders(token)),
      duplicates |-> Total("duplicates", files)]

\* The batch: a file that came into the ledger after the preview adds nothing
\* in its row; the orders that did are counted as duplicates of the batch.
BatchOf(token, id) ==
  LET p == previews[token].p
      files == {IF row.file \in KnownFiles(ledger)
                THEN [row EXCEPT !.added = 0, !.known = TRUE] ELSE row : row \in p.files}
  IN [id |-> id, files |-> files, added |-> Cardinality(NewOrders(token)),
      duplicates |-> Total("duplicates", files)
                     + (Cardinality(p.orders) - Cardinality(NewOrders(token)))]

\* atomic_write of the ledger; the snapshot is still to be written.
WriteLedger(led, token) ==
  /\ holder = None /\ holder' = [step |-> "open", token |-> token]
  /\ ledger' = led
  /\ UNCHANGED <<failed, uploadVars, fileVars>>

\* commit_preview of a valid preview; one without new orders is refused and
\* stays (it changes nothing and is no step).
CommitPreview(token) ==
  /\ previews[token].valid /\ batches < MaxBatches
  /\ NewOrders(token) # {}
  /\ batches' = batches + 1
  /\ WriteLedger([batches |-> ledger.batches \cup {BatchOf(token, batches')},
                  orders  |-> ledger.orders \cup
                                {[o EXCEPT !.batch = batches'] : o \in NewOrders(token)}],
                 token)

\* There is no preview to remove: its token is 0.
DeleteBatch(id) ==
  /\ WriteLedger([batches |-> {b \in ledger.batches : b.id # id},
                  orders  |-> {o \in ledger.orders : o.batch # id}], 0)
  /\ UNCHANGED batches

\* The flock is given back, after the last act or an error, or by death.
Release(notWritten) ==
  /\ holder' = None /\ failed' = notWritten
  /\ UNCHANGED <<ledger, batches>>

\* The commit's last act.
RemovePreview ==
  /\ holder # None /\ holder.step = "unlink"
  /\ IF holder.token = 0 THEN UNCHANGED uploadVars ELSE Withdraw(holder.token)
  /\ Release(failed)
  /\ UNCHANGED fileVars

\* The write of the snapshot has not begun, or it is over: killed, or an error.
StopBetween ==
  /\ holder # None /\ holder.step \in {"open", "unlink"}
  /\ Release(failed \/ holder.step = "open")
  /\ UNCHANGED <<uploadVars, fileVars>>

-----------------------------------------------------------------------------
(***************************************************************************)
(* write_snapshot, of the store and of the command line importer.  Both    *)
(* open the one orders_daily.json.tmp; a writer goes on with the file that *)
(* it has open, which the other one may have moved to orders_daily.json or *)
(* replaced there.                                                         *)
(***************************************************************************)

\* open(.., "w") creates or truncates.
Open(w) ==
  /\ writing[w] = "no" /\ writing' = [writing EXCEPT ![w] = "temp"]
  /\ temp' = EmptyFile
  /\ UNCHANGED <<snapshot, uploadVars>>

OpenStore ==
  /\ holder # None /\ holder.step = "open"
  /\ holder' = [holder EXCEPT !.step = "write"]
  /\ direct' = (writing["direct"] # "no")
  /\ Open("store")
  /\ UNCHANGED <<command, ledger, batches, failed>>

\* The command line importer writes the records of its files over the
\* snapshot, file after file and past the ledger.
OpenDirect(files) ==
  /\ command' = files /\ direct' = TRUE
  /\ Open("direct")
  /\ UNCHANGED ledgerVars

Records(w) ==
  IF w = "store" THEN DailyRecords(ledger.orders, Blank)
                 ELSE UNION {DailyRecords(Parsed[f], f) : f \in ToSet(command)}

\* The text goes over what the other writer has put there meanwhile.
Written(content, w) ==
  {Whole(Records(w))} \cup (IF content.state = "empty" THEN {} ELSE {Torn})

Fill(w) ==
  /\ writing[w] \in {"temp", "snapshot", "lost"}
  /\ IF writing[w] = "temp" THEN temp' \in Written(temp, w) ELSE UNCHANGED temp
  /\ IF writing[w] = "snapshot" THEN snapshot' \in Written(snapshot, w) ELSE UNCHANGED snapshot
  /\ writing' = [writing EXCEPT ![w] = "filled"]
  /\ UNCHANGED <<command, direct, uploadVars, ledgerVars>>

\* What becomes of the file that the other writer has open when .tmp is renamed.
Moved(place) == IF place = "temp" THEN "snapshot" ELSE IF place = "snapshot" THEN "lost" ELSE place

Closed(w) == [v \in Writers |-> IF v = w THEN "no" ELSE writing[v]]
Forgotten(w) == IF w = "direct" THEN None ELSE command

\* os.replace, and what the store does next.
Replace(w) ==
  /\ writing[w] = "filled" /\ temp # Absent
  /\ snapshot' = temp /\ temp' = Absent
  /\ writing' = [v \in Writers |-> Moved(Closed(w)[v])]
  /\ IF w = "store" THEN /\ holder' = [holder EXCEPT !.step = "unlink"]
                          /\ failed' = FALSE
                     ELSE UNCHANGED <<holder, failed>>
  /\ command' = Forgotten(w)
  /\ UNCHANGED <<ledger, batches, direct, uploadVars>>

\* The writer stops: .tmp is gone (FileNotFoundError), another error, or death, which may
\* leave part of the text.
StopWriting(w) ==
  /\ writing[w] # "no"
  /\ writing' = Closed(w)
  /\ IF writing[w] = "temp" THEN temp' \in {temp, Torn} ELSE UNCHANGED temp
  /\ IF writing[w] = "snapshot" THEN snapshot' \in {snapshot, Torn} ELSE UNCHANGED snapshot
  /\ IF w = "store" THEN Release(TRUE) ELSE UNCHANGED ledgerVars
  /\ command' = Forgotten(w)
  /\ UNCHANGED <<direct, uploadVars>>

Next ==
  /\ UNCHANGED bound
  /\ \/ \E t \in Tabs :
          \/ ReadLedger(t) \/ FindSecret(t) \/ FindNone(t) \/ EmptySecret(t) \/ FillSecret(t)
          \/ StorePreview(t)
     \/ \E token \in DOMAIN previews : Expire(token) \/ CommitPreview(token)
     \/ \E b \in ledger.batches : DeleteBatch(b.id)
     \/ RemovePreview \/ StopBetween \/ OpenStore
     \/ \E files \in bound.commands : OpenDirect(files)
     \/ \E w \in Writers : Fill(w) \/ Replace(w) \/ StopWriting(w)

Spec == Init /\ [][Next]_vars

-----------------------------------------------------------------------------
(***************************************************************************)
(* Safety: every order a batch's files hold is either added or counted as  *)
(* a duplicate, whatever other tabs committed or undid between its preview *)
(* and its commit (preview_upload, commit_preview).                        *)
(***************************************************************************)
EveryOrderCounted ==
  \A b \in ledger.batches :
    b.added + b.duplicates = Total("accepted", b.files)

(***************************************************************************)
(* Safety: as long as there was one secret, a purchase with an order       *)
(* number is in the ledger at most once, however many rows, files and tabs *)
(* brought it; its amount is its own in any case.  (Two secrets break the  *)
(* first part as in OrderLedger's NoDuplicateOrder: "Serialize writes so   *)
(* two browser tabs cannot create duplicate imports" does not hold for the *)
(* tabs that make the first secret, which ledger_lock does not cover.)     *)
(***************************************************************************)
AmountCountedOnce ==
  \A f \in FileNames : \A i \in Accepted(f) :
    LET r == Workbook[f][i]
        found == {o \in ledger.orders : o.number = <<"no", r.number>>}
    IN r.number # Blank =>
         /\ minted <= 1 => Cardinality(found) <= 1
         /\ \A o \in found : o.amount = r.amount

(***************************************************************************)
(* Safety: a batch in the ledger owns exactly the orders it says it added, *)
(* and no order outlives its batch, so undoing a batch undoes all of it.   *)
(***************************************************************************)
BatchesOwnTheirOrders ==
  /\ \A b \in ledger.batches : Cardinality({o \in ledger.orders : o.batch = b.id}) = b.added
  /\ \A o \in ledger.orders : o.batch \in {b.id : b \in ledger.batches}

(***************************************************************************)
(* Safety: whenever nobody holds the lock, the records on the dashboard    *)
(* count every order of the ledger once, unless the last commit or undo    *)
(* stopped before its snapshot was there, or the command line importer has *)
(* run since that write began.                                             *)
(***************************************************************************)
SnapshotTellsLedger ==
  holder = None /\ ~failed /\ ~direct =>
    /\ snapshot.state \in {"absent", "whole"}
    /\ Total("pay_cnt", snapshot.records) = Cardinality(Keys(ledger.orders))
=============================================================================
