---------------------------- MODULE InventoryMerge ----------------------------
(***************************************************************************)
(* What a sync of the stock fetches and keeps: fetch_all, merge_inventory  *)
(* and validate_snapshot of apps/inventory_py/inventory_sync.py.           *)
(*                                                                         *)
(* The source tells only of the rows that changed in a window before the   *)
(* sync, page by page, and goes on changing while it is read: a row that   *)
(* changes after end_time leaves the list, and the rows behind it move     *)
(* up.  A row is its version here, the time of its last change.  Syncs     *)
(* exclude one another (see InventorySync).                                *)
(***************************************************************************)
EXTENDS Naturals, Sequences, FiniteSets, Functions

CONSTANTS
  Keys,       \* warehouse and SKU, a sequence in the order of the source's list
  Window,     \* the days of start_time before now
  PageSize,   \* PAGE_SIZE
  MaxPages,   \* MAX_PAGES
  Threshold,  \* the records from which a drop by half is implausible
  MaxTime,    \* bound: the last point in time
  None

\* What an instance assumes.
MergeAssumption ==
  /\ Keys \in Seq(Range(Keys))
  /\ Window \in Nat /\ PageSize \in Nat \ {0} /\ MaxPages \in Nat
  /\ Threshold \in Nat /\ MaxTime \in Nat /\ None \notin Nat

KeySet == Range(Keys)

VARIABLES
  clock,     \* the time
  source,    \* of each key the time of its last change, and whether it is deleted
  snapshot,  \* inventory of the snapshot: versions of some keys
  end,       \* end_time of the sync under way, None when there is none
  pages,     \* the pages that it will read
  page,      \* the next of them
  fetched,   \* the latest row it has got of a key
  quiet,     \* history: the source has not changed while the sync fetched
  covered    \* history: from when on the successful quiet syncs have left no gap, and the
             \* last of them

syncVars == <<end, pages, page, fetched>>
historyVars == <<quiet, covered>>
vars == <<clock, source, snapshot, syncVars, historyVars>>

Init ==
  /\ clock = 0
  /\ source = [k \in KeySet |-> [at |-> 0, gone |-> FALSE]]
  /\ snapshot = <<>>
  /\ end = None /\ pages = 0 /\ page = 0 /\ fetched = <<>>
  /\ quiet = TRUE /\ covered = None

----------------------------------------------------------------------------
(***************************************************************************)
(* The source                                                              *)
(***************************************************************************)
Change(k) ==
  /\ end # None => clock > end
  /\ \E gone \in BOOLEAN : source' = [source EXCEPT ![k] = [at |-> clock, gone |-> gone]]
  /\ quiet' = (end = None)
  /\ UNCHANGED <<clock, snapshot, syncVars, covered>>

Tick ==
  /\ clock < MaxTime /\ clock' = clock + 1
  /\ UNCHANGED <<source, snapshot, syncVars, historyVars>>

From(t) == IF t < Window THEN 0 ELSE t - Window

\* The positions in the source's list of the rows between start_time and end_time.
Listed(t) == {i \in DOMAIN Keys : source[Keys[i]].at \in From(t)..t}

Before(i, list) == {j \in list : j < i}

\* The rows of page n of the list.
PageOf(list, n) ==
  {Keys[i] : i \in {j \in list : Cardinality(Before(j, list)) \div PageSize = n}}

----------------------------------------------------------------------------
(***************************************************************************)
(* The sync                                                                *)
(***************************************************************************)
Idle == end' = None /\ pages' = 0 /\ page' = 0 /\ fetched' = <<>>

\* Later rows of a key replace earlier ones.
Collect(rows) ==
  [k \in DOMAIN fetched \cup rows |-> IF k \in rows THEN source[k] ELSE fetched[k]]

\* The first page, whose total_count says how many there are.
FetchFirst ==
  /\ end = None
  /\ LET total == (Cardinality(Listed(clock)) + PageSize - 1) \div PageSize
     IN /\ total <= MaxPages
        /\ pages' = total
  /\ end' = clock /\ page' = 1 /\ fetched' = Collect(PageOf(Listed(clock), 0))
  /\ UNCHANGED <<clock, source, snapshot, historyVars>>

FetchNext ==
  /\ end # None /\ page < pages
  /\ fetched' = Collect(PageOf(Listed(end), page)) /\ page' = page + 1
  /\ UNCHANGED <<clock, source, snapshot, end, pages, historyVars>>

\* Mutant: the rows that have changed are the stock.
MergeInventory_Replace ==
  LET kept == {k \in DOMAIN fetched : ~fetched[k].gone} IN [k \in kept |-> fetched[k].at]

\* merge_inventory.
MergeInventory ==
  LET gone == {k \in DOMAIN fetched : fetched[k].gone}
      kept == (DOMAIN snapshot \cup DOMAIN fetched) \ gone
  IN [k \in kept |-> IF k \in DOMAIN fetched THEN fetched[k].at ELSE snapshot[k]]

\* validate_snapshot: some rows, and not less than half of a snapshot that is not small.
Plausible(inventory) ==
  /\ DOMAIN inventory # {}
  /\ LET before == Cardinality(DOMAIN snapshot)
     IN before >= Threshold => 2 * Cardinality(DOMAIN inventory) >= before

\* The gapless time goes on when the window reaches back to the last quiet sync.
Cover ==
  covered' = IF ~quiet THEN covered
             ELSE IF covered # None /\ From(end) <= covered.last
                  THEN [covered EXCEPT !.last = end]
                  ELSE [first |-> From(end), last |-> end]

SaveSnapshot ==
  /\ end # None /\ page >= pages /\ Plausible(MergeInventory)
  /\ snapshot' = MergeInventory
  /\ Cover /\ Idle /\ quiet' = TRUE
  /\ UNCHANGED <<clock, source>>

\* A request fails, or the result is refused.
Fail ==
  /\ end # None /\ Idle /\ quiet' = TRUE
  /\ UNCHANGED <<clock, source, snapshot, covered>>

Next ==
  \/ \E k \in KeySet : Change(k)
  \/ Tick \/ FetchFirst \/ FetchNext \/ SaveSnapshot \/ Fail

Spec == Init /\ [][Next]_vars

----------------------------------------------------------------------------
(***************************************************************************)
(* Properties.                                                             *)
(***************************************************************************)
Correct(k) ==
  IF source[k].gone THEN k \notin DOMAIN snapshot
  ELSE k \in DOMAIN snapshot /\ snapshot[k] = source[k].at

\* Of every row that changed since the gapless time began, and before the last quiet
\* sync, the snapshot has the present version or, if it is deleted, nothing: the next
\* quiet sync puts right what pages that moved while they were read, refused results
\* and failed requests have missed.
SnapshotTellsStock ==
  covered # None =>
    \A k \in KeySet :
      covered.first <= source[k].at /\ source[k].at < covered.last => Correct(k)
=============================================================================
