------------------------------- MODULE JdImport -------------------------------
(***************************************************************************)
(* Imports of JD workbooks, crates/jd/src/lib.rs: preview_upload parses    *)
(* the uploaded files and stores a preview; commit_preview reads the       *)
(* ledger output/jd/imports.json, puts the batches of the preview in the   *)
(* place of those of the same kind and date, writes the ledger and removes *)
(* the preview.                                                            *)
(*                                                                         *)
(* There is no lock, and write is fs::write: the file is emptied, then     *)
(* filled, and either may fail.  A preview may be committed by several     *)
(* requests, at once or one after the other.                               *)
(***************************************************************************)
EXTENDS Naturals, FiniteSets, Sequences

CONSTANTS
  Previews,   \* the uploads that may be previewed
  Commits,    \* the POST /jd/imports calls that may be made
  Workbooks,  \* the contents that an upload may have
  SlotOf,     \* kind and date of each content
  FilesOf,    \* the contents of each upload, in order: one or two
  Empty,      \* the ledger was emptied
  Garbage     \* the ledger is no JSON: two writers wrote over each other

\* What an instance assumes.
ImportAssumption ==
  /\ IsFiniteSet(Workbooks)
  /\ \A p \in Previews : FilesOf[p] \in Seq(Workbooks) /\ Len(FilesOf[p]) \in 1..2
  /\ Empty # Garbage

VARIABLES
  ledger,     \* the contents in imports.json, or Empty or Garbage
  imports,    \* each preview's imports: the places of its new files in the upload
  preview,    \* whether each preview is on disk: none yet, stored, removed
  pc,         \* where each commit is
  token,      \* the preview that each commit is about, once it was read
  merged,     \* the ledger that each commit is about to write
  expected,   \* history: the ledger of the commits that were filled in, one after another
  overlapped, \* history: a commit read the ledger that another had yet to write
  broken      \* history: a write ended, or the API did, with the ledger emptied

vars == <<ledger, imports, preview, pc, token, merged, expected, overlapped, broken>>

Readable(content) == content # Empty /\ content # Garbage
Writing == {c \in Commits : pc[c] \in {"truncate", "fill"}}

\* batches.retain, then push, for one new file after another: a file takes the place of
\* what there was of its slot, an earlier file of the upload included.
Merge(batches, files, new) ==
  LET last == {i \in new : \A j \in new : j > i => SlotOf[files[j]] # SlotOf[files[i]]}
  IN {b \in batches : \A i \in new : SlotOf[files[i]] # SlotOf[b]} \cup {files[i] : i \in last}

Init ==
  /\ ledger = {} /\ expected = {}
  /\ imports = [p \in Previews |-> {}] /\ preview = [p \in Previews |-> "none"]
  /\ pc = [c \in Commits |-> "idle"]
  /\ token = [c \in Commits |-> Empty]
  /\ merged = [c \in Commits |-> {}]
  /\ overlapped = FALSE /\ broken = FALSE

Goto(c, from, to) == pc[c] = from /\ pc' = [pc EXCEPT ![c] = to]

----------------------------------------------------------------------------

NewFiles(files, known) == {i \in DOMAIN files : files[i] \notin known}

\* preview_upload: what the ledger knows by now is left out.
Preview(p) ==
  /\ Readable(ledger) /\ preview[p] = "none"
  /\ imports' = [imports EXCEPT ![p] = NewFiles(FilesOf[p], ledger)]
  /\ preview' = [preview EXCEPT ![p] = "stored"]
  /\ UNCHANGED <<ledger, pc, token, merged, expected, overlapped, broken>>

\* Mutant: the ledger is not read again.
ReadLedger_Stale(c, p) ==
  /\ Goto(c, "idle", "truncate")
  /\ preview[p] = "stored" /\ Readable(ledger)
  /\ token' = [token EXCEPT ![c] = p]
  /\ merged' = [merged EXCEPT ![c] = Merge({}, FilesOf[p], imports[p])]
  /\ overlapped' = (overlapped \/ Writing # {})
  /\ UNCHANGED <<ledger, imports, preview, expected, broken>>

\* commit_preview reads the preview and the ledger; it fails, and may be repeated,
\* when one is missing or cannot be parsed.
ReadLedger(c, p) ==
  /\ Goto(c, "idle", "truncate")
  /\ preview[p] = "stored" /\ Readable(ledger)
  /\ token' = [token EXCEPT ![c] = p]
  /\ merged' = [merged EXCEPT ![c] = Merge(ledger, FilesOf[p], imports[p])]
  /\ overlapped' = (overlapped \/ Writing # {})
  /\ UNCHANGED <<ledger, imports, preview, expected, broken>>

\* fs::write opens the file, which empties it ...
Truncate(c) ==
  /\ Goto(c, "truncate", "fill")
  /\ ledger' = Empty
  /\ UNCHANGED <<imports, preview, token, merged, expected, overlapped, broken>>

\* ... and writes.  Where another writer has been faster its bytes are written over,
\* and stay behind the end of a shorter ledger.
Fill(c) ==
  /\ Goto(c, "fill", "remove")
  /\ ledger' \in {merged[c]} \cup (IF ledger = Empty THEN {} ELSE {Garbage})
  /\ expected' = Merge(expected, FilesOf[token[c]], imports[token[c]])
  /\ UNCHANGED <<imports, preview, token, merged, overlapped, broken>>

\* The preview is removed, or cannot be, which nobody is told.
RemovePreview(c) ==
  /\ Goto(c, "remove", "done")
  /\ preview' \in {preview, [preview EXCEPT ![token[c]] = "removed"]}
  /\ UNCHANGED <<ledger, imports, token, merged, expected, overlapped, broken>>

\* The write fails with the file emptied, and the request with it.
WriteFails(c) ==
  /\ Goto(c, "fill", "done")
  /\ broken' = TRUE
  /\ UNCHANGED <<ledger, imports, preview, token, merged, expected, overlapped>>

\* The API is killed: the commits under way are gone, the file stays as it is.
Crash ==
  /\ \E c \in Commits : pc[c] \notin {"idle", "done"}
  /\ broken' = (broken \/ \E c \in Commits : pc[c] = "fill")
  /\ pc' = [c \in Commits |-> IF pc[c] = "idle" THEN "idle" ELSE "done"]
  /\ UNCHANGED <<ledger, imports, preview, token, merged, expected, overlapped>>

Next ==
  \/ \E p \in Previews : Preview(p)
  \/ \E c \in Commits, p \in Previews : ReadLedger(c, p)
  \/ \E c \in Commits : Truncate(c) \/ Fill(c) \/ WriteFails(c) \/ RemovePreview(c)
  \/ Crash

Spec == Init /\ [][Next]_vars

----------------------------------------------------------------------------
(***************************************************************************)
(* Properties.                                                             *)
(***************************************************************************)
\* The dashboards add up the batches of the ledger: no day of one kind is in it
\* twice, although commits overlap, are repeated or hold two files of one day
\* (commit_preview).
DayCountedOnce ==
  Readable(ledger) => \A f, g \in ledger : SlotOf[f] = SlotOf[g] => f = g

\* When nobody writes and no two commits have overlapped, the ledger holds what the
\* commits say one after another, the older preview over the newer ledger, unless
\* one stopped between its emptying and its filling (commit_preview, write).
LedgerTellsCommits ==
  Writing = {} /\ ~overlapped /\ ~broken => ledger = expected
=============================================================================
