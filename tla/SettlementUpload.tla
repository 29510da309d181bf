-------------------------- MODULE SettlementUpload --------------------------
(***************************************************************************)
(* Uploads of settlement files, save_settlement_upload of                  *)
(* crates/settlement/src/lib.rs: read the map from file to shop, look for  *)
(* a stored file of the same bytes, store the upload when there is none,   *)
(* and replace the map by the one read with this file's shop added.        *)
(* Nothing keeps two uploads apart and a crash may end one at any step.    *)
(*                                                                         *)
(* The name of a stored file is made of a hash of its shop and bytes and   *)
(* of the name it had, so a file stands for these three.  It is written    *)
(* under its name: until its bytes are all there, and for good when the    *)
(* write is cut off, it is a truncated file that the dashboard reads.      *)
(* The map goes through a temporary file and a rename.                     *)
(***************************************************************************)
EXTENDS Naturals, FiniteSets

CONSTANTS Uploads,   \* the upload requests
          BytesOf,   \* what each uploads
          ShopOf,    \* the shop each names
          NameOf,    \* the original name of each file
          None

\* What an instance assumes.
UploadsAssumption == \A f \in {BytesOf, ShopOf, NameOf} : DOMAIN f = Uploads

VARIABLES files,      \* the stored files
          torn,       \* those of them that are truncated
          shops,      \* shops.json: the shop of a file
          pc,         \* where each upload is
          read,       \* the map it has read
          target,     \* the file its shop is noted for
          overlapped, \* history: two uploads were under way at one time
          lost        \* history: the files whose upload was cut off

vars == <<files, torn, shops, pc, read, target, overlapped, lost>>

FileOf(u) == [bytes |-> BytesOf[u], shop |-> ShopOf[u], name |-> NameOf[u]]
Under(u)  == pc[u] \in {"scan", "store", "write", "note"}
Whole     == files \ torn

Init ==
  /\ files = {} /\ torn = {}
  /\ shops = [n \in {} |-> None]
  /\ pc = [u \in Uploads |-> "idle"]
  /\ read = [u \in Uploads |-> [n \in {} |-> None]]
  /\ target = [u \in Uploads |-> None]
  /\ overlapped = FALSE /\ lost = {}

Goto(u, step) == pc' = [pc EXCEPT ![u] = step]

\* read_shop_map; an upload that was cut off is sent again.
ReadShops(u) ==
  /\ pc[u] \in {"idle", "cut"}
  /\ read' = [read EXCEPT ![u] = shops]
  /\ Goto(u, "scan")
  /\ overlapped' = (overlapped \/ \E v \in Uploads \ {u} : Under(v))
  /\ UNCHANGED <<files, torn, shops, target, lost>>

\* The loop over csv_files: the first stored file of the same bytes; a truncated one
\* has others.
Scan(u) ==
  /\ pc[u] = "scan"
  /\ LET same == {f \in Whole : f.bytes = BytesOf[u]}
     IN IF same # {}
        THEN /\ \E f \in same : target' = [target EXCEPT ![u] = f]
             /\ Goto(u, "note")
        ELSE /\ target' = [target EXCEPT ![u] = FileOf(u)]
             /\ Goto(u, "store")
  /\ UNCHANGED <<files, torn, shops, read, overlapped, lost>>

\* fs::write creates or truncates the file ...
Store(u) ==
  /\ pc[u] = "store"
  /\ files' = files \cup {target[u]} /\ torn' = torn \cup {target[u]}
  /\ Goto(u, "write")
  /\ UNCHANGED <<shops, read, target, overlapped, lost>>

\* ... and writes the bytes.
StoreBytes(u) ==
  /\ pc[u] = "write"
  /\ torn' = torn \ {target[u]}
  /\ Goto(u, "note")
  /\ UNCHANGED <<files, shops, read, target, overlapped, lost>>

\* Mutant: only the shop of a newly stored file is noted.
Note_StoredOnly(u) ==
  /\ pc[u] = "note"
  /\ shops' = IF target[u] = FileOf(u)
              THEN [n \in DOMAIN read[u] \cup {target[u]} |->
                      IF n = target[u] THEN ShopOf[u] ELSE read[u][n]]
              ELSE shops
  /\ Goto(u, "done")
  /\ UNCHANGED <<files, torn, read, target, overlapped, lost>>

\* write_shop_map of the map that was read, with this file's shop.
Note(u) ==
  /\ pc[u] = "note"
  /\ shops' = [n \in DOMAIN read[u] \cup {target[u]} |->
                 IF n = target[u] THEN ShopOf[u] ELSE read[u][n]]
  /\ Goto(u, "done")
  /\ UNCHANGED <<files, torn, read, target, overlapped, lost>>

\* The process ends in the middle of an upload, or a write fails half-way.
Cut(u) ==
  /\ Under(u)
  /\ Goto(u, "cut")
  /\ lost' = IF pc[u] = "scan" THEN lost ELSE lost \cup {target[u]}
  /\ UNCHANGED <<files, torn, shops, read, target, overlapped>>

Next == \E u \in Uploads : ReadShops(u) \/ Scan(u) \/ Store(u) \/ StoreBytes(u) \/ Note(u) \/ Cut(u)

Spec == Init /\ [][Next]_vars

-----------------------------------------------------------------------------
(***************************************************************************)
(* Safety: the dashboard adds up every stored file, so unless two uploads  *)
(* overlapped, whole bytes are stored once, whatever shops and names and   *)
(* however often a cut-off upload is repeated; a file is truncated only    *)
(* while it is written or when that was cut off (save_settlement_upload).  *)
(* What a cut-off write leaves is added up beside the whole file when the  *)
(* bytes are sent again under another shop or name; the same upload mends  *)
(* it.                                                                     *)
(***************************************************************************)
BytesOnceUnlessOverlapped ==
  ~overlapped =>
    /\ \A f, g \in Whole : f.bytes = g.bytes => f = g
    /\ \A f \in torn : f \in lost \/ \E u \in Uploads : pc[u] = "write" /\ target[u] = f
    /\ \A u \in Uploads : pc[u] = "done" => target[u] \in Whole

(***************************************************************************)
(* Safety: unless two uploads overlapped, the file of an upload that ended *)
(* well has a shop, also when an earlier upload of its bytes was cut off;  *)
(* the shop is one that somebody named for these bytes; and a stored file  *)
(* lacks one only while or after its upload was cut off.                   *)
(***************************************************************************)
ShopsTellFiles ==
  ~overlapped =>
    /\ \A u \in Uploads : pc[u] = "done" => target[u] \in DOMAIN shops
    /\ \A f \in files :
         f \in DOMAIN shops \cup lost \/ \E u \in Uploads : Under(u) /\ target[u] = f
    /\ \A f \in DOMAIN shops : \E u \in Uploads :
         f.bytes = BytesOf[u] /\ shops[f] = ShopOf[u]
=============================================================================
