------------------------------- MODULE MsdOrders -------------------------------
(***************************************************************************)
(* The crawl of one day's orders of the tmall MSD shop:                    *)
(* apps/scraper_py/tmall_msd_orders.py.  A login by password or by a       *)
(* person, the list interface page by page, and two requests for every     *)
(* order, some orders at a time.                                           *)
(*                                                                         *)
(* The site is the environment: orders come to the head of the list, or    *)
(* leave it, while the pages are read, and an answer may be an error page, *)
(* which counts as an answer without data.  A request without any answer   *)
(* raises.  A page beyond the last one may be answered by no rows, or by   *)
(* the last one again, and then only the total, or max_pages, ends the     *)
(* paging.                                                                 *)
(***************************************************************************)
EXTENDS Naturals, Sequences, FiniteSets, SequencesExt

CONSTANTS
  Listed,       \* the orders of the day at the start, newest first
  Coming,       \* bound: orders that come meanwhile, a sequence
  Removals,     \* bound: orders that leave the list
  PageSize,     \* args.page_size
  Limits,       \* what args.max_pages may be, 0 (the default) for no limit
  Concurrency,  \* args.detail_concurrency
  HasPassword,  \* whether user name and password are in the environment
  None

Orders == Range(Listed) \cup Range(Coming)

\* What an instance assumes.
MsdAssumption ==
  /\ PageSize \in Nat \ {0} /\ Limits \subseteq Nat /\ 0 \in Limits /\ Concurrency \in Nat \ {0}
  /\ Removals \in Nat /\ HasPassword \in BOOLEAN
  /\ Listed \in Seq(Orders) /\ Coming \in Seq(Orders) /\ None \notin Nat

VARIABLES
  pc,      \* where the crawl is
  maxPages,\* max_pages
  where,   \* what the browser shows: the orders, a login, a choice of shop, a check
  site,    \* the list of the site
  came,    \* how many of Coming are in the list
  removed, \* how many orders have left it
  page,    \* page_index
  total,   \* total_count of the first page, None when it does not tell
  links,   \* the orders of the links, page after page
  work,    \* of each link: queued, detail, items or done
  saved,   \* the orders file: its orders, and whether the list was cut; or None
  status,  \* tmall_msd_status.json
  first,   \* history: the orders that were listed when the first page was read
  cut,     \* history: the list ended with an answer without data, or at max_pages
  clamped, \* history: the last answer was the last page, for a page beyond it
  since    \* history: the orders that came, and that left, between the first and the last page

listVars == <<page, total, links, first, cut, clamped>>
siteVars == <<site, came, removed, since>>
vars == <<pc, maxPages, where, siteVars, listVars, work, saved, status>>

Goto(from, to) == pc = from /\ pc' = to

Init ==
  /\ pc = "look" /\ where \in {"orders", "login", "shop"}
  /\ site = Listed /\ came = 0 /\ removed = 0 /\ since = [came |-> 0, left |-> 0]
  /\ maxPages \in Limits
  /\ page = 1 /\ total = None /\ links = <<>> /\ first = {} /\ cut = FALSE /\ clamped = FALSE
  /\ work = <<>>
  /\ saved = None /\ status = "running"

----------------------------------------------------------------------------
(***************************************************************************)
(* The site                                                                *)
(***************************************************************************)
Paging == pc = "list" /\ page > 1

NewOrder ==
  /\ came < Len(Coming) /\ came' = came + 1
  /\ site' = <<Coming[came + 1]>> \o site
  /\ since' = IF Paging THEN [since EXCEPT !.came = @ + 1] ELSE since
  /\ UNCHANGED <<pc, where, removed, listVars, work, saved, status>>

RemoveOrder ==
  /\ removed < Removals /\ removed' = removed + 1
  /\ \E i \in 1..Len(site) : site' = RemoveAt(site, i)
  /\ since' = IF Paging THEN [since EXCEPT !.left = @ + 1] ELSE since
  /\ UNCHANGED <<pc, where, came, listVars, work, saved, status>>

\* Somebody scans the code or answers the check.
PersonActs ==
  /\ where \in {"login", "check", "shop"} /\ where' \in {"shop", "orders"}
  /\ UNCHANGED <<pc, siteVars, listVars, work, saved, status>>

----------------------------------------------------------------------------
(***************************************************************************)
(* wait_for_manual_login                                                   *)
(***************************************************************************)
loginRest == <<siteVars, listVars, work, saved>>

\* No word of a login on the page, and the order frame is found within its time.
Look ==
  /\ IF where = "orders" THEN Goto("look", "list") \/ Goto("look", "password")
                         ELSE Goto("look", "password")
  /\ UNCHANGED <<where, status, loginRest>>

\* try_auto_login fills in and submits the form; a check may come instead of the page.
TryAutoLogin ==
  /\ \/ /\ HasPassword /\ where = "login" /\ Goto("password", "submitted")
        /\ where' \in {"login", "shop", "orders", "check"}
     \/ Goto("password", "ask") /\ UNCHANGED where
  /\ UNCHANGED <<status, loginRest>>

\* try_enter_default_shop clicks what looks like a choice of shop, with or without effect.
EnterDefaultShop ==
  /\ pc \in {"submitted", "waiting"} /\ where = "shop" /\ where' = "orders"
  /\ UNCHANGED <<pc, status, loginRest>>

\* The frame is found, or the time is over.
Submitted ==
  /\ \/ where = "orders" /\ Goto("submitted", "list") /\ status' = "running"
     \/ Goto("submitted", "ask") /\ UNCHANGED status
  /\ UNCHANGED <<where, loginRest>>

AskForLogin ==
  /\ Goto("ask", "waiting") /\ status' = "login_required"
  /\ UNCHANGED <<where, loginRest>>

AwaitLogin ==
  /\ \/ where = "orders" /\ Goto("waiting", "list") /\ status' = "running"
     \/ Goto("waiting", "raised") /\ UNCHANGED status
  /\ UNCHANGED <<where, loginRest>>

----------------------------------------------------------------------------
(***************************************************************************)
(* collect_order_links_from_api                                            *)
(***************************************************************************)
PageOf(n) ==
  SubSeq(site, (n - 1) * PageSize + 1,
         IF n * PageSize > Len(site) THEN Len(site) ELSE n * PageSize)

AtLimit == maxPages # 0 /\ page >= maxPages

\* Links are told apart by order and owner; the order of those of a page is not modelled.
NewLinks(rows) == SetToSeq(Range(rows) \ Range(links))

\* The page that answers: the one asked for, or the last of the site when that lies behind it.
Answering == {page} \cup {n \in 1..(page - 1) : PageOf(n) # <<>> /\ PageOf(n + 1) = <<>>}

\* Bound: no list reaches this page, so all behind it are alike.
Beyond == Len(Listed) + Len(Coming) + 1

\* Mutant: there are as many pages as the first total needs.
StopPaging_ByPages(rows, found) ==
  \/ total' # None /\ page * PageSize >= total'
  \/ rows = <<>> \/ AtLimit

StopPaging(rows, found) ==
  \/ total' # None /\ Len(found) >= total'
  \/ rows = <<>> \/ AtLimit

\* One page: its rows, those of the last page, or an answer that is no data.
FetchPage ==
  /\ pc = "list"
  /\ \E error \in BOOLEAN, answer \in Answering :
       LET rows == IF error THEN <<>> ELSE PageOf(answer)
           found == links \o NewLinks(rows)
       IN /\ error => answer = page
          /\ total' \in IF total # None THEN {total}
                        ELSE IF error THEN {None} ELSE {None, Len(site)}
          /\ links' = found
          /\ first' = IF page = 1 THEN Range(site) ELSE first
          /\ cut' = (error \/ AtLimit) /\ clamped' = (answer # page)
          /\ IF StopPaging(rows, found)
             THEN /\ pc' = IF found = <<>> THEN "raised" ELSE "details"
                  /\ work' = [i \in 1..Len(found) |-> "queued"] /\ UNCHANGED page
             ELSE /\ page' = IF maxPages = 0 /\ page > Beyond THEN page ELSE page + 1
                  /\ UNCHANGED <<pc, work>>
  /\ UNCHANGED <<where, siteVars, saved, status>>

----------------------------------------------------------------------------
(***************************************************************************)
(* fetch_order_details, save_results and the end                           *)
(***************************************************************************)
InFlight == {i \in DOMAIN work : work[i] \in {"detail", "items"}}

\* The semaphore lets a task in.
EnterDetail(i) ==
  /\ pc = "details" /\ work[i] = "queued" /\ Cardinality(InFlight) < Concurrency
  /\ work' = [work EXCEPT ![i] = "detail"]
  /\ UNCHANGED <<pc, where, siteVars, listVars, saved, status>>

\* The answer to the first request, and the one to the second; after one without data the
\* order has what the list told of it.
DetailStep(i) ==
  /\ pc = "details" /\ work[i] \in {"detail", "items"}
  /\ work' = [work EXCEPT ![i] = IF work[i] = "detail" THEN "items" ELSE "done"]
  /\ UNCHANGED <<pc, where, siteVars, listVars, saved, status>>

\* gather returns the results in the order of the links, and they are written.
SaveResults ==
  /\ Goto("details", "finish") /\ \A i \in DOMAIN work : work[i] = "done"
  /\ saved' = [orders |-> links, cut |-> cut]
  /\ UNCHANGED <<where, siteVars, listVars, work, status>>

Finish ==
  /\ Goto("finish", "done") /\ status' = "completed"
  /\ UNCHANGED <<where, siteVars, listVars, work, saved>>

\* A request that gets no answer, an element that is not there, a file that cannot be
\* written: the status stays.
Raise ==
  /\ pc \in {"look", "list", "details", "finish"} /\ pc' = "raised"
  /\ UNCHANGED <<where, siteVars, listVars, work, saved, status>>

Crawl ==
  /\ \/ Look \/ TryAutoLogin \/ Submitted \/ AskForLogin \/ AwaitLogin
     \/ FetchPage \/ SaveResults \/ Finish \/ Raise
     \/ \E i \in DOMAIN work : EnterDetail(i) \/ DetailStep(i)
  /\ UNCHANGED maxPages

Next ==
  \/ Crawl
  \/ (EnterDefaultShop \/ NewOrder \/ RemoveOrder \/ PersonActs) /\ UNCHANGED maxPages

Spec == Init /\ [][Next]_vars

----------------------------------------------------------------------------
(***************************************************************************)
(* Properties.                                                             *)
(***************************************************************************)

\* Every order that was listed when the first page was read is in the file, though orders
\* came to the head of the list meanwhile, unless an order left the list, more than a page
\* of them came, or the paging was cut short.  With more than a page, new orders reach the
\* pages that are read and count for the total in place of the last old ones.  Orders
\* without their details are in the file too.
ListedOrdersSaved ==
  saved # None /\ ~saved.cut /\ since.left = 0 /\ since.came <= PageSize =>
    first \subseteq Range(saved.orders)

\* No order is in the file twice, though the pages move.
NoOrderTwice == saved # None => IsInjective(saved.orders)
=============================================================================
