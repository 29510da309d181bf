------------------------------ MODULE OrderCrawl ------------------------------
(***************************************************************************)
(* The crawl of yesterday's orders of the douyin shops, page by page:      *)
(* apps/scraper_py/douyin_orders.py.                                       *)
(*                                                                         *)
(* The order page is the environment.  It renders what was asked of it     *)
(* some time later, or never; "asked" is the list and the page that the    *)
(* clicks so far have asked for, "shown" the list and the page in the      *)
(* table.  wait_network_quiet goes on without them being the same (its     *)
(* load state was reached when the page was opened), so only the wait for  *)
(* another first order, in click_next_page, holds the crawl back, and only *)
(* until its time is over.  A click may have no effect: a switch to a shop *)
(* that did not happen is only logged, and a pager that stays where it is  *)
(* is not noticed, so the loop over the pages has no bound of its own.     *)
(***************************************************************************)
EXTENDS Naturals, Sequences, FiniteSets, Functions

CONSTANTS
  Shops,     \* args.shop or TARGET_SHOPS, a sequence
  Orders,    \* the orders of <<shop, day>>, newest first; day None for an unfiltered list
  Garbled,   \* orders whose header line has no number that the pattern finds
  SmallPage, \* the page size of the page at first
  PageSize,  \* args.page_size
  Today,     \* the day on which the crawl starts
  Dates,     \* what args.date may name, beside the default
  MaxDays,   \* bound: midnights that pass
  None

ShopSet == Range(Shops)
Days    == (Today - 1)..(Today + MaxDays - 1)  \* what 昨日 can be

\* What an instance assumes.
CrawlAssumption ==
  /\ Shops \in Seq(ShopSet) /\ Len(Shops) > 0 /\ None \notin ShopSet \cup Nat
  /\ \A s \in ShopSet, d \in Days \cup {None} :
       Orders[<<s, d>>] \in Seq(Range(Orders[<<s, d>>]))
  /\ SmallPage \in Nat \ {0} /\ PageSize \in Nat \ {0}
  /\ Today \in Nat \ {0} /\ MaxDays \in Nat /\ Dates \subseteq Nat

VARIABLES
  pc,        \* where the crawl is
  left,      \* the shops that are left, the present one first
  today,     \* the day
  dataDate,  \* data_date, the day of the files
  picked,    \* the day of the label 昨日, None while it is not chosen
  asked,     \* what the page was asked for: shop, day, size and page number
  shown,     \* what the table shows of that, or of something asked for earlier
  expected,  \* expected_total, None when the page does not tell
  onFirst,   \* page_no = 1
  found,     \* the numbers of orders_by_no
  files,     \* the order file of each shop
  shopStatus,\* task_status.json of each shop
  runStatus, \* task_status.json of the run
  hasty,     \* history: what of this shop was read before the page had rendered it, and
             \* "shop" when the switch to it had no effect
  enough,    \* history: this shop's paging stopped because expected_total was reached
  ignored    \* history: the pager did not react to the last click

pageVars == <<asked, shown, picked>>
readVars == <<expected, onFirst, found, hasty, enough, ignored>>
statusVars == <<files, shopStatus, runStatus>>
vars == <<pc, left, today, dataDate, pageVars, readVars, statusVars>>

Shop == Head(left)
Goto(from, to) == pc = from /\ pc' = to
Unrendered(what) == IF shown = asked THEN {} ELSE {what}

ListOf(view) == Orders[<<view.shop, view.day>>]

\* The orders in the table.
Table(view) ==
  LET list == ListOf(view)
      first == (view.no - 1) * view.size
  IN [i \in 1..(IF first >= Len(list) THEN 0
                ELSE IF Len(list) - first < view.size THEN Len(list) - first
                ELSE view.size) |-> list[first + i]]

\* parse_orders, and the numbers that collect_all_pages keeps of it: an order line
\* without a readable number counts for nothing.
ParseOrders(table) == Range(table) \ Garbled

\* The number in 共 N 条.
Total(view) == Len(ListOf(view))

Init ==
  /\ pc = "open" /\ left = Shops /\ today = Today
  /\ dataDate \in {Today - 1} \cup Dates
  /\ \E s \in ShopSet :
       asked = [shop |-> s, day |-> None, size |-> SmallPage, no |-> 1]
  /\ shown = asked /\ picked = None
  /\ expected = None /\ onFirst = TRUE /\ found = {}
  /\ hasty = {} /\ enough = FALSE /\ ignored = FALSE
  /\ files = [s \in ShopSet |-> None] /\ shopStatus = [s \in ShopSet |-> "none"]
  /\ runStatus = [state |-> "running", total |-> 0]

----------------------------------------------------------------------------
(***************************************************************************)
(* The page                                                                *)
(***************************************************************************)
Render ==
  /\ shown # asked /\ shown' = asked
  /\ UNCHANGED <<pc, left, today, asked, picked, readVars, statusVars>>

Midnight ==
  /\ today < Today + MaxDays /\ today' = today + 1
  /\ UNCHANGED <<pc, left, pageVars, readVars, statusVars>>

----------------------------------------------------------------------------
(***************************************************************************)
(* The crawl                                                               *)
(***************************************************************************)

\* wait_for_manual_login: the page is there, or shows the login and is there in time.
Login ==
  /\ \/ Goto("open", "start") /\ UNCHANGED runStatus
     \/ Goto("open", "login") /\ runStatus' = [runStatus EXCEPT !.state = "login_required"]
     \/ Goto("login", "start") /\ runStatus' = [runStatus EXCEPT !.state = "running"]
  /\ UNCHANGED <<left, today, pageVars, readVars, files, shopStatus>>

StartShop ==
  /\ Goto("start", "switch")
  /\ shopStatus' = [shopStatus EXCEPT ![Shop] = "running"]
  /\ hasty' = {} /\ enough' = FALSE /\ ignored' = FALSE
  /\ UNCHANGED <<left, today, pageVars, expected, onFirst, found, files, runStatus>>

\* switch_shop: nothing to do, or a click in the list of shops, after which the page
\* asks for the other shop's list.  A click without effect is only warned of.
SwitchShop ==
  /\ Goto("switch", "day")
  /\ \/ asked.shop = Shop /\ UNCHANGED asked
     \/ \E s \in {asked.shop, Shop} : asked' = [asked EXCEPT !.shop = s, !.no = 1]
  /\ hasty' = IF asked'.shop = Shop THEN hasty ELSE hasty \cup {"shop"}
  /\ UNCHANGED <<left, today, shown, picked, expected, onFirst, found, enough, ignored,
                 statusVars>>

\* choose_yesterday leaves the box alone when it has the label already.
ChooseYesterday ==
  /\ Goto("day", "query")
  /\ picked' = IF picked = None THEN today - 1 ELSE picked
  /\ UNCHANGED <<left, today, asked, shown, readVars, statusVars>>

\* click_query asks for the first page of the day of the label.
ClickQuery ==
  /\ Goto("query", "total")
  /\ \E day \in {picked, today - 1} : asked' = [asked EXCEPT !.day = day, !.no = 1]
  /\ UNCHANGED <<left, today, shown, picked, readVars, statusVars>>

\* The total of what the page shows, if it has the words.
ReadTotal ==
  /\ Goto("total", "size")
  /\ expected' \in {None, Total(shown)}
  /\ hasty' = hasty \cup Unrendered("query")
  /\ UNCHANGED <<left, today, pageVars, onFirst, found, statusVars, enough, ignored>>

\* set_page_size: it is that size, or it becomes that size, or there is no such option.
SetPageSize ==
  /\ Goto("size", "read")
  /\ asked' \in {asked, [asked EXCEPT !.size = PageSize, !.no = 1]}
  /\ onFirst' = TRUE /\ found' = {}
  /\ UNCHANGED <<left, today, shown, picked, expected, hasty, enough, ignored, statusVars>>

\* The comparison with expected_total, of which 0 is no more than None.
Enough(numbers) ==
  expected \notin {None, 0} /\ Cardinality(numbers) >= expected

\* The pager of the page: more orders than the pages so far hold.
NextPage == asked.no * asked.size < Total(shown)

\* One round of collect_all_pages: read and parse the table, and stop or go on.
ReadPage ==
  LET table == Table(shown)
      now == found \cup ParseOrders(table)
  IN /\ pc = "read"
     /\ found' = now
     /\ hasty' = IF onFirst THEN hasty \cup Unrendered("first page") ELSE hasty
     /\ enough' = Enough(now)
     /\ pc' = IF enough' \/ ~NextPage THEN "save" ELSE "click"
     /\ UNCHANGED <<left, today, pageVars, expected, onFirst, ignored, statusVars>>

\* The pager turns, or does not react.
ClickNext ==
  /\ Goto("click", "turn")
  /\ asked' \in {asked, [asked EXCEPT !.no = @ + 1]}
  /\ ignored' = (asked' = asked)
  /\ UNCHANGED <<left, today, shown, picked, expected, onFirst, found, hasty, enough, statusVars>>

\* Mutant: the crawl waits until the page has changed.
AwaitPage_Forever ==
  /\ Goto("turn", "read")
  /\ shown = asked /\ UNCHANGED hasty
  /\ onFirst' = FALSE
  /\ UNCHANGED <<left, today, pageVars, expected, found, enough, ignored, statusVars>>

\* Mutant: the network is quiet, so the page must have changed.
AwaitPage_Quiet ==
  /\ Goto("turn", "read") /\ UNCHANGED hasty
  /\ onFirst' = FALSE
  /\ UNCHANGED <<left, today, pageVars, expected, found, enough, ignored, statusVars>>

\* click_next_page waits for another first order (if there was one) or for its timeout.
AwaitPage ==
  /\ Goto("turn", "read")
  /\ hasty' = hasty \cup Unrendered("turn")
  /\ onFirst' = FALSE
  /\ UNCHANGED <<left, today, pageVars, expected, found, enough, ignored, statusVars>>

\* save_results under the name of the shop that was to be collected and under data_date,
\* and the last status of the shop.  History: the day of the list, and whether midnight passed.
SaveShop ==
  /\ pc = "save"
  /\ files' = [files EXCEPT ![Shop] =
       [orders |-> found, date |-> dataDate, day |-> asked.day,
        hasty |-> hasty, enough |-> enough, late |-> today # Today]]
  /\ shopStatus' = [shopStatus EXCEPT ![Shop] = "completed"]
  /\ runStatus' = [runStatus EXCEPT !.total = @ + Cardinality(found)]
  /\ left' = Tail(left)
  /\ pc' = IF left' = <<>> THEN "finish" ELSE "start"
  /\ UNCHANGED <<today, pageVars, readVars>>

Finish ==
  /\ Goto("finish", "done")
  /\ runStatus' = [runStatus EXCEPT !.state = "completed"]
  /\ UNCHANGED <<left, today, pageVars, readVars, files, shopStatus>>

\* An element that is not there in time, or a file that cannot be written: the
\* exception leaves the statuses as they are.
Raise ==
  /\ pc \in {"login", "switch", "day", "query", "size", "click", "save"}
  /\ pc' = "raised"
  /\ UNCHANGED <<left, today, pageVars, readVars, statusVars>>

Crawl ==
  /\ \/ Login \/ StartShop \/ SwitchShop \/ ChooseYesterday \/ ClickQuery
     \/ ReadTotal \/ SetPageSize \/ ReadPage \/ ClickNext \/ AwaitPage \/ SaveShop
     \/ Finish \/ Raise
  /\ UNCHANGED dataDate

Next ==
  \/ Crawl
  \/ (Render \/ Midnight) /\ UNCHANGED dataDate

Spec == Init /\ [][Next]_vars

----------------------------------------------------------------------------
(***************************************************************************)
(* Properties.                                                             *)
(***************************************************************************)
Saved == {s \in ShopSet : files[s] # None}

\* The numbers of the list of a shop of which its file should tell.
Numbers(s) == ParseOrders(Orders[<<s, files[s].day>>])

\* When the shop was switched to and nothing was read too early, the file of a shop holds
\* every order of its list whose number can be read, and no other, however the pages are
\* cut, whether the page tells its total or not, and though the pager ignores clicks.
CompleteUnlessHasty == \A s \in Saved : files[s].hasty = {} => files[s].orders = Numbers(s)

\* Paging that stops at expected_total has met every order of the list, even when
\* pages were read twice or were skipped, if that total was the list's: an order that
\* is read again does not count again.
EnoughMeansAll ==
  \A s \in Saved :
    files[s].enough /\ {"shop", "query"} \cap files[s].hasty = {} => files[s].orders = Numbers(s)

\* The list is the one of the day before the crawl, unless midnight passed, and the file
\* states that day, unless args.date named another: 昨日 is clicked all the same.
DayAsStated ==
  \A s \in Saved :
    ~files[s].late => files[s].day = Today - 1 /\ files[s].date \in {files[s].day} \cup Dates
=============================================================================
