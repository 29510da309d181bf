---------------------------- MODULE OrderScraping ----------------------------
(***************************************************************************)
(* The collection of orders by the scraper: the job that keeps its runs    *)
(* apart, the crawl of the douyin shops and the crawl of the tmall shop.   *)
(* They share no variable: "part" says which of them runs, so a property   *)
(* of one holds here exactly when it holds of that part alone.             *)
(***************************************************************************)
EXTENDS OrderJob, Sequences

CONSTANTS
  Shops, OrdersOf, Garbled, SmallPage, CrawlPage, Today, Dates, MaxDays,   \* OrderCrawl
  Listed, Coming, Removals, MsdPage, Limits, Concurrency, HasPassword    \* MsdOrders

VARIABLES
  part,       \* what runs
  \* OrderCrawl
  crawlPc, left, today, dataDate, picked, asked, shown, expected, onFirst, found, files,
  shopStatus, runStatus, hasty, enough, ignored,
  \* MsdOrders
  msdPc, maxPages, where, site, came, removed, page, total, links, work, saved, msdStatus,
  first, cut, clamped, since

Crawl == INSTANCE OrderCrawl WITH
  Orders <- OrdersOf, PageSize <- CrawlPage, pc <- crawlPc

Msd == INSTANCE MsdOrders WITH
  PageSize <- MsdPage, pc <- msdPc, status <- msdStatus

\* What the instances assume of their constants.
ASSUME CrawlsAssumption == Crawl!CrawlAssumption /\ Msd!MsdAssumption

crawlVars == <<crawlPc, left, today, dataDate, picked, asked, shown, expected, onFirst,
               found, files, shopStatus, runStatus, hasty, enough, ignored>>
msdVars == <<msdPc, maxPages, where, site, came, removed, page, total, links, work, saved,
             msdStatus, first, cut, clamped, since>>
scrapingVars == <<part, vars, crawlVars, msdVars>>

ScrapingInit ==
  /\ part \in {"jobs", "crawl", "msd"}
  /\ Init /\ Crawl!Init /\ Msd!Init
  /\ part # "crawl" => asked.shop = Head(Shops) /\ dataDate = Today - 1
  /\ part # "msd" => where = "orders" /\ maxPages = 0

ScrapingNext ==
  /\ UNCHANGED part
  /\ \/ part = "jobs" /\ Next /\ UNCHANGED <<crawlVars, msdVars>>
     \/ part = "crawl" /\ Crawl!Next /\ UNCHANGED <<vars, msdVars>>
     \/ part = "msd" /\ Msd!Next /\ UNCHANGED <<vars, crawlVars>>

\* The crawl that runs goes on, whatever the page or the site does: each of its waits
\* has a timeout.
ScrapingSpec ==
  /\ ScrapingInit /\ [][ScrapingNext]_scrapingVars
  /\ WF_crawlVars(part = "crawl" /\ Crawl!Crawl)
  /\ WF_msdVars(part = "msd" /\ Msd!Crawl)

-----------------------------------------------------------------------------
(***************************************************************************)
(* The properties of the instances.                                        *)
(***************************************************************************)

\* The file of a shop holds the orders of the shop's list whose number can be read, and no
\* other, when the shop was switched to and nothing was read too early or the paging stopped
\* at expected_total; and the day that it states is the list's, unless midnight passed or
\* args.date named another (switch_shop, collect_all_pages, save_results).
CrawlComplete ==
  Crawl!CompleteUnlessHasty /\ Crawl!EnoughMeansAll /\ Crawl!DayAsStated

\* The tmall file holds every order that was listed when the first page was read, though
\* orders came meanwhile, unless one left the list, more than a page of them came, or the
\* paging was cut short; and none twice (collect_order_links_from_api).
ListSaved == Msd!ListedOrdersSaved /\ Msd!NoOrderTwice

\* The status asks for a login while the crawl waits for it, and otherwise only when the
\* wait ended with an exception.
LoginAskedInTime ==
  /\ runStatus.state = "login_required" => crawlPc \in {"login", "raised"}
  /\ msdStatus = "login_required" => msdPc \in {"waiting", "raised"}

\* Every crawl ends, whatever the page and the site do, but for what its loop has no bound
\* against: from some time on the pager ignores every click, or the site answers every page
\* beyond the last by the last.  And the status asks for a login only in time
\* (collect_all_pages, wait_for_manual_login, collect_order_links_from_api).
CrawlsEnd ==
  /\ part = "crawl" => <>(crawlPc \in {"done", "raised"}) \/ <>[]ignored
  /\ part = "msd" => <>(msdPc \in {"done", "raised"}) \/ <>[]clamped
  /\ []LoginAskedInTime
=============================================================================
