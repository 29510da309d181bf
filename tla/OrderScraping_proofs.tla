------------------------- MODULE OrderScraping_proofs -------------------------
(***************************************************************************)
(* Proofs about the collection of orders, for any processes, any lists and *)
(* pages of any size: two runs of the job collect at once only after an    *)
(* accident that ExclusiveWithoutAccident names, a lock is left by a       *)
(* killed process only and so is the status "running"; what the douyin     *)
(* crawl saves is complete unless something was read too early; and the    *)
(* tmall crawl misses no order and has none twice.                         *)
(***************************************************************************)
EXTENDS OrderScraping, SequenceTheorems, FiniteSetTheorems, TLAPS

----------------------------------------------------------------------------
(***************************************************************************)
(* The parts go on alone: a behaviour of the whole is one of each of them. *)
(***************************************************************************)

\* What holds of the job or of a crawl holds of the whole.
THEOREM PartsGoOnAlone == ScrapingSpec => Spec /\ Crawl!Spec /\ Msd!Spec
<1>1. ScrapingInit => Init /\ Crawl!Init /\ Msd!Init
  BY DEF ScrapingInit
<1>2. [ScrapingNext]_scrapingVars => [Next]_vars
  BY DEF ScrapingNext, scrapingVars
<1>3. [ScrapingNext]_scrapingVars => [Crawl!Next]_(Crawl!vars)
  BY DEF ScrapingNext, scrapingVars, crawlVars, Crawl!vars, Crawl!pageVars, Crawl!readVars,
     Crawl!statusVars
<1>4. [ScrapingNext]_scrapingVars => [Msd!Next]_(Msd!vars)
  BY DEF ScrapingNext, scrapingVars, msdVars, Msd!vars, Msd!siteVars, Msd!listVars
<1>5. QED
  BY <1>1, <1>2, <1>3, <1>4, PTL DEF ScrapingSpec, Spec, Crawl!Spec, Msd!Spec

----------------------------------------------------------------------------
(***************************************************************************)
(* The job.                                                                *)
(***************************************************************************)

\* The processes that have found the way free, or are making it free.
Busy == Admitted \cup {"remove"}

\* The processes that have made a lock and not removed one since.
Holding == {"fill", "announce", "collect", "report", "release"}

\* The strengthening for exclusion: until an accident, one process is busy and
\* the way of every other is blocked by a lock, until it is back at "create".
OneBusy ==
  accident = {} =>
    /\ \A j, k \in Jobs : pc[j] \in Busy /\ pc[k] \in Busy => j = k
    /\ \A j \in Jobs : pc[j] \in Busy \ {"create"} => lock # None

\* The strengthening for the lock: somebody alive will remove it.
LockHasHolder ==
  lock # None => \E j \in Jobs : pc[j] \in Holding \cup {"killed"}

\* The strengthening for the status: a process that collects, or one that
\* ended without reporting, has written "running".
ResultsFit ==
  \A j \in Jobs :
    /\ pc[j] = "report" => result[j] \in {"success", "failed"}
    /\ result[j] = "exit" => pc[j] \in {"release", "end", "killed"}

RunningHasRunner ==
  status = "running" =>
    \E j \in Jobs : pc[j] \in {"collect", "report", "killed"} \/ result[j] = "exit"

----------------------------------------------------------------------------
Types == TypeOK /\ ResultsFit

LEMMA InitTypes == Init => Types
<1> SUFFICES ASSUME Init PROVE Types
  OBVIOUS
<1> QED
  BY NoneAssumption DEF Init, Types, TypeOK, ResultsFit, Results

\* No step of main(), no kill and no ageing of the lock leaves the types, and
\* what is reported is a success or a failure.
LEMMA StepTypes == Types /\ [Next]_vars => Types'
<1> SUFFICES ASSUME Types, [Next]_vars PROVE Types'
  OBVIOUS
<1> USE NoneAssumption DEF Types, TypeOK, ResultsFit, Admitted, Goto, Happens, Locks, States, Results
<1>1. ASSUME NEW j \in Jobs, Start(j) PROVE Types'
  BY <1>1 DEF Start
<1>2. ASSUME NEW j \in Jobs, Look(j) PROVE Types'
  BY <1>2 DEF Look
<1>3. ASSUME NEW j \in Jobs, JudgeLock(j) PROVE Types'
  BY <1>3 DEF JudgeLock
<1>4. ASSUME NEW j \in Jobs, RemoveStale(j) PROVE Types'
  BY <1>4 DEF RemoveStale
<1>5. ASSUME NEW j \in Jobs, Skip(j) PROVE Types'
  BY <1>5 DEF Skip
<1>6. ASSUME NEW j \in Jobs, CreateLock(j) PROVE Types'
  <2>1. lock' \in Locks
    BY <1>6 DEF CreateLock
  <2>2. QED
    BY <1>6, <2>1 DEF CreateLock
<1>7. ASSUME NEW j \in Jobs, FillLock(j) PROVE Types'
  <2>1. lock' \in Locks \cup {None}
    BY <1>7 DEF FillLock
  <2>2. QED
    BY <1>7, <2>1 DEF FillLock
<1>8. ASSUME NEW j \in Jobs, Announce(j) PROVE Types'
  BY <1>8 DEF Announce
<1>9. ASSUME NEW j \in Jobs, Collect(j) PROVE Types'
  BY <1>9 DEF Collect
<1>10. ASSUME NEW j \in Jobs, Report(j) PROVE Types'
  BY <1>10 DEF Report
<1>11. ASSUME NEW j \in Jobs, Release(j) PROVE Types'
  BY <1>11 DEF Release
<1>12. ASSUME NEW j \in Jobs, Killed(j) PROVE Types'
  BY <1>12 DEF Killed
<1>13. CASE Expire
  <2>1. lock' \in Locks
    BY <1>13 DEF Expire
  <2>2. QED
    BY <1>13, <2>1 DEF Expire
<1>14. CASE UNCHANGED vars
  BY <1>14 DEF vars
<1>15. QED
  BY <1>1, <1>2, <1>3, <1>4, <1>5, <1>6, <1>7, <1>8, <1>9, <1>10, <1>11,
     <1>12, <1>13, <1>14 DEF Next

\* Type correctness of the order collection job.
THEOREM JobTypeCorrect == Spec => []TypeOK
<1>1. Types => TypeOK
  BY DEF Types
<1>2. QED
  BY <1>1, InitTypes, StepTypes, PTL DEF Spec

----------------------------------------------------------------------------
LEMMA InitOneBusy == Init => OneBusy
  BY DEF Init, OneBusy, Busy, Admitted

(* A step without an accident admits a process only past a missing lock that *)
(* nobody else has found missing, or past a stale one whose writer is gone.  *)
LEMMA StepOneBusy == Types /\ OneBusy /\ [Next]_vars => OneBusy'
<1> SUFFICES ASSUME Types, OneBusy, [Next]_vars, accident' = {}
             PROVE  /\ \A j, k \in Jobs : pc'[j] \in Busy /\ pc'[k] \in Busy => j = k
                    /\ \A j \in Jobs : pc'[j] \in Busy \ {"create"} => lock' # None
  BY DEF OneBusy, Busy
<1> DEFINE Goal == /\ \A j, k \in Jobs : pc'[j] \in Busy /\ pc'[k] \in Busy => j = k
                   /\ \A j \in Jobs : pc'[j] \in Busy \ {"create"} => lock' # None
<1> USE NoneAssumption DEF Types, TypeOK, OneBusy, Busy, Admitted, Goto, Happens, Others, Locks
<1>1. ASSUME NEW j \in Jobs, Start(j) PROVE Goal
  BY <1>1 DEF Start
<1>2. ASSUME NEW j \in Jobs, Look(j) PROVE Goal
  BY <1>2 DEF Look
<1>3. ASSUME NEW j \in Jobs, JudgeLock(j) PROVE Goal
  BY <1>3 DEF JudgeLock
<1>4. ASSUME NEW j \in Jobs, RemoveStale(j) PROVE Goal
  BY <1>4 DEF RemoveStale
<1>5. ASSUME NEW j \in Jobs, Skip(j) PROVE Goal
  BY <1>5 DEF Skip
<1>6. ASSUME NEW j \in Jobs, CreateLock(j) PROVE Goal
  <2>1. lock' \in Locks
    BY <1>6 DEF CreateLock
  <2>2. lock' # None
    BY <2>1
  <2>3. \A k, l \in Jobs : pc'[k] \in Busy /\ pc'[l] \in Busy => k = l
    BY <1>6 DEF CreateLock
  <2>4. QED
    BY <2>2, <2>3
<1>7. ASSUME NEW j \in Jobs, FillLock(j) PROVE Goal
  <2>1. lock # None /\ pc[j] = "fill" /\ Goto(j, "announce")
    BY <1>7 DEF FillLock
  <2>2. lock' # None
    BY <1>7, <2>1 DEF FillLock
  <2>3. \A k, l \in Jobs : pc'[k] \in Busy /\ pc'[l] \in Busy => k = l
    BY <1>7, <2>1 DEF FillLock
  <2>4. QED
    BY <2>2, <2>3
<1>8. ASSUME NEW j \in Jobs, Announce(j) PROVE Goal
  BY <1>8 DEF Announce
<1>9. ASSUME NEW j \in Jobs, Collect(j) PROVE Goal
  BY <1>9 DEF Collect
<1>10. ASSUME NEW j \in Jobs, Report(j) PROVE Goal
  BY <1>10 DEF Report
<1>11. ASSUME NEW j \in Jobs, Release(j) PROVE Goal
  BY <1>11 DEF Release
<1>12. ASSUME NEW j \in Jobs, Killed(j) PROVE Goal
  BY <1>12 DEF Killed
<1>13. CASE Expire
  BY <1>13 DEF Expire
<1>14. CASE UNCHANGED vars
  BY <1>14 DEF vars
<1>15. QED
  BY <1>1, <1>2, <1>3, <1>4, <1>5, <1>6, <1>7, <1>8, <1>9, <1>10, <1>11,
     <1>12, <1>13, <1>14 DEF Next

\* Two processes collect at once only after one of the three accidents.
THEOREM JobsExcludeWithoutAccident == Spec => []ExclusiveWithoutAccident
<1>1. OneBusy => ExclusiveWithoutAccident
  <2> DEFINE In == {j \in Jobs : pc[j] \in Admitted}
  <2> SUFFICES ASSUME OneBusy, accident = {} PROVE Cardinality(In) <= 1
    BY DEF ExclusiveWithoutAccident
  <2>1. CASE In = {}
    BY <2>1, FS_EmptySet
  <2>2. CASE In # {}
    <3>1. PICK j \in Jobs : In = {j}
      BY <2>2 DEF OneBusy, Busy
    <3> HIDE DEF In
    <3>2. Cardinality(In) = 1
      BY <3>1, FS_Singleton
    <3>3. QED
      BY <3>2
  <2>3. QED
    BY <2>1, <2>2
<1>2. Init => Types /\ OneBusy
  BY InitTypes, InitOneBusy
<1>3. Types /\ OneBusy /\ [Next]_vars => Types' /\ OneBusy'
  BY StepTypes, StepOneBusy
<1>4. QED
  BY <1>1, <1>2, <1>3, PTL DEF Spec

----------------------------------------------------------------------------
(* Whoever makes a lock removes the one at the path in its finally clause,   *)
(* unless it is killed before.                                               *)
LEMMA StepLockHasHolder == Types /\ LockHasHolder /\ [Next]_vars => LockHasHolder'
<1> SUFFICES ASSUME Types, LockHasHolder, [Next]_vars, lock' # None
             PROVE  \E j \in Jobs : pc'[j] \in Holding \cup {"killed"}
  BY DEF LockHasHolder, Holding
<1> DEFINE Goal == \E j \in Jobs : pc'[j] \in Holding \cup {"killed"}
<1> USE DEF Types, TypeOK, LockHasHolder, Holding, Admitted, Goto
<1>1. ASSUME NEW j \in Jobs, Start(j) PROVE Goal
  BY <1>1 DEF Start
<1>2. ASSUME NEW j \in Jobs, Look(j) PROVE Goal
  BY <1>2 DEF Look
<1>3. ASSUME NEW j \in Jobs, JudgeLock(j) PROVE Goal
  BY <1>3 DEF JudgeLock
<1>4. ASSUME NEW j \in Jobs, RemoveStale(j) PROVE Goal
  BY <1>4 DEF RemoveStale
<1>5. ASSUME NEW j \in Jobs, Skip(j) PROVE Goal
  BY <1>5 DEF Skip
<1>6. ASSUME NEW j \in Jobs, CreateLock(j) PROVE Goal
  BY <1>6 DEF CreateLock
<1>7. ASSUME NEW j \in Jobs, FillLock(j) PROVE Goal
  BY <1>7 DEF FillLock
<1>8. ASSUME NEW j \in Jobs, Announce(j) PROVE Goal
  BY <1>8 DEF Announce
<1>9. ASSUME NEW j \in Jobs, Collect(j) PROVE Goal
  BY <1>9 DEF Collect
<1>10. ASSUME NEW j \in Jobs, Report(j) PROVE Goal
  BY <1>10 DEF Report
<1>11. ASSUME NEW j \in Jobs, Release(j) PROVE Goal
  BY <1>11 DEF Release
<1>12. ASSUME NEW j \in Jobs, Killed(j) PROVE Goal
  BY <1>12 DEF Killed
<1>13. CASE Expire
  BY <1>13 DEF Expire
<1>14. CASE UNCHANGED vars
  BY <1>14 DEF vars
<1>15. QED
  BY <1>1, <1>2, <1>3, <1>4, <1>5, <1>6, <1>7, <1>8, <1>9, <1>10, <1>11,
     <1>12, <1>13, <1>14 DEF Next

\* When all who started have ended without being killed, the lock is gone.
THEOREM LockIsLeftByTheKilled == Spec => []LockLeftOnlyByDeath
<1>1. Init => Types /\ LockHasHolder
  BY InitTypes DEF Init, LockHasHolder
<1>2. Types /\ LockHasHolder /\ [Next]_vars => Types' /\ LockHasHolder'
  BY StepTypes, StepLockHasHolder
<1>3. LockHasHolder => LockLeftOnlyByDeath
  BY DEF LockHasHolder, LockLeftOnlyByDeath, Holding
<1>4. QED
  BY <1>1, <1>2, <1>3, PTL DEF Spec

----------------------------------------------------------------------------
(* Whoever has written "running" reports a result over it, unless it leaves  *)
(* by an exception that main does not catch.                                 *)
LEMMA StepRunningHasRunner ==
  Types /\ RunningHasRunner /\ [Next]_vars => RunningHasRunner'
<1> SUFFICES ASSUME Types, RunningHasRunner, [Next]_vars, status' = "running"
             PROVE  \E j \in Jobs : \/ pc'[j] \in {"collect", "report", "killed"}
                                   \/ result'[j] = "exit"
  BY DEF RunningHasRunner
<1> DEFINE Goal == \E j \in Jobs : \/ pc'[j] \in {"collect", "report", "killed"}
                                  \/ result'[j] = "exit"
<1> USE DEF Types, TypeOK, ResultsFit, RunningHasRunner, Admitted, Goto, Results
<1>1. ASSUME NEW j \in Jobs, Start(j) PROVE Goal
  BY <1>1 DEF Start
<1>2. ASSUME NEW j \in Jobs, Look(j) PROVE Goal
  BY <1>2 DEF Look
<1>3. ASSUME NEW j \in Jobs, JudgeLock(j) PROVE Goal
  BY <1>3 DEF JudgeLock
<1>4. ASSUME NEW j \in Jobs, RemoveStale(j) PROVE Goal
  BY <1>4 DEF RemoveStale
<1>5. ASSUME NEW j \in Jobs, Skip(j) PROVE Goal
  BY <1>5 DEF Skip
<1>6. ASSUME NEW j \in Jobs, CreateLock(j) PROVE Goal
  BY <1>6 DEF CreateLock
<1>7. ASSUME NEW j \in Jobs, FillLock(j) PROVE Goal
  BY <1>7 DEF FillLock
<1>8. ASSUME NEW j \in Jobs, Announce(j) PROVE Goal
  BY <1>8 DEF Announce
<1>9. ASSUME NEW j \in Jobs, Collect(j) PROVE Goal
  BY <1>9 DEF Collect
<1>10. ASSUME NEW j \in Jobs, Report(j) PROVE Goal
  BY <1>10 DEF Report
<1>11. ASSUME NEW j \in Jobs, Release(j) PROVE Goal
  BY <1>11 DEF Release
<1>12. ASSUME NEW j \in Jobs, Killed(j) PROVE Goal
  BY <1>12 DEF Killed
<1>13. CASE Expire
  BY <1>13 DEF Expire
<1>14. CASE UNCHANGED vars
  BY <1>14 DEF vars
<1>15. QED
  BY <1>1, <1>2, <1>3, <1>4, <1>5, <1>6, <1>7, <1>8, <1>9, <1>10, <1>11,
     <1>12, <1>13, <1>14 DEF Next

\* The status "running" outlives all processes only when one was killed or
\* left by an uncaught exception.
THEOREM RunningIsLeftByTheUnreported == Spec => []RunningIsOver
<1>1. Init => Types /\ RunningHasRunner
  BY InitTypes, NoneAssumption DEF Init, RunningHasRunner, States
<1>2. Types /\ RunningHasRunner /\ [Next]_vars => Types' /\ RunningHasRunner'
  BY StepTypes, StepRunningHasRunner
<1>3. RunningHasRunner => RunningIsOver
  BY DEF RunningHasRunner, RunningIsOver
<1>4. QED
  BY <1>1, <1>2, <1>3, PTL DEF Spec

----------------------------------------------------------------------------
(***************************************************************************)
(* The crawl of the douyin shops.                                          *)
(***************************************************************************)
Views == [shop : Crawl!ShopSet, day : Crawl!Days \cup {None}, size : Nat \ {0}, no : Nat \ {0}]

Reading == {"read", "click", "turn", "save"}

\* The list that was asked for, and the numbers of its first n orders.
List     == Crawl!ListOf(asked)
Upto(n)  == {List[i] : i \in {k \in 1..Len(List) : k <= n}} \ Garbled

CrawlTypes ==
  /\ left \in Seq(Crawl!ShopSet)
  /\ crawlPc \notin {"finish", "done", "raised"} => left # <<>>
  /\ today \in Nat /\ Today <= today /\ today <= Today + MaxDays
  /\ picked \in Crawl!Days \cup {None} /\ asked \in Views /\ shown \in Views
  /\ dataDate \in {Today - 1} \cup Dates

\* Until midnight the day of the label and of the list is the one before the start.
DayFits ==
  /\ crawlPc = "query" => picked # None
  /\ today = Today => picked \in {None, Today - 1}
  /\ today = Today /\ crawlPc \in {"total", "size"} \cup Reading => asked.day = Today - 1

\* When the total was not read too early, the page shows the list that was asked for, in
\* whatever cut, and all that is found is of that list.
ListFits ==
  "query" \notin hasty =>
    /\ crawlPc \in {"size"} \cup Reading =>
         /\ shown.shop = asked.shop /\ shown.day = asked.day
         /\ expected \in {None, Len(List)}
    /\ crawlPc \in Reading => found \subseteq Crawl!ParseOrders(List)

\* From the switch on, the list that is asked for is the shop's.
ShopFits ==
  crawlPc \in {"day", "query", "total", "size"} \cup Reading /\ "shop" \notin hasty =>
    asked.shop = Crawl!Shop

\* The paging begins with the first page.
PageFits == crawlPc \in {"total", "size"} => asked.no = 1

\* When nothing was read too early, what is found are the pages before the one that is
\* asked for, or that one too, because the pager did not turn.
Before == (asked.no - 1) * asked.size
Behind == asked.no * asked.size

FoundFits ==
  hasty = {} =>
    /\ crawlPc \in {"click", "save"} => shown = asked
    /\ crawlPc = "read" /\ ~onFirst => shown = asked
    /\ crawlPc \in {"read", "turn"} => found \in {Upto(Before), Upto(Behind)}
    /\ crawlPc \in {"click", "save"} => found = Upto(Behind)
    /\ crawlPc = "save" /\ ~enough => Len(List) <= Behind

\* Why the paging stopped.
StopFits ==
  crawlPc = "save" /\ enough => expected \notin {None, 0} /\ Cardinality(found) >= expected

\* The numbers of the list of a shop.
NumbersOf(s, file) == Crawl!ParseOrders(OrdersOf[<<s, file.day>>])

FileFits(s, file) ==
  /\ file.hasty = {} => file.orders = NumbersOf(s, file)
  /\ file.enough /\ {"shop", "query"} \cap file.hasty = {} => file.orders = NumbersOf(s, file)
  /\ ~file.late => file.day = Today - 1 /\ file.date \in {file.day} \cup Dates

FilesFit ==
  /\ DOMAIN files = Crawl!ShopSet
  /\ \A s \in Crawl!ShopSet : files[s] # None => FileFits(s, files[s])

CrawlInv ==
  CrawlTypes /\ DayFits /\ ListFits /\ ShopFits /\ PageFits /\ FoundFits /\ StopFits /\ FilesFit

LEMMA CrawlConstants ==
  /\ Shops \in Seq(Crawl!ShopSet) /\ Shops # <<>> /\ None \notin Nat
  /\ SmallPage \in Nat \ {0} /\ CrawlPage \in Nat \ {0}
  /\ Today \in Nat \ {0} /\ MaxDays \in Nat
  /\ \A s \in Crawl!ShopSet, d \in Crawl!Days \cup {None} :
       OrdersOf[<<s, d>>] \in Seq(Crawl!Range(OrdersOf[<<s, d>>]))
  BY CrawlsAssumption DEF Crawl!CrawlAssumption

\* Every list is a sequence.
LEMMA ListOfView ==
  ASSUME NEW v \in Views
  PROVE  Crawl!ListOf(v) \in Seq(Crawl!Range(Crawl!ListOf(v)))
  BY CrawlConstants DEF Views, Crawl!ListOf

\* What the clicks make of a view, field by field.
LEMMA ViewChanges ==
  ASSUME NEW v \in Views, NEW n \in Nat \ {0}
  PROVE  /\ \A s \in Crawl!ShopSet :
              /\ [v EXCEPT !.shop = s, !.no = n] \in Views
              /\ [v EXCEPT !.shop = s, !.no = n].day = v.day
         /\ \A d \in Crawl!Days \cup {None} :
              /\ [v EXCEPT !.day = d, !.no = n] \in Views
              /\ [v EXCEPT !.day = d, !.no = n].day = d /\ [v EXCEPT !.day = d, !.no = n].no = n
         /\ \A z \in Nat \ {0} :
              /\ [v EXCEPT !.size = z, !.no = n] \in Views
              /\ [v EXCEPT !.size = z, !.no = n].shop = v.shop
              /\ [v EXCEPT !.size = z, !.no = n].day = v.day
              /\ [v EXCEPT !.size = z, !.no = n].no = n
         /\ /\ [v EXCEPT !.no = n] \in Views /\ [v EXCEPT !.no = n].shop = v.shop
            /\ [v EXCEPT !.no = n].day = v.day /\ [v EXCEPT !.no = n].size = v.size
            /\ [v EXCEPT !.no = n].no = n
  BY DEF Views

LEMMA InitCrawl == Crawl!Init => CrawlInv
<1> SUFFICES ASSUME Crawl!Init PROVE CrawlInv
  OBVIOUS
<1> USE CrawlConstants
<1>1. /\ crawlPc = "open" /\ left = Shops /\ today = Today /\ shown = asked
      /\ picked = None /\ dataDate \in {Today - 1} \cup Dates /\ files = [s \in Crawl!ShopSet |-> None]
      /\ \E s \in Crawl!ShopSet : asked = [shop |-> s, day |-> None, size |-> SmallPage, no |-> 1]
  BY DEF Crawl!Init
<1>2. asked \in Views
  BY <1>1 DEF Views
<1>3. CrawlTypes
  BY <1>1, <1>2 DEF CrawlTypes
<1>4. DayFits /\ ListFits /\ ShopFits /\ PageFits /\ FoundFits /\ StopFits /\ FilesFit
  BY <1>1 DEF DayFits, ListFits, ShopFits, PageFits, FoundFits, StopFits, FilesFit, Reading
<1> QED
  BY <1>3, <1>4 DEF CrawlInv

\* The types hold, and the label has a day when the query is clicked.
LEMMA StepCrawlTypes == CrawlTypes /\ [Crawl!Next]_(Crawl!vars) => CrawlTypes'
<1> SUFFICES ASSUME CrawlTypes, [Crawl!Next]_(Crawl!vars) PROVE CrawlTypes'
  OBVIOUS
<1>0. dataDate' = dataDate
  BY DEF Crawl!Next, Crawl!Crawl, Crawl!vars
<1> USE CrawlConstants, <1>0 DEF CrawlTypes, Crawl!Goto, Crawl!pageVars, Crawl!readVars, Crawl!statusVars
<1>1. CASE Crawl!Login
  BY <1>1 DEF Crawl!Login
<1>2. CASE Crawl!StartShop
  BY <1>2 DEF Crawl!StartShop
<1>3. CASE Crawl!SwitchShop
  <2>1. Crawl!Shop \in Crawl!ShopSet
    BY <1>3 DEF Crawl!SwitchShop, Crawl!Shop
  <2>2. asked' \in Views
    <3>1. asked \in Views /\ 1 \in Nat \ {0} /\ asked.shop \in Crawl!ShopSet
      BY DEF Views
    <3>2. asked' = asked \/ \E s \in {asked.shop, Crawl!Shop} : asked' = [asked EXCEPT !.shop = s, !.no = 1]
      BY <1>3 DEF Crawl!SwitchShop
    <3>3. \A s \in Crawl!ShopSet : [asked EXCEPT !.shop = s, !.no = 1] \in Views
      BY <3>1, ViewChanges
    <3> QED
      BY <2>1, <3>1, <3>2, <3>3
  <2> QED
    BY <1>3, <2>2 DEF Crawl!SwitchShop
<1>4. CASE Crawl!ChooseYesterday
  BY <1>4 DEF Crawl!ChooseYesterday, Crawl!Days
<1>5. CASE Crawl!ClickQuery
  <2>1. today - 1 \in Crawl!Days
    BY DEF Crawl!Days
  <2>2. asked' \in Views
    <3>1. asked \in Views /\ 1 \in Nat \ {0}
      OBVIOUS
    <3>2. \E d \in Crawl!Days \cup {None} : asked' = [asked EXCEPT !.day = d, !.no = 1]
      BY <1>5, <2>1 DEF Crawl!ClickQuery
    <3>3. \A d \in Crawl!Days \cup {None} : [asked EXCEPT !.day = d, !.no = 1] \in Views
      BY <3>1, ViewChanges
    <3> QED
      BY <3>2, <3>3
  <2> QED
    BY <1>5, <2>2 DEF Crawl!ClickQuery
<1>6. CASE Crawl!ReadTotal
  BY <1>6 DEF Crawl!ReadTotal
<1>7. CASE Crawl!SetPageSize
  <2>1. asked' \in Views
    <3>1. asked \in Views /\ 1 \in Nat \ {0} /\ CrawlPage \in Nat \ {0}
      OBVIOUS
    <3>2. asked' = asked \/ asked' = [asked EXCEPT !.size = CrawlPage, !.no = 1]
      BY <1>7 DEF Crawl!SetPageSize
    <3>3. \A z \in Nat \ {0} : [asked EXCEPT !.size = z, !.no = 1] \in Views
      BY <3>1, ViewChanges
    <3> QED
      BY <3>1, <3>2, <3>3
  <2> QED
    BY <1>7, <2>1 DEF Crawl!SetPageSize
<1>8. CASE Crawl!ReadPage
  BY <1>8 DEF Crawl!ReadPage
<1>9. CASE Crawl!ClickNext
  <2>1. asked' \in Views
    <3>1. asked \in Views /\ asked.no + 1 \in Nat \ {0}
      BY DEF Views
    <3>2. asked' = asked \/ asked' = [asked EXCEPT !.no = asked.no + 1]
      BY <1>9 DEF Crawl!ClickNext
    <3>3. [asked EXCEPT !.no = asked.no + 1] \in Views
      BY <3>1, ViewChanges
    <3> QED
      BY <3>1, <3>2, <3>3
  <2> QED
    BY <1>9, <2>1 DEF Crawl!ClickNext
<1>10. CASE Crawl!AwaitPage
  BY <1>10 DEF Crawl!AwaitPage
<1>11. CASE Crawl!SaveShop
  BY <1>11, HeadTailProperties DEF Crawl!SaveShop
<1>12. CASE Crawl!Finish
  BY <1>12 DEF Crawl!Finish
<1>13. CASE Crawl!Raise
  BY <1>13 DEF Crawl!Raise
<1>14. CASE Crawl!Render
  BY <1>14 DEF Crawl!Render
<1>15. CASE Crawl!Midnight
  BY <1>15 DEF Crawl!Midnight
<1>16. CASE UNCHANGED Crawl!vars
  BY <1>16 DEF Crawl!vars
<1> QED
  BY <1>1, <1>2, <1>3, <1>4, <1>5, <1>6, <1>7, <1>8, <1>9, <1>10, <1>11, <1>12, <1>13, <1>14,
     <1>15, <1>16 DEF Crawl!Next, Crawl!Crawl

LEMMA StepDayFits == CrawlTypes /\ DayFits /\ [Crawl!Next]_(Crawl!vars) => DayFits'
<1> SUFFICES ASSUME CrawlTypes, DayFits, [Crawl!Next]_(Crawl!vars) PROVE DayFits'
  OBVIOUS
<1> USE CrawlConstants DEF DayFits, Reading, Crawl!Goto, Crawl!pageVars, Crawl!readVars, Crawl!statusVars
<1>0. asked \in Views /\ today \in Nat
  BY DEF CrawlTypes
<1>1. CASE Crawl!Login
  BY <1>1 DEF Crawl!Login
<1>2. CASE Crawl!StartShop
  BY <1>2 DEF Crawl!StartShop
<1>3. CASE Crawl!SwitchShop
  BY <1>3 DEF Crawl!SwitchShop
<1>4. CASE Crawl!ChooseYesterday
  BY <1>0, <1>4 DEF Crawl!ChooseYesterday, CrawlTypes
<1>5. CASE Crawl!ClickQuery
  BY <1>0, <1>5 DEF Crawl!ClickQuery, Views
<1>6. CASE Crawl!ReadTotal
  BY <1>6 DEF Crawl!ReadTotal
<1>7. CASE Crawl!SetPageSize
  BY <1>0, <1>7 DEF Crawl!SetPageSize, Views
<1>8. CASE Crawl!ReadPage
  BY <1>8 DEF Crawl!ReadPage
<1>9. CASE Crawl!ClickNext
  BY <1>0, <1>9 DEF Crawl!ClickNext, Views
<1>10. CASE Crawl!AwaitPage
  BY <1>10 DEF Crawl!AwaitPage
<1>11. CASE Crawl!SaveShop
  BY <1>11 DEF Crawl!SaveShop
<1>12. CASE Crawl!Finish
  BY <1>12 DEF Crawl!Finish
<1>13. CASE Crawl!Raise
  BY <1>13 DEF Crawl!Raise
<1>14. CASE Crawl!Render
  BY <1>14 DEF Crawl!Render
<1>15. CASE Crawl!Midnight
  BY <1>15 DEF Crawl!Midnight, CrawlTypes
<1>16. CASE UNCHANGED Crawl!vars
  BY <1>16 DEF Crawl!vars
<1> QED
  BY <1>1, <1>2, <1>3, <1>4, <1>5, <1>6, <1>7, <1>8, <1>9, <1>10, <1>11, <1>12, <1>13, <1>14,
     <1>15, <1>16 DEF Crawl!Next, Crawl!Crawl

\* What is asked for stays the shop's: a switch without effect is noted.
LEMMA StepShopFits == CrawlTypes /\ ShopFits /\ [Crawl!Next]_(Crawl!vars) => ShopFits'
<1> SUFFICES ASSUME CrawlTypes, ShopFits, [Crawl!Next]_(Crawl!vars) PROVE ShopFits'
  OBVIOUS
<1> USE CrawlConstants DEF ShopFits, Reading, Crawl!Shop, Crawl!Goto, Crawl!pageVars, Crawl!readVars,
    Crawl!statusVars
<1>0. asked \in Views
  BY DEF CrawlTypes
<1>1. CASE Crawl!Login
  BY <1>1 DEF Crawl!Login
<1>2. CASE Crawl!StartShop
  BY <1>2 DEF Crawl!StartShop
<1>3. CASE Crawl!SwitchShop
  BY <1>3 DEF Crawl!SwitchShop
<1>4. CASE Crawl!ChooseYesterday
  BY <1>4 DEF Crawl!ChooseYesterday
<1>5. CASE Crawl!ClickQuery
  <2>1. asked'.shop = asked.shop
    BY <1>0, <1>5 DEF Crawl!ClickQuery, Views
  <2> QED
    BY <1>5, <2>1 DEF Crawl!ClickQuery
<1>6. CASE Crawl!ReadTotal
  BY <1>6 DEF Crawl!ReadTotal
<1>7. CASE Crawl!SetPageSize
  <2>1. asked'.shop = asked.shop
    BY <1>0, <1>7 DEF Crawl!SetPageSize, Views
  <2> QED
    BY <1>7, <2>1 DEF Crawl!SetPageSize
<1>8. CASE Crawl!ReadPage
  BY <1>8 DEF Crawl!ReadPage
<1>9. CASE Crawl!ClickNext
  <2>1. asked'.shop = asked.shop
    BY <1>0, <1>9 DEF Crawl!ClickNext, Views
  <2> QED
    BY <1>9, <2>1 DEF Crawl!ClickNext
<1>10. CASE Crawl!AwaitPage
  BY <1>10 DEF Crawl!AwaitPage
<1>11. CASE Crawl!SaveShop
  BY <1>11 DEF Crawl!SaveShop
<1>12. CASE Crawl!Finish
  BY <1>12 DEF Crawl!Finish
<1>13. CASE Crawl!Raise
  BY <1>13 DEF Crawl!Raise
<1>14. CASE Crawl!Render
  BY <1>14 DEF Crawl!Render
<1>15. CASE Crawl!Midnight
  BY <1>15 DEF Crawl!Midnight
<1>16. CASE UNCHANGED Crawl!vars
  BY <1>16 DEF Crawl!vars
<1> QED
  BY <1>1, <1>2, <1>3, <1>4, <1>5, <1>6, <1>7, <1>8, <1>9, <1>10, <1>11, <1>12, <1>13, <1>14,
     <1>15, <1>16 DEF Crawl!Next, Crawl!Crawl

LEMMA StepPageFits == CrawlTypes /\ PageFits /\ [Crawl!Next]_(Crawl!vars) => PageFits'
<1> SUFFICES ASSUME CrawlTypes, PageFits, [Crawl!Next]_(Crawl!vars) PROVE PageFits'
  OBVIOUS
<1> USE CrawlConstants DEF PageFits, Crawl!Goto, Crawl!pageVars, Crawl!readVars, Crawl!statusVars
<1>0. asked \in Views
  BY DEF CrawlTypes
<1>1. CASE Crawl!Login
  BY <1>1 DEF Crawl!Login
<1>2. CASE Crawl!StartShop
  BY <1>2 DEF Crawl!StartShop
<1>3. CASE Crawl!SwitchShop
  BY <1>3 DEF Crawl!SwitchShop
<1>4. CASE Crawl!ChooseYesterday
  BY <1>4 DEF Crawl!ChooseYesterday
<1>5. CASE Crawl!ClickQuery
  BY <1>0, <1>5 DEF Crawl!ClickQuery, Views
<1>6. CASE Crawl!ReadTotal
  BY <1>6 DEF Crawl!ReadTotal
<1>7. CASE Crawl!SetPageSize
  BY <1>0, <1>7 DEF Crawl!SetPageSize, Views
<1>8. CASE Crawl!ReadPage
  BY <1>8 DEF Crawl!ReadPage
<1>9. CASE Crawl!ClickNext
  BY <1>0, <1>9 DEF Crawl!ClickNext, Views
<1>10. CASE Crawl!AwaitPage
  BY <1>0, <1>10 DEF Crawl!AwaitPage
<1>11. CASE Crawl!SaveShop
  BY <1>11 DEF Crawl!SaveShop
<1>12. CASE Crawl!Finish
  BY <1>12 DEF Crawl!Finish
<1>13. CASE Crawl!Raise
  BY <1>13 DEF Crawl!Raise
<1>14. CASE Crawl!Render
  BY <1>14 DEF Crawl!Render
<1>15. CASE Crawl!Midnight
  BY <1>15 DEF Crawl!Midnight
<1>16. CASE UNCHANGED Crawl!vars
  BY <1>16 DEF Crawl!vars
<1> QED
  BY <1>1, <1>2, <1>3, <1>4, <1>5, <1>6, <1>7, <1>8, <1>9, <1>10, <1>11, <1>12, <1>13, <1>14,
     <1>15, <1>16 DEF Crawl!Next, Crawl!Crawl

\* The table shows the orders of its page.
LEMMA TableShows ==
  ASSUME NEW v \in Views
  PROVE  LET list == Crawl!ListOf(v)
             before == (v.no - 1) * v.size
         IN /\ before \in Nat /\ before + v.size = v.no * v.size
            /\ Crawl!Range(Crawl!Table(v)) =
                 {list[i] : i \in {k \in 1..Len(list) : before < k /\ k <= before + v.size}}
<1> DEFINE list == Crawl!ListOf(v)
           before == (v.no - 1) * v.size
           size == v.size
           n == IF before >= Len(list) THEN 0
                ELSE IF Len(list) - before < size THEN Len(list) - before ELSE size
           table == [i \in 1..n |-> list[before + i]]
<1>1. size \in Nat \ {0} /\ v.no \in Nat \ {0} /\ Len(list) \in Nat
  BY ListOfView DEF Views
<1>2. before \in Nat /\ before + size = v.no * size
  <2>1. \A x \in Nat \ {0}, y \in Nat \ {0} : (x - 1) * y \in Nat /\ (x - 1) * y + y = x * y
    OBVIOUS
  <2> QED
    BY <1>1, <2>1
<1>3. Crawl!Table(v) = table
  BY DEF Crawl!Table
<1> HIDE DEF list, before, size
<1>4. Crawl!Range(table) = {list[before + i] : i \in 1..n}
  BY DEF Crawl!Range
<1>5. ASSUME NEW i \in 1..n
      PROVE  before + i \in {k \in 1..Len(list) : before < k /\ k <= before + size}
  BY <1>1, <1>2
<1>6. ASSUME NEW k \in 1..Len(list), before < k, k <= before + size
      PROVE  k - before \in 1..n /\ before + (k - before) = k
  BY <1>1, <1>2, <1>6
<1> HIDE DEF n
<1>7. {list[before + i] : i \in 1..n} =
        {list[i] : i \in {k \in 1..Len(list) : before < k /\ k <= before + size}}
  <2>1. ASSUME NEW x \in {list[before + i] : i \in 1..n}
        PROVE  x \in {list[i] : i \in {k \in 1..Len(list) : before < k /\ k <= before + size}}
    BY <1>5
  <2>2. ASSUME NEW i \in {k \in 1..Len(list) : before < k /\ k <= before + size}
        PROVE  list[i] \in {list[before + j] : j \in 1..n}
    <3>1. i - before \in 1..n /\ before + (i - before) = i
      BY <1>6
    <3>2. list[before + (i - before)] \in {list[before + j] : j \in 1..n}
      BY <3>1
    <3> QED
      BY <3>1, <3>2
  <2> QED
    BY <2>1, <2>2
<1> QED
  BY <1>2, <1>3, <1>4, <1>7 DEF list, before, size

\* What a list holds.
LEMMA ListHolds ==
  ASSUME NEW v \in Views
  PROVE  Crawl!Range(Crawl!ListOf(v)) = {Crawl!ListOf(v)[i] : i \in 1..Len(Crawl!ListOf(v))}
<1>1. DOMAIN Crawl!ListOf(v) = 1..Len(Crawl!ListOf(v))
  BY ListOfView
<1> QED
  BY <1>1 DEF Crawl!Range

LEMMA StepListFits ==
  CrawlTypes /\ ListFits /\ [Crawl!Next]_(Crawl!vars) => ListFits'
<1> SUFFICES ASSUME CrawlTypes, ListFits, [Crawl!Next]_(Crawl!vars) PROVE ListFits'
  OBVIOUS
<1>0. asked \in Views /\ shown \in Views
  BY DEF CrawlTypes
<1> USE DEF Reading, Crawl!Goto, Crawl!pageVars, Crawl!readVars, Crawl!statusVars
\* Steps that change nothing of this.
<1>a. ASSUME UNCHANGED <<asked, shown, expected, found, hasty>>,
             crawlPc' \in {"size"} \cup Reading => crawlPc \in {"size"} \cup Reading,
             crawlPc' \in Reading => crawlPc \in Reading
      PROVE  ListFits'
  BY <1>a DEF ListFits, List, Crawl!ListOf, Crawl!ParseOrders, Crawl!Range
\* Steps to where nothing is claimed.
<1>b. ASSUME crawlPc' \notin {"size"} \cup Reading PROVE ListFits'
  BY <1>b DEF ListFits
<1>1. CASE Crawl!Login
  BY <1>1, <1>b DEF Crawl!Login
<1>2. CASE Crawl!StartShop
  BY <1>2, <1>b DEF Crawl!StartShop
<1>3. CASE Crawl!SwitchShop
  BY <1>3, <1>b DEF Crawl!SwitchShop
<1>4. CASE Crawl!ChooseYesterday
  BY <1>4, <1>b DEF Crawl!ChooseYesterday
<1>5. CASE Crawl!ClickQuery
  BY <1>5, <1>b DEF Crawl!ClickQuery
<1>6. CASE Crawl!ReadTotal
  <2> SUFFICES ASSUME "query" \notin hasty' PROVE ListFits'
    BY DEF ListFits
  <2>1. /\ crawlPc' = "size" /\ shown = asked /\ UNCHANGED <<asked, shown>>
        /\ expected' \in {None, Len(Crawl!ListOf(shown))}
    BY <1>6 DEF Crawl!ReadTotal, Crawl!Unrendered, Crawl!Total
  <2> QED
    BY <2>1 DEF ListFits, List, Crawl!ListOf
<1>7. CASE Crawl!SetPageSize
  <2>1. /\ crawlPc = "size" /\ crawlPc' = "read" /\ UNCHANGED <<shown, expected, hasty>>
        /\ found' = {}
        /\ asked' = asked \/ asked' = [asked EXCEPT !.size = CrawlPage, !.no = 1]
    BY <1>7 DEF Crawl!SetPageSize
  <2>2. asked'.shop = asked.shop /\ asked'.day = asked.day
    <3>1. CASE asked' = asked
      BY <3>1
    <3>2. CASE asked' = [asked EXCEPT !.size = CrawlPage, !.no = 1]
      BY <1>0, <3>2 DEF Views
    <3> QED
      BY <2>1, <3>1, <3>2
  <2>3. List' = List
    BY <2>2 DEF List, Crawl!ListOf
  <2> QED
    BY <2>1, <2>2, <2>3 DEF ListFits
<1>8. CASE Crawl!ReadPage
  <2>1. /\ crawlPc = "read" /\ crawlPc' \in Reading
        /\ found' = found \cup Crawl!ParseOrders(Crawl!Table(shown))
        /\ UNCHANGED <<asked, shown, expected>> /\ hasty \subseteq hasty'
    BY <1>8 DEF Crawl!ReadPage
  <2> SUFFICES ASSUME "query" \notin hasty' PROVE ListFits'
    BY DEF ListFits
  <2>2. /\ shown.shop = asked.shop /\ shown.day = asked.day /\ expected \in {None, Len(List)}
        /\ found \subseteq Crawl!ParseOrders(List)
    BY <2>1 DEF ListFits
  <2>3. Crawl!ListOf(shown) = List
    BY <2>2 DEF List, Crawl!ListOf
  <2>4. Crawl!Range(Crawl!Table(shown)) \subseteq Crawl!Range(Crawl!ListOf(shown))
    BY <1>0, TableShows, ListHolds
  <2>5. Crawl!ParseOrders(Crawl!Table(shown)) \subseteq Crawl!ParseOrders(List)
    BY <2>3, <2>4 DEF Crawl!ParseOrders
  <2>6. List' = List
    BY <2>1 DEF List, Crawl!ListOf
  <2>7. Crawl!ParseOrders(List)' = Crawl!ParseOrders(List)
    BY <2>6 DEF Crawl!ParseOrders, Crawl!Range
  <2> QED
    BY <2>1, <2>2, <2>5, <2>6, <2>7 DEF ListFits
<1>9. CASE Crawl!ClickNext
  <2>1. /\ crawlPc = "click" /\ crawlPc' = "turn" /\ UNCHANGED <<shown, expected, found, hasty>>
        /\ asked' = asked \/ asked' = [asked EXCEPT !.no = asked.no + 1]
    BY <1>9 DEF Crawl!ClickNext
  <2>2. asked'.shop = asked.shop /\ asked'.day = asked.day
    BY <1>0, <2>1 DEF Views
  <2>3. List' = List
    BY <2>2 DEF List, Crawl!ListOf
  <2>4. Crawl!ParseOrders(List)' = Crawl!ParseOrders(List)
    BY <2>3 DEF Crawl!ParseOrders, Crawl!Range
  <2> QED
    BY <2>1, <2>2, <2>3, <2>4 DEF ListFits
<1>10. CASE Crawl!AwaitPage
  <2>1. /\ crawlPc = "turn" /\ crawlPc' = "read" /\ UNCHANGED <<asked, shown, expected, found>>
        /\ hasty \subseteq hasty'
    BY <1>10 DEF Crawl!AwaitPage
  <2>2. List' = List
    BY <2>1 DEF List, Crawl!ListOf
  <2>3. Crawl!ParseOrders(List)' = Crawl!ParseOrders(List)
    BY <2>2 DEF Crawl!ParseOrders, Crawl!Range
  <2> QED
    BY <2>1, <2>2, <2>3 DEF ListFits
<1>11. CASE Crawl!SaveShop
  BY <1>11, <1>b DEF Crawl!SaveShop
<1>12. CASE Crawl!Finish
  BY <1>12, <1>b DEF Crawl!Finish
<1>13. CASE Crawl!Raise
  BY <1>13, <1>b DEF Crawl!Raise
<1>14. CASE Crawl!Render
  <2>1. UNCHANGED <<crawlPc, asked, expected, found, hasty>> /\ shown' = asked
    BY <1>14 DEF Crawl!Render
  <2>2. List' = List
    BY <2>1 DEF List, Crawl!ListOf
  <2>3. Crawl!ParseOrders(List)' = Crawl!ParseOrders(List)
    BY <2>2 DEF Crawl!ParseOrders, Crawl!Range
  <2> QED
    BY <2>1, <2>2, <2>3 DEF ListFits
<1>15. CASE Crawl!Midnight
  BY <1>15, <1>a DEF Crawl!Midnight
<1>16. CASE UNCHANGED Crawl!vars
  BY <1>16, <1>a DEF Crawl!vars
<1> QED
  BY <1>1, <1>2, <1>3, <1>4, <1>5, <1>6, <1>7, <1>8, <1>9, <1>10, <1>11, <1>12, <1>13, <1>14,
     <1>15, <1>16 DEF Crawl!Next, Crawl!Crawl

LEMMA StepFoundFits ==
  CrawlTypes /\ PageFits /\ FoundFits /\ [Crawl!Next]_(Crawl!vars) => FoundFits'
<1> SUFFICES ASSUME CrawlTypes, PageFits, FoundFits, [Crawl!Next]_(Crawl!vars) PROVE FoundFits'
  OBVIOUS
<1>0. asked \in Views /\ shown \in Views
  BY DEF CrawlTypes
<1> USE DEF Crawl!Goto, Crawl!pageVars, Crawl!readVars, Crawl!statusVars
\* Steps that change nothing of this.
<1>a. ASSUME UNCHANGED <<crawlPc, asked, shown, onFirst, found, hasty, enough>> PROVE FoundFits'
  BY <1>a DEF FoundFits, Upto, List, Crawl!ListOf, Before, Behind
\* Steps to where nothing is claimed.
<1>b. ASSUME crawlPc' \notin Reading PROVE FoundFits'
  BY <1>b DEF FoundFits, Reading
<1>1. CASE Crawl!Login
  BY <1>1, <1>b DEF Crawl!Login, Reading
<1>2. CASE Crawl!StartShop
  BY <1>2, <1>b DEF Crawl!StartShop, Reading
<1>3. CASE Crawl!SwitchShop
  BY <1>3, <1>b DEF Crawl!SwitchShop, Reading
<1>4. CASE Crawl!ChooseYesterday
  BY <1>4, <1>b DEF Crawl!ChooseYesterday, Reading
<1>5. CASE Crawl!ClickQuery
  BY <1>5, <1>b DEF Crawl!ClickQuery, Reading
<1>6. CASE Crawl!ReadTotal
  BY <1>6, <1>b DEF Crawl!ReadTotal, Reading
<1>7. CASE Crawl!SetPageSize
  <2>1. /\ crawlPc = "size" /\ crawlPc' = "read" /\ onFirst' = TRUE /\ found' = {}
        /\ asked' = asked \/ asked' = [asked EXCEPT !.size = CrawlPage, !.no = 1]
    BY <1>7 DEF Crawl!SetPageSize
  <2>2. asked' \in Views
    BY StepCrawlTypes DEF CrawlTypes
  <2>3. asked'.no = 1
    BY <1>0, <2>1 DEF PageFits, Views
  <2>4. Before' = 0
    <3>1. asked'.size \in Nat
      BY <2>2 DEF Views
    <3> QED
      BY <2>3, <3>1 DEF Before
  <2>5. Len(List') \in Nat
    BY <2>2, ListOfView DEF List
  <2>6. Upto(Before)' = {}
    BY <2>4, <2>5 DEF Upto
  <2> QED
    BY <2>1, <2>6 DEF FoundFits
<1>8. CASE Crawl!ReadPage
  <2> SUFFICES ASSUME hasty' = {} PROVE FoundFits'
    BY DEF FoundFits
  <2>1. /\ crawlPc = "read" /\ UNCHANGED <<asked, shown>>
        /\ found' = found \cup Crawl!ParseOrders(Crawl!Table(shown))
        /\ hasty = {} /\ (onFirst => shown = asked)
        /\ crawlPc' = IF enough' \/ ~Crawl!NextPage THEN "save" ELSE "click"
    BY <1>8 DEF Crawl!ReadPage, Crawl!Unrendered
  <2>2. shown = asked /\ found \in {Upto(Before), Upto(Behind)}
    BY <2>1 DEF FoundFits
  <2>3. /\ Before \in Nat /\ Before + asked.size = Behind
        /\ Crawl!Range(Crawl!Table(shown)) =
             {List[i] : i \in {k \in 1..Len(List) : Before < k /\ k <= Before + asked.size}}
    BY <1>0, <2>2, TableShows DEF List, Before, Behind
  <2>4. Len(List) \in Nat /\ asked.size \in Nat \ {0}
    BY <1>0, ListOfView DEF List, Views
  <2>5. {k \in 1..Len(List) : k <= Behind} =
          {k \in 1..Len(List) : k <= Before}
            \cup {k \in 1..Len(List) : Before < k /\ k <= Before + asked.size}
    BY <2>3, <2>4
  <2>6. Upto(Behind) = Upto(Before) \cup Crawl!ParseOrders(Crawl!Table(shown))
    BY <2>3, <2>5 DEF Upto, Crawl!ParseOrders
  <2>7. found' = Upto(Behind)
    BY <2>1, <2>2, <2>6
  <2>8. crawlPc' = "save" /\ ~enough' => Len(List) <= Behind
    BY <2>1, <2>2, <2>3, <2>4 DEF Crawl!NextPage, Crawl!Total, List, Behind
  <2>9. List' = List /\ Behind' = Behind
    BY <2>1 DEF List, Crawl!ListOf, Behind
  <2>10. Upto(Behind)' = Upto(Behind)
    BY <2>9 DEF Upto
  <2>11. crawlPc' \in {"click", "save"} /\ shown' = asked'
    BY <2>1, <2>2
  <2> QED
    BY <2>7, <2>8, <2>9, <2>10, <2>11 DEF FoundFits
<1>9. CASE Crawl!ClickNext
  <2> SUFFICES ASSUME hasty' = {} PROVE FoundFits'
    BY DEF FoundFits
  <2>1. /\ crawlPc = "click" /\ crawlPc' = "turn" /\ UNCHANGED <<found, hasty>>
        /\ asked' = asked \/ asked' = [asked EXCEPT !.no = asked.no + 1]
    BY <1>9 DEF Crawl!ClickNext
  <2>2. found = Upto(Behind)
    BY <2>1 DEF FoundFits
  <2>3. Upto(Behind) \in {Upto(Before)', Upto(Behind)'}
    <3>1. CASE asked' = asked
      BY <3>1 DEF Upto, List, Crawl!ListOf, Behind
    <3>2. CASE asked' = [asked EXCEPT !.no = asked.no + 1]
      <4>1. /\ asked'.shop = asked.shop /\ asked'.day = asked.day /\ asked'.size = asked.size
            /\ asked'.no - 1 = asked.no
        BY <1>0, <3>2 DEF Views
      <4>2. List' = List /\ Before' = Behind
        BY <4>1 DEF List, Crawl!ListOf, Before, Behind
      <4> QED
        BY <4>2 DEF Upto
    <3> QED
      BY <2>1, <3>1, <3>2
  <2> QED
    BY <2>1, <2>2, <2>3 DEF FoundFits
<1>10. CASE Crawl!AwaitPage
  <2> SUFFICES ASSUME hasty' = {} PROVE FoundFits'
    BY DEF FoundFits
  <2>1. /\ crawlPc = "turn" /\ crawlPc' = "read" /\ UNCHANGED <<asked, shown, found>>
        /\ hasty = {} /\ shown = asked
    BY <1>10 DEF Crawl!AwaitPage, Crawl!Unrendered
  <2>2. Upto(Before)' = Upto(Before) /\ Upto(Behind)' = Upto(Behind)
    BY <2>1 DEF Upto, List, Crawl!ListOf, Before, Behind
  <2> QED
    BY <2>1, <2>2 DEF FoundFits
<1>11. CASE Crawl!SaveShop
  BY <1>11, <1>b DEF Crawl!SaveShop, Reading
<1>12. CASE Crawl!Finish
  BY <1>12, <1>b DEF Crawl!Finish, Reading
<1>13. CASE Crawl!Raise
  BY <1>13, <1>b DEF Crawl!Raise, Reading
<1>14. CASE Crawl!Render
  <2>1. UNCHANGED <<crawlPc, asked, onFirst, found, hasty, enough>> /\ shown' = asked
    BY <1>14 DEF Crawl!Render
  <2> QED
    BY <2>1 DEF FoundFits, Upto, List, Crawl!ListOf, Before, Behind
<1>15. CASE Crawl!Midnight
  BY <1>15, <1>a DEF Crawl!Midnight
<1>16. CASE UNCHANGED Crawl!vars
  BY <1>16, <1>a DEF Crawl!vars
<1> QED
  BY <1>1, <1>2, <1>3, <1>4, <1>5, <1>6, <1>7, <1>8, <1>9, <1>10, <1>11, <1>12, <1>13, <1>14,
     <1>15, <1>16 DEF Crawl!Next, Crawl!Crawl

LEMMA StepStopFits == StopFits /\ [Crawl!Next]_(Crawl!vars) => StopFits'
<1> SUFFICES ASSUME StopFits, [Crawl!Next]_(Crawl!vars) PROVE StopFits'
  OBVIOUS
<1> USE DEF StopFits, Crawl!Goto, Crawl!pageVars, Crawl!readVars, Crawl!statusVars
<1>1. CASE Crawl!ReadPage
  <2> SUFFICES ASSUME crawlPc' = "save", enough'
               PROVE  expected' \notin {None, 0} /\ Cardinality(found') >= expected'
    OBVIOUS
  <2>1. expected' = expected /\ Crawl!Enough(found')
    BY <1>1 DEF Crawl!ReadPage
  <2>2. Crawl!Cardinality(found') = Cardinality(found')
    BY DEF Crawl!Cardinality, Cardinality
  <2> QED
    BY <2>1, <2>2 DEF Crawl!Enough
<1>2. CASE Crawl!Login
  BY <1>2 DEF Crawl!Login
<1>3. CASE Crawl!StartShop
  BY <1>3 DEF Crawl!StartShop
<1>4. CASE Crawl!SwitchShop \/ Crawl!ChooseYesterday \/ Crawl!ClickQuery \/ Crawl!ReadTotal
  BY <1>4 DEF Crawl!SwitchShop, Crawl!ChooseYesterday, Crawl!ClickQuery, Crawl!ReadTotal
<1>5. CASE Crawl!SetPageSize \/ Crawl!ClickNext \/ Crawl!AwaitPage
  BY <1>5 DEF Crawl!SetPageSize, Crawl!ClickNext, Crawl!AwaitPage
<1>6. CASE Crawl!SaveShop \/ Crawl!Finish \/ Crawl!Raise
  BY <1>6 DEF Crawl!SaveShop, Crawl!Finish, Crawl!Raise
<1>7. CASE Crawl!Render \/ Crawl!Midnight
  BY <1>7 DEF Crawl!Render, Crawl!Midnight
<1>8. CASE UNCHANGED Crawl!vars
  BY <1>8 DEF Crawl!vars
<1> QED
  BY <1>1, <1>2, <1>3, <1>4, <1>5, <1>6, <1>7, <1>8 DEF Crawl!Next, Crawl!Crawl

\* What is saved fits: it is everything when the pages were read one after the other up
\* to the last, or when as many numbers were found as the list has.
LEMMA StepFilesFit == CrawlInv /\ [Crawl!Next]_(Crawl!vars) => FilesFit'
<1> SUFFICES ASSUME CrawlInv, [Crawl!Next]_(Crawl!vars) PROVE FilesFit'
  OBVIOUS
<1>1. FilesFit /\ CrawlTypes
  BY DEF CrawlInv
<1>2. CASE UNCHANGED files
  BY <1>1, <1>2 DEF FilesFit, FileFits, NumbersOf, Crawl!ParseOrders, Crawl!Range
<1>3. CASE Crawl!SaveShop
  <2> DEFINE file == [orders |-> found, date |-> dataDate, day |-> asked.day,
                      hasty |-> hasty, enough |-> enough, late |-> today # Today]
  <2>1. crawlPc = "save" /\ files' = [files EXCEPT ![Crawl!Shop] = file]
    BY <1>3 DEF Crawl!SaveShop
  <2>2. "shop" \notin hasty => NumbersOf(Crawl!Shop, file) = Crawl!ParseOrders(List)
    BY <2>1 DEF CrawlInv, ShopFits, Reading, NumbersOf, List, Crawl!ListOf
  <2>3. asked \in Views
    BY <1>1 DEF CrawlTypes
  <2>4. Crawl!ParseOrders(List) = {List[i] : i \in 1..Len(List)} \ Garbled
    BY <2>3, ListHolds DEF Crawl!ParseOrders, List
  <2>5. Len(List) \in Nat /\ List \in Seq(Crawl!Range(List))
    BY <2>3, ListOfView DEF List
  <2>6. ASSUME enough, "query" \notin hasty PROVE found = Crawl!ParseOrders(List)
    <3>1. /\ expected \in {None, Len(List)} /\ found \subseteq Crawl!ParseOrders(List)
          /\ expected \notin {None, 0} /\ Cardinality(found) >= expected
      BY <2>1, <2>6 DEF CrawlInv, ListFits, StopFits, Reading
    <3> DEFINE f == [i \in 1..Len(List) |-> List[i]]
               all == {List[i] : i \in 1..Len(List)}
    <3>2. f \in Surjection(1..Len(List), all)
      BY DEF Surjection
    <3>3. IsFiniteSet(1..Len(List)) /\ Cardinality(1..Len(List)) = Len(List)
      <4>1. IsFiniteSet(1..Len(List))
            /\ Cardinality(1..Len(List)) = IF 1 > Len(List) THEN 0 ELSE Len(List) - 1 + 1
        BY <2>5, FS_Interval
      <4> QED
        BY <2>5, <4>1
    <3> HIDE DEF f, all
    <3>4. IsFiniteSet(all) /\ Cardinality(all) <= Len(List)
      BY <3>2, <3>3, FS_Surjection
    <3>5. found \subseteq all /\ Crawl!ParseOrders(List) \subseteq all
      BY <2>4, <3>1 DEF all
    <3>6. /\ IsFiniteSet(found) /\ Cardinality(found) <= Cardinality(all)
          /\ Cardinality(all) = Cardinality(found) => all = found
      BY <3>4, <3>5, FS_Subset
    <3>7. Cardinality(found) \in Nat /\ Cardinality(all) \in Nat
      BY <3>4, <3>6, FS_CardinalityType
    <3>8. Cardinality(found) = Cardinality(all)
      BY <2>5, <3>1, <3>4, <3>6, <3>7
    <3> QED
      BY <3>1, <3>5, <3>6, <3>8
  <2>7. ASSUME hasty = {} PROVE found = Crawl!ParseOrders(List)
    <3>1. CASE enough
      BY <2>6, <2>7, <3>1
    <3>2. CASE ~enough
      <4>1. found = Upto(Behind) /\ Len(List) <= Behind
        BY <2>1, <2>7, <3>2 DEF CrawlInv, FoundFits
      <4>2. Behind \in Nat
        BY <2>3 DEF Behind, Views
      <4>3. {k \in 1..Len(List) : k <= Behind} = 1..Len(List)
        BY <2>5, <4>1, <4>2
      <4> QED
        BY <2>4, <4>1, <4>3 DEF Upto
    <3> QED
      BY <3>1, <3>2
  <2>8. today = Today => asked.day = Today - 1
    BY <2>1 DEF CrawlInv, DayFits, Reading
  <2>9. FileFits(Crawl!Shop, file)
    <3>1. dataDate \in {Today - 1} \cup Dates
      BY <1>1 DEF CrawlTypes
    <3>2. file.hasty = hasty /\ file.enough = enough /\ file.orders = found
      OBVIOUS
    <3>3. file.late = (today # Today) /\ file.day = asked.day /\ file.date = dataDate
      OBVIOUS
    <3> HIDE DEF file
    <3> QED
      BY <2>2, <2>6, <2>7, <2>8, <3>1, <3>2, <3>3 DEF FileFits
  <2> HIDE DEF file
  <2>10. \A s \in Crawl!ShopSet :
           files'[s] = files[s] \/ (s = Crawl!Shop /\ files'[s] = file)
    BY <1>1, <2>1 DEF FilesFit
  <2>11. DOMAIN files' = Crawl!ShopSet
    BY <1>1, <2>1 DEF FilesFit
  <2>12. \A s \in Crawl!ShopSet : files'[s] # None => FileFits(s, files'[s])
    BY <1>1, <2>9, <2>10 DEF FilesFit
  <2> QED
    BY <2>11, <2>12 DEF FilesFit, FileFits, NumbersOf, Crawl!ParseOrders, Crawl!Range
<1>4. CASE ~Crawl!SaveShop
  <2>1. UNCHANGED files
    BY <1>4 DEF Crawl!Next, Crawl!Crawl, Crawl!vars, Crawl!statusVars, Crawl!Login, Crawl!StartShop,
       Crawl!SwitchShop, Crawl!ChooseYesterday, Crawl!ClickQuery, Crawl!ReadTotal,
       Crawl!SetPageSize, Crawl!ReadPage, Crawl!ClickNext, Crawl!AwaitPage, Crawl!Finish,
       Crawl!Raise, Crawl!Render, Crawl!Midnight
  <2> QED
    BY <1>2, <2>1
<1> QED
  BY <1>3, <1>4

\* The file of a shop holds the shop's list, unless the shop was not switched to or a page was
\* read before it was rendered, and also when the total says that it does; and its day is the
\* list's, unless midnight passed or args.date named another.
THEOREM CrawlIsComplete == ScrapingSpec => []CrawlComplete
<1>1. Crawl!Init => CrawlInv
  BY InitCrawl
<1>2. CrawlInv /\ [Crawl!Next]_(Crawl!vars) => CrawlInv'
  BY StepCrawlTypes, StepDayFits, StepListFits, StepShopFits, StepPageFits, StepFoundFits, StepStopFits,
     StepFilesFit DEF CrawlInv
<1>3. CrawlInv => CrawlComplete
  BY DEF CrawlInv, FilesFit, FileFits, NumbersOf, CrawlComplete, Crawl!CompleteUnlessHasty,
     Crawl!EnoughMeansAll, Crawl!DayAsStated, Crawl!Saved, Crawl!Numbers
<1>4. QED
  BY <1>1, <1>2, <1>3, PartsGoOnAlone, PTL DEF Crawl!Spec

----------------------------------------------------------------------------
(***************************************************************************)
(* The crawl of the tmall shop.                                            *)
(***************************************************************************)

\* The elements of a sequence, and whether none is in it twice, by the names of MsdOrders.
Elements(s)  == Msd!Range(s)
Distinct(s)  == Msd!IsInjective(s)

LEMMA ElementsOf ==
  ASSUME NEW S, NEW s \in Seq(S)
  PROVE  /\ Elements(s) = {s[i] : i \in 1..Len(s)}
         /\ Distinct(s) <=> \A i, j \in 1..Len(s) : s[i] = s[j] => i = j
<1>1. DOMAIN s = 1..Len(s)
  OBVIOUS
<1> QED
  BY <1>1 DEF Elements, Distinct, Msd!Range, Msd!IsInjective

LEMMA ElementsFinite ==
  ASSUME NEW S, NEW s \in Seq(S)
  PROVE  IsFiniteSet(Elements(s)) /\ Cardinality(Elements(s)) <= Len(s)
<1> DEFINE f == [i \in 1..Len(s) |-> s[i]]
<1>1. Elements(s) = {s[i] : i \in 1..Len(s)}
  BY ElementsOf
<1>2. f \in Surjection(1..Len(s), Elements(s))
  BY <1>1 DEF Surjection
<1>3. IsFiniteSet(1..Len(s)) /\ Cardinality(1..Len(s)) = Len(s)
  <2>1. Len(s) \in Nat /\ 1 \in Int
    OBVIOUS
  <2>2. IsFiniteSet(1..Len(s)) /\ Cardinality(1..Len(s)) = IF 1 > Len(s) THEN 0 ELSE Len(s) - 1 + 1
    BY <2>1, FS_Interval
  <2> QED
    BY <2>1, <2>2
<1> HIDE DEF f
<1> QED
  BY <1>2, <1>3, FS_Surjection

LEMMA DistinctCounted ==
  ASSUME NEW S, NEW s \in Seq(S), Distinct(s)
  PROVE  Cardinality(Elements(s)) = Len(s)
<1> DEFINE f == [i \in 1..Len(s) |-> s[i]]
<1>1. Elements(s) = {s[i] : i \in 1..Len(s)} /\ \A i, j \in 1..Len(s) : s[i] = s[j] => i = j
  BY ElementsOf
<1>2. f \in Bijection(1..Len(s), Elements(s))
  BY <1>1 DEF Bijection, Surjection, Injection, IsInjective
<1> HIDE DEF f
<1> QED
  BY <1>2, FS_CountingElements DEF ExistsBijection

\* SetToSeq has every element of the set once.
LEMMA SeqOfSet ==
  ASSUME NEW S, IsFiniteSet(S)
  PROVE  /\ Msd!SetToSeq(S) \in Seq(S)
         /\ Elements(Msd!SetToSeq(S)) = S
         /\ Distinct(Msd!SetToSeq(S))
<1> DEFINE n == Cardinality(S)
           q == Msd!SetToSeq(S)
<1>1. n \in Nat /\ ExistsBijection(1..n, S)
  BY FS_CardinalityType
<1>2. Msd!Cardinality(S) = n
  BY DEF Msd!Cardinality, Cardinality
<1>3. q = CHOOSE f \in [1..n -> S] : Msd!IsInjective(f)
  BY <1>2 DEF Msd!SetToSeq
<1>4. \E f \in [1..n -> S] : Msd!IsInjective(f)
  BY <1>1 DEF ExistsBijection, Bijection, Injection, IsInjective, Msd!IsInjective
<1> HIDE DEF n, q
<1>5. q \in [1..n -> S] /\ Msd!IsInjective(q)
  BY <1>3, <1>4
<1>6. q \in Seq(S) /\ Len(q) = n
  BY <1>1, <1>5
<1>7. q \in Injection(1..n, S)
  BY <1>5 DEF Injection, IsInjective, Msd!IsInjective
<1>8. Cardinality(1..n) = n
  BY <1>1, FS_Interval
<1>9. q \in Surjection(1..n, S)
  BY <1>7, <1>8, FS_Injection DEF n
<1>10. Elements(q) = S
  BY <1>5, <1>9 DEF Surjection, Elements, Msd!Range
<1> QED
  BY <1>5, <1>6, <1>10 DEF q, Distinct

----------------------------------------------------------------------------
BeforeList == {"look", "password", "submitted", "ask", "waiting"}

MsdTypes ==
  /\ site \in Seq(Msd!Orders) /\ came \in Nat /\ page \in Nat \ {0}
  /\ total \in Nat \cup {None}
  /\ links \in Seq(Msd!Orders) /\ Distinct(links)
  /\ since \in [came : Nat, left : Nat] /\ cut \in BOOLEAN

\* Until the first page is read nothing is found.
Unread ==
  /\ msdPc \in BeforeList => page = 1
  /\ msdPc \in BeforeList \cup {"list"} /\ page = 1 =>
       links = <<>> /\ total = None /\ since = [came |-> 0, left |-> 0]

\* Between two pages: the first orders stand behind those that have come, every one of
\* them on a page that was read has a link, and, as long as no more than a page has come,
\* no other has, or they all have: other orders are met on the last page, read again.
FirstBehind ==
  /\ since.came <= Len(site)
  /\ first = {site[i] : i \in (since.came + 1)..Len(site)}

LinkedUpTo(n) ==
  \A i \in (since.came + 1)..Len(site) : i <= n => site[i] \in Elements(links)

OnlyFirst ==
  since.came <= MsdPage => Elements(links) \subseteq first \/ first \subseteq Elements(links)

TotalCounts == total # None => Cardinality(first) <= total

BetweenPages ==
  Msd!Paging /\ since.left = 0 =>
    FirstBehind /\ LinkedUpTo((page - 1) * MsdPage) /\ OnlyFirst /\ TotalCounts

AllLinked ==
  ~cut /\ since.left = 0 /\ since.came <= MsdPage => first \subseteq Elements(links)

Listing == msdPc \in {"details", "finish"} => AllLinked

Written ==
  saved # None =>
    /\ msdPc \in {"finish", "done", "raised"}
    /\ Distinct(saved.orders)
    /\ Msd!ListedOrdersSaved

MsdInv == MsdTypes /\ Unread /\ BetweenPages /\ Listing /\ Written

LEMMA InitMsd == Msd!Init => MsdInv
<1> SUFFICES ASSUME Msd!Init PROVE MsdInv
  OBVIOUS
<1> USE CrawlsAssumption DEF Msd!MsdAssumption, Msd!Init
<1>1. Distinct(<<>>)
  BY DEF Distinct, Msd!IsInjective
<1>2. MsdTypes
  <2>1. <<>> \in Seq(Msd!Orders)
    OBVIOUS
  <2>2. site \in Seq(Msd!Orders) /\ came \in Nat /\ page \in Nat \ {0}
    BY DEF MsdTypes
  <2> QED
    BY <1>1, <2>1, <2>2 DEF MsdTypes
<1>3. Unread /\ BetweenPages /\ Listing /\ Written
  BY DEF Unread, BetweenPages, Listing, Written, Msd!Paging, BeforeList
<1> QED
  BY <1>2, <1>3 DEF MsdInv

----------------------------------------------------------------------------
listed == <<site, came, since, page, total, links, first, cut>>

\* The steps that leave the lists alone: the login, the details and the end.
LEMMA ElsewhereMsd ==
  ASSUME MsdInv, UNCHANGED listed,
         msdPc' \in BeforeList => msdPc \in BeforeList,
         msdPc' = "list" => msdPc \in BeforeList \cup {"list"},
         msdPc' \in {"details", "finish"} => msdPc \in {"details", "finish"},
         \/ /\ saved' = saved
            /\ msdPc \in {"finish", "done", "raised"} => msdPc' \in {"finish", "done", "raised"}
         \/ /\ saved' = [orders |-> links, cut |-> cut]
            /\ msdPc = "details" /\ msdPc' = "finish"
  PROVE  MsdInv'
<1> USE DEF MsdInv, listed
<1>1. MsdTypes'
  BY DEF MsdTypes, Distinct, Msd!IsInjective
<1>2. Unread'
  BY DEF Unread
<1>3. BetweenPages'
  <2>1. CASE Msd!Paging'
    <3>1. Msd!Paging
      BY <2>1 DEF Msd!Paging, Unread, MsdTypes
    <3> QED
      BY <3>1 DEF BetweenPages, FirstBehind, LinkedUpTo, OnlyFirst, TotalCounts, Elements, Msd!Range
  <2> QED
    BY <2>1 DEF BetweenPages
<1>4. Listing'
  BY DEF Listing, AllLinked, Elements, Msd!Range
<1>5. Written'
  <2>1. CASE saved' = saved
    BY <2>1 DEF Written, Msd!ListedOrdersSaved, Distinct, Msd!IsInjective, Msd!Range, MsdTypes
  <2>2. CASE saved' = [orders |-> links, cut |-> cut] /\ msdPc = "details" /\ msdPc' = "finish"
    BY <2>2 DEF Written, Msd!ListedOrdersSaved, Listing, AllLinked, MsdTypes, Distinct,
       Msd!IsInjective, Elements, Msd!Range
  <2> QED
    BY <2>1, <2>2 DEF Written
<1> QED
  BY <1>1, <1>2, <1>3, <1>4, <1>5

\* An order comes to the head of the list: the first orders move on by one place.
LEMMA NewOrderMsd == MsdInv /\ Msd!NewOrder => MsdInv'
<1> SUFFICES ASSUME MsdInv, Msd!NewOrder PROVE MsdInv'
  OBVIOUS
<1> USE CrawlsAssumption DEF Msd!MsdAssumption
<1>1. /\ site \in Seq(Msd!Orders) /\ since \in [came : Nat, left : Nat] /\ came \in Nat
      /\ Coming \in Seq(Msd!Orders)
  BY DEF MsdInv, MsdTypes
<1> DEFINE new == Coming[came + 1]
<1>2. /\ came' = came + 1 /\ came < Len(Coming)
      /\ site' = <<new>> \o site
      /\ since' = IF Msd!Paging THEN [since EXCEPT !.came = @ + 1] ELSE since
      /\ UNCHANGED <<msdPc, page, total, links, first, cut, saved>>
  BY DEF Msd!NewOrder, Msd!listVars
<1>3. new \in Msd!Orders
  BY <1>1, <1>2
<1> HIDE DEF new
<1>4. /\ site' \in Seq(Msd!Orders) /\ Len(site') = Len(site) + 1
      /\ \A i \in 1..Len(site) : site'[i + 1] = site[i]
  <2>1. <<new>> \in Seq(Msd!Orders) /\ Len(<<new>>) = 1
    BY <1>3
  <2>2. /\ site' \in Seq(Msd!Orders) /\ Len(site') = 1 + Len(site)
        /\ \A i \in 1..(1 + Len(site)) : site'[i] = IF i <= 1 THEN <<new>>[i] ELSE site[i - 1]
    BY <1>1, <1>2, <2>1, ConcatProperties
  <2> QED
    BY <1>1, <2>2
<1>5. since' \in [came : Nat, left : Nat] /\ since'.left = since.left
      /\ (Msd!Paging => since'.came = since.came + 1) /\ (~Msd!Paging => since' = since)
  <2>1. CASE Msd!Paging
    <3>1. since' = [since EXCEPT !.came = since.came + 1]
      BY <1>2, <2>1
    <3> QED
      BY <1>1, <2>1, <3>1
  <2>2. CASE ~Msd!Paging
    BY <1>1, <1>2, <2>2
  <2> QED
    BY <2>1, <2>2
<1>6. MsdTypes'
  BY <1>1, <1>2, <1>4, <1>5 DEF MsdInv, MsdTypes, Distinct, Msd!IsInjective
<1>7. Unread'
  BY <1>2, <1>5 DEF MsdInv, Unread, Msd!Paging, MsdTypes, BeforeList
<1>8. BetweenPages'
  <2> SUFFICES ASSUME Msd!Paging, since.left = 0 PROVE BetweenPages'
    BY <1>2, <1>5 DEF BetweenPages, Msd!Paging
  <2>1. FirstBehind /\ LinkedUpTo((page - 1) * MsdPage) /\ OnlyFirst /\ TotalCounts
    BY DEF MsdInv, BetweenPages
  <2>2. since'.came = since.came + 1 /\ since.came \in Nat /\ Len(site) \in Nat
    BY <1>1, <1>5
  <2>3. FirstBehind'
    <3>1. first = {site[i] : i \in (since.came + 1)..Len(site)} /\ since.came <= Len(site)
      BY <2>1 DEF FirstBehind
    <3>2. {site'[i] : i \in (since.came + 2)..(Len(site) + 1)} = {site[i] : i \in (since.came + 1)..Len(site)}
      <4>1. ASSUME NEW i \in (since.came + 2)..(Len(site) + 1)
            PROVE  i - 1 \in (since.came + 1)..Len(site) /\ site'[i] = site[i - 1]
        BY <1>4, <2>2
      <4>2. ASSUME NEW i \in (since.came + 1)..Len(site)
            PROVE  i + 1 \in (since.came + 2)..(Len(site) + 1) /\ site'[i + 1] = site[i]
        BY <1>4, <2>2
      <4>3. \A i \in (since.came + 2)..(Len(site) + 1) :
              site'[i] \in {site[k] : k \in (since.came + 1)..Len(site)}
        BY <4>1
      <4>4. \A i \in (since.came + 1)..Len(site) :
              site[i] \in {site'[k] : k \in (since.came + 2)..(Len(site) + 1)}
        BY <4>2
      <4> QED
        BY <4>3, <4>4
    <3>3. since'.came + 1 = since.came + 2 /\ Len(site') = Len(site) + 1
      BY <1>4, <2>2
    <3>4. first' = {site'[i] : i \in (since'.came + 1)..Len(site')}
      BY <1>2, <3>1, <3>2, <3>3
    <3>5. since'.came <= Len(site')
      BY <2>2, <3>1, <3>3
    <3> QED
      BY <3>4, <3>5 DEF FirstBehind
  <2>4. LinkedUpTo((page - 1) * MsdPage)'
    <3> DEFINE n == (page - 1) * MsdPage
    <3>1. n \in Nat /\ n' = n
      BY <1>2 DEF MsdInv, MsdTypes
    <3>2. \A i \in (since.came + 1)..Len(site) : i <= n => site[i] \in Elements(links)
      BY <2>1 DEF LinkedUpTo
    <3> HIDE DEF n
    <3>3. ASSUME NEW i \in (since'.came + 1)..Len(site'), i <= n
          PROVE  site'[i] \in Elements(links)
      <4>1. i - 1 \in (since.came + 1)..Len(site) /\ i - 1 <= n /\ site'[i] = site[i - 1]
        BY <1>4, <2>2, <3>1, <3>3
      <4> QED
        BY <3>2, <4>1
    <3>4. Elements(links)' = Elements(links)
      BY <1>2 DEF Elements, Msd!Range
    <3> QED
      BY <3>1, <3>3, <3>4 DEF LinkedUpTo, n
  <2>5. OnlyFirst'
    BY <1>2, <2>1, <2>2 DEF OnlyFirst, Elements, Msd!Range
  <2>6. TotalCounts'
    BY <1>2, <2>1 DEF TotalCounts
  <2> QED
    BY <2>3, <2>4, <2>5, <2>6 DEF BetweenPages
<1>9. Listing'
  BY <1>2, <1>5 DEF MsdInv, Listing, AllLinked, Elements, Msd!Range, Msd!Paging
<1>10. Written'
  <2>1. CASE saved = None
    BY <1>2, <2>1 DEF Written
  <2>2. CASE saved # None
    <3>1. ~Msd!Paging
      BY <2>2 DEF MsdInv, Written, Msd!Paging
    <3>2. since' = since /\ first' = first /\ saved' = saved /\ msdPc' = msdPc
      BY <1>2, <1>5, <3>1
    <3> QED
      BY <3>2 DEF MsdInv, Written, Msd!ListedOrdersSaved, Distinct, Msd!IsInjective, Msd!Range
  <2> QED
    BY <2>1, <2>2
<1> QED
  BY <1>6, <1>7, <1>8, <1>9, <1>10 DEF MsdInv

\* An order leaves the list.
LEMMA RemoveOrderMsd == MsdInv /\ Msd!RemoveOrder => MsdInv'
<1> SUFFICES ASSUME MsdInv, Msd!RemoveOrder PROVE MsdInv'
  OBVIOUS
<1>1. site \in Seq(Msd!Orders) /\ since \in [came : Nat, left : Nat]
  BY DEF MsdInv, MsdTypes
<1>2. /\ \E i \in 1..Len(site) : site' = Msd!RemoveAt(site, i)
      /\ since' = IF Msd!Paging THEN [since EXCEPT !.left = @ + 1] ELSE since
      /\ UNCHANGED <<msdPc, came, page, total, links, first, cut, saved>>
  BY DEF Msd!RemoveOrder, Msd!listVars
<1>3. site' \in Seq(Msd!Orders)
  <2> PICK i \in 1..Len(site) : site' = Msd!RemoveAt(site, i)
    BY <1>2
  <2>1. site' = SubSeq(site, 1, i - 1) \o SubSeq(site, i + 1, Len(site))
    BY DEF Msd!RemoveAt
  <2>2. SubSeq(site, 1, i - 1) \in Seq(Msd!Orders)
    BY <1>1, SubSeqProperties
  <2>3. SubSeq(site, i + 1, Len(site)) \in Seq(Msd!Orders)
    BY <1>1, SubSeqProperties
  <2> QED
    BY <2>1, <2>2, <2>3, ConcatProperties
<1>4. /\ since' \in [came : Nat, left : Nat]
      /\ (Msd!Paging => since'.left # 0) /\ (~Msd!Paging => since' = since)
  BY <1>1, <1>2
<1>5. MsdTypes'
  BY <1>2, <1>3, <1>4 DEF MsdInv, MsdTypes, Distinct, Msd!IsInjective
<1>6. Unread'
  BY <1>2, <1>4 DEF MsdInv, Unread, Msd!Paging, MsdTypes, BeforeList
<1>7. BetweenPages'
  BY <1>2, <1>4 DEF BetweenPages, Msd!Paging
<1>8. Listing'
  BY <1>2, <1>4 DEF MsdInv, Listing, AllLinked, Elements, Msd!Range, Msd!Paging
<1>9. Written'
  BY <1>2, <1>4 DEF MsdInv, Written, Msd!ListedOrdersSaved, Distinct, Msd!IsInjective,
     Msd!Range, Msd!Paging
<1> QED
  BY <1>5, <1>6, <1>7, <1>8, <1>9 DEF MsdInv

\* A sequence made longer by other elements.
LEMMA Longer ==
  ASSUME NEW S, NEW s \in Seq(S), NEW t \in Seq(S), Distinct(s), Distinct(t),
         Elements(s) \cap Elements(t) = {}
  PROVE  /\ s \o t \in Seq(S) /\ Distinct(s \o t)
         /\ Elements(s \o t) = Elements(s) \cup Elements(t)
<1> DEFINE st == s \o t
<1>1. /\ st \in Seq(S) /\ Len(st) = Len(s) + Len(t)
      /\ \A i \in 1..(Len(s) + Len(t)) : st[i] = IF i <= Len(s) THEN s[i] ELSE t[i - Len(s)]
  BY ConcatProperties
<1>2. /\ Elements(s) = {s[i] : i \in 1..Len(s)} /\ Elements(t) = {t[i] : i \in 1..Len(t)}
      /\ \A i, j \in 1..Len(s) : s[i] = s[j] => i = j
      /\ \A i, j \in 1..Len(t) : t[i] = t[j] => i = j
  BY ElementsOf
<1> HIDE DEF st
<1>3. /\ Elements(st) = {st[i] : i \in 1..Len(st)}
      /\ Distinct(st) <=> \A i, j \in 1..Len(st) : st[i] = st[j] => i = j
  BY <1>1, ElementsOf
<1>4. Len(s) \in Nat /\ Len(t) \in Nat
  OBVIOUS
<1>5. ASSUME NEW i \in 1..Len(st)
      PROVE  \/ i \in 1..Len(s) /\ st[i] = s[i]
             \/ i - Len(s) \in 1..Len(t) /\ st[i] = t[i - Len(s)]
  BY <1>1, <1>4
<1>6. ASSUME NEW i \in 1..Len(s) PROVE i \in 1..Len(st) /\ st[i] = s[i]
  BY <1>1, <1>4
<1>7. ASSUME NEW i \in 1..Len(t) PROVE i + Len(s) \in 1..Len(st) /\ st[i + Len(s)] = t[i]
  BY <1>1, <1>4
<1>8. Elements(st) = Elements(s) \cup Elements(t)
  <2>1. ASSUME NEW i \in 1..Len(st) PROVE st[i] \in Elements(s) \cup Elements(t)
    BY <1>2, <1>5
  <2>2. \A i \in 1..Len(s) : s[i] \in Elements(st)
    BY <1>3, <1>6
  <2>3. \A i \in 1..Len(t) : t[i] \in Elements(st)
    BY <1>3, <1>7
  <2>4. Elements(st) \subseteq Elements(s) \cup Elements(t)
    BY <1>3, <2>1
  <2>5. Elements(s) \subseteq Elements(st) /\ Elements(t) \subseteq Elements(st)
    BY <1>2, <2>2, <2>3
  <2> QED
    BY <2>4, <2>5
<1>9. ASSUME NEW i \in 1..Len(st), NEW j \in 1..Len(st), st[i] = st[j] PROVE i = j
  <2>1. CASE i \in 1..Len(s) /\ st[i] = s[i] /\ j \in 1..Len(s) /\ st[j] = s[j]
    BY <1>2, <1>9, <2>1
  <2>2. CASE /\ i - Len(s) \in 1..Len(t) /\ st[i] = t[i - Len(s)]
             /\ j - Len(s) \in 1..Len(t) /\ st[j] = t[j - Len(s)]
    <3>1. i - Len(s) = j - Len(s)
      BY <1>2, <1>9, <2>2
    <3> QED
      BY <1>4, <3>1
  <2>3. ASSUME NEW k \in 1..Len(s), NEW l \in 1..Len(t) PROVE s[k] # t[l]
    BY <1>2
  <2> QED
    BY <1>5, <1>9, <2>1, <2>2, <2>3
<1> QED
  BY <1>1, <1>3, <1>8, <1>9 DEF st

\* A page holds the orders of its places, and none when they are beyond the end.
LEMMA PageHolds ==
  ASSUME MsdTypes, NEW m \in Nat \ {0}
  PROVE  LET rowsOf == Msd!PageOf(m)
             before == (m - 1) * MsdPage
         IN /\ rowsOf \in Seq(Msd!Orders) /\ before \in Nat
            /\ \A i \in 1..Len(site) :
                 before < i /\ i <= before + MsdPage => site[i] \in Elements(rowsOf)
            /\ Elements(rowsOf) \subseteq {site[i] : i \in (before + 1)..Len(site)}
            /\ rowsOf = <<>> => Len(site) <= before
<1> DEFINE before == (m - 1) * MsdPage
           n == IF m * MsdPage > Len(site) THEN Len(site) ELSE m * MsdPage
           r == SubSeq(site, before + 1, n)
<1>1. site \in Seq(Msd!Orders) /\ Len(site) \in Nat /\ MsdPage \in Nat \ {0}
  BY CrawlsAssumption DEF MsdTypes, Msd!MsdAssumption
<1>2. before \in Nat /\ m * MsdPage = before + MsdPage
  <2>1. \A x \in Nat \ {0}, y \in Nat \ {0} : (x - 1) * y \in Nat /\ x * y = (x - 1) * y + y
    OBVIOUS
  <2> QED
    BY <1>1, <2>1
<1>3. Msd!PageOf(m) = r
  BY DEF Msd!PageOf
<1> HIDE DEF before
<1>4. n \in Nat /\ n <= Len(site) /\ n <= before + MsdPage /\ (n = Len(site) \/ n = before + MsdPage)
  BY <1>1, <1>2
<1> HIDE DEF n
<1>5. \A i \in (before + 1)..n : site[i] \in Msd!Orders
  BY <1>1, <1>2, <1>4
<1>6. /\ r \in Seq(Msd!Orders)
      /\ Len(r) = IF before + 1 <= n THEN n - (before + 1) + 1 ELSE 0
      /\ \A i \in 1..(n - (before + 1) + 1) : r[i] = site[before + 1 + i - 1]
  BY <1>2, <1>4, <1>5, SubSeqProperties
<1> HIDE DEF r
<1>7. Elements(r) = {r[i] : i \in 1..Len(r)}
  BY <1>6, ElementsOf
<1>8. ASSUME NEW i \in 1..Len(site), before < i, i <= before + MsdPage PROVE site[i] \in Elements(r)
  <2>1. i <= n /\ before + 1 <= n
    BY <1>1, <1>2, <1>4, <1>8
  <2>2. i - before \in 1..Len(r) /\ r[i - before] = site[i]
    BY <1>1, <1>2, <1>4, <1>6, <1>8, <2>1
  <2> QED
    BY <1>7, <2>2
<1>9. ASSUME NEW i \in 1..Len(r) PROVE r[i] \in {site[k] : k \in (before + 1)..Len(site)}
  <2>1. before + 1 <= n
    BY <1>2, <1>4, <1>6
  <2>2. before + i \in (before + 1)..Len(site) /\ r[i] = site[before + i]
    BY <1>1, <1>2, <1>4, <1>6, <2>1
  <2> QED
    BY <2>2
<1>10. r = <<>> => Len(site) <= before
  BY <1>1, <1>2, <1>4, <1>6
<1>11. Elements(r) \subseteq {site[i] : i \in (before + 1)..Len(site)}
  BY <1>7, <1>9
<1>12. /\ r \in Seq(Msd!Orders) /\ before \in Nat
       /\ \A i \in 1..Len(site) : before < i /\ i <= before + MsdPage => site[i] \in Elements(r)
       /\ Elements(r) \subseteq {site[i] : i \in (before + 1)..Len(site)}
       /\ r = <<>> => Len(site) <= before
  BY <1>2, <1>6, <1>8, <1>10, <1>11
<1> QED
  BY <1>3, <1>12 DEF before

\* A page is read.  Orders that came since the first page push first orders only to
\* pages that are still to be read, so each of them is met; and an order that came is
\* met only if it stands beyond the first page.
LEMMA FetchPageMsd == MsdInv /\ Msd!FetchPage => MsdInv'
<1> SUFFICES ASSUME MsdInv, Msd!FetchPage PROVE MsdInv'
  OBVIOUS
<1>1. MsdTypes /\ Unread /\ BetweenPages /\ Written
  BY DEF MsdInv
<1>2. /\ site \in Seq(Msd!Orders) /\ Len(site) \in Nat /\ page \in Nat \ {0}
      /\ MsdPage \in Nat \ {0} /\ None \notin Nat
      /\ since \in [came : Nat, left : Nat] /\ links \in Seq(Msd!Orders) /\ Distinct(links)
  BY <1>1, CrawlsAssumption DEF MsdTypes, Msd!MsdAssumption
<1>3. msdPc = "list" /\ UNCHANGED <<site, came, since, saved>>
  BY DEF Msd!FetchPage, Msd!siteVars
<1> DEFINE Rows(error, answer) == IF error THEN <<>> ELSE Msd!PageOf(answer)
           Found(error, answer) == links \o Msd!NewLinks(Rows(error, answer))
<1> PICK error \in BOOLEAN, answer \in Msd!Answering :
      /\ error => answer = page
      /\ total' \in IF total # None THEN {total}
                    ELSE IF error THEN {None} ELSE {None, Len(site)}
      /\ links' = Found(error, answer)
      /\ first' = IF page = 1 THEN Msd!Range(site) ELSE first
      /\ cut' = (error \/ Msd!AtLimit)
      /\ IF Msd!StopPaging(Rows(error, answer), Found(error, answer))
         THEN /\ msdPc' = (IF Found(error, answer) = <<>> THEN "raised" ELSE "details")
              /\ UNCHANGED page
         ELSE /\ page' = IF maxPages = 0 /\ page > Msd!Beyond THEN page ELSE page + 1
              /\ UNCHANGED msdPc
  BY DEF Msd!FetchPage
<1> DEFINE read == Rows(error, answer)
           found1 == Found(error, answer)
           before == (page - 1) * MsdPage
<1>4. /\ total' \in IF total # None THEN {total}
                    ELSE IF error THEN {None} ELSE {None, Len(site)}
      /\ links' = found1
      /\ first' = (IF page = 1 THEN Elements(site) ELSE first)
      /\ cut' = (error \/ Msd!AtLimit)
  BY DEF Elements
<1>5. IF Msd!StopPaging(read, found1)
      THEN msdPc' = (IF found1 = <<>> THEN "raised" ELSE "details") /\ UNCHANGED page
      ELSE /\ page' = page + 1 \/ (page' = page /\ page > Msd!Beyond)
           /\ UNCHANGED msdPc
  OBVIOUS
<1>6. /\ read \in Seq(Msd!Orders) /\ before \in Nat
      /\ ~error =>
           /\ \A i \in 1..Len(site) :
                before < i /\ i <= before + MsdPage => site[i] \in Elements(read)
           /\ read = <<>> => Len(site) <= before
      /\ Elements(read) \subseteq {site[i] : i \in 1..Len(site)}
      /\ \/ Elements(read) \subseteq {site[i] : i \in (before + 1)..Len(site)}
         \/ page # 1 /\ Len(site) <= before
  <2>0. before \in Nat /\ \A i \in (before + 1)..Len(site) : i \in 1..Len(site)
    <3>1. \A x \in Nat \ {0}, y \in Nat \ {0} : (x - 1) * y \in Nat
      OBVIOUS
    <3> HIDE DEF read, found1
    <3>2. page \in Nat \ {0} /\ MsdPage \in Nat \ {0} /\ Len(site) \in Nat
      BY <1>2
    <3>3. (page - 1) * MsdPage \in Nat
      BY <3>1, <3>2
    <3> HIDE DEF before
    <3>4. before \in Nat
      BY <3>3 DEF before
    <3> QED
      BY <3>2, <3>4
  <2>1. CASE error
    <3>1. Elements(<<>>) = {} /\ <<>> \in Seq(Msd!Orders)
      BY DEF Elements, Msd!Range
    <3> QED
      BY <2>0, <2>1, <3>1
  <2>2. CASE ~error /\ answer = page
    BY <1>1, <1>2, <2>0, <2>2, PageHolds
  <2>3. CASE ~error /\ answer # page
    <3>1. /\ answer \in 1..(page - 1) /\ Msd!PageOf(answer + 1) = <<>>
          /\ read = Msd!PageOf(answer)
      BY <2>3 DEF Msd!Answering
    <3> HIDE DEF read
    <3>2. answer \in Nat \ {0} /\ answer + 1 \in Nat \ {0} /\ page # 1 /\ answer + 1 - 1 = answer
      BY <1>2, <3>1
    <3>3. Len(site) <= answer * MsdPage
      BY <1>1, <3>1, <3>2, PageHolds
    <3>4. answer * MsdPage <= before
      <4>1. \A x, y, z \in Nat : x <= y => x * z <= y * z
        OBVIOUS
      <4>2. answer <= page - 1 /\ page - 1 \in Nat /\ answer \in Nat /\ MsdPage \in Nat
        BY <1>2, <3>1, <3>2
      <4> QED
        BY <4>1, <4>2
    <3>5. Len(site) <= before
      <4>1. answer * MsdPage \in Nat
        BY <1>2, <3>2
      <4> QED
        BY <1>2, <2>0, <3>3, <3>4, <4>1
    <3> DEFINE ahead == (answer - 1) * MsdPage
    <3>6. /\ read \in Seq(Msd!Orders) /\ ahead \in Nat
          /\ Elements(read) \subseteq {site[i] : i \in (ahead + 1)..Len(site)}
      BY <1>1, <3>1, <3>2, PageHolds
    <3> HIDE DEF ahead
    <3>7. \A i \in (ahead + 1)..Len(site) : i \in 1..Len(site)
      BY <1>2, <3>6
    <3>8. Elements(read) \subseteq {site[i] : i \in 1..Len(site)}
      BY <3>6, <3>7
    <3>9. \A i \in 1..Len(site) : ~(before < i)
      BY <1>2, <2>0, <3>5
    <3> QED
      BY <2>0, <3>2, <3>5, <3>6, <3>8, <3>9
  <2> QED
    BY <2>1, <2>2, <2>3
<1>7. before + MsdPage = page * MsdPage
  <2>1. \A x \in Nat \ {0}, y \in Nat \ {0} : x * y = (x - 1) * y + y
    OBVIOUS
  <2> QED
    BY <1>2, <2>1
<1>8. found1 = links \o Msd!SetToSeq(Elements(read) \ Elements(links))
  BY DEF Msd!NewLinks, Elements
<1>9. read = <<>> => Msd!StopPaging(read, found1)
  BY DEF Msd!StopPaging
<1>10. error => read = <<>>
  OBVIOUS
<1> HIDE DEF read, found1, before, Rows, Found
<1>b. page > Msd!Beyond => page # 1
  BY <1>2, CrawlsAssumption DEF Msd!Beyond, Msd!MsdAssumption
<1>11. /\ found1 \in Seq(Msd!Orders) /\ Distinct(found1)
      /\ Elements(found1) = Elements(links) \cup Elements(read)
  <2> DEFINE New == Elements(read) \ Elements(links)
  <2>1. IsFiniteSet(New)
    <3>1. IsFiniteSet(Elements(read))
      BY <1>6, ElementsFinite
    <3> QED
      BY <3>1, FS_Difference
  <2>2. New \subseteq Msd!Orders
    <3>1. Elements(read) = {read[i] : i \in 1..Len(read)}
      BY <1>6, ElementsOf
    <3> QED
      BY <1>6, <3>1
  <2> HIDE DEF New
  <2>3. /\ Msd!SetToSeq(New) \in Seq(New) /\ Elements(Msd!SetToSeq(New)) = New
        /\ Distinct(Msd!SetToSeq(New))
    BY <2>1, SeqOfSet
  <2>4. Msd!SetToSeq(New) \in Seq(Msd!Orders)
    BY <2>2, <2>3
  <2>5. Elements(links) \cap New = {}
    BY DEF New
  <2>6. /\ found1 \in Seq(Msd!Orders) /\ Distinct(found1)
        /\ Elements(found1) = Elements(links) \cup New
    <3>1. Elements(links) \cap Elements(Msd!SetToSeq(New)) = {} /\ Distinct(Msd!SetToSeq(New))
      BY <2>3, <2>5
    <3>2. found1 = links \o Msd!SetToSeq(New)
      BY <1>8 DEF New
    <3> HIDE DEF New
    <3>3. /\ links \o Msd!SetToSeq(New) \in Seq(Msd!Orders) /\ Distinct(links \o Msd!SetToSeq(New))
          /\ Elements(links \o Msd!SetToSeq(New)) = Elements(links) \cup Elements(Msd!SetToSeq(New))
      BY <1>2, <2>4, <3>1, Longer
    <3> QED
      BY <2>3, <3>2, <3>3
  <2> QED
    BY <2>6 DEF New
<1>12. Elements(site) = {site[i] : i \in 1..Len(site)}
  BY <1>2, ElementsOf
<1>13. page = 1 => links = <<>> /\ total = None /\ since = [came |-> 0, left |-> 0] /\ before = 0
  BY <1>1, <1>2, <1>3 DEF Unread, before
<1>14. ASSUME page # 1, since.left = 0
       PROVE  FirstBehind /\ LinkedUpTo(before) /\ OnlyFirst /\ TotalCounts
  BY <1>1, <1>2, <1>3, <1>14 DEF BetweenPages, Msd!Paging, before
<1>15. MsdTypes'
  <2>1. page' \in Nat \ {0} /\ cut' \in BOOLEAN
    BY <1>2, <1>4, <1>5
  <2>2. total' \in Nat \cup {None}
    BY <1>1, <1>2, <1>4 DEF MsdTypes
  <2>3. site' \in Seq(Msd!Orders) /\ came' \in Nat /\ since' \in [came : Nat, left : Nat]
    BY <1>1, <1>2, <1>3 DEF MsdTypes
  <2>4. links' \in Seq(Msd!Orders) /\ Distinct(links)'
    BY <1>4, <1>11 DEF Distinct, Msd!IsInjective
  <2> QED
    BY <2>1, <2>2, <2>3, <2>4 DEF MsdTypes
<1>16. Unread'
  BY <1>2, <1>3, <1>5, <1>b DEF Unread, BeforeList
<1>17. ASSUME since.left = 0
       PROVE  /\ since.came <= Len(site)
              /\ first' = {site[i] : i \in (since.came + 1)..Len(site)}
              /\ first' \subseteq Elements(site)
  <2>1. CASE page = 1
    BY <1>2, <1>4, <1>12, <1>13, <2>1
  <2>2. CASE page # 1
    <3>1. FirstBehind /\ first' = first
      BY <1>4, <1>14, <1>17, <2>2
    <3>2. (since.came + 1)..Len(site) \subseteq 1..Len(site)
      BY <1>2
    <3> QED
      BY <1>12, <3>1, <3>2 DEF FirstBehind
  <2> QED
    BY <2>1, <2>2
<1>18. ASSUME since.left = 0, ~error
       PROVE  \A i \in (since.came + 1)..Len(site) :
                i <= before + MsdPage => site[i] \in Elements(found1)
  <2> SUFFICES ASSUME NEW i \in (since.came + 1)..Len(site), i <= before + MsdPage
               PROVE  site[i] \in Elements(found1)
    OBVIOUS
  <2>1. i \in 1..Len(site) /\ i \in Nat
    BY <1>2
  <2>2. CASE before < i
    BY <1>6, <1>11, <1>18, <2>1, <2>2
  <2>3. CASE i <= before
    <3>1. page # 1
      BY <1>13, <2>1, <2>3
    <3> QED
      BY <1>11, <1>14, <1>18, <2>3, <3>1 DEF LinkedUpTo
  <2> QED
    BY <1>6, <2>1, <2>2, <2>3
<1>19. ASSUME since.left = 0, since.came <= MsdPage
       PROVE  Elements(found1) \subseteq first' \/ first' \subseteq Elements(found1)
  <2>1. CASE page = 1
    <3>1. Elements(links) = {}
      BY <1>13, <2>1 DEF Elements, Msd!Range
    <3> QED
      BY <1>4, <1>6, <1>11, <1>12, <2>1, <3>1
  <2>2. CASE page # 1
    <3>1. /\ Elements(links) \subseteq first' \/ first' \subseteq Elements(links)
          /\ first' = first /\ FirstBehind /\ LinkedUpTo(before)
      BY <1>4, <1>14, <1>19, <2>2 DEF OnlyFirst
    <3>2. before >= MsdPage
      <4>1. \A x \in Nat \ {0, 1}, y \in Nat \ {0} : (x - 1) * y >= y
        OBVIOUS
      <4> QED
        BY <1>2, <2>2, <4>1 DEF before
    <3>3. (before + 1)..Len(site) \subseteq (since.came + 1)..Len(site)
      BY <1>2, <1>6, <1>19, <3>2
    <3>4. CASE Len(site) <= before
      <4>1. \A i \in (since.came + 1)..Len(site) : i <= before
        BY <1>2, <1>6, <3>4
      <4>2. first' \subseteq Elements(links)
        BY <3>1, <4>1 DEF FirstBehind, LinkedUpTo
      <4> QED
        BY <1>11, <4>2
    <3>5. CASE Elements(read) \subseteq {site[i] : i \in (before + 1)..Len(site)}
      BY <1>11, <1>17, <1>19, <3>1, <3>3, <3>5
    <3> QED
      BY <1>6, <3>4, <3>5
  <2> QED
    BY <2>1, <2>2
<1>20. IsFiniteSet(Elements(site)) /\ Cardinality(Elements(site)) <= Len(site)
  BY <1>2, ElementsFinite
<1>21. ASSUME since.left = 0
       PROVE  /\ IsFiniteSet(first') /\ Cardinality(first') \in Nat
              /\ total' # None => Cardinality(first') <= total'
  <2>1. IsFiniteSet(first') /\ Cardinality(first') <= Cardinality(Elements(site))
    BY <1>17, <1>20, <1>21, FS_Subset
  <2>2. Cardinality(first') \in Nat /\ Cardinality(Elements(site)) \in Nat
    BY <1>20, <2>1, FS_CardinalityType
  <2>3. CASE total = None
    BY <1>2, <1>4, <1>20, <2>1, <2>2, <2>3
  <2>4. CASE total # None
    <3>1. page # 1 /\ total' = total
      BY <1>4, <1>13, <2>4
    <3>2. first' = first /\ TotalCounts
      BY <1>4, <1>14, <1>21, <3>1
    <3> QED
      BY <2>1, <2>2, <2>4, <3>1, <3>2 DEF TotalCounts
  <2> QED
    BY <2>3, <2>4
<1>22. BetweenPages'
  <2> SUFFICES ASSUME Msd!Paging', since.left = 0 PROVE BetweenPages'
    BY <1>3 DEF BetweenPages
  <2>1. ~Msd!StopPaging(read, found1) /\ (page' = page + 1 \/ page' = page)
    BY <1>3, <1>5, <1>13 DEF Msd!Paging
  <2>2. ~error
    BY <1>9, <1>10, <2>1
  <2>3. (page' - 1) * MsdPage \in Nat /\ (page' - 1) * MsdPage <= before + MsdPage
    <3>1. CASE page' = page + 1
      <4>1. page' - 1 = page /\ page * MsdPage \in Nat
        BY <1>2, <3>1
      <4> QED
        BY <1>7, <4>1
    <3>2. CASE page' = page
      <4>1. (page' - 1) * MsdPage = before
        BY <3>2 DEF before
      <4> QED
        BY <1>2, <1>6, <4>1
    <3> QED
      BY <2>1, <3>1, <3>2
  <2>4. FirstBehind'
    BY <1>3, <1>17 DEF FirstBehind
  <2>5. LinkedUpTo((page - 1) * MsdPage)'
    <3>1. \A i \in (since'.came + 1)..Len(site') :
            i <= (page' - 1) * MsdPage => site'[i] \in Elements(found1)
      <4>1. \A i \in (since.came + 1)..Len(site) :
              i <= (page' - 1) * MsdPage => i <= before + MsdPage
        BY <1>2, <1>6, <2>3
      <4> QED
        BY <1>3, <1>18, <2>2, <4>1
    <3>2. Elements(links)' = Elements(found1)
      BY <1>4 DEF Elements, Msd!Range
    <3> QED
      BY <3>1, <3>2 DEF LinkedUpTo
  <2>6. OnlyFirst'
    BY <1>3, <1>4, <1>19 DEF OnlyFirst, Elements, Msd!Range
  <2>7. TotalCounts'
    BY <1>21 DEF TotalCounts
  <2> QED
    BY <2>4, <2>5, <2>6, <2>7 DEF BetweenPages
<1>23. Listing'
  <2> SUFFICES ASSUME msdPc' \in {"details", "finish"}, ~cut', since.left = 0,
                      since.came <= MsdPage
               PROVE  first' \subseteq Elements(found1)
    BY <1>3, <1>4 DEF Listing, AllLinked, Elements, Msd!Range
  <2>1. Msd!StopPaging(read, found1) /\ ~error /\ ~Msd!AtLimit
    BY <1>3, <1>4, <1>5
  <2>2. CASE read = <<>>
    <3>1. Len(site) <= before + MsdPage
      BY <1>2, <1>6, <2>1, <2>2
    <3>2. \A i \in (since.came + 1)..Len(site) : i <= before + MsdPage
      BY <1>2, <1>6, <3>1
    <3> QED
      BY <1>17, <1>18, <2>1, <3>2
  <2>3. CASE read # <<>>
    <3>1. total' # None /\ Len(found1) >= total'
      BY <2>1, <2>3 DEF Msd!StopPaging
    <3>2. Cardinality(Elements(found1)) = Len(found1) /\ Len(found1) \in Nat
      <4>1. found1 \in Seq(Msd!Orders) /\ Distinct(found1)
        BY <1>11
      <4>2. Cardinality(Elements(found1)) = Len(found1)
        BY <4>1, DistinctCounted
      <4> QED
        BY <4>1, <4>2
    <3>3. total' \in Nat
      BY <1>15, <3>1 DEF MsdTypes
    <3>4. IsFiniteSet(first') /\ Cardinality(first') \in Nat
      BY <1>21
    <3>5. CASE Elements(found1) \subseteq first'
      <4>1. Cardinality(first') <= Cardinality(Elements(found1))
        BY <1>21, <3>1, <3>2, <3>3, <3>4
      <4>2. Cardinality(Elements(found1)) <= Cardinality(first')
        BY <3>4, <3>5, FS_Subset
      <4>3. Cardinality(first') = Cardinality(Elements(found1))
        BY <3>2, <3>4, <4>1, <4>2
      <4> QED
        BY <3>4, <3>5, <4>3, FS_Subset
    <3> QED
      BY <1>19, <3>5
  <2> QED
    BY <2>2, <2>3
<1>24. Written'
  <2>1. saved = None
    BY <1>1, <1>3 DEF Written
  <2> QED
    BY <1>3, <2>1 DEF Written
<1> QED
  BY <1>15, <1>16, <1>22, <1>23, <1>24 DEF MsdInv

LEMMA StepMsd == MsdInv /\ [Msd!Next]_(Msd!vars) => MsdInv'
<1> SUFFICES ASSUME MsdInv, [Msd!Next]_(Msd!vars) PROVE MsdInv'
  OBVIOUS
<1> USE DEF listed, BeforeList, Msd!Goto, Msd!siteVars, Msd!listVars, Msd!loginRest
<1>1. CASE Msd!Look
  BY <1>1, ElsewhereMsd DEF Msd!Look
<1>2. CASE Msd!TryAutoLogin
  BY <1>2, ElsewhereMsd DEF Msd!TryAutoLogin
<1>3. CASE Msd!Submitted
  BY <1>3, ElsewhereMsd DEF Msd!Submitted
<1>4. CASE Msd!AskForLogin
  BY <1>4, ElsewhereMsd DEF Msd!AskForLogin
<1>5. CASE Msd!AwaitLogin
  BY <1>5, ElsewhereMsd DEF Msd!AwaitLogin
<1>6. CASE Msd!FetchPage
  BY <1>6, FetchPageMsd
<1>7. CASE Msd!SaveResults
  BY <1>7, ElsewhereMsd DEF Msd!SaveResults
<1>8. CASE Msd!Finish
  BY <1>8, ElsewhereMsd DEF Msd!Finish
<1>9. CASE Msd!Raise
  BY <1>9, ElsewhereMsd DEF Msd!Raise
<1>10. ASSUME NEW i \in DOMAIN work, Msd!EnterDetail(i) PROVE MsdInv'
  BY <1>10, ElsewhereMsd DEF Msd!EnterDetail
<1>11. ASSUME NEW i \in DOMAIN work, Msd!DetailStep(i) PROVE MsdInv'
  BY <1>11, ElsewhereMsd DEF Msd!DetailStep
<1>12. CASE Msd!EnterDefaultShop
  BY <1>12, ElsewhereMsd DEF Msd!EnterDefaultShop
<1>13. CASE Msd!NewOrder
  BY <1>13, NewOrderMsd
<1>14. CASE Msd!RemoveOrder
  BY <1>14, RemoveOrderMsd
<1>15. CASE Msd!PersonActs
  BY <1>15, ElsewhereMsd DEF Msd!PersonActs
<1>16. CASE UNCHANGED Msd!vars
  BY <1>16, ElsewhereMsd DEF Msd!vars
<1> QED
  BY <1>1, <1>2, <1>3, <1>4, <1>5, <1>6, <1>7, <1>8, <1>9, <1>10, <1>11, <1>12, <1>13, <1>14,
     <1>15, <1>16 DEF Msd!Next, Msd!Crawl

\* The tmall file misses no order of the list at the first page and has none twice, for
\* any list, any orders that come and leave, and pages of any size.
THEOREM ListIsSaved == ScrapingSpec => []ListSaved
<1>1. Msd!Init => MsdInv
  BY InitMsd
<1>2. MsdInv /\ [Msd!Next]_(Msd!vars) => MsdInv'
  BY StepMsd
<1>3. MsdInv => ListSaved
  <2> SUFFICES ASSUME MsdInv PROVE Msd!ListedOrdersSaved /\ Msd!NoOrderTwice
    BY DEF ListSaved
  <2>1. Written
    BY DEF MsdInv
  <2> QED
    BY <2>1 DEF Written, Distinct, Msd!ListedOrdersSaved, Msd!NoOrderTwice
<1>4. QED
  BY <1>1, <1>2, <1>3, PartsGoOnAlone, PTL DEF Msd!Spec
=============================================================================
