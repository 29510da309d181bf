------------------------------ MODULE CompassRun ------------------------------
(***************************************************************************)
(* One run of the compass collector, from the scheduler's random wait to   *)
(* its last status: scheduler.main, compass.run and save_run, the shop     *)
(* switch of scraper.py and the collectors of operations.py, channel.py    *)
(* and douyin.py (the last two in more detail in ResponseCapture and       *)
(* PanelCapture).                                                          *)
(*                                                                         *)
(* The web page is the environment: what it answers arrives in any order,  *)
(* late, or never, since wait_network_quiet goes on when its time is over. *)
(* Of its requests only core_index_v3 matters here, whose type and dates   *)
(* confirm the day; what else the channel listener has kept when it is     *)
(* asked is something or nothing.                                          *)
(***************************************************************************)
EXTENDS Naturals, Sequences, FiniteSets, Functions

CONSTANTS
  Arguments,   \* the command lines: the shops, the modules and the date
  Today,       \* the day on which the run starts
  None,        \* no day
  MaxDays,     \* bound: midnights that pass
  MaxFailures  \* bound: status writes that fail

Modules == {"operations", "channel", "douyin"}

\* parse_data_day and the guard of run: only a past day (of this month, the days that
\* are modelled), and only operations.
DateAllowed(a) ==
  a.date = None \/ (a.date \in 0..(Today - 1) /\ a.modules = {"operations"})

\* What an instance assumes.
RunAssumption ==
  /\ \A a \in Arguments :
       /\ DateAllowed(a)
       /\ a.modules \subseteq Modules /\ a.modules # {}
       /\ a.shops \in Seq(Range(a.shops)) /\ Len(a.shops) > 0 /\ IsInjective(a.shops)
  /\ Today \in Nat \ {0, 1} /\ MaxDays \in Nat /\ MaxFailures \in Nat
  /\ None \notin Nat

VARIABLES
  args,      \* the arguments of this run
  pc,        \* where the run is
  left,      \* the shops that are left, the present one first
  coming,    \* the core_index_v3 requests that the page waits for
  ranges,    \* date_ranges and expected of choose_data_day
  dataDay,   \* data_range of the present shop
  items,     \* result[module]: the sequence of each module's items
  counts,    \* result["modules"]: success_count and error_count of each module
  outputs,   \* the output files: module and the day that names the file
  status,    \* the state in status.json
  today,     \* date.today()
  failures   \* status writes that failed

pageVars == <<coming, ranges>>
resultVars == <<items, counts, outputs>>
vars == <<args, pc, left, dataDay, pageVars, resultVars, status, today, failures>>

TargetShops == args.shops    \* args.shop or TARGET_SHOPS, a sequence
Requested == args.modules    \* args.module or all modules
DataDay == args.date         \* args.date, None for 近1天

Shop == Head(left)
Goto(from, to) == pc = from /\ pc' = to
Yesterday == today - 1
Expected == IF DataDay = None THEN Yesterday ELSE DataDay
Wanted == IF DataDay = None THEN "20" ELSE "999"
NeedsDay == Requested \cap {"operations", "channel"} # {}

Init ==
  /\ args \in Arguments
  /\ pc = "delay" /\ left = TargetShops
  /\ coming = {}
  /\ ranges = [seen |-> {}, expected |-> None] /\ dataDay = None
  /\ items = [m \in Modules |-> <<>>]
  /\ counts = [m \in Modules |-> [ok |-> 0, bad |-> 0]]
  /\ outputs = {} /\ status = "other"
  /\ today = Today /\ failures = 0

----------------------------------------------------------------------------
(***************************************************************************)
(* The page                                                                *)
(***************************************************************************)
Request(type, first, last) == [type |-> type, begin |-> first, end |-> last]

\* What a click on 近1天 may make the page ask for: yesterday or the day before, if
\* yesterday is not there yet; a longer or a default range still comes from before.
NearDayRequests ==
  {Request("20", d, d) : d \in {Yesterday, Yesterday - 1}}
    \cup {Request("20", Yesterday - 1, Yesterday), Request("1", Yesterday, Yesterday)}

\* What clicks on the one visible cell of the day may make the page ask for: the
\* day, a range that another click began, or the range from before.
CustomDayRequests ==
  {Request("999", DataDay, DataDay), Request("999", DataDay - 1, DataDay),
   Request("20", DataDay, DataDay)}

\* date_range_from_request: the range of a request of the wanted type.
DateRanges(request) ==
  IF request.type = Wanted THEN {<<request.begin, request.end>>} ELSE {}

\* An answer arrives while choose_data_day listens or at another time; the page
\* asks again, or never gets one.
Arrive ==
  /\ \E request \in coming :
       /\ coming' \in {coming, coming \ {request}}
       /\ ranges' = IF pc = "confirm"
                    THEN [ranges EXCEPT !.seen = @ \cup DateRanges(request)] ELSE ranges
  /\ UNCHANGED <<pc, left, dataDay, resultVars, status, today, failures>>

Midnight ==
  /\ today < Today + MaxDays /\ today' = today + 1
  /\ UNCHANGED <<pc, left, dataDay, pageVars, resultVars, status, failures>>

----------------------------------------------------------------------------
(***************************************************************************)
(* Status                                                                  *)
(***************************************************************************)

\* write_status sets the state, or raises, and the run goes on where it says.
WriteStatus(state, next, onError) ==
  \/ status' = state /\ pc' = next /\ UNCHANGED failures
  \/ /\ failures < MaxFailures /\ failures' = failures + 1
     /\ pc' = onError /\ UNCHANGED status

Waiting == pc = "delay" /\ WriteStatus("waiting_random", "start", "failing")
           /\ UNCHANGED <<left, dataDay, pageVars, resultVars, today>>
Running == pc = "start" /\ WriteStatus("running", "open", "failing")
           /\ UNCHANGED <<left, dataDay, pageVars, resultVars, today>>

\* except Exception: the state "failed", if it can be written.
Failed == pc = "failing" /\ WriteStatus("failed", "exit", "exit")
          /\ UNCHANGED <<left, dataDay, pageVars, resultVars, today>>

\* wait_for_login shows the login page and waits for the user ...
LoginRequired == pc = "open" /\ WriteStatus("login_required", "login", "failing")
                 /\ UNCHANGED <<left, dataDay, pageVars, resultVars, today>>
\* ... who logs in in time.
LoggedIn == pc = "login" /\ WriteStatus("running", "shop", "failing")
            /\ UNCHANGED <<left, dataDay, pageVars, resultVars, today>>

\* Chromium or the shop page does not start, the login's or the run's time is over.
RunRaises ==
  /\ pc \in {"open", "login", "shop", "switch", "choose", "confirm", "operations", "load",
             "channel", "douyin"}
  /\ pc' = "failing"
  /\ UNCHANGED <<left, dataDay, pageVars, resultVars, status, today, failures>>

----------------------------------------------------------------------------
(***************************************************************************)
(* run, one shop after the other                                           *)
(***************************************************************************)
OpenPage ==
  /\ Goto("open", "shop")
  /\ UNCHANGED <<left, dataDay, pageVars, resultVars, status, today, failures>>

StartShop ==
  /\ Goto("shop", "switch") /\ left # <<>>
  /\ dataDay' = None
  /\ UNCHANGED <<left, pageVars, resultVars, status, today, failures>>

\* switch_shop: the shop is clicked in the dialog and nothing confirms it.
SwitchShop ==
  /\ Goto("switch", IF NeedsDay THEN "choose" ELSE "douyin")
  /\ UNCHANGED <<left, pageVars, dataDay, resultVars, status, today, failures>>

\* Mutant: a shop that cannot be shown counts for nobody.
ShopFails_Silent ==
  /\ pc \in {"switch", "choose", "confirm"} /\ pc' = "shop" /\ left' = Tail(left)
  /\ UNCHANGED <<pageVars, dataDay, resultVars, status, today, failures>>

\* The dialog, the shop, the tab or the calendar's day is not found, or the day is
\* not confirmed: an error of every requested module, and the next shop.
ShopFails ==
  /\ pc \in {"switch", "choose", "confirm"} /\ pc' = "shop" /\ left' = Tail(left)
  /\ counts' = [m \in Modules |->
       IF m \in Requested THEN [counts[m] EXCEPT !.bad = @ + 1] ELSE counts[m]]
  /\ UNCHANGED <<pageVars, dataDay, items, outputs, status, today, failures>>

\* choose_data_day and click_custom_day: the day is clicked; what 近1天 is, the
\* page decides.
ChooseDay ==
  /\ Goto("choose", "confirm")
  /\ ranges' = [seen |-> {}, expected |-> Expected]
  /\ \E sent \in SUBSET (IF DataDay = None THEN NearDayRequests ELSE CustomDayRequests) :
       coming' = coming \cup sent
  /\ UNCHANGED <<left, dataDay, resultVars, status, today, failures>>

\* Mutant: the range is not compared with the expected day.
Confirmed_AnyDay == Cardinality(ranges.seen) = 1

Confirmed == ranges.seen = {<<ranges.expected, ranges.expected>>}

\* The requests that were answered state one range: the expected day.
ConfirmDay ==
  /\ Goto("confirm", "operations")
  /\ Confirmed
  /\ \E r \in ranges.seen : dataDay' = r
  /\ UNCHANGED <<left, pageVars, resultVars, status, today, failures>>

Item(m, item) ==
  /\ items' = [items EXCEPT ![m] = Append(@, item)]
  /\ counts' = [counts EXCEPT ![m].ok = @ + 1]
Error(m) == counts' = [counts EXCEPT ![m].bad = @ + 1] /\ UNCHANGED items

\* operations.collect reads the text of the page.
Operations ==
  /\ Goto("operations", "load")
  /\ IF "operations" \in Requested
     THEN Item("operations", [shop |-> Shop, day |-> dataDay]) \/ Error("operations")
     ELSE UNCHANGED <<items, counts>>
  /\ UNCHANGED <<left, dataDay, pageVars, outputs, status, today, failures>>

\* channel.load scrolls and clicks the tabs of the page's modules, or fails.
LoadChannel ==
  /\ Goto("load", "channel")
  /\ \/ UNCHANGED <<items, counts>>
     \/ "channel" \in Requested /\ Error("channel")
  /\ UNCHANGED <<left, dataDay, pageVars, outputs, status, today, failures>>

\* finish_shop: what was captured is kept, also when the page failed to load.
Channel ==
  /\ Goto("channel", "douyin")
  /\ \/ UNCHANGED <<items, counts>>
     \/ "channel" \in Requested /\ Item("channel", [shop |-> Shop, day |-> dataDay])
  /\ UNCHANGED <<left, dataDay, pageVars, outputs, status, today, failures>>

\* douyin.collect returns at least one panel, or raises.
Douyin ==
  /\ Goto("douyin", "shop") /\ left' = Tail(left)
  /\ IF "douyin" \in Requested
     THEN \/ Item("douyin", [shop |-> Shop, day |-> <<Yesterday, Yesterday>>])
          \/ Error("douyin")
     ELSE UNCHANGED <<items, counts>>
  /\ UNCHANGED <<dataDay, pageVars, outputs, status, today, failures>>

----------------------------------------------------------------------------
(***************************************************************************)
(* save_run and the final status                                           *)
(***************************************************************************)

\* The file of a module that has items, named by the first item's day, is written;
\* a write that fails ends the run.
SaveFile(m, from, to, day) ==
  /\ pc = from
  /\ IF items[m] = <<>>
     THEN pc' = to /\ UNCHANGED outputs
     ELSE \/ pc' = to /\ outputs' = outputs \cup {[module |-> m, day |-> day]}
          \/ pc' = "failing" /\ UNCHANGED outputs
  /\ UNCHANGED <<left, dataDay, pageVars, items, counts, status, today, failures>>

FirstDay(m) == IF items[m] = <<>> THEN today ELSE Head(items[m]).day[2]

RunReturns ==
  /\ Goto("shop", "save operations") /\ left = <<>>
  /\ UNCHANGED <<left, dataDay, pageVars, resultVars, status, today, failures>>
SaveOperations ==
  SaveFile("operations", "save operations", "save channel", FirstDay("operations"))
SaveChannel == SaveFile("channel", "save channel", "save douyin", FirstDay("channel"))

SaveDouyin == SaveFile("douyin", "save douyin", "saved", FirstDay("douyin"))

ModuleFailed(m) == counts[m].bad > 0 \/ counts[m].ok = 0

\* A run without any output has failed.
Report ==
  /\ pc = "saved"
  /\ IF outputs = {}
     THEN pc' = "failing" /\ UNCHANGED <<status, failures>>
     ELSE WriteStatus(IF \E m \in Requested : ModuleFailed(m) THEN "partial_success"
                                                               ELSE "success",
                      "exit", "failing")
  /\ UNCHANGED <<left, dataDay, pageVars, resultVars, today>>

Next ==
  /\ UNCHANGED args
  /\ \/ Arrive \/ Midnight
     \/ Waiting \/ Running \/ Failed \/ LoginRequired \/ LoggedIn \/ RunRaises
     \/ OpenPage \/ StartShop \/ SwitchShop \/ ShopFails \/ ChooseDay \/ ConfirmDay
     \/ Operations \/ LoadChannel \/ Channel \/ Douyin
     \/ RunReturns \/ SaveOperations \/ SaveChannel \/ SaveDouyin \/ Report

Spec == Init /\ [][Next]_vars

----------------------------------------------------------------------------
(***************************************************************************)
(* Properties.                                                             *)
(***************************************************************************)

\* Between two shops, each module that reads the page or the panels has counted
\* every shop so far exactly once, whatever failed, and every success has its item.
EveryShopAccounted ==
  pc \in {"shop", "saved"} =>
    \A m \in Requested :
      /\ counts[m].ok = Len(items[m])
      /\ m # "channel" => counts[m].ok + counts[m].bad = Len(TargetShops) - Len(left)
      /\ \A i, j \in DOMAIN items[m] : items[m][i].shop = items[m][j].shop => i = j

\* What is filed under a day is filed under the requested day, or under a day that
\* was yesterday during this run, however late answers come and midnight falls; the
\* modules file one shop under one day.
FiledUnderExpectedDay ==
  \A i, j \in Range(items["operations"]) \cup Range(items["channel"]) :
    /\ i.day[1] = i.day[2]
    /\ IF DataDay = None THEN i.day[1] + 1 \in Today..today ELSE i.day[1] = DataDay
    /\ i.shop = j.shop => i.day = j.day

\* A run that ends with a good state has written what it tells of: "success" a
\* file for every requested module, "partial_success" at least one.
StateTellsResult ==
  /\ status = "success" => \A m \in Requested : \E o \in outputs : o.module = m
  /\ status = "partial_success" => outputs # {}

\* The state of a run that is over is a final one, unless a status write failed.
ExitTellsEnd ==
  pc = "exit" /\ failures = 0 => status \in {"success", "partial_success", "failed"}
=============================================================================
