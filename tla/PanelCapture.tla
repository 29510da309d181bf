----------------------------- MODULE PanelCapture -----------------------------
(***************************************************************************)
(* The panels of one shop, apps/collector_py/douyin.py: each panel's page  *)
(* is opened, the tab 近1天 is clicked while a PanelCapture listens, and   *)
(* the dates of the captured requests must be yesterday and nothing else.  *)
(*                                                                         *)
(* PanelCapture is the capture of module ResponseCapture, with a set of    *)
(* date ranges; a panel takes the place of a shop, and trusted_response    *)
(* makes all its tests before a task is created, so Json is Business.      *)
(* Every panel has a capture object of its own: tasks of an abandoned one  *)
(* write where nobody looks, and are over.                                 *)
(***************************************************************************)
EXTENDS ResponseCapture

CONSTANTS
  RangeOf,    \* the day that a request of date_type 20 states, None for any other
  Today,      \* the day on which the collection starts
  MaxDays     \* bound: midnights that pass

ASSUME PanelAssumption ==
  /\ RangeOf \in [Responses -> Nat \cup {None}] /\ None \notin Nat
  /\ Today \in Nat \ {0} /\ MaxDays \in Nat
  /\ Json = Business

VARIABLES
  pc,        \* "open", "click", "wait", "check", "done" or "raised"
  ranges,    \* date_ranges of the capture
  today,     \* date.today()
  panels,    \* the panels that were collected: their day and their responses
  errors     \* the panels that failed

panelVars == <<pc, ranges, today, panels, errors>>
pvars == <<vars, panelVars>>

Panels == Shops
PanelTypeOK ==
  /\ TypeOK
  /\ pc \in {"open", "click", "wait", "check", "done", "raised"}
  /\ ranges \subseteq Nat
  /\ today \in Today..(Today + MaxDays)
  /\ panels \subseteq [panel : Panels, day : Nat, responses : SUBSET Responses]
  /\ errors \subseteq Panels

PanelInit ==
  /\ Init
  /\ pc = "open" /\ today = Today
  /\ ranges = {} /\ panels = {} /\ errors = {}

Goto(from, to) == pc = from /\ pc' = to

----------------------------------------------------------------------------
\* The page is there, with the right shop: a new capture starts.
OpenPanel(p) ==
  /\ Goto("open", "click")
  /\ p \notin errors
  /\ StartShop(p)
  /\ ranges' = {}
  /\ UNCHANGED <<today, panels, errors>>

\* The page does not load, or does not show the shop: collect notes the error.
OpenFails(p) ==
  /\ pc = "open"
  /\ p \notin read \cup errors
  /\ errors' = errors \cup {p}
  /\ UNCHANGED <<vars, pc, ranges, today, panels>>

\* 近1天 was clicked ...
ClickNearDay == Goto("click", "wait") /\ UNCHANGED <<vars, ranges, today, panels, errors>>

\* ... or was not found: the listener is removed.
ClickFails ==
  /\ Goto("click", "open")
  /\ enabled' = FALSE /\ returned' = items
  /\ at' = [r \in Responses |-> IF r \in tasks THEN "over" ELSE at[r]]
  /\ errors' = errors \cup {shop}
  /\ UNCHANGED <<shop, items, seen, bodyBytes, label, read, finishing, widest,
                 ranges, today, panels>>

\* _capture's second half: with the body, the range that the request states.
KeepPanelBody(r) ==
  /\ KeepBody(r)
  /\ ranges' = ranges \cup ({RangeOf[r]} \ {None})
  /\ UNCHANGED <<pc, today, panels, errors>>

FinishPanel == pc = "wait" /\ FinishShop /\ UNCHANGED panelVars
PanelReturned == Goto("wait", "check") /\ ReturnItems /\ UNCHANGED <<ranges, today, panels, errors>>

\* Mutant: one right date is enough.
RangeConfirmed_Some == today - 1 \in ranges /\ returned # {}

\* expected_yesterday, computed when the responses are there.
RangeConfirmed == ranges = {today - 1} /\ returned # {}

\* Mutant: a panel that fails is not noted.
CheckPanel_Silent ==
  /\ Goto("check", "open")
  /\ panels' = panels \cup
       (IF RangeConfirmed THEN {[panel |-> shop, day |-> today - 1, responses |-> returned]}
                          ELSE {})
  /\ UNCHANGED <<vars, ranges, today, errors>>

CheckPanel ==
  /\ Goto("check", "open")
  /\ IF RangeConfirmed
     THEN /\ panels' = panels \cup
               {[panel |-> shop, day |-> today - 1, responses |-> returned]}
          /\ UNCHANGED errors
     ELSE /\ errors' = errors \cup {shop}
          /\ UNCHANGED panels
  /\ UNCHANGED <<vars, ranges, today>>

\* collect returns what it has, or raises when it has nothing.
EndCollect ==
  /\ pc = "open" /\ Panels \subseteq read \cup errors
  /\ pc' = IF panels = {} THEN "raised" ELSE "done"
  /\ UNCHANGED <<vars, ranges, today, panels, errors>>

Midnight ==
  /\ today < Today + MaxDays /\ today' = today + 1
  /\ UNCHANGED <<vars, pc, ranges, panels, errors>>

PanelNext ==
  \/ \E p \in Panels : OpenPanel(p) \/ OpenFails(p)
  \/ ClickNearDay \/ ClickFails \/ FinishPanel \/ PanelReturned \/ CheckPanel \/ EndCollect
  \/ \E r \in Responses :
       \/ (HandleResponse(r) \/ BeginCapture(r) \/ DropBody(r)) /\ UNCHANGED panelVars
       \/ KeepPanelBody(r)
  \/ Midnight

PanelSpec == PanelInit /\ [][PanelNext]_pvars

----------------------------------------------------------------------------
(***************************************************************************)
(* Properties.                                                             *)
(***************************************************************************)

\* The ranges that a collected panel does state agree: every request of 近1天 in it is of
\* the panel's day, one of them is there, and the day was yesterday at some moment of the
\* run, whenever midnight passes (RangeConfirmed).  A request that states no such range is
\* not judged here; that it is stored all the same is OnlyNearDayStored's subject.
PanelOfOneDay ==
  \A c \in panels :
    /\ {RangeOf[r] : r \in c.responses} \ {None} = {c.day}
    /\ c.day + 1 \in Today..today

\* Nothing but the day asked for is stored: "The 近1天 request is validated against
\* yesterday before anything is written, so a delayed default range cannot silently enter
\* storage" (douyin.py:3-5).  The code does not guarantee it: the answer to a request of
\* another date type adds no range, and is kept and stored beside a confirmed one.
OnlyNearDayStored == \A c \in panels : \A r \in c.responses : RangeOf[r] = c.day

\* No panel is lost: when collect returns, every panel was collected or is in the
\* errors, none is both, and nothing is returned only if all of them failed.
EveryPanelAccounted ==
  pc \in {"done", "raised"} =>
    /\ \A p \in Panels : (\E c \in panels : c.panel = p) <=> p \notin errors
    /\ pc = "raised" <=> errors = Panels
=============================================================================
