--------------------------- MODULE ResponseCapture ---------------------------
(***************************************************************************)
(* The listener that keeps the page's JSON responses while one shop is     *)
(* read, class ResponseCapture of apps/collector_py/channel.py (and its    *)
(* copy PanelCapture in douyin.py, see module PanelCapture).               *)
(*                                                                         *)
(* Everything runs in one event loop, so a coroutine is atomic up to its   *)
(* next await.  handle_response is called by the browser and only creates  *)
(* a task; the task makes its tests, marks the request as seen, awaits the *)
(* body, and then makes the size tests and appends.  Any number of tasks   *)
(* can be between the two halves.                                          *)
(***************************************************************************)
EXTENDS Naturals, FiniteSets, FiniteSetsExt

CONSTANTS
  Responses,     \* the responses that the page receives
  Shops,         \* the shops that are read, one after the other
  Requests,      \* what tells requests apart: method, URL and POST data
  RequestOf,     \* the request that each response answers
  Business,      \* the responses of one of ENDPOINTS on a trusted host
  Json,          \* the responses with status 200 and a JSON content type
  SizeOf,        \* the size of each body
  MaxResponses, MaxBody, MaxTotal,   \* the limits of channel.py
  None           \* no shop

ASSUME CaptureAssumption ==
  /\ RequestOf \in [Responses -> Requests] /\ SizeOf \in [Responses -> Nat]
  /\ Business \subseteq Responses /\ Json \subseteq Responses
  /\ IsFiniteSet(Responses)
  /\ MaxResponses \in Nat \ {0} /\ MaxBody \in Nat /\ MaxTotal \in Nat
  /\ None \notin Shops

VARIABLES
  enabled,    \* self.enabled
  shop,       \* self.shop_name
  items,      \* self.items, as the set of the responses
  seen,       \* self.seen
  bodyBytes,  \* self.body_bytes
  at,         \* each response's stage: "coming", "task", "reading" or "over"
  label,      \* the shop_name that each task was created with
  read,       \* the shops that were started
  finishing,  \* finish_shop is waiting for the tasks
  returned,   \* what the latest finish_shop returned
  widest      \* history: the most bodies of this shop that were awaited at one time

vars == <<enabled, shop, items, seen, bodyBytes, at, label, read, finishing,
          returned, widest>>

Stage(stage) == {r \in Responses : at[r] = stage}
tasks == Stage("task") \cup Stage("reading")

TypeOK ==
  /\ enabled \in BOOLEAN /\ finishing \in BOOLEAN
  /\ shop \in Shops \cup {None} /\ read \subseteq Shops
  /\ items \subseteq Responses /\ seen \subseteq Requests
  /\ bodyBytes \in 0..MaxTotal /\ widest \in Nat
  /\ at \in [Responses -> {"coming", "task", "reading", "over"}]
  /\ label \in [Responses -> Shops \cup {None}]
  /\ returned \subseteq Responses

Init ==
  /\ enabled = FALSE /\ finishing = FALSE
  /\ shop = None /\ read = {}
  /\ items = {} /\ seen = {} /\ bodyBytes = 0 /\ widest = 0
  /\ at = [r \in Responses |-> "coming"]
  /\ label = [r \in Responses |-> None]
  /\ returned = {}

----------------------------------------------------------------------------
\* start_shop: the previous shop's finish_shop has returned.
StartShop(s) ==
  /\ ~enabled /\ ~finishing
  /\ s \notin read /\ read' = read \cup {s}
  /\ enabled' = TRUE /\ shop' = s
  /\ items' = {} /\ seen' = {} /\ bodyBytes' = 0
  /\ widest' = 0
  /\ UNCHANGED <<at, label, finishing, returned>>

\* handle_response: a task that knows the shop of this moment, or nothing.
HandleResponse(r) ==
  /\ at[r] = "coming"
  /\ IF enabled /\ r \in Business
     THEN /\ at' = [at EXCEPT ![r] = "task"]
          /\ label' = [label EXCEPT ![r] = shop]
     ELSE /\ at' = [at EXCEPT ![r] = "over"]
          /\ UNCHANGED label
  /\ UNCHANGED <<enabled, shop, items, seen, bodyBytes, read, finishing, returned, widest>>

\* Mutant: the limit is not tested.
Wanted_NoLimit(r) == r \in Json /\ RequestOf[r] \notin seen

Wanted(r) ==
  r \in Json /\ Cardinality(items) < MaxResponses /\ RequestOf[r] \notin seen

\* _capture up to the await of the body.
BeginCapture(r) ==
  /\ at[r] = "task"
  /\ IF Wanted(r)
     THEN /\ at' = [at EXCEPT ![r] = "reading"]
          /\ seen' = seen \cup {RequestOf[r]}
          /\ widest' = Max({widest, Cardinality(Stage("reading")) + 1})
     ELSE at' = [at EXCEPT ![r] = "over"] /\ UNCHANGED <<seen, widest>>
  /\ UNCHANGED <<enabled, shop, items, bodyBytes, label, read, finishing, returned>>

\* Mutant: the total is not looked at again.
Fits_BodyOnly(r) == SizeOf[r] <= MaxBody

Fits(r) == SizeOf[r] <= MaxBody /\ bodyBytes + SizeOf[r] <= MaxTotal

\* The body is there: it is kept with its size.
KeepBody(r) ==
  /\ at[r] = "reading" /\ at' = [at EXCEPT ![r] = "over"]
  /\ Fits(r)
  /\ bodyBytes' = bodyBytes + SizeOf[r]
  /\ items' = items \cup {r}
  /\ UNCHANGED <<enabled, shop, seen, label, read, finishing, returned, widest>>

\* The body is too large, cannot be read or is no JSON: the request stays seen.
DropBody(r) ==
  /\ at[r] = "reading" /\ at' = [at EXCEPT ![r] = "over"]
  /\ UNCHANGED <<enabled, shop, items, seen, bodyBytes, label, read, finishing, returned,
                 widest>>

\* finish_shop: no further tasks ...
FinishShop ==
  /\ enabled /\ enabled' = FALSE
  /\ finishing' = TRUE
  /\ UNCHANGED <<shop, items, seen, bodyBytes, at, label, read, returned, widest>>

\* Mutant: the tasks are not awaited.
ReturnItems_NoGather ==
  /\ finishing /\ finishing' = FALSE
  /\ returned' = items
  /\ UNCHANGED <<enabled, shop, items, seen, bodyBytes, at, label, read, widest>>

\* ... and a copy of the items when the present ones are done.
ReturnItems ==
  /\ finishing /\ finishing' = FALSE
  /\ tasks = {}
  /\ returned' = items
  /\ UNCHANGED <<enabled, shop, items, seen, bodyBytes, at, label, read, widest>>

CaptureStep(r) == HandleResponse(r) \/ BeginCapture(r) \/ KeepBody(r) \/ DropBody(r)

Next ==
  \/ \E s \in Shops : StartShop(s)
  \/ \E r \in Responses : CaptureStep(r)
  \/ FinishShop \/ ReturnItems

Spec == Init /\ [][Next]_vars

----------------------------------------------------------------------------
(***************************************************************************)
(* Properties.                                                             *)
(***************************************************************************)

\* What is kept of one shop never exceeds the total, however many bodies are
\* awaited together: body_bytes is read after the await and is what was kept.
BudgetKept ==
  /\ bodyBytes = MapThenSumSet(LAMBDA r : SizeOf[r], items)
  /\ bodyBytes <= MaxTotal

\* MAX_RESPONSES is tested before the await and not after it: the limit can be
\* exceeded, but by no more than the bodies that were awaited at one time, less one.
OvershootBounded ==
  Cardinality(items) < MaxResponses + widest

\* Of the answers to one request at most one is kept.
NoRequestTwice ==
  \A q, r \in items : RequestOf[q] = RequestOf[r] => q = r

\* What is kept was received while this shop was being read, and what finish_shop
\* has returned is complete: nothing is added to a list that was handed out, and
\* no task of one shop reaches into the list of the next.
ShopsApart ==
  /\ \A r \in items \cup tasks : label[r] = shop
  /\ ~enabled /\ ~finishing => returned = items /\ tasks = {}
=============================================================================
