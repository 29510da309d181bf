-------------------------- MODULE Collector_proofs --------------------------
(***************************************************************************)
(* Proofs about the collector, for any responses, shops, panels and        *)
(* limits, any command lines and any number of days and of failures.       *)
(*                                                                         *)
(* The capture: the overshoot of the limit is bounded, no request is kept  *)
(* twice, shops stay apart, and a collected panel is of one day, whatever  *)
(* order things happen in.  The run: what is filed is filed under the day  *)
(* that was asked for, and every shop is accounted for.  The status: it    *)
(* tells of each module what the latest run said.                          *)
(***************************************************************************)
EXTENDS Collector, Sequences, SumLemmas

----------------------------------------------------------------------------
(***************************************************************************)
(* The capture and the panels                                              *)
(***************************************************************************)
\* A step of the capture, alone or as a part of a panel's collection.
CaptureNext == [Next]_vars \/ ClickFails

Reading == Stage("reading")

\* The strengthening for the requests: what is kept or awaited was seen, once.
SeenOnce ==
  /\ \A r \in items : at[r] = "over"
  /\ \A r \in items \cup Reading : RequestOf[r] \in seen
  /\ \A q, r \in items \cup Reading : RequestOf[q] = RequestOf[r] => q = r

\* The strengthening for the limit: every body that is awaited may be kept.
WithinReach == Cardinality(items) + Cardinality(Reading) < MaxResponses + widest

\* The strengthening for the shops: a shop that is being finished takes no more.
OneAtATime == ~(enabled /\ finishing)

----------------------------------------------------------------------------
LEMMA MaxOfTwo == \A a, b \in Nat : Max({a, b}) \in Nat /\ Max({a, b}) >= a /\ Max({a, b}) >= b
<1> SUFFICES ASSUME NEW a \in Nat, NEW b \in Nat
             PROVE  Max({a, b}) \in Nat /\ Max({a, b}) >= a /\ Max({a, b}) >= b
  OBVIOUS
<1>1. \E m \in {a, b} : \A n \in {a, b} : m >= n
  <2>1. CASE a >= b
    BY <2>1
  <2>2. CASE b >= a
    BY <2>2
  <2>3. QED
    BY <2>1, <2>2
<1>2. Max({a, b}) \in {a, b} /\ \A n \in {a, b} : Max({a, b}) >= n
  BY <1>1 DEF Max
<1>3. QED
  BY <1>2

LEMMA FiniteParts ==
  ASSUME TypeOK
  PROVE  /\ IsFiniteSet(items) /\ IsFiniteSet(Reading)
         /\ Cardinality(items) \in Nat /\ Cardinality(Reading) \in Nat
<1>1. items \subseteq Responses /\ Reading \subseteq Responses
  BY DEF TypeOK, Reading, Stage
<1>2. QED
  BY <1>1, CaptureAssumption, FS_Subset, FS_CardinalityType

LEMMA InitTypeOK == Init => TypeOK
<1> SUFFICES ASSUME Init PROVE TypeOK
  OBVIOUS
<1>1. bodyBytes \in 0..MaxTotal /\ widest \in Nat
  BY CaptureAssumption DEF Init
<1>2. at \in [Responses -> {"coming", "task", "reading", "over"}]
  BY DEF Init
<1>3. label \in [Responses -> Shops \cup {None}]
  BY DEF Init
<1>4. QED
  BY <1>1, <1>2, <1>3 DEF Init, TypeOK

\* No step of the capture leaves the types.
LEMMA StepTypeOK == TypeOK /\ CaptureNext => TypeOK'
<1> SUFFICES ASSUME TypeOK, CaptureNext PROVE TypeOK'
  OBVIOUS
<1> USE CaptureAssumption DEF TypeOK
<1>1. ASSUME NEW s \in Shops, StartShop(s) PROVE TypeOK'
  BY <1>1 DEF StartShop
<1>2. ASSUME NEW r \in Responses, HandleResponse(r) PROVE TypeOK'
  BY <1>2 DEF HandleResponse
<1>3. ASSUME NEW r \in Responses, BeginCapture(r) PROVE TypeOK'
  <2>1. widest' \in Nat
    <3>1. Max({widest, Cardinality(Stage("reading")) + 1}) \in Nat
      BY FiniteParts, MaxOfTwo DEF Reading
    <3>2. QED
      BY <1>3, <3>1 DEF BeginCapture
  <2>2. RequestOf[r] \in Requests
    OBVIOUS
  <2>3. QED
    BY <1>3, <2>1, <2>2 DEF BeginCapture
<1>4. ASSUME NEW r \in Responses, KeepBody(r) PROVE TypeOK'
  <2>1. bodyBytes' \in 0..MaxTotal
    BY <1>4 DEF KeepBody, Fits
  <2>2. QED
    BY <1>4, <2>1 DEF KeepBody
<1>5. ASSUME NEW r \in Responses, DropBody(r) PROVE TypeOK'
  BY <1>5 DEF DropBody
<1>6. CASE FinishShop
  BY <1>6 DEF FinishShop
<1>7. CASE ReturnItems
  BY <1>7 DEF ReturnItems
<1>8. CASE ClickFails
  BY <1>8 DEF ClickFails
<1>9. CASE UNCHANGED vars
  BY <1>9 DEF vars
<1>10. QED
  BY <1>1, <1>2, <1>3, <1>4, <1>5, <1>6, <1>7, <1>8, <1>9 DEF CaptureNext,
     Next, CaptureStep

\* Type correctness of the capture.
THEOREM CaptureTypeCorrect == Spec => []TypeOK
<1>1. TypeOK /\ [Next]_vars => TypeOK'
  BY StepTypeOK DEF CaptureNext
<1>2. QED
  BY <1>1, InitTypeOK, PTL DEF Spec

----------------------------------------------------------------------------
LEMMA InitSeenOnce == Init => SeenOnce
  BY DEF Init, SeenOnce, Reading, Stage

\* A body is awaited only of a request that was not seen, and is then seen.
LEMMA StepSeenOnce == TypeOK /\ SeenOnce /\ ShopsApart /\ CaptureNext => SeenOnce'
<1> SUFFICES ASSUME TypeOK, SeenOnce, ShopsApart, CaptureNext PROVE SeenOnce'
  OBVIOUS
<1> USE DEF TypeOK, SeenOnce, Reading, Stage
<1>1. ASSUME NEW s \in Shops, StartShop(s) PROVE SeenOnce'
  BY <1>1 DEF StartShop, ShopsApart, tasks
<1>2. ASSUME NEW r \in Responses, HandleResponse(r) PROVE SeenOnce'
  BY <1>2 DEF HandleResponse
<1>3. ASSUME NEW r \in Responses, BeginCapture(r) PROVE SeenOnce'
  BY <1>3 DEF BeginCapture, Wanted
<1>4. ASSUME NEW r \in Responses, KeepBody(r) PROVE SeenOnce'
  BY <1>4 DEF KeepBody
<1>5. ASSUME NEW r \in Responses, DropBody(r) PROVE SeenOnce'
  BY <1>5 DEF DropBody
<1>6. CASE FinishShop
  BY <1>6 DEF FinishShop
<1>7. CASE ReturnItems
  BY <1>7 DEF ReturnItems
<1>8. CASE ClickFails
  BY <1>8 DEF ClickFails, tasks
<1>9. CASE UNCHANGED vars
  BY <1>9 DEF vars
<1>10. QED
  BY <1>1, <1>2, <1>3, <1>4, <1>5, <1>6, <1>7, <1>8, <1>9 DEF CaptureNext,
     Next, CaptureStep

----------------------------------------------------------------------------
LEMMA InitShopsApart == Init => ShopsApart /\ OneAtATime
  BY DEF Init, ShopsApart, OneAtATime, tasks, Stage

\* A task knows the shop of its creation, and no shop starts while one is left.
LEMMA StepShopsApart ==
  TypeOK /\ ShopsApart /\ OneAtATime /\ CaptureNext => ShopsApart' /\ OneAtATime'
<1> SUFFICES ASSUME TypeOK, ShopsApart, OneAtATime, CaptureNext
             PROVE  ShopsApart' /\ OneAtATime'
  OBVIOUS
<1> USE DEF TypeOK, ShopsApart, OneAtATime, tasks, Stage
<1>1. ASSUME NEW s \in Shops, StartShop(s) PROVE ShopsApart' /\ OneAtATime'
  BY <1>1 DEF StartShop
<1>2. ASSUME NEW r \in Responses, HandleResponse(r) PROVE ShopsApart' /\ OneAtATime'
  BY <1>2 DEF HandleResponse
<1>3. ASSUME NEW r \in Responses, BeginCapture(r) PROVE ShopsApart' /\ OneAtATime'
  BY <1>3 DEF BeginCapture
<1>4. ASSUME NEW r \in Responses, KeepBody(r) PROVE ShopsApart' /\ OneAtATime'
  BY <1>4 DEF KeepBody
<1>5. ASSUME NEW r \in Responses, DropBody(r) PROVE ShopsApart' /\ OneAtATime'
  BY <1>5 DEF DropBody
<1>6. CASE FinishShop
  BY <1>6 DEF FinishShop
<1>7. CASE ReturnItems
  BY <1>7 DEF ReturnItems
<1>8. CASE ClickFails
  BY <1>8 DEF ClickFails
<1>9. CASE UNCHANGED vars
  BY <1>9 DEF vars
<1>10. QED
  BY <1>1, <1>2, <1>3, <1>4, <1>5, <1>6, <1>7, <1>8, <1>9 DEF CaptureNext,
     Next, CaptureStep

\* What is kept was received while its shop was read; what was returned is complete.
THEOREM ShopsStayApart == Spec => []ShopsApart
<1>1. Init => TypeOK /\ ShopsApart /\ OneAtATime
  BY InitTypeOK, InitShopsApart
<1>2. TypeOK /\ ShopsApart /\ OneAtATime /\ [Next]_vars
        => TypeOK' /\ ShopsApart' /\ OneAtATime'
  BY StepTypeOK, StepShopsApart DEF CaptureNext
<1>3. QED
  BY <1>1, <1>2, PTL DEF Spec

\* Of the answers to one request at most one is kept.
THEOREM RequestsOnce == Spec => []NoRequestTwice
<1>1. Init => TypeOK /\ ShopsApart /\ OneAtATime /\ SeenOnce
  BY InitTypeOK, InitShopsApart, InitSeenOnce
<1>2. TypeOK /\ ShopsApart /\ OneAtATime /\ SeenOnce /\ [Next]_vars
        => TypeOK' /\ ShopsApart' /\ OneAtATime' /\ SeenOnce'
  BY StepTypeOK, StepShopsApart, StepSeenOnce DEF CaptureNext
<1>3. SeenOnce => NoRequestTwice
  BY DEF SeenOnce, NoRequestTwice
<1>4. QED
  BY <1>1, <1>2, <1>3, PTL DEF Spec

----------------------------------------------------------------------------
LEMMA InitWithinReach == Init => WithinReach
<1> SUFFICES ASSUME Init PROVE WithinReach
  OBVIOUS
<1>1. items = {} /\ Reading = {} /\ widest = 0
  BY DEF Init, Reading, Stage
<1>2. QED
  BY <1>1, FS_EmptySet, CaptureAssumption DEF WithinReach

(* A body is awaited only while fewer than MaxResponses are kept, and widest *)
(* counts it; when it is kept it is no longer awaited.                       *)
LEMMA StepWithinReach ==
  TypeOK /\ SeenOnce /\ ShopsApart /\ WithinReach /\ CaptureNext => WithinReach'
<1> SUFFICES ASSUME TypeOK, SeenOnce, ShopsApart, WithinReach, CaptureNext PROVE WithinReach'
  OBVIOUS
<1>a. widest \in Nat /\ MaxResponses \in Nat \ {0}
  BY CaptureAssumption DEF TypeOK
<1>b. /\ IsFiniteSet(items) /\ IsFiniteSet(Reading)
      /\ Cardinality(items) \in Nat /\ Cardinality(Reading) \in Nat
  BY FiniteParts
<1>c. IsFiniteSet(Reading') /\ Cardinality(Reading') \in Nat
  <2>1. TypeOK'
    BY StepTypeOK
  <2>2. Reading' \subseteq Responses
    BY DEF Reading, Stage
  <2>3. QED
    BY <2>2, CaptureAssumption, FS_Subset, FS_CardinalityType
<1>d. ASSUME items' = items, widest' = widest, Reading' \subseteq Reading PROVE WithinReach'
  <2>1. Cardinality(Reading') <= Cardinality(Reading)
    BY <1>b, <1>d, FS_Subset
  <2>2. QED
    BY <1>a, <1>b, <1>c, <1>d, <2>1 DEF WithinReach
<1>1. ASSUME NEW s \in Shops, StartShop(s) PROVE WithinReach'
  <2>1. Reading' = {}
    BY <1>1 DEF StartShop, ShopsApart, tasks, Reading, Stage
  <2>2. items' = {} /\ widest' = 0
    BY <1>1 DEF StartShop
  <2>3. QED
    BY <1>a, <2>1, <2>2, FS_EmptySet DEF WithinReach
<1>2. ASSUME NEW r \in Responses, HandleResponse(r) PROVE WithinReach'
  <2>1. Reading' \subseteq Reading
    BY <1>2 DEF HandleResponse, Reading, Stage, TypeOK
  <2>2. items' = items /\ widest' = widest
    BY <1>2 DEF HandleResponse
  <2>3. QED
    BY <1>d, <2>1, <2>2
<1>3. ASSUME NEW r \in Responses, BeginCapture(r) PROVE WithinReach'
  <2>1. CASE Wanted(r)
    <3>1. Reading' = Reading \cup {r} /\ r \notin Reading
      BY <1>3, <2>1 DEF BeginCapture, Reading, Stage, TypeOK
    <3>2. Cardinality(Reading') = Cardinality(Reading) + 1
      BY <1>b, <3>1, FS_AddElement
    <3>3. widest' >= Cardinality(Reading) + 1 /\ widest' \in Nat
      <4>1. widest' = Max({widest, Cardinality(Reading) + 1})
        BY <1>3, <2>1 DEF BeginCapture, Reading
      <4>2. Cardinality(Reading) + 1 \in Nat
        BY <1>b
      <4>3. QED
        BY <1>a, <4>1, <4>2, MaxOfTwo
    <3>4. items' = items /\ Cardinality(items) < MaxResponses
      BY <1>3, <2>1 DEF BeginCapture, Wanted
    <3>5. QED
      BY <1>a, <1>b, <3>2, <3>3, <3>4 DEF WithinReach
  <2>2. CASE ~Wanted(r)
    <3>1. Reading' \subseteq Reading
      BY <1>3, <2>2 DEF BeginCapture, Reading, Stage, TypeOK
    <3>2. items' = items /\ widest' = widest
      BY <1>3, <2>2 DEF BeginCapture
    <3>3. QED
      BY <1>d, <3>1, <3>2
  <2>3. QED
    BY <2>1, <2>2
<1>4. ASSUME NEW r \in Responses, KeepBody(r) PROVE WithinReach'
  <2>1. Reading' = Reading \ {r} /\ r \in Reading
    BY <1>4 DEF KeepBody, Reading, Stage, TypeOK
  <2>2. Cardinality(Reading') = Cardinality(Reading) - 1
    BY <1>b, <2>1, FS_RemoveElement
  <2>3. items' = items \cup {r} /\ r \notin items /\ widest' = widest
    BY <1>4 DEF KeepBody, SeenOnce
  <2>4. Cardinality(items') = Cardinality(items) + 1
    BY <1>b, <2>3, FS_AddElement
  <2>5. QED
    BY <1>a, <1>b, <2>2, <2>3, <2>4 DEF WithinReach
<1>5. ASSUME NEW r \in Responses, DropBody(r) PROVE WithinReach'
  <2>1. Reading' \subseteq Reading
    BY <1>5 DEF DropBody, Reading, Stage, TypeOK
  <2>2. items' = items /\ widest' = widest
    BY <1>5 DEF DropBody
  <2>3. QED
    BY <1>d, <2>1, <2>2
<1>6. CASE FinishShop
  BY <1>6, <1>d DEF FinishShop, Reading, Stage
<1>7. CASE ReturnItems
  BY <1>7, <1>d DEF ReturnItems, Reading, Stage
<1>8. CASE ClickFails
  <2>1. Reading' \subseteq Reading
    BY <1>8 DEF ClickFails, Reading, Stage, TypeOK
  <2>2. items' = items /\ widest' = widest
    BY <1>8 DEF ClickFails
  <2>3. QED
    BY <1>d, <2>1, <2>2
<1>9. CASE UNCHANGED vars
  BY <1>9, <1>d DEF vars, Reading, Stage
<1>10. QED
  BY <1>1, <1>2, <1>3, <1>4, <1>5, <1>6, <1>7, <1>8, <1>9 DEF CaptureNext,
     Next, CaptureStep

\* The limit of MAX_RESPONSES is exceeded by fewer than were awaited together.
THEOREM OvershootIsBounded == Spec => []OvershootBounded
<1>1. Init => TypeOK /\ ShopsApart /\ OneAtATime /\ SeenOnce /\ WithinReach
  BY InitTypeOK, InitShopsApart, InitSeenOnce, InitWithinReach
<1>2. TypeOK /\ ShopsApart /\ OneAtATime /\ SeenOnce /\ WithinReach /\ [Next]_vars
        => TypeOK' /\ ShopsApart' /\ OneAtATime' /\ SeenOnce' /\ WithinReach'
  BY StepTypeOK, StepShopsApart, StepSeenOnce, StepWithinReach DEF CaptureNext
<1>3. TypeOK /\ WithinReach => OvershootBounded
  BY FiniteParts, CaptureAssumption DEF WithinReach, OvershootBounded, TypeOK
<1>4. QED
  BY <1>1, <1>2, <1>3, PTL DEF Spec
----------------------------------------------------------------------------
\* The bytes are counted of what is kept, one body after another.
BytesOfItems == bodyBytes = SumOf(SizeOf, items)

LEMMA BytesStep ==
  TypeOK /\ ShopsApart /\ SeenOnce /\ BytesOfItems /\ CaptureNext => BytesOfItems'
<1> SUFFICES ASSUME TypeOK, ShopsApart, SeenOnce, BytesOfItems, CaptureNext
             PROVE  BytesOfItems'
  OBVIOUS
<1> USE DEF BytesOfItems
<1>1. ASSUME NEW s \in Shops, StartShop(s) PROVE BytesOfItems'
  BY <1>1, SumEmpty DEF StartShop
<1>2. ASSUME NEW r \in Responses, KeepBody(r) PROVE BytesOfItems'
  <2>1. at[r] = "reading" /\ bodyBytes' = bodyBytes + SizeOf[r] /\ items' = items \cup {r}
    BY <1>2 DEF KeepBody
  <2>2. r \notin items
    BY <2>1 DEF SeenOnce
  <2>3. IsFiniteSet(items) /\ \A x \in items \cup {r} : SizeOf[x] \in Nat
    BY FiniteParts, CaptureAssumption DEF TypeOK
  <2>4. SumOf(SizeOf, items \cup {r}) = SumOf(SizeOf, items) + SizeOf[r]
    BY <2>2, <2>3, SumAdds
  <2>5. QED
    BY <2>1, <2>4
<1>3. CASE UNCHANGED <<bodyBytes, items>>
  BY <1>3
<1>4. QED
  BY <1>1, <1>2, <1>3 DEF CaptureNext, Next, CaptureStep, HandleResponse, BeginCapture, DropBody,
     FinishShop, ReturnItems, ClickFails, vars

\* What is kept of a shop is what was counted, and never exceeds the total.
THEOREM BudgetIsKept == Spec => []BudgetKept
<1> DEFINE Inv == TypeOK /\ ShopsApart /\ OneAtATime /\ SeenOnce /\ BytesOfItems
<1>1. Init => Inv
  <2>1. Init => BytesOfItems
    BY SumEmpty DEF Init, BytesOfItems
  <2>2. QED
    BY <2>1, InitTypeOK, InitShopsApart, InitSeenOnce
<1>2. Inv /\ CaptureNext => Inv'
  BY StepTypeOK, StepShopsApart, StepSeenOnce, BytesStep
<1>3. Inv => BudgetKept
  <2> SUFFICES ASSUME Inv PROVE BudgetKept
    OBVIOUS
  <2>1. MapThenSumSet(LAMBDA r : SizeOf[r], items) = SumOf(SizeOf, items)
    BY FiniteParts, MapThenSumSetSums
  <2>2. bodyBytes <= MaxTotal
    BY CaptureAssumption DEF TypeOK
  <2>3. QED
    BY <2>1, <2>2 DEF BudgetKept, BytesOfItems
<1>4. [Next]_vars => CaptureNext
  BY DEF CaptureNext
<1> HIDE DEF Inv
<1>5. QED
  BY <1>1, <1>2, <1>3, <1>4, PTL DEF Spec

----------------------------------------------------------------------------
(***************************************************************************)
(* The panels                                                              *)
(***************************************************************************)

\* A panel is being collected.
Busy == {"click", "wait", "check"}

Capture == TypeOK /\ ShopsApart /\ OneAtATime
PanelTypes == PanelTypeOK /\ (pc \in Busy => shop \in read)

\* The ranges are those of the responses that were kept, and when they are
\* judged, what was returned is what was kept.
RangesTellItems ==
  /\ ranges = {RangeOf[r] : r \in items} \ {None}
  /\ pc = "check" => ~enabled /\ ~finishing

Collected(p) == \E c \in panels : c.panel = p

\* Every panel that was started is collected, failed or the present one, never two of these.
Accounts ==
  /\ \A p \in Panels : ~(Collected(p) /\ p \in errors)
  /\ \A p \in read : Collected(p) \/ p \in errors \/ (p = shop /\ pc \in Busy)
  /\ \A p \in Panels : Collected(p) => p \in read
  /\ pc \in Busy => shop \notin errors /\ ~Collected(shop)

\* A step of a panel's collection is a step of the capture.
LEMMA PanelStepIsCapture == [PanelNext]_pvars => CaptureNext
<1> SUFFICES ASSUME [PanelNext]_pvars PROVE CaptureNext
  OBVIOUS
<1> USE DEF CaptureNext, Next, CaptureStep
<1>1. ASSUME NEW p \in Panels, OpenPanel(p) PROVE CaptureNext
  BY <1>1 DEF OpenPanel, Panels
<1>2. ASSUME NEW r \in Responses, KeepPanelBody(r) PROVE CaptureNext
  BY <1>2 DEF KeepPanelBody
<1>3. CASE FinishPanel \/ PanelReturned
  BY <1>3 DEF FinishPanel, PanelReturned
<1>4. CASE ClickNearDay \/ CheckPanel \/ EndCollect \/ Midnight \/ UNCHANGED pvars
  BY <1>4 DEF ClickNearDay, CheckPanel, EndCollect, Midnight, pvars
<1>5. ASSUME NEW p \in Panels, OpenFails(p) PROVE CaptureNext
  BY <1>5 DEF OpenFails
<1>6. QED
  BY <1>1, <1>2, <1>3, <1>4, <1>5 DEF PanelNext

LEMMA StepCapture == Capture /\ [PanelNext]_pvars => Capture'
  BY PanelStepIsCapture, StepTypeOK, StepShopsApart DEF Capture

LEMMA InitPanels ==
  PanelInit => Capture /\ PanelTypes /\ RangesTellItems /\ PanelOfOneDay /\ Accounts
               /\ EveryPanelAccounted
<1> SUFFICES ASSUME PanelInit
             PROVE  Capture /\ PanelTypes /\ RangesTellItems /\ PanelOfOneDay /\ Accounts
                    /\ EveryPanelAccounted
  OBVIOUS
<1>1. Capture
  BY InitTypeOK, InitShopsApart DEF PanelInit, Capture
<1>2. today \in Today..(Today + MaxDays)
  BY PanelAssumption DEF PanelInit
<1>3. PanelTypes
  BY <1>1, <1>2 DEF PanelInit, PanelTypes, PanelTypeOK, Capture, Busy
<1>4. RangesTellItems /\ PanelOfOneDay /\ Accounts /\ EveryPanelAccounted
  BY DEF PanelInit, Init, RangesTellItems, PanelOfOneDay, Accounts, Collected, Busy,
    EveryPanelAccounted
<1>5. QED
  BY <1>1, <1>3, <1>4

\* No step of collect leaves the types.
LEMMA StepPanelTypes ==
  Capture /\ PanelTypes /\ [PanelNext]_pvars => PanelTypes'
<1> SUFFICES ASSUME Capture, PanelTypes, [PanelNext]_pvars PROVE PanelTypes'
  OBVIOUS
<1>a. TypeOK'
  BY StepCapture DEF Capture
<1> USE <1>a, PanelAssumption DEF PanelTypes, PanelTypeOK, TypeOK, Busy, Panels, Goto, panelVars, vars
<1>1. ASSUME NEW p \in Panels, OpenPanel(p) PROVE PanelTypes'
  BY <1>1 DEF OpenPanel, StartShop
<1>2. ASSUME NEW p \in Panels, OpenFails(p) PROVE PanelTypes'
  BY <1>2 DEF OpenFails
<1>3. CASE ClickNearDay
  BY <1>3 DEF ClickNearDay
<1>4. CASE ClickFails
  BY <1>4 DEF ClickFails
<1>5. CASE FinishPanel
  BY <1>5 DEF FinishPanel, FinishShop
<1>6. CASE PanelReturned
  BY <1>6 DEF PanelReturned, ReturnItems
<1>7. CASE CheckPanel
  <2>1. [panel |-> shop, day |-> today - 1, responses |-> returned]
          \in [panel : Panels, day : Nat, responses : SUBSET Responses]
    BY <1>7 DEF CheckPanel
  <2>2. QED
    BY <1>7, <2>1 DEF CheckPanel
<1>8. CASE EndCollect
  BY <1>8 DEF EndCollect
<1>9. ASSUME NEW r \in Responses, HandleResponse(r), UNCHANGED panelVars PROVE PanelTypes'
  BY <1>9 DEF HandleResponse
<1>10. ASSUME NEW r \in Responses, BeginCapture(r), UNCHANGED panelVars PROVE PanelTypes'
  BY <1>10 DEF BeginCapture
<1>11. ASSUME NEW r \in Responses, DropBody(r), UNCHANGED panelVars PROVE PanelTypes'
  BY <1>11 DEF DropBody
<1>12. ASSUME NEW r \in Responses, KeepPanelBody(r) PROVE PanelTypes'
  BY <1>12 DEF KeepPanelBody, KeepBody
<1>13. CASE Midnight
  BY <1>13 DEF Midnight
<1>14. CASE UNCHANGED pvars
  BY <1>14 DEF pvars
<1>15. QED
  BY <1>1, <1>2, <1>3, <1>4, <1>5, <1>6, <1>7, <1>8, <1>9, <1>10, <1>11,
     <1>12, <1>13, <1>14 DEF PanelNext

\* Type correctness of collect and its capture.
THEOREM PanelTypeCorrect == PanelSpec => []PanelTypeOK
<1>1. Capture /\ PanelTypes /\ [PanelNext]_pvars => Capture' /\ PanelTypes'
  BY StepCapture, StepPanelTypes
<1>2. PanelTypes => PanelTypeOK
  BY DEF PanelTypes
<1>3. QED
  BY <1>1, <1>2, InitPanels, PTL DEF PanelSpec

----------------------------------------------------------------------------
\* Every body that is kept brings its range; nothing is kept while it is judged.
LEMMA StepRanges ==
  Capture /\ PanelTypes /\ RangesTellItems /\ [PanelNext]_pvars => RangesTellItems'
<1> SUFFICES ASSUME Capture, PanelTypes, RangesTellItems, [PanelNext]_pvars PROVE RangesTellItems'
  OBVIOUS
<1> USE DEF Capture, PanelTypes, PanelTypeOK, TypeOK, ShopsApart, OneAtATime, RangesTellItems,
  Goto, panelVars, vars
<1>1. ASSUME NEW p \in Panels, OpenPanel(p) PROVE RangesTellItems'
  BY <1>1 DEF OpenPanel, StartShop
<1>2. ASSUME NEW p \in Panels, OpenFails(p) PROVE RangesTellItems'
  BY <1>2 DEF OpenFails
<1>3. CASE ClickNearDay
  BY <1>3 DEF ClickNearDay
<1>4. CASE ClickFails
  BY <1>4 DEF ClickFails
<1>5. CASE FinishPanel
  BY <1>5 DEF FinishPanel, FinishShop
<1>6. CASE PanelReturned
  BY <1>6 DEF PanelReturned, ReturnItems
<1>7. CASE CheckPanel
  BY <1>7 DEF CheckPanel
<1>8. CASE EndCollect
  BY <1>8 DEF EndCollect
<1>9. ASSUME NEW r \in Responses, HandleResponse(r), UNCHANGED panelVars PROVE RangesTellItems'
  BY <1>9 DEF HandleResponse
<1>10. ASSUME NEW r \in Responses, BeginCapture(r), UNCHANGED panelVars PROVE RangesTellItems'
  BY <1>10 DEF BeginCapture
<1>11. ASSUME NEW r \in Responses, DropBody(r), UNCHANGED panelVars PROVE RangesTellItems'
  BY <1>11 DEF DropBody
<1>12. ASSUME NEW r \in Responses, KeepPanelBody(r) PROVE RangesTellItems'
  BY <1>12 DEF KeepPanelBody, KeepBody
<1>13. CASE Midnight
  BY <1>13 DEF Midnight
<1>14. CASE UNCHANGED pvars
  BY <1>14 DEF pvars
<1>15. QED
  BY <1>1, <1>2, <1>3, <1>4, <1>5, <1>6, <1>7, <1>8, <1>9, <1>10, <1>11,
     <1>12, <1>13, <1>14 DEF PanelNext

\* A panel is collected only when all its ranges are the day before.
LEMMA StepOneDay ==
  Capture /\ PanelTypes /\ RangesTellItems /\ PanelOfOneDay /\ [PanelNext]_pvars => PanelOfOneDay'
<1> SUFFICES ASSUME Capture, PanelTypes, RangesTellItems, PanelOfOneDay, [PanelNext]_pvars
             PROVE  PanelOfOneDay'
  OBVIOUS
<1>a. today \in Nat /\ today >= Today /\ Today \in Nat \ {0}
  BY PanelAssumption DEF PanelTypes, PanelTypeOK
<1>b. \A c \in panels : c.day \in Nat
  BY DEF PanelTypes, PanelTypeOK
<1> USE <1>a, <1>b DEF PanelOfOneDay, panelVars
<1>1. ASSUME NEW p \in Panels, OpenPanel(p) PROVE PanelOfOneDay'
  BY <1>1 DEF OpenPanel, StartShop
<1>2. ASSUME NEW p \in Panels, OpenFails(p) PROVE PanelOfOneDay'
  BY <1>2 DEF OpenFails
<1>3. CASE ClickNearDay
  BY <1>3 DEF ClickNearDay
<1>4. CASE ClickFails
  BY <1>4 DEF ClickFails
<1>5. CASE FinishPanel
  BY <1>5 DEF FinishPanel, FinishShop
<1>6. CASE PanelReturned
  BY <1>6 DEF PanelReturned, ReturnItems
<1>7. CASE CheckPanel
  <2>1. CASE RangeConfirmed
    <3>1. returned = items /\ ranges = {RangeOf[r] : r \in items} \ {None}
      BY <1>7 DEF CheckPanel, Goto, RangesTellItems, Capture, ShopsApart
    <3>2. {RangeOf[r] : r \in returned} \ {None} = {today - 1}
      BY <2>1, <3>1 DEF RangeConfirmed
    <3> DEFINE new == [panel |-> shop, day |-> today - 1, responses |-> returned]
    <3>3. panels' = panels \cup {new} /\ today' = today
      BY <1>7, <2>1 DEF CheckPanel
    <3>4. new.day = today - 1 /\ new.responses = returned
      OBVIOUS
    <3>5. new.day + 1 \in Today..today
      <4>1. today - 1 + 1 \in Today..today
        BY <1>a
      <4>2. QED
        BY <3>4, <4>1
    <3>6. {RangeOf[r] : r \in new.responses} \ {None} = {new.day}
      BY <3>2, <3>4
    <3> HIDE DEF new
    <3>7. ASSUME NEW c \in panels'
          PROVE  {RangeOf[r] : r \in c.responses} \ {None} = {c.day} /\ c.day + 1 \in Today..today
      <4>1. CASE c = new
        BY <4>1, <3>5, <3>6
      <4>2. CASE c \in panels
        BY <4>2
      <4>3. QED
        BY <3>3, <4>1, <4>2
    <3>8. QED
      BY <3>3, <3>7
  <2>2. CASE ~RangeConfirmed
    BY <1>7, <2>2 DEF CheckPanel
  <2>3. QED
    BY <2>1, <2>2
<1>8. CASE EndCollect
  BY <1>8 DEF EndCollect
<1>9. ASSUME NEW r \in Responses, HandleResponse(r), UNCHANGED panelVars PROVE PanelOfOneDay'
  BY <1>9 DEF HandleResponse
<1>10. ASSUME NEW r \in Responses, BeginCapture(r), UNCHANGED panelVars PROVE PanelOfOneDay'
  BY <1>10 DEF BeginCapture
<1>11. ASSUME NEW r \in Responses, DropBody(r), UNCHANGED panelVars PROVE PanelOfOneDay'
  BY <1>11 DEF DropBody
<1>12. ASSUME NEW r \in Responses, KeepPanelBody(r) PROVE PanelOfOneDay'
  BY <1>12 DEF KeepPanelBody, KeepBody
<1>13. CASE Midnight
  <2>1. \A d \in Nat : d + 1 \in Today..today => d + 1 \in Today..today'
    BY <1>13 DEF Midnight
  <2>2. QED
    BY <1>13, <2>1 DEF Midnight
<1>14. CASE UNCHANGED pvars
  BY <1>14 DEF pvars
<1>15. QED
  BY <1>1, <1>2, <1>3, <1>4, <1>5, <1>6, <1>7, <1>8, <1>9, <1>10, <1>11,
     <1>12, <1>13, <1>14 DEF PanelNext

\* A collected panel is of one day, which was yesterday at some moment of the run.
THEOREM PanelsAreOfOneDay == PanelSpec => []PanelOfOneDay
<1>1. Capture /\ PanelTypes /\ RangesTellItems /\ PanelOfOneDay /\ [PanelNext]_pvars
        => Capture' /\ PanelTypes' /\ RangesTellItems' /\ PanelOfOneDay'
  BY StepCapture, StepPanelTypes, StepRanges, StepOneDay
<1>2. QED
  BY <1>1, InitPanels, PTL DEF PanelSpec

----------------------------------------------------------------------------
\* A panel that is begun ends as collected or as failed before the next is.
LEMMA StepAccounts ==
  PanelTypes /\ Accounts /\ [PanelNext]_pvars => Accounts'
<1> SUFFICES ASSUME PanelTypes, Accounts, [PanelNext]_pvars PROVE Accounts'
  OBVIOUS
<1>a. read \subseteq Panels /\ \A c \in panels : c.panel \in Panels
  BY DEF PanelTypes, PanelTypeOK, TypeOK, Panels
<1>b. pc \in Busy => shop \in read
  BY DEF PanelTypes
<1> USE <1>a, <1>b DEF Accounts, Collected, Busy, Goto, panelVars, vars
<1>1. ASSUME NEW p \in Panels, OpenPanel(p) PROVE Accounts'
  BY <1>1 DEF OpenPanel, StartShop
<1>2. ASSUME NEW p \in Panels, OpenFails(p) PROVE Accounts'
  BY <1>2 DEF OpenFails
<1>3. CASE ClickNearDay
  BY <1>3 DEF ClickNearDay
<1>4. CASE ClickFails
  BY <1>4 DEF ClickFails
<1>5. CASE FinishPanel
  BY <1>5 DEF FinishPanel, FinishShop
<1>6. CASE PanelReturned
  BY <1>6 DEF PanelReturned, ReturnItems
<1>7. CASE CheckPanel
  <2>1. CASE RangeConfirmed
    <3> DEFINE new == [panel |-> shop, day |-> today - 1, responses |-> returned]
    <3>1. \A p \in Panels : (\E c \in panels' : c.panel = p) <=> Collected(p) \/ p = shop
      <4>1. panels' = panels \cup {new}
        BY <1>7, <2>1 DEF CheckPanel
      <4>2. new.panel = shop
        OBVIOUS
      <4> HIDE DEF new
      <4>3. QED
        BY <4>1, <4>2
    <3>2. pc = "check" /\ pc' = "open" /\ errors' = errors /\ read' = read
      BY <1>7, <2>1 DEF CheckPanel
    <3>3. QED
      BY <3>1, <3>2
  <2>2. CASE ~RangeConfirmed
    BY <1>7, <2>2 DEF CheckPanel
  <2>3. QED
    BY <2>1, <2>2
<1>8. CASE EndCollect
  BY <1>8 DEF EndCollect
<1>9. ASSUME NEW r \in Responses, HandleResponse(r), UNCHANGED panelVars PROVE Accounts'
  BY <1>9 DEF HandleResponse
<1>10. ASSUME NEW r \in Responses, BeginCapture(r), UNCHANGED panelVars PROVE Accounts'
  BY <1>10 DEF BeginCapture
<1>11. ASSUME NEW r \in Responses, DropBody(r), UNCHANGED panelVars PROVE Accounts'
  BY <1>11 DEF DropBody
<1>12. ASSUME NEW r \in Responses, KeepPanelBody(r) PROVE Accounts'
  BY <1>12 DEF KeepPanelBody, KeepBody
<1>13. CASE Midnight
  BY <1>13 DEF Midnight
<1>14. CASE UNCHANGED pvars
  BY <1>14 DEF pvars
<1>15. QED
  BY <1>1, <1>2, <1>3, <1>4, <1>5, <1>6, <1>7, <1>8, <1>9, <1>10, <1>11,
     <1>12, <1>13, <1>14 DEF PanelNext

LEMMA StepEveryPanel ==
  PanelTypes /\ Accounts /\ EveryPanelAccounted /\ [PanelNext]_pvars => EveryPanelAccounted'
<1> SUFFICES ASSUME PanelTypes, Accounts, EveryPanelAccounted, [PanelNext]_pvars
             PROVE  EveryPanelAccounted'
  OBVIOUS
<1>a. errors \subseteq Panels /\ \A c \in panels : c.panel \in Panels
  BY DEF PanelTypes, PanelTypeOK, TypeOK, Panels
<1> USE <1>a DEF EveryPanelAccounted, Goto, panelVars, vars
<1>1. ASSUME NEW p \in Panels, OpenPanel(p) PROVE EveryPanelAccounted'
  BY <1>1 DEF OpenPanel, StartShop
<1>2. ASSUME NEW p \in Panels, OpenFails(p) PROVE EveryPanelAccounted'
  BY <1>2 DEF OpenFails
<1>3. CASE ClickNearDay
  BY <1>3 DEF ClickNearDay
<1>4. CASE ClickFails
  BY <1>4 DEF ClickFails
<1>5. CASE FinishPanel
  BY <1>5 DEF FinishPanel, FinishShop
<1>6. CASE PanelReturned
  BY <1>6 DEF PanelReturned, ReturnItems
<1>7. CASE CheckPanel
  BY <1>7 DEF CheckPanel
<1>8. CASE EndCollect
  <2>1. \A p \in Panels : Collected(p) <=> p \notin errors
    BY <1>8 DEF EndCollect, Accounts, Busy
  <2>2. panels = {} <=> errors = Panels
    BY <2>1 DEF Collected
  <2>3. QED
    BY <1>8, <2>1, <2>2 DEF EndCollect, Collected
<1>9. ASSUME NEW r \in Responses, HandleResponse(r), UNCHANGED panelVars PROVE EveryPanelAccounted'
  BY <1>9 DEF HandleResponse
<1>10. ASSUME NEW r \in Responses, BeginCapture(r), UNCHANGED panelVars PROVE EveryPanelAccounted'
  BY <1>10 DEF BeginCapture
<1>11. ASSUME NEW r \in Responses, DropBody(r), UNCHANGED panelVars PROVE EveryPanelAccounted'
  BY <1>11 DEF DropBody
<1>12. ASSUME NEW r \in Responses, KeepPanelBody(r) PROVE EveryPanelAccounted'
  BY <1>12 DEF KeepPanelBody, KeepBody
<1>13. CASE Midnight
  BY <1>13 DEF Midnight
<1>14. CASE UNCHANGED pvars
  BY <1>14 DEF pvars
<1>15. QED
  BY <1>1, <1>2, <1>3, <1>4, <1>5, <1>6, <1>7, <1>8, <1>9, <1>10, <1>11,
     <1>12, <1>13, <1>14 DEF PanelNext

\* When collect returns, every panel was collected or is in the errors.
THEOREM PanelsAreAccounted == PanelSpec => []EveryPanelAccounted
<1>1. Capture /\ PanelTypes /\ Accounts /\ EveryPanelAccounted /\ [PanelNext]_pvars
        => Capture' /\ PanelTypes' /\ Accounts' /\ EveryPanelAccounted'
  BY StepCapture, StepPanelTypes, StepAccounts, StepEveryPanel
<1>2. QED
  BY <1>1, InitPanels, PTL DEF PanelSpec

----------------------------------------------------------------------------
(***************************************************************************)
(* A run                                                                   *)
(***************************************************************************)
RunModules == {"operations", "channel", "douyin"}

\* Where a run is in a shop, and where it has confirmed the shop's day.
InShop == {"switch", "choose", "confirm", "operations", "load", "channel", "douyin"}
Dated == {"operations", "load", "channel"}

Stages == {"delay", "start", "failing", "exit", "open", "login", "shop", "save operations",
           "save channel", "save douyin", "saved"} \cup InShop

ShopsOf == Compass!Range(args.shops)
Filed == [shop : ShopsOf, day : Nat \X Nat]

\* A day that was asked for, or was yesterday during this run.
RightDay(d) == d \in Nat /\ IF args.date = None THEN d + 1 \in Today..runToday ELSE d = args.date

CompassTypes ==
  /\ args \in Arguments /\ runPc \in Stages
  /\ left \in Seq(ShopsOf) /\ (runPc \in InShop => left # <<>>)
  /\ runToday \in Nat /\ Today <= runToday /\ failures \in Nat
  /\ runItems \in [RunModules -> Seq(Filed)]
  /\ counts \in [RunModules -> [ok : Nat, bad : Nat]]

\* The day that is confirmed is a right one.
ConfirmsRightDay ==
  /\ DOMAIN runRanges = {"seen", "expected"}
  /\ runPc = "confirm" => RightDay(runRanges.expected)
  /\ runPc \in Dated => \E d \in Nat : RightDay(d) /\ dataDay = <<d, d>>

LEMMA ArgumentsFit ==
  ASSUME args \in Arguments
  PROVE  /\ args.modules \subseteq RunModules
         /\ args.shops \in Seq(ShopsOf) /\ Len(args.shops) > 0
         /\ \A i, j \in 1..Len(args.shops) : args.shops[i] = args.shops[j] => i = j
         /\ args.date = None \/ args.date \in Nat
         /\ Today \in Nat /\ Today >= 2 /\ None \notin Nat
<1>1. Compass!RunAssumption
  BY RunsAssumption
<1>2. Compass!DateAllowed(args) /\ Today \in Nat /\ Today >= 2 /\ None \notin Nat
  BY <1>1 DEF Compass!RunAssumption
<1>3. args.date = None \/ args.date \in Nat
  BY <1>2 DEF Compass!DateAllowed
<1>4. /\ args.modules \subseteq RunModules
      /\ args.shops \in Seq(ShopsOf) /\ Len(args.shops) > 0
      /\ Compass!IsInjective(args.shops)
  BY <1>1 DEF Compass!RunAssumption, ShopsOf, RunModules, Compass!Modules
<1>5. QED
  BY <1>2, <1>3, <1>4 DEF Compass!IsInjective

LEMMA CompassInitial == Compass!Init => CompassTypes /\ ConfirmsRightDay
<1> SUFFICES ASSUME Compass!Init PROVE CompassTypes /\ ConfirmsRightDay
  OBVIOUS
<1>1. args \in Arguments
  BY DEF Compass!Init
<1>2. left \in Seq(ShopsOf) /\ Today \in Nat
  BY <1>1, ArgumentsFit DEF Compass!Init, Compass!TargetShops
<1>3. runItems \in [RunModules -> Seq(Filed)]
  BY DEF Compass!Init, RunModules, Compass!Modules
<1>4. counts \in [RunModules -> [ok : Nat, bad : Nat]]
  BY DEF Compass!Init, RunModules, Compass!Modules
<1>5. QED
  BY <1>1, <1>2, <1>3, <1>4 DEF Compass!Init, CompassTypes, ConfirmsRightDay, Stages, InShop, Dated

LEMMA OneMore ==
  \A c \in [ok : Nat, bad : Nat] :
    /\ [c EXCEPT !.ok = @ + 1] = [ok |-> c.ok + 1, bad |-> c.bad]
    /\ [c EXCEPT !.bad = @ + 1] = [ok |-> c.ok, bad |-> c.bad + 1]
    /\ [c EXCEPT !.ok = @ + 1] \in [ok : Nat, bad : Nat]
    /\ [c EXCEPT !.bad = @ + 1] \in [ok : Nat, bad : Nat]
  OBVIOUS

LEMMA CompassTypesStep ==
  CompassTypes /\ ConfirmsRightDay /\ [Compass!Next]_compassVars => CompassTypes' /\ ConfirmsRightDay'
<1> SUFFICES ASSUME CompassTypes, ConfirmsRightDay, [Compass!Next]_compassVars
             PROVE  CompassTypes' /\ ConfirmsRightDay'
  OBVIOUS
<1> DEFINE Goal == CompassTypes' /\ ConfirmsRightDay'
<1>0. args' = args /\ ShopsOf' = ShopsOf /\ Filed' = Filed
  BY DEF Compass!Next, compassVars, ShopsOf, Filed
<1>a. args.modules \subseteq RunModules /\ Today \in Nat /\ Today >= 2 /\ None \notin Nat
      /\ (args.date = None \/ args.date \in Nat)
  BY ArgumentsFit DEF CompassTypes
\* A step that goes on and leaves the shop and its day.
<1>1. ASSUME runPc' \in Stages, runPc' \in InShop => runPc \in InShop \/ left # <<>>,
             runPc' = "confirm" => runPc = "confirm",
             runPc' \in Dated => runPc \in Dated, failures' \in Nat,
             UNCHANGED <<left, dataDay, runRanges, runItems, counts, runToday>>
      PROVE  Goal
  BY <1>0, <1>1 DEF CompassTypes, ConfirmsRightDay, RightDay
<1>2. CASE Compass!Arrive
  BY <1>0, <1>2 DEF Compass!Arrive, CompassTypes, ConfirmsRightDay, RightDay, Compass!resultVars
<1>3. CASE Compass!Midnight
  BY <1>0, <1>3, <1>a DEF Compass!Midnight, CompassTypes, ConfirmsRightDay, RightDay, Compass!resultVars, Compass!pageVars
<1>4. CASE Compass!Waiting \/ Compass!Running \/ Compass!Failed \/ Compass!LoginRequired \/ Compass!LoggedIn
  <2>1. /\ UNCHANGED <<left, dataDay, runRanges, runItems, counts, runToday>>
        /\ failures' \in {failures, failures + 1}
        /\ runPc' \in {"start", "open", "failing", "exit", "login", "shop"}
    BY <1>4 DEF Compass!Waiting, Compass!Running, Compass!Failed, Compass!LoginRequired,
       Compass!LoggedIn, Compass!WriteStatus, Compass!resultVars, Compass!pageVars
  <2>0. failures \in Nat
    BY DEF CompassTypes
  <2>2. failures' \in Nat
    <3>1. failures' = failures \/ failures' = failures + 1
      BY <2>1
    <3>2. QED
      BY <2>0, <3>1
  <2>3. QED
    BY <1>1, <2>1, <2>2 DEF Stages, InShop, Dated
<1>5. CASE Compass!RunRaises \/ Compass!OpenPage \/ Compass!RunReturns \/ Compass!Report
  <2>1. /\ UNCHANGED <<left, dataDay, runRanges, runItems, counts, runToday>>
        /\ failures' \in {failures, failures + 1}
        /\ runPc' \in {"failing", "exit", "shop", "save operations"}
    BY <1>5 DEF Compass!RunRaises, Compass!OpenPage, Compass!RunReturns, Compass!Report,
       Compass!Goto, Compass!WriteStatus, Compass!resultVars, Compass!pageVars
  <2>0. failures \in Nat
    BY DEF CompassTypes
  <2>2. failures' \in Nat
    <3>1. failures' = failures \/ failures' = failures + 1
      BY <2>1
    <3>2. QED
      BY <2>0, <3>1
  <2>3. QED
    BY <1>1, <2>1, <2>2 DEF Stages, InShop, Dated
<1>6. CASE Compass!StartShop
  BY <1>0, <1>6 DEF Compass!StartShop, CompassTypes, ConfirmsRightDay, RightDay, Compass!resultVars, Compass!pageVars,
    Stages, InShop, Dated, Compass!Goto
<1>7. CASE Compass!SwitchShop
  BY <1>1, <1>7 DEF Compass!SwitchShop, Compass!Goto, Compass!resultVars, Compass!pageVars, CompassTypes, Stages, InShop, Dated
<1>8. CASE Compass!ShopFails
  <2>1. left' = Tail(left) /\ left # <<>>
    BY <1>8 DEF Compass!ShopFails, CompassTypes, InShop
  <2>2. left' \in Seq(ShopsOf)
    BY <2>1 DEF CompassTypes
  <2>3. counts' \in [RunModules -> [ok : Nat, bad : Nat]]
    <3>1. \A m \in RunModules : [counts[m] EXCEPT !.bad = @ + 1] \in [ok : Nat, bad : Nat]
      BY OneMore DEF CompassTypes
    <3>2. counts' = [m \in RunModules |->
             IF m \in args.modules THEN [counts[m] EXCEPT !.bad = @ + 1] ELSE counts[m]]
      BY <1>8 DEF Compass!ShopFails, Compass!Modules, RunModules, Compass!Requested
    <3>3. \A m \in RunModules : counts[m] \in [ok : Nat, bad : Nat]
      BY DEF CompassTypes
    <3>4. QED
      BY <3>1, <3>2, <3>3
  <2>4. QED
    BY <1>0, <1>8, <2>2, <2>3 DEF Compass!ShopFails, Compass!pageVars, CompassTypes, ConfirmsRightDay, Stages, InShop, Dated
<1>9. CASE Compass!ChooseDay
  <2>1. /\ runRanges' = [seen |-> {}, expected |-> Compass!Expected] /\ runPc' = "confirm" /\ left # <<>>
        /\ UNCHANGED <<left, dataDay, runItems, counts, runToday, failures>>
    BY <1>9 DEF Compass!ChooseDay, Compass!Goto, Compass!resultVars, CompassTypes, InShop
  <2>2. RightDay(Compass!Expected)
    BY <1>a DEF Compass!Expected, Compass!Yesterday, RightDay, CompassTypes, Compass!DataDay
  <2>3. RightDay(runRanges.expected)'
    BY <1>0, <2>1, <2>2 DEF RightDay
  <2>4. DOMAIN runRanges' = {"seen", "expected"}
    BY <2>1
  <2>5. QED
    BY <1>0, <2>1, <2>3, <2>4 DEF CompassTypes, ConfirmsRightDay, Stages, InShop, Dated
<1>10. CASE Compass!ConfirmDay
  <2>1. /\ runPc = "confirm" /\ runPc' = "operations"
        /\ dataDay' = <<runRanges.expected, runRanges.expected>>
        /\ UNCHANGED <<left, runRanges, runItems, counts, runToday, failures>>
    BY <1>10 DEF Compass!ConfirmDay, Compass!Confirmed, Compass!Goto, Compass!resultVars, Compass!pageVars
  <2>2. RightDay(runRanges.expected) /\ RightDay(runRanges.expected)'
    BY <1>0, <2>1 DEF ConfirmsRightDay, RightDay
  <2>3. runRanges.expected \in Nat
    BY <2>2 DEF RightDay
  <2>4. CompassTypes'
    BY <1>0, <2>1 DEF CompassTypes, Stages, InShop
  <2>5. QED
    BY <1>0, <2>1, <2>2, <2>3, <2>4 DEF ConfirmsRightDay, Dated, RightDay
\* A step that files or counts something.
<1>11. ASSUME NEW m \in RunModules, NEW day \in Nat \X Nat, left # <<>>,
              \/ Compass!Item(m, [shop |-> Compass!Shop, day |-> day])
              \/ Compass!Error(m)
              \/ UNCHANGED <<runItems, counts>>
       PROVE  /\ runItems' \in [RunModules -> Seq(Filed)]
              /\ counts' \in [RunModules -> [ok : Nat, bad : Nat]]
  <2>1. [shop |-> Compass!Shop, day |-> day] \in Filed
    BY <1>11 DEF Compass!Shop, Filed, CompassTypes
  <2>2. CASE Compass!Item(m, [shop |-> Compass!Shop, day |-> day])
    <3>1. /\ runItems' = [runItems EXCEPT ![m] = Append(runItems[m], [shop |-> Compass!Shop, day |-> day])]
          /\ counts' = [counts EXCEPT ![m] = [counts[m] EXCEPT !.ok = @ + 1]]
      BY <2>2 DEF Compass!Item, CompassTypes
    <3>2. Append(runItems[m], [shop |-> Compass!Shop, day |-> day]) \in Seq(Filed)
      BY <2>1 DEF CompassTypes
    <3>3. [counts[m] EXCEPT !.ok = @ + 1] \in [ok : Nat, bad : Nat]
      BY OneMore DEF CompassTypes
    <3>4. QED
      BY <3>1, <3>2, <3>3 DEF CompassTypes
  <2>3. CASE Compass!Error(m)
    <3>1. /\ runItems' = runItems
          /\ counts' = [counts EXCEPT ![m] = [counts[m] EXCEPT !.bad = @ + 1]]
      BY <2>3 DEF Compass!Error, CompassTypes
    <3>2. [counts[m] EXCEPT !.bad = @ + 1] \in [ok : Nat, bad : Nat]
      BY OneMore DEF CompassTypes
    <3>3. QED
      BY <3>1, <3>2 DEF CompassTypes
  <2>4. CASE UNCHANGED <<runItems, counts>>
    BY <2>4 DEF CompassTypes
  <2>5. QED
    BY <1>11, <2>2, <2>3, <2>4
<1>12. runPc \in Dated => dataDay \in Nat \X Nat
  BY DEF ConfirmsRightDay
<1>13. CASE Compass!Operations
  <2>1. /\ runPc = "operations" /\ runPc' = "load"
        /\ UNCHANGED <<left, dataDay, runRanges, runToday, failures>>
        /\ \/ Compass!Item("operations", [shop |-> Compass!Shop, day |-> dataDay])
           \/ Compass!Error("operations")
           \/ UNCHANGED <<runItems, counts>>
    BY <1>13 DEF Compass!Operations, Compass!Goto, Compass!pageVars
  <2>2. left # <<>> /\ dataDay \in Nat \X Nat
    BY <1>12, <2>1 DEF CompassTypes, InShop, Dated
  <2>3. runItems' \in [RunModules -> Seq(Filed)] /\ counts' \in [RunModules -> [ok : Nat, bad : Nat]]
    BY <1>11, <2>1, <2>2 DEF RunModules
  <2>4. QED
    BY <1>0, <2>1, <2>3 DEF CompassTypes, ConfirmsRightDay, RightDay, Stages, InShop, Dated
<1>14. CASE Compass!LoadChannel
  <2>1. /\ runPc = "load" /\ runPc' = "channel"
        /\ UNCHANGED <<left, dataDay, runRanges, runToday, failures>>
        /\ Compass!Error("channel") \/ UNCHANGED <<runItems, counts>>
    BY <1>14 DEF Compass!LoadChannel, Compass!Goto, Compass!pageVars
  <2>2. left # <<>> /\ dataDay \in Nat \X Nat
    BY <1>12, <2>1 DEF CompassTypes, InShop, Dated
  <2>3. runItems' \in [RunModules -> Seq(Filed)] /\ counts' \in [RunModules -> [ok : Nat, bad : Nat]]
    BY <1>11, <2>1, <2>2 DEF RunModules
  <2>4. QED
    BY <1>0, <2>1, <2>3 DEF CompassTypes, ConfirmsRightDay, RightDay, Stages, InShop, Dated
<1>15. CASE Compass!Channel
  <2>1. /\ runPc = "channel" /\ runPc' = "douyin"
        /\ UNCHANGED <<left, dataDay, runRanges, runToday, failures>>
        /\ \/ Compass!Item("channel", [shop |-> Compass!Shop, day |-> dataDay])
           \/ UNCHANGED <<runItems, counts>>
    BY <1>15 DEF Compass!Channel, Compass!Goto, Compass!pageVars
  <2>2. left # <<>> /\ dataDay \in Nat \X Nat
    BY <1>12, <2>1 DEF CompassTypes, InShop, Dated
  <2>3. runItems' \in [RunModules -> Seq(Filed)] /\ counts' \in [RunModules -> [ok : Nat, bad : Nat]]
    BY <1>11, <2>1, <2>2 DEF RunModules
  <2>4. QED
    BY <1>0, <2>1, <2>3 DEF CompassTypes, ConfirmsRightDay, RightDay, Stages, InShop, Dated
<1>16. CASE Compass!Douyin
  <2>1. /\ runPc = "douyin" /\ runPc' = "shop" /\ left' = Tail(left)
        /\ UNCHANGED <<dataDay, runRanges, runToday, failures>>
        /\ \/ Compass!Item("douyin", [shop |-> Compass!Shop, day |-> <<Compass!Yesterday, Compass!Yesterday>>])
           \/ Compass!Error("douyin")
           \/ UNCHANGED <<runItems, counts>>
    BY <1>16 DEF Compass!Douyin, Compass!Goto, Compass!pageVars
  <2>2. left # <<>> /\ <<Compass!Yesterday, Compass!Yesterday>> \in Nat \X Nat
    BY <1>a, <2>1 DEF CompassTypes, InShop, Compass!Yesterday
  <2>3. runItems' \in [RunModules -> Seq(Filed)] /\ counts' \in [RunModules -> [ok : Nat, bad : Nat]]
    BY <1>11, <2>1, <2>2 DEF RunModules
  <2>4. left' \in Seq(ShopsOf)
    BY <2>1, <2>2 DEF CompassTypes
  <2>5. QED
    BY <1>0, <2>1, <2>3, <2>4 DEF CompassTypes, ConfirmsRightDay, RightDay, Stages, InShop, Dated
<1>17. CASE Compass!SaveOperations \/ Compass!SaveChannel \/ Compass!SaveDouyin
  BY <1>1, <1>17 DEF Compass!SaveOperations, Compass!SaveChannel, Compass!SaveDouyin, Compass!SaveFile,
    Compass!pageVars, CompassTypes, Stages, InShop, Dated
<1>18. CASE UNCHANGED compassVars
  BY <1>1, <1>18 DEF compassVars, CompassTypes
<1>19. QED
  BY <1>2, <1>3, <1>4, <1>5, <1>6, <1>7, <1>8, <1>9, <1>10, <1>13, <1>14, <1>15, <1>16, <1>17, <1>18 DEF Compass!Next

----------------------------------------------------------------------------
LEMMA RangeOfAppend ==
  ASSUME NEW S, NEW s \in Seq(S), NEW x \in S
  PROVE  Compass!Range(Append(s, x)) = Compass!Range(s) \cup {x}
<1>1. DOMAIN s = 1..Len(s) /\ Len(s) \in Nat /\ DOMAIN Append(s, x) = 1..(Len(s) + 1)
  OBVIOUS
<1>2. /\ \A k \in 1..Len(s) : Append(s, x)[k] = s[k]
      /\ Append(s, x)[Len(s) + 1] = x
  OBVIOUS
<1>3. \A k \in 1..(Len(s) + 1) : k \in 1..Len(s) \/ k = Len(s) + 1
  BY <1>1
<1>4. \A k \in 1..Len(s) : k \in 1..(Len(s) + 1)
  BY <1>1
<1>5. Len(s) + 1 \in 1..(Len(s) + 1)
  BY <1>1
<1>6. \A y : y \in Compass!Range(Append(s, x)) <=> y \in Compass!Range(s) \cup {x}
  BY <1>1, <1>2, <1>3, <1>4, <1>5 DEF Compass!Range
<1>7. QED
  BY <1>6

DatedItems == Compass!Range(runItems["operations"]) \cup Compass!Range(runItems["channel"])

\* Where a run has read something of the present shop.
AfterRead == {"load", "channel", "douyin", "failing", "exit"}

\* No shop is left twice, and whether a shop is left.
NoShopTwice == \A i, j \in 1..Len(left) : left[i] = left[j] => i = j
Waits(shop_) == \E k \in 1..Len(left) : left[k] = shop_

\* What is left when the present shop is over.
LEMMA TailEffect ==
  ASSUME CompassTypes, NoShopTwice, left # <<>>, left' = Tail(left)
  PROVE  /\ Len(left') = Len(left) - 1 /\ Len(left) \in Nat
         /\ NoShopTwice'
         /\ \A x : Waits(x)' => Waits(x) /\ x # Head(left)
<1>1. left \in Seq(ShopsOf)
  BY DEF CompassTypes
<1>2. /\ Len(left') = Len(left) - 1 /\ Len(left) \in Nat /\ Len(left) > 0
      /\ \A k \in 1..Len(left') : left'[k] = left[k + 1] /\ k + 1 \in 1..Len(left)
      /\ Head(left) = left[1]
  BY <1>1
<1>3. \A i, j \in 1..Len(left) : left[i] = left[j] => i = j
  BY DEF NoShopTwice
<1>4. NoShopTwice'
  <2> SUFFICES ASSUME NEW i \in 1..Len(left'), NEW j \in 1..Len(left'), left'[i] = left'[j]
               PROVE  i = j
    BY DEF NoShopTwice
  <2>1. left[i + 1] = left[j + 1] /\ i + 1 \in 1..Len(left) /\ j + 1 \in 1..Len(left)
    BY <1>2
  <2>2. i + 1 = j + 1
    BY <1>3, <2>1
  <2>3. QED
    BY <1>2, <2>2
<1>5. \A x : Waits(x)' => Waits(x) /\ x # Head(left)
  <2> SUFFICES ASSUME NEW x, Waits(x)' PROVE Waits(x) /\ x # Head(left)
    OBVIOUS
  <2>1. PICK k \in 1..Len(left') : left'[k] = x
    BY DEF Waits
  <2>2. left[k + 1] = x /\ k + 1 \in 1..Len(left)
    BY <1>2, <2>1
  <2>3. 1 \in 1..Len(left) /\ k + 1 # 1
    BY <1>2, <2>1
  <2>4. QED
    BY <1>2, <1>3, <2>2, <2>3 DEF Waits
<1>6. QED
  BY <1>2, <1>4, <1>5

\* What is filed has a right day, one for each shop; of the shops that are left only the
\* present one can have something.
FiledRight ==
  /\ NoShopTwice
  /\ \A i \in DatedItems : i.day[1] = i.day[2] /\ RightDay(i.day[1])
  /\ \A i, j \in DatedItems : i.shop = j.shop => i.day = j.day
  /\ \A i \in DatedItems : Waits(i.shop) =>
       runPc \in AfterRead /\ i.shop = Head(left) /\ i.day = dataDay

\* What a step does to the shops and what is filed of them.
LEMMA ShopSteps ==
  ASSUME CompassTypes, ConfirmsRightDay, [Compass!Next]_compassVars
  PROVE  /\ args' = args /\ (runToday' = runToday \/ runToday' = runToday + 1)
         /\ \/ /\ UNCHANGED <<left, dataDay, DatedItems>>
               /\ runPc \in AfterRead => runPc' \in AfterRead
            \/ UNCHANGED <<left, DatedItems>> /\ runPc \notin AfterRead
            \/ \E m \in {"operations", "channel"} :
                 /\ runPc = m /\ runPc' \in AfterRead /\ UNCHANGED <<left, dataDay>>
                 /\ runItems' = [runItems EXCEPT ![m] = Append(@, [shop |-> Head(left), day |-> dataDay])]
            \/ runPc \in InShop /\ left' = Tail(left) /\ UNCHANGED DatedItems
<1> DEFINE Goal ==
         /\ args' = args /\ (runToday' = runToday \/ runToday' = runToday + 1)
         /\ \/ /\ UNCHANGED <<left, dataDay, DatedItems>>
               /\ runPc \in AfterRead => runPc' \in AfterRead
            \/ UNCHANGED <<left, DatedItems>> /\ runPc \notin AfterRead
            \/ \E m \in {"operations", "channel"} :
                 /\ runPc = m /\ runPc' \in AfterRead /\ UNCHANGED <<left, dataDay>>
                 /\ runItems' = [runItems EXCEPT ![m] = Append(@, [shop |-> Head(left), day |-> dataDay])]
            \/ runPc \in InShop /\ left' = Tail(left) /\ UNCHANGED DatedItems
<1> SUFFICES Goal
  OBVIOUS
<1>0. args' = args
  BY DEF Compass!Next, compassVars
<1>1. UNCHANGED runItems => UNCHANGED DatedItems
  BY DEF DatedItems
<1>2. CASE Compass!Arrive \/ Compass!Midnight
  BY <1>0, <1>1, <1>2 DEF Compass!Arrive, Compass!Midnight, Compass!resultVars, Compass!pageVars
<1>3. CASE Compass!Waiting \/ Compass!Running \/ Compass!Failed \/ Compass!LoginRequired \/ Compass!LoggedIn
  BY <1>0, <1>1, <1>3 DEF Compass!Waiting, Compass!Running, Compass!Failed, Compass!LoginRequired,
     Compass!LoggedIn, Compass!WriteStatus, Compass!resultVars, Compass!pageVars, AfterRead
<1>4. CASE Compass!RunRaises \/ Compass!OpenPage \/ Compass!RunReturns \/ Compass!Report
  BY <1>0, <1>1, <1>4 DEF Compass!RunRaises, Compass!OpenPage, Compass!RunReturns, Compass!Report,
     Compass!Goto, Compass!WriteStatus, Compass!resultVars, Compass!pageVars, AfterRead
<1>5. CASE Compass!StartShop \/ Compass!SwitchShop \/ Compass!ChooseDay \/ Compass!ConfirmDay
  BY <1>0, <1>1, <1>5 DEF Compass!StartShop, Compass!SwitchShop, Compass!ChooseDay, Compass!ConfirmDay,
     Compass!Goto, Compass!resultVars, Compass!pageVars, AfterRead
<1>6. CASE Compass!ShopFails
  BY <1>0, <1>1, <1>6 DEF Compass!ShopFails, InShop
<1>7. CASE Compass!Operations
  BY <1>0, <1>1, <1>7 DEF Compass!Operations, Compass!Goto, Compass!pageVars, AfterRead, Compass!Item, Compass!Error,
     Compass!Shop
<1>8. CASE Compass!LoadChannel
  BY <1>0, <1>1, <1>8 DEF Compass!LoadChannel, Compass!Goto, Compass!pageVars, AfterRead, Compass!Error
<1>9. CASE Compass!Channel
  BY <1>0, <1>1, <1>9 DEF Compass!Channel, Compass!Goto, Compass!pageVars, AfterRead, Compass!Item, Compass!Shop
<1>10. CASE Compass!Douyin
  <2>1. runPc = "douyin" /\ left' = Tail(left) /\ runToday' = runToday
        /\ (UNCHANGED runItems \/ \E x : runItems' = [runItems EXCEPT !["douyin"] = x])
    BY <1>10 DEF Compass!Douyin, Compass!Goto, Compass!pageVars, Compass!Item, Compass!Error
  <2>2. runItems'["operations"] = runItems["operations"] /\ runItems'["channel"] = runItems["channel"]
    BY <2>1 DEF CompassTypes, RunModules
  <2>3. UNCHANGED DatedItems
    BY <2>2 DEF DatedItems
  <2>4. QED
    BY <1>0, <2>1, <2>3 DEF InShop
<1>11. CASE Compass!SaveOperations \/ Compass!SaveChannel \/ Compass!SaveDouyin
  BY <1>0, <1>1, <1>11 DEF Compass!SaveOperations, Compass!SaveChannel, Compass!SaveDouyin, Compass!SaveFile,
    Compass!pageVars, AfterRead
<1>12. CASE UNCHANGED compassVars
  BY <1>1, <1>12 DEF compassVars
<1>13. QED
  BY <1>2, <1>3, <1>4, <1>5, <1>6, <1>7, <1>8, <1>9, <1>10, <1>11, <1>12 DEF Compass!Next

LEMMA FiledInitial == Compass!Init => FiledRight
<1> SUFFICES ASSUME Compass!Init PROVE FiledRight
  OBVIOUS
<1>1. DatedItems = {}
  BY DEF Compass!Init, DatedItems, Compass!Modules, Compass!Range
<1>2. NoShopTwice
  BY ArgumentsFit DEF Compass!Init, NoShopTwice, Compass!TargetShops
<1>3. QED
  BY <1>1, <1>2 DEF FiledRight

LEMMA FiledStep ==
  CompassTypes /\ ConfirmsRightDay /\ FiledRight /\ [Compass!Next]_compassVars => FiledRight'
<1> SUFFICES ASSUME CompassTypes, ConfirmsRightDay, FiledRight, [Compass!Next]_compassVars
             PROVE  FiledRight'
  OBVIOUS
<1>1. \A d : RightDay(d) => RightDay(d)'
  <2>1. args' = args /\ (runToday' = runToday \/ runToday' = runToday + 1)
    BY ShopSteps
  <2>2. runToday \in Nat /\ Today \in Nat
    BY ArgumentsFit DEF CompassTypes
  <2>3. QED
    BY <2>1, <2>2 DEF RightDay
<1>2. CASE /\ UNCHANGED <<left, dataDay, DatedItems>>
           /\ runPc \in AfterRead => runPc' \in AfterRead
  BY <1>1, <1>2 DEF FiledRight, NoShopTwice, Waits
<1>3. CASE UNCHANGED <<left, DatedItems>> /\ runPc \notin AfterRead
  BY <1>1, <1>3 DEF FiledRight, NoShopTwice, Waits
<1>4. ASSUME NEW m \in {"operations", "channel"},
             runPc = m, runPc' \in AfterRead, UNCHANGED <<left, dataDay>>,
             runItems' = [runItems EXCEPT ![m] = Append(@, [shop |-> Head(left), day |-> dataDay])]
      PROVE  FiledRight'
  <2> DEFINE new == [shop |-> Head(left), day |-> dataDay]
  <2>1. left # <<>> /\ left \in Seq(ShopsOf) /\ \E d \in Nat : RightDay(d) /\ dataDay = <<d, d>>
    BY <1>4 DEF CompassTypes, ConfirmsRightDay, InShop, Dated
  <2>2. new \in Filed
    BY <2>1 DEF Filed
  <2>3. new.shop = Head(left) /\ new.day = dataDay
    OBVIOUS
  <2> HIDE DEF new
  <2>4. DatedItems' = DatedItems \cup {new}
    <3>1. runItems \in [RunModules -> Seq(Filed)]
      BY DEF CompassTypes
    <3>2. /\ runItems'[m] = Append(runItems[m], new)
          /\ \A n \in RunModules : n # m => runItems'[n] = runItems[n]
      BY <1>4, <3>1 DEF RunModules, new
    <3>3. runItems[m] \in Seq(Filed)
      BY <3>1 DEF RunModules
    <3>4. Compass!Range(runItems'[m]) = Compass!Range(runItems[m]) \cup {new}
      BY <2>2, <3>2, <3>3, RangeOfAppend
    <3>5. QED
      BY <3>2, <3>4 DEF DatedItems, RunModules
  <2>5. \A i \in DatedItems : ~Waits(i.shop) \/ runPc \in AfterRead
    BY DEF FiledRight
  <2>6. Waits(new.shop)
    BY <2>1, <2>3 DEF Waits
  <2>7. \A i \in DatedItems : i.shop = new.shop => i.day = dataDay
    BY <2>6 DEF FiledRight
  <2>8. new.day[1] = new.day[2] /\ RightDay(new.day[1])
    BY <2>1, <2>3
  <2>9. /\ NoShopTwice'
        /\ \A i : Waits(i)' = Waits(i)
    BY <1>4 DEF FiledRight, NoShopTwice, Waits
  <2>10. \A i \in DatedItems' : i.day[1] = i.day[2] /\ RightDay(i.day[1])'
    BY <1>1, <2>4, <2>8 DEF FiledRight
  <2>11. \A i, j \in DatedItems' : i.shop = j.shop => i.day = j.day
    BY <2>3, <2>4, <2>7 DEF FiledRight
  <2>12. \A i \in DatedItems' : Waits(i.shop) => i.shop = Head(left) /\ i.day = dataDay
    BY <2>3, <2>4 DEF FiledRight
  <2>13. QED
    BY <1>4, <2>9, <2>10, <2>11, <2>12 DEF FiledRight
<1>5. CASE runPc \in InShop /\ left' = Tail(left) /\ UNCHANGED DatedItems
  <2>1. left # <<>> /\ NoShopTwice
    BY <1>5 DEF CompassTypes, FiledRight
  <2>2. NoShopTwice' /\ \A x : Waits(x)' => Waits(x) /\ x # Head(left)
    BY <1>5, <2>1, TailEffect
  <2>3. QED
    BY <1>1, <1>5, <2>2 DEF FiledRight
<1>6. QED
  BY <1>2, <1>3, <1>4, <1>5, ShopSteps

\* What is filed under a day is filed under a right one, and a shop under one.
THEOREM FilesUnderExpectedDay == CollectorSpec => []FiledUnderExpectedDay
<1>1. CollectorInit => CompassTypes /\ ConfirmsRightDay /\ FiledRight
  BY CompassInitial, FiledInitial DEF CollectorInit
<1>2. [CollectorNext]_collectorVars => [Compass!Next]_compassVars
  BY DEF CollectorNext, collectorVars
<1>3. CompassTypes /\ ConfirmsRightDay /\ FiledRight /\ [CollectorNext]_collectorVars
        => CompassTypes' /\ ConfirmsRightDay' /\ FiledRight'
  BY <1>2, CompassTypesStep, FiledStep
<1>4. FiledRight => FiledUnderExpectedDay
  BY DEF FiledRight, FiledUnderExpectedDay, Compass!FiledUnderExpectedDay, DatedItems, RightDay, Compass!DataDay
<1>5. QED
  BY <1>1, <1>3, <1>4, PTL DEF CollectorSpec

----------------------------------------------------------------------------
Over == {"failing", "exit"}
OperationsRead == {"load", "channel", "douyin"}

\* Where a run has counted the present shop for a module.
AfterOf(m) ==
  IF m = "operations" THEN OperationsRead \cup Over
  ELSE IF m = "channel" THEN {"douyin"} \cup Over ELSE {}

\* The shops that a module has to have counted.
Due(m) ==
  Len(args.shops) - Len(left)
    + (IF m = "operations" /\ runPc \in OperationsRead THEN 1 ELSE 0)

CountsFit ==
  \A m \in RunModules :
    /\ counts[m].ok = Len(runItems[m])
    /\ m \in args.modules /\ m # "channel" /\ runPc \notin Over
         => counts[m].ok + counts[m].bad = Due(m)

ShopsOnce ==
  \A m \in RunModules : \A i \in 1..Len(runItems[m]) :
    /\ \A j \in 1..Len(runItems[m]) : runItems[m][i].shop = runItems[m][j].shop => i = j
    /\ Waits(runItems[m][i].shop) => runPc \in AfterOf(m) /\ runItems[m][i].shop = Head(left)

\* Only a run that needs the day is in the stages that confirm and use it.
DayNeeded ==
  runPc \in {"choose", "confirm"} \cup Dated => args.modules \cap {"operations", "channel"} # {}

Counted == CountsFit /\ ShopsOnce /\ DayNeeded

LEMMA ItemEffect ==
  ASSUME CompassTypes, NEW m \in RunModules, NEW x \in Filed, Compass!Item(m, x)
  PROVE  \A n \in RunModules :
           /\ runItems'[n] = IF n = m THEN Append(runItems[n], x) ELSE runItems[n]
           /\ counts'[n].ok = IF n = m THEN counts[n].ok + 1 ELSE counts[n].ok
           /\ counts'[n].bad = counts[n].bad
<1>1. runItems' = [runItems EXCEPT ![m] = Append(@, x)] /\ counts' = [counts EXCEPT ![m].ok = @ + 1]
  BY DEF Compass!Item
<1>2. counts' = [counts EXCEPT ![m] = [counts[m] EXCEPT !.ok = @ + 1]]
  BY <1>1
<1>3. DOMAIN runItems = RunModules /\ DOMAIN counts = RunModules /\ counts[m] \in [ok : Nat, bad : Nat]
  BY DEF CompassTypes
<1>4. [counts[m] EXCEPT !.ok = @ + 1] = [ok |-> counts[m].ok + 1, bad |-> counts[m].bad]
  BY <1>3, OneMore
<1>5. QED
  BY <1>1, <1>2, <1>3, <1>4

LEMMA ErrorEffect ==
  ASSUME CompassTypes, NEW m \in RunModules, Compass!Error(m)
  PROVE  /\ runItems' = runItems
         /\ \A n \in RunModules :
              /\ counts'[n].ok = counts[n].ok
              /\ counts'[n].bad = IF n = m THEN counts[n].bad + 1 ELSE counts[n].bad
<1>1. runItems' = runItems /\ counts' = [counts EXCEPT ![m].bad = @ + 1]
  BY DEF Compass!Error
<1>2. counts' = [counts EXCEPT ![m] = [counts[m] EXCEPT !.bad = @ + 1]]
  BY <1>1
<1>3. DOMAIN counts = RunModules /\ counts[m] \in [ok : Nat, bad : Nat]
  BY DEF CompassTypes
<1>4. [counts[m] EXCEPT !.bad = @ + 1] = [ok |-> counts[m].ok, bad |-> counts[m].bad + 1]
  BY <1>3, OneMore
<1>5. QED
  BY <1>1, <1>2, <1>3, <1>4

\* An item of the present shop, the first of its module.
LEMMA ItemOnce ==
  ASSUME CompassTypes, ShopsOnce, left # <<>>, NEW m \in RunModules, NEW x \in Filed,
         x.shop = Head(left), runPc \notin AfterOf(m),
         runItems'[m] = Append(runItems[m], x)
  PROVE  /\ Len(runItems'[m]) = Len(runItems[m]) + 1
         /\ \A i \in 1..Len(runItems'[m]) :
              /\ \A j \in 1..Len(runItems'[m]) : runItems'[m][i].shop = runItems'[m][j].shop => i = j
              /\ Waits(runItems'[m][i].shop) => runItems'[m][i].shop = Head(left)
<1>1. left \in Seq(ShopsOf) /\ runItems[m] \in Seq(Filed)
  BY DEF CompassTypes
<1>2. Waits(x.shop)
  BY <1>1 DEF Waits
<1>3. \A i \in 1..Len(runItems[m]) : runItems[m][i].shop # x.shop
  BY <1>2 DEF ShopsOnce
<1>4. /\ Len(runItems[m]) \in Nat /\ Len(runItems'[m]) = Len(runItems[m]) + 1
      /\ \A i \in 1..Len(runItems[m]) : runItems'[m][i] = runItems[m][i]
      /\ runItems'[m][Len(runItems[m]) + 1] = x
  BY <1>1
<1>5. \A i \in 1..(Len(runItems[m]) + 1) : i \in 1..Len(runItems[m]) \/ i = Len(runItems[m]) + 1
  BY <1>4
<1>6. \A i \in 1..Len(runItems'[m]) : i \in 1..Len(runItems[m]) \/ i = Len(runItems[m]) + 1
  BY <1>4, <1>5
<1>7. ASSUME NEW i \in 1..Len(runItems'[m]), NEW j \in 1..Len(runItems'[m]),
             runItems'[m][i].shop = runItems'[m][j].shop
      PROVE  i = j
  <2>1. CASE i \in 1..Len(runItems[m]) /\ j \in 1..Len(runItems[m])
    BY <1>4, <1>7, <2>1 DEF ShopsOnce
  <2>2. CASE i = Len(runItems[m]) + 1 /\ j \in 1..Len(runItems[m])
    BY <1>3, <1>4, <1>7, <2>2
  <2>3. CASE j = Len(runItems[m]) + 1 /\ i \in 1..Len(runItems[m])
    BY <1>3, <1>4, <1>7, <2>3
  <2>4. QED
    BY <1>6, <2>1, <2>2, <2>3
<1>8. ASSUME NEW i \in 1..Len(runItems'[m]), Waits(runItems'[m][i].shop)
      PROVE  runItems'[m][i].shop = Head(left)
  <2>1. CASE i \in 1..Len(runItems[m])
    BY <1>4, <1>8, <2>1 DEF ShopsOnce
  <2>2. CASE i = Len(runItems[m]) + 1
    BY <1>4, <2>2
  <2>3. QED
    BY <1>6, <2>1, <2>2
<1>9. QED
  BY <1>4, <1>7, <1>8

LEMMA CountedInitial == Compass!Init => Counted
<1> SUFFICES ASSUME Compass!Init PROVE Counted
  OBVIOUS
<1>1. \A m \in RunModules : runItems[m] = <<>> /\ counts[m] = [ok |-> 0, bad |-> 0]
  BY DEF Compass!Init, RunModules, Compass!Modules
<1>2. left = args.shops /\ runPc = "delay" /\ Len(args.shops) \in Nat
  BY ArgumentsFit DEF Compass!Init, Compass!TargetShops
<1>3. Len(<<>>) = 0
  OBVIOUS
<1>4. CountsFit
  BY <1>1, <1>2, <1>3 DEF CountsFit, Due, OperationsRead
<1>5. ShopsOnce
  BY <1>1, <1>3 DEF ShopsOnce
<1>6. QED
  BY <1>2, <1>4, <1>5 DEF Counted, DayNeeded, Dated

LEMMA CountedStep ==
  CompassTypes /\ ConfirmsRightDay /\ NoShopTwice /\ Counted /\ [Compass!Next]_compassVars => Counted'
<1> SUFFICES ASSUME CompassTypes, ConfirmsRightDay, NoShopTwice, Counted, [Compass!Next]_compassVars
             PROVE  Counted'
  OBVIOUS
<1> USE DEF Counted
<1>0. args' = args /\ args.modules \subseteq RunModules /\ Len(args.shops) \in Nat
  BY ArgumentsFit DEF Compass!Next, compassVars, CompassTypes
<1>a. /\ \A m \in RunModules : counts[m].ok \in Nat /\ counts[m].bad \in Nat /\ runItems[m] \in Seq(Filed)
      /\ left \in Seq(ShopsOf) /\ Len(left) \in Nat
  BY DEF CompassTypes
\* A step between the shops' readings.
<1>1. ASSUME UNCHANGED <<left, runItems, counts>>,
             \A m \in RunModules : runPc \in AfterOf(m) => runPc' \in AfterOf(m),
             runPc' \notin Over => runPc \notin Over,
             runPc' \in OperationsRead => runPc \in OperationsRead \/ "operations" \notin args.modules,
             runPc \in OperationsRead => runPc' \in OperationsRead \cup Over,
             DayNeeded'
      PROVE  Counted'
  <2>1. \A m \in RunModules : m \in args.modules /\ runPc' \notin Over => Due(m)' = Due(m)
    BY <1>0, <1>1 DEF Due
  <2>2. CountsFit'
    BY <1>0, <1>1, <2>1 DEF CountsFit
  <2>3. ShopsOnce'
    BY <1>1 DEF ShopsOnce, Waits
  <2>4. QED
    BY <1>1, <2>2, <2>3
<1>2. CASE Compass!Arrive \/ Compass!Midnight
  <2>1. UNCHANGED <<left, runItems, counts, runPc>>
    BY <1>2 DEF Compass!Arrive, Compass!Midnight, Compass!resultVars, Compass!pageVars
  <2>2. QED
    BY <1>0, <1>1, <2>1 DEF DayNeeded
<1>3. CASE Compass!Waiting \/ Compass!Running \/ Compass!Failed \/ Compass!LoginRequired \/ Compass!LoggedIn
  <2>1. /\ UNCHANGED <<left, runItems, counts>>
        /\ \/ runPc \in {"delay", "start", "open", "login"} /\ runPc' \in {"start", "open", "login", "shop", "failing"}
           \/ runPc = "failing" /\ runPc' = "exit"
    BY <1>3 DEF Compass!Waiting, Compass!Running, Compass!Failed, Compass!LoginRequired,
       Compass!LoggedIn, Compass!WriteStatus, Compass!resultVars, Compass!pageVars
  <2>2. QED
    BY <1>1, <2>1 DEF DayNeeded, Dated, AfterOf, Over, OperationsRead
<1>4. CASE Compass!RunRaises \/ Compass!OpenPage \/ Compass!RunReturns \/ Compass!Report
  <2>1. /\ UNCHANGED <<left, runItems, counts>>
        /\ \/ runPc' = "failing" /\ runPc # "exit"
           \/ runPc = "open" /\ runPc' = "shop"
           \/ runPc = "shop" /\ runPc' = "save operations"
           \/ runPc = "saved" /\ runPc' = "exit"
    BY <1>4 DEF Compass!RunRaises, Compass!OpenPage, Compass!RunReturns, Compass!Report,
       Compass!Goto, Compass!WriteStatus, Compass!resultVars, Compass!pageVars
  <2>2. QED
    BY <1>1, <2>1 DEF DayNeeded, Dated, AfterOf, Over, OperationsRead, RunModules
<1>5. CASE Compass!StartShop \/ Compass!SwitchShop \/ Compass!ChooseDay \/ Compass!ConfirmDay
  <2>1. /\ UNCHANGED <<left, runItems, counts>>
        /\ \/ runPc = "shop" /\ runPc' = "switch"
           \/ runPc = "switch" /\ runPc' = "choose" /\ args.modules \cap {"operations", "channel"} # {}
           \/ runPc = "switch" /\ runPc' = "douyin" /\ "operations" \notin args.modules
           \/ runPc = "choose" /\ runPc' = "confirm"
           \/ runPc = "confirm" /\ runPc' = "operations"
    BY <1>5 DEF Compass!StartShop, Compass!SwitchShop, Compass!ChooseDay, Compass!ConfirmDay,
       Compass!Goto, Compass!resultVars, Compass!pageVars, Compass!NeedsDay, Compass!Requested
  <2>2. DayNeeded'
    BY <1>0, <2>1 DEF DayNeeded, Dated
  <2>3. QED
    BY <1>1, <2>1, <2>2 DEF AfterOf, Over, OperationsRead
<1>6. CASE Compass!SaveOperations \/ Compass!SaveChannel \/ Compass!SaveDouyin
  <2>1. /\ UNCHANGED <<left, runItems, counts>>
        /\ runPc \in {"save operations", "save channel", "save douyin"}
        /\ runPc' \in {"save channel", "save douyin", "saved", "failing"}
    BY <1>6 DEF Compass!SaveOperations, Compass!SaveChannel, Compass!SaveDouyin, Compass!SaveFile, Compass!pageVars
  <2>2. QED
    BY <1>1, <2>1 DEF DayNeeded, Dated, AfterOf, Over, OperationsRead
<1>7. CASE UNCHANGED compassVars
  BY <1>1, <1>7 DEF compassVars, DayNeeded
<1>8. CASE Compass!ShopFails
  <2>1. /\ runPc \in {"switch", "choose", "confirm"} /\ runPc' = "shop" /\ left' = Tail(left) /\ runItems' = runItems
        /\ counts' = [m \in RunModules |->
             IF m \in args.modules THEN [counts[m] EXCEPT !.bad = @ + 1] ELSE counts[m]]
    BY <1>8 DEF Compass!ShopFails, Compass!Modules, RunModules, Compass!Requested
  <2>2. left # <<>>
    BY <2>1 DEF CompassTypes, InShop
  <2>3. \A m \in RunModules : /\ counts'[m].ok = counts[m].ok
                              /\ m \in args.modules => counts'[m].bad = counts[m].bad + 1
    <3>1. \A m \in RunModules : counts[m] \in [ok : Nat, bad : Nat]
      BY DEF CompassTypes
    <3>2. \A m \in RunModules : [counts[m] EXCEPT !.bad = @ + 1] = [ok |-> counts[m].ok, bad |-> counts[m].bad + 1]
      BY <3>1, OneMore
    <3>3. QED
      BY <2>1, <3>2
  <2>4. Len(left') = Len(left) - 1
    BY <2>1, <2>2, TailEffect
  <2>5. \A m \in RunModules : Due(m)' = Due(m) + 1
    <3>1. \A m \in RunModules : /\ Due(m) = Len(args.shops) - Len(left) + 0
                                /\ Due(m)' = Len(args.shops) - Len(left') + 0
      BY <1>0, <2>1 DEF Due, OperationsRead
    <3>2. Len(args.shops) - Len(left') + 0 = Len(args.shops) - Len(left) + 0 + 1
      BY <1>0, <1>a, <2>4
    <3>3. QED
      BY <3>1, <3>2
  <2>6. CountsFit'
    <3>1. \A m \in RunModules : Due(m) \in Int
      BY <1>0, <1>a DEF Due
    <3>2. QED
      <4>1. ASSUME NEW m \in RunModules
            PROVE  /\ counts'[m].ok = Len(runItems'[m])
                   /\ m \in args.modules /\ m # "channel" => counts'[m].ok + counts'[m].bad = Due(m)'
        <5>1. counts'[m].ok = Len(runItems'[m])
          BY <2>1, <2>3 DEF CountsFit
        <5>2. ASSUME m \in args.modules, m # "channel" PROVE counts'[m].ok + counts'[m].bad = Due(m)'
          <6>1. counts[m].ok + counts[m].bad = Due(m)
            BY <2>1, <5>2 DEF CountsFit, Over
          <6>2. counts'[m].ok = counts[m].ok /\ counts'[m].bad = counts[m].bad + 1
            BY <2>3, <5>2
          <6>3. counts[m].ok \in Nat /\ counts[m].bad \in Nat
            BY <1>a
          <6>4. QED
            BY <2>5, <6>1, <6>2, <6>3
        <5>3. QED
          BY <5>1, <5>2
      <4>2. QED
        BY <1>0, <4>1 DEF CountsFit
  <2>7. ShopsOnce'
    BY <2>1, <2>2, TailEffect DEF ShopsOnce
  <2>8. QED
    BY <2>1, <2>6, <2>7 DEF DayNeeded, Dated
\* A module reads the present shop.
<1>9. ASSUME NEW m \in RunModules, NEW day \in Nat \X Nat, left # <<>>,
             Compass!Item(m, [shop |-> Head(left), day |-> day]), runPc \notin AfterOf(m)
      PROVE  /\ \A n \in RunModules :
                  /\ counts'[n].ok = Len(runItems'[n])
                  /\ n # m => counts'[n] = counts[n] /\ runItems'[n] = runItems[n]
             /\ counts'[m].ok + counts'[m].bad = counts[m].ok + counts[m].bad + 1
             /\ \A n \in RunModules : \A i \in 1..Len(runItems'[n]) :
                  /\ \A j \in 1..Len(runItems'[n]) : runItems'[n][i].shop = runItems'[n][j].shop => i = j
                  /\ Waits(runItems'[n][i].shop) => /\ runItems'[n][i].shop = Head(left)
                                                    /\ n # m => runPc \in AfterOf(n)
  <2> DEFINE x == [shop |-> Head(left), day |-> day]
  <2>1. x \in Filed /\ x.shop = Head(left)
    BY <1>9, <1>a DEF Filed
  <2>2. Compass!Item(m, x)
    BY <1>9
  <2> HIDE DEF x
  <2>3. \A n \in RunModules :
           /\ runItems'[n] = IF n = m THEN Append(runItems[n], x) ELSE runItems[n]
           /\ counts'[n].ok = IF n = m THEN counts[n].ok + 1 ELSE counts[n].ok
           /\ counts'[n].bad = counts[n].bad
    BY <2>1, <2>2, ItemEffect
  <2>4. \A n \in RunModules : n # m => counts'[n] = counts[n]
    BY <2>2 DEF Compass!Item, CompassTypes
  <2>5. Len(runItems'[m]) = Len(runItems[m]) + 1
    BY <1>9, <2>1, <2>3, ItemOnce
  <2>6. \A i \in 1..Len(runItems'[m]) :
              /\ \A j \in 1..Len(runItems'[m]) : runItems'[m][i].shop = runItems'[m][j].shop => i = j
              /\ Waits(runItems'[m][i].shop) => runItems'[m][i].shop = Head(left)
    BY <1>9, <2>1, <2>3, ItemOnce
  <2>7. \A n \in RunModules : counts'[n].ok = Len(runItems'[n])
    BY <2>3, <2>5 DEF CountsFit
  <2>8. counts'[m].ok + counts'[m].bad = counts[m].ok + counts[m].bad + 1
    BY <1>a, <2>3
  <2>9. ASSUME NEW n \in RunModules, n # m
        PROVE  \A i \in 1..Len(runItems'[n]) :
                  /\ \A j \in 1..Len(runItems'[n]) : runItems'[n][i].shop = runItems'[n][j].shop => i = j
                  /\ Waits(runItems'[n][i].shop) => runItems'[n][i].shop = Head(left) /\ runPc \in AfterOf(n)
    BY <2>3, <2>9 DEF ShopsOnce
  <2>10. QED
    BY <2>3, <2>4, <2>6, <2>7, <2>8, <2>9
<1>10. ASSUME NEW m \in RunModules, Compass!Error(m)
       PROVE  /\ \A n \in RunModules :
                   /\ counts'[n].ok = Len(runItems'[n])
                   /\ n # m => counts'[n] = counts[n]
              /\ counts'[m].ok + counts'[m].bad = counts[m].ok + counts[m].bad + 1
              /\ runItems' = runItems
  <2>1. \A n \in RunModules : n # m => counts'[n] = counts[n]
    BY <1>10 DEF Compass!Error, CompassTypes
  <2>2. QED
    BY <1>10, <1>a, <2>1, ErrorEffect DEF CountsFit
<1>11. runPc \in Dated => dataDay \in Nat \X Nat
  BY DEF ConfirmsRightDay
<1>12. CASE Compass!Operations
  <2>1. /\ runPc = "operations" /\ runPc' = "load" /\ left' = left
    BY <1>12 DEF Compass!Operations, Compass!Goto
  <2>2. left # <<>> /\ dataDay \in Nat \X Nat /\ DayNeeded'
    BY <1>0, <1>11, <2>1 DEF CompassTypes, InShop, Dated, DayNeeded
  <2>3. /\ Due("operations")' = Due("operations") + 1
        /\ \A n \in RunModules : n # "operations" => Due(n)' = Due(n)
    BY <1>0, <1>a, <2>1 DEF Due, OperationsRead
  <2>4. \A n \in RunModules : Due(n) \in Int
    BY <1>0, <1>a DEF Due
  <2>5. CASE "operations" \notin args.modules
    <3>1. UNCHANGED <<runItems, counts>>
      BY <1>12, <2>5 DEF Compass!Operations, Compass!Requested
    <3>2. QED
      BY <1>1, <2>1, <2>2, <2>5, <3>1 DEF Over, AfterOf, OperationsRead
  <2>6. CASE Compass!Item("operations", [shop |-> Head(left), day |-> dataDay])
    <3>1. "operations" \in RunModules /\ runPc \notin AfterOf("operations")
      BY <2>1 DEF RunModules, AfterOf, OperationsRead, Over
    <3>2. CountsFit'
      BY <1>0, <1>9, <2>1, <2>2, <2>3, <2>6, <3>1 DEF CountsFit, Over
    <3>3. ShopsOnce'
      <4>1. \A n \in RunModules : n = "operations" \/ runPc \in AfterOf(n) => runPc' \in AfterOf(n)
        BY <2>1 DEF AfterOf, OperationsRead, Over
      <4>2. \A x : Waits(x)' = Waits(x)
        BY <2>1 DEF Waits
      <4>3. \A n \in RunModules : \A i \in 1..Len(runItems'[n]) :
                  /\ \A j \in 1..Len(runItems'[n]) : runItems'[n][i].shop = runItems'[n][j].shop => i = j
                  /\ Waits(runItems'[n][i].shop) => /\ runItems'[n][i].shop = Head(left)
                                                    /\ n # "operations" => runPc \in AfterOf(n)
        BY <1>9, <2>2, <2>6, <3>1
      <4>4. QED
        BY <2>1, <4>1, <4>2, <4>3 DEF ShopsOnce
    <3>4. QED
      BY <2>2, <3>2, <3>3
  <2>7. CASE Compass!Error("operations")
    <3>1. "operations" \in RunModules
      BY DEF RunModules
    <3>2. CountsFit'
      BY <1>0, <1>10, <2>1, <2>3, <2>7, <3>1 DEF CountsFit, Over
    <3>3. ShopsOnce'
      <4>1. runItems' = runItems
        BY <1>10, <2>7, <3>1
      <4>2. \A n \in RunModules : runPc \in AfterOf(n) => runPc' \in AfterOf(n)
        BY <2>1 DEF AfterOf, OperationsRead, Over
      <4>3. QED
        BY <2>1, <4>1, <4>2 DEF ShopsOnce, Waits
    <3>4. QED
      BY <2>2, <3>2, <3>3
  <2>8. QED
    BY <1>12, <2>5, <2>6, <2>7 DEF Compass!Operations, Compass!Shop, Compass!Requested
<1>13. CASE Compass!LoadChannel
  <2>1. /\ runPc = "load" /\ runPc' = "channel" /\ left' = left
        /\ UNCHANGED <<runItems, counts>> \/ Compass!Error("channel")
    BY <1>13 DEF Compass!LoadChannel, Compass!Goto
  <2>2. DayNeeded'
    BY <1>0, <2>1 DEF Dated, DayNeeded
  <2>3. \A n \in RunModules : Due(n)' = Due(n)
    BY <1>0, <2>1 DEF Due, OperationsRead
  <2>4. \A n \in RunModules : runPc \in AfterOf(n) => runPc' \in AfterOf(n)
    BY <2>1 DEF AfterOf, OperationsRead, Over
  <2>5. CASE UNCHANGED <<runItems, counts>>
    BY <1>1, <2>1, <2>2, <2>4, <2>5 DEF Over, OperationsRead
  <2>6. CASE Compass!Error("channel")
    <3>1. "channel" \in RunModules
      BY DEF RunModules
    <3>2. CountsFit'
      BY <1>0, <1>10, <2>1, <2>3, <2>6, <3>1 DEF CountsFit, Over
    <3>3. runItems' = runItems
      BY <1>10, <2>6, <3>1
    <3>4. QED
      BY <2>1, <2>2, <2>4, <3>2, <3>3 DEF ShopsOnce, Waits
  <2>7. QED
    BY <2>1, <2>5, <2>6
<1>14. CASE Compass!Channel
  <2>1. /\ runPc = "channel" /\ runPc' = "douyin" /\ left' = left
        /\ UNCHANGED <<runItems, counts>> \/ Compass!Item("channel", [shop |-> Head(left), day |-> dataDay])
    BY <1>14 DEF Compass!Channel, Compass!Goto, Compass!Shop
  <2>2. left # <<>> /\ dataDay \in Nat \X Nat /\ DayNeeded'
    BY <1>0, <1>11, <2>1 DEF CompassTypes, InShop, Dated, DayNeeded
  <2>3. \A n \in RunModules : Due(n)' = Due(n)
    BY <1>0, <2>1 DEF Due, OperationsRead
  <2>4. \A n \in RunModules : n = "channel" \/ runPc \in AfterOf(n) => runPc' \in AfterOf(n)
    BY <2>1 DEF AfterOf, OperationsRead, Over
  <2>5. CASE UNCHANGED <<runItems, counts>>
    BY <1>1, <2>1, <2>2, <2>4, <2>5 DEF Over, OperationsRead
  <2>6. CASE Compass!Item("channel", [shop |-> Head(left), day |-> dataDay])
    <3>1. "channel" \in RunModules /\ runPc \notin AfterOf("channel")
      BY <2>1 DEF RunModules, AfterOf, OperationsRead, Over
    <3>2. CountsFit'
      BY <1>0, <1>9, <2>1, <2>2, <2>3, <2>6, <3>1 DEF CountsFit, Over
    <3>3. ShopsOnce'
      <4>2. \A x : Waits(x)' = Waits(x)
        BY <2>1 DEF Waits
      <4>3. \A n \in RunModules : \A i \in 1..Len(runItems'[n]) :
                  /\ \A j \in 1..Len(runItems'[n]) : runItems'[n][i].shop = runItems'[n][j].shop => i = j
                  /\ Waits(runItems'[n][i].shop) => /\ runItems'[n][i].shop = Head(left)
                                                    /\ n # "channel" => runPc \in AfterOf(n)
        BY <1>9, <2>2, <2>6, <3>1
      <4>4. QED
        BY <2>1, <2>4, <4>2, <4>3 DEF ShopsOnce
    <3>4. QED
      BY <2>2, <3>2, <3>3
  <2>7. QED
    BY <2>1, <2>5, <2>6
<1>15. CASE Compass!Douyin
  <2> DEFINE day == <<Compass!Yesterday, Compass!Yesterday>>
  <2>1. /\ runPc = "douyin" /\ runPc' = "shop" /\ left' = Tail(left)
        /\ \/ UNCHANGED <<runItems, counts>> /\ "douyin" \notin args.modules
           \/ Compass!Item("douyin", [shop |-> Head(left), day |-> day])
           \/ Compass!Error("douyin")
    BY <1>15 DEF Compass!Douyin, Compass!Goto, Compass!Shop, Compass!Requested
  <2>2. left # <<>> /\ day \in Nat \X Nat /\ DayNeeded'
    <3>1. left # <<>> /\ DayNeeded'
      BY <2>1 DEF CompassTypes, InShop, Dated, DayNeeded
    <3>2. runToday - 1 \in Nat
      BY ArgumentsFit DEF CompassTypes
    <3>3. QED
      BY <3>1, <3>2 DEF Compass!Yesterday
  <2> HIDE DEF day
  <2>3. Len(left') = Len(left) - 1 /\ \A x : Waits(x)' => Waits(x) /\ x # Head(left)
    BY <2>1, <2>2, TailEffect
  <2>4. /\ Due("operations")' = Due("operations")
        /\ \A n \in RunModules : n # "operations" => Due(n)' = Due(n) + 1
    <3>1. /\ Due("operations") = Len(args.shops) - Len(left) + 1
          /\ \A n \in RunModules : n # "operations" => Due(n) = Len(args.shops) - Len(left) + 0
          /\ \A n \in RunModules : Due(n)' = Len(args.shops) - Len(left') + 0
      BY <1>0, <2>1 DEF Due, OperationsRead
    <3>2. Len(args.shops) - Len(left') + 0 = Len(args.shops) - Len(left) + 0 + 1
      BY <1>0, <1>a, <2>3
    <3>3. Len(args.shops) - Len(left') + 0 = Len(args.shops) - Len(left) + 1
      BY <1>0, <1>a, <2>3
    <3>4. "operations" \in RunModules
      BY DEF RunModules
    <3>5. QED
      BY <3>1, <3>2, <3>3, <3>4
  <2>5. "douyin" \in RunModules /\ runPc \notin AfterOf("douyin")
    BY DEF RunModules, AfterOf
  <2>6. CASE UNCHANGED <<runItems, counts>> /\ "douyin" \notin args.modules
    <3>1. CountsFit'
      BY <1>0, <2>1, <2>4, <2>6 DEF CountsFit, Over, RunModules
    <3>2. ShopsOnce'
      BY <2>3, <2>6 DEF ShopsOnce
    <3>3. QED
      BY <2>2, <3>1, <3>2
  <2>7. CASE Compass!Item("douyin", [shop |-> Head(left), day |-> day])
    <3>1. CountsFit'
      BY <1>0, <1>9, <2>1, <2>2, <2>4, <2>5, <2>7 DEF CountsFit, Over, RunModules
    <3>2. ShopsOnce'
      <4>1. \A n \in RunModules : \A i \in 1..Len(runItems'[n]) :
                  /\ \A j \in 1..Len(runItems'[n]) : runItems'[n][i].shop = runItems'[n][j].shop => i = j
                  /\ Waits(runItems'[n][i].shop) => runItems'[n][i].shop = Head(left)
        BY <1>9, <2>2, <2>5, <2>7
      <4>2. QED
        BY <2>3, <4>1 DEF ShopsOnce
    <3>3. QED
      BY <2>2, <3>1, <3>2
  <2>8. CASE Compass!Error("douyin")
    <3>1. CountsFit'
      BY <1>0, <1>10, <2>1, <2>4, <2>5, <2>8 DEF CountsFit, Over, RunModules
    <3>2. runItems' = runItems
      BY <1>10, <2>5, <2>8
    <3>3. ShopsOnce'
      BY <2>3, <3>2 DEF ShopsOnce
    <3>4. QED
      BY <2>2, <3>1, <3>3
  <2>9. QED
    BY <2>1, <2>6, <2>7, <2>8
<1>16. QED
  BY <1>2, <1>3, <1>4, <1>5, <1>6, <1>7, <1>8, <1>12, <1>13, <1>14, <1>15 DEF Compass!Next

----------------------------------------------------------------------------
Written(m) == \E o \in outputs : o.module = m

\* After save_run has passed a module its items have a file, and a good state was
\* reported with the files that it tells of.
SavedTells ==
  /\ runPc \in {"save channel", "save douyin", "saved"}
       => runItems["operations"] = <<>> \/ Written("operations")
  /\ runPc \in {"save douyin", "saved"} => runItems["channel"] = <<>> \/ Written("channel")
  /\ runPc = "saved" => runItems["douyin"] = <<>> \/ Written("douyin")
  /\ runStatus = "success" => \A m \in args.modules : Written(m)
  /\ runStatus = "partial_success" => outputs # {}
  /\ runPc = "exit" /\ failures = 0 => runStatus \in {"success", "partial_success", "failed"}

LEMMA SavedInitial == Compass!Init => SavedTells
  BY DEF Compass!Init, SavedTells

LEMMA SavedStep ==
  CompassTypes /\ Counted /\ SavedTells /\ [Compass!Next]_compassVars => SavedTells'
<1> SUFFICES ASSUME CompassTypes, Counted, SavedTells, [Compass!Next]_compassVars
             PROVE  SavedTells'
  OBVIOUS
<1>0. args' = args /\ failures \in Nat
  BY DEF Compass!Next, compassVars, CompassTypes
\* A step of the run before it saves, or of the page.
<1>1. ASSUME UNCHANGED <<outputs, runStatus, failures>>,
             \/ runPc' \notin {"save channel", "save douyin", "saved", "exit"}
             \/ UNCHANGED <<runPc, runItems>>
      PROVE  SavedTells'
  BY <1>0, <1>1 DEF SavedTells, Written
<1>2. CASE Compass!Arrive \/ Compass!Midnight
  BY <1>1, <1>2 DEF Compass!Arrive, Compass!Midnight, Compass!resultVars, Compass!pageVars
<1>3. CASE Compass!Waiting \/ Compass!Running \/ Compass!Failed \/ Compass!LoginRequired \/ Compass!LoggedIn
  <2>1. /\ outputs' = outputs
        /\ \/ /\ runStatus' \in {"waiting_random", "running", "login_required"} /\ failures' = failures
              /\ runPc' \in {"start", "open", "login", "shop"}
           \/ runStatus' = "failed" /\ runPc' = "exit" /\ failures' = failures
           \/ runStatus' = runStatus /\ runPc' \in {"failing", "exit"} /\ failures' = failures + 1
    BY <1>3 DEF Compass!Waiting, Compass!Running, Compass!Failed, Compass!LoginRequired,
       Compass!LoggedIn, Compass!WriteStatus, Compass!resultVars, Compass!pageVars
  <2>2. failures' = failures + 1 => failures' # 0
    BY <1>0
  <2>3. QED
    BY <1>0, <2>1, <2>2 DEF SavedTells, Written
<1>4. CASE Compass!RunRaises \/ Compass!OpenPage \/ Compass!RunReturns
  BY <1>1, <1>4 DEF Compass!RunRaises, Compass!OpenPage, Compass!RunReturns, Compass!Goto, Compass!resultVars
<1>5. CASE Compass!StartShop \/ Compass!SwitchShop \/ Compass!ChooseDay \/ Compass!ConfirmDay
  BY <1>1, <1>5 DEF Compass!StartShop, Compass!SwitchShop, Compass!ChooseDay, Compass!ConfirmDay,
     Compass!Goto, Compass!resultVars
<1>6. CASE Compass!ShopFails \/ Compass!Operations \/ Compass!LoadChannel \/ Compass!Channel \/ Compass!Douyin
  BY <1>1, <1>6 DEF Compass!ShopFails, Compass!Operations, Compass!LoadChannel, Compass!Channel,
     Compass!Douyin, Compass!Goto
<1>7. ASSUME NEW m \in RunModules, NEW from, NEW to, NEW day, Compass!SaveFile(m, from, to, day)
      PROVE  /\ runPc = from /\ UNCHANGED <<runItems, runStatus, failures>>
             /\ outputs \subseteq outputs'
             /\ \/ runPc' = to /\ (runItems[m] = <<>> \/ Written(m)')
                \/ runPc' = "failing"
  <2>1. \A x : x \in {x} /\ [module |-> m, day |-> day].module = m
    OBVIOUS
  <2>2. QED
    BY <1>7, <2>1 DEF Compass!SaveFile, Written, Compass!pageVars
<1>8. CASE Compass!SaveOperations
  <2>1. /\ runPc = "save operations" /\ UNCHANGED <<runItems, runStatus, failures>>
        /\ outputs \subseteq outputs'
        /\ \/ runPc' = "save channel" /\ (runItems["operations"] = <<>> \/ Written("operations")')
           \/ runPc' = "failing"
    BY <1>7, <1>8 DEF Compass!SaveOperations, RunModules
  <2>2. QED
    BY <1>0, <2>1 DEF SavedTells, Written
<1>9. CASE Compass!SaveChannel
  <2>1. /\ runPc = "save channel" /\ UNCHANGED <<runItems, runStatus, failures>>
        /\ outputs \subseteq outputs'
        /\ \/ runPc' = "save douyin" /\ (runItems["channel"] = <<>> \/ Written("channel")')
           \/ runPc' = "failing"
    BY <1>7, <1>9 DEF Compass!SaveChannel, RunModules
  <2>2. QED
    BY <1>0, <2>1 DEF SavedTells, Written
<1>10. CASE Compass!SaveDouyin
  <2>1. /\ runPc = "save douyin" /\ UNCHANGED <<runItems, runStatus, failures>>
        /\ outputs \subseteq outputs'
        /\ \/ runPc' = "saved" /\ (runItems["douyin"] = <<>> \/ Written("douyin")')
           \/ runPc' = "failing"
    BY <1>7, <1>10 DEF Compass!SaveDouyin, RunModules
  <2>2. QED
    BY <1>0, <2>1 DEF SavedTells, Written
<1>11. CASE Compass!Report
  <2>1. /\ runPc = "saved" /\ UNCHANGED <<runItems, outputs>>
        /\ \/ runPc' = "failing" /\ runStatus' = runStatus
           \/ /\ outputs # {} /\ runPc' = "exit"
              /\ runStatus' = IF \E m \in args.modules : Compass!ModuleFailed(m)
                              THEN "partial_success" ELSE "success"
    BY <1>11 DEF Compass!Report, Compass!WriteStatus, Compass!resultVars, Compass!Requested
  <2>2. (\A m \in args.modules : ~Compass!ModuleFailed(m)) => \A m \in args.modules : Written(m)
    <3> SUFFICES ASSUME NEW m \in args.modules, ~Compass!ModuleFailed(m) PROVE Written(m)
      OBVIOUS
    <3>1. m \in RunModules
      BY ArgumentsFit DEF CompassTypes
    <3>2. counts[m].ok # 0 /\ counts[m].ok = Len(runItems[m])
      BY <3>1 DEF Compass!ModuleFailed, Counted, CountsFit
    <3>3. runItems[m] # <<>>
      BY <3>2
    <3>4. QED
      BY <2>1, <3>1, <3>3 DEF SavedTells, RunModules
  <2>3. QED
    BY <1>0, <2>1, <2>2 DEF SavedTells, Written
<1>12. CASE UNCHANGED compassVars
  BY <1>1, <1>12 DEF compassVars
<1>13. QED
  BY <1>2, <1>3, <1>4, <1>5, <1>6, <1>8, <1>9, <1>10, <1>11, <1>12 DEF Compass!Next

\* What a run says is what it did, for any command line and any failures.
THEOREM RunsAreAccounted == CollectorSpec => []RunAccounted
<1> DEFINE Inv == /\ CompassTypes /\ ConfirmsRightDay /\ FiledRight
                  /\ Counted /\ SavedTells
<1>1. CollectorInit => Inv
  BY CompassInitial, FiledInitial, CountedInitial, SavedInitial DEF CollectorInit
<1>2. [CollectorNext]_collectorVars => [Compass!Next]_compassVars
  BY DEF CollectorNext, collectorVars
<1>3. Inv /\ [CollectorNext]_collectorVars => Inv'
  <2>1. FiledRight => NoShopTwice
    BY DEF FiledRight
  <2>2. QED
    BY <1>2, <2>1, CompassTypesStep, FiledStep, CountedStep, SavedStep
<1>4. Inv => RunAccounted
  <2> SUFFICES ASSUME Inv PROVE RunAccounted
    OBVIOUS
  <2>1. Compass!StateTellsResult /\ Compass!ExitTellsEnd
    BY DEF SavedTells, Written, Compass!StateTellsResult, Compass!ExitTellsEnd, Compass!Requested
  <2>2. args.modules \subseteq RunModules
    BY ArgumentsFit DEF CompassTypes
  <2>3. Compass!EveryShopAccounted
    <3> SUFFICES ASSUME runPc \in {"shop", "saved"}, NEW m \in args.modules
                 PROVE  /\ counts[m].ok = Len(runItems[m])
                        /\ m # "channel" => counts[m].ok + counts[m].bad = Len(args.shops) - Len(left)
                        /\ \A i, j \in DOMAIN runItems[m] :
                             runItems[m][i].shop = runItems[m][j].shop => i = j
      BY DEF Compass!EveryShopAccounted, Compass!Requested, Compass!TargetShops
    <3>1. m \in RunModules /\ runPc \notin Over \cup OperationsRead
      BY <2>2 DEF Over, OperationsRead
    <3>2. counts[m].ok = Len(runItems[m])
      BY <3>1 DEF Counted, CountsFit
    <3>3. m # "channel" => counts[m].ok + counts[m].bad = Len(args.shops) - Len(left)
      <4>1. m # "channel" => counts[m].ok + counts[m].bad = Len(args.shops) - Len(left) + 0
        BY <3>1 DEF Counted, CountsFit, Due
      <4>2. Len(args.shops) \in Nat /\ Len(left) \in Nat
        BY ArgumentsFit DEF CompassTypes
      <4>3. QED
        BY <4>1, <4>2
    <3>4. DOMAIN runItems[m] = 1..Len(runItems[m])
      BY <3>1 DEF CompassTypes
    <3>5. \A i, j \in DOMAIN runItems[m] : runItems[m][i].shop = runItems[m][j].shop => i = j
      BY <3>1, <3>4 DEF Counted, ShopsOnce
    <3>6. QED
      BY <3>2, <3>3, <3>5
  <2>4. QED
    BY <2>1, <2>3 DEF RunAccounted
<1> HIDE DEF Inv
<1>5. QED
  BY <1>1, <1>3, <1>4, PTL DEF CollectorSpec

----------------------------------------------------------------------------
(***************************************************************************)
(* The status over the days                                                *)
(***************************************************************************)
Runs == Daily!Runs

\* Where a run has the lock, and where it has something to report.
Inside == {"waiting", "delay", "running", "collect", "merge", "report", "raised", "release",
           "release failed"}

DailyTypes ==
  /\ dayPc \in [Runs -> {"off", "start", "requested", "await", "skipped", "over", "exited"}
                          \cup Inside]
  /\ DOMAIN draft = Runs /\ DOMAIN result = Runs /\ DOMAIN merged = Runs
  /\ requested \in [Runs -> SUBSET StatusModules]
  /\ \A r \in Runs : draft[r] # None => dayPc[r] \in Daily!WritesStatus

\* The lock excludes: only the run that has it is inside.
OneInside == \A r \in Runs : dayPc[r] \in Inside => holder = r

\* A retry runs once a day.
RetryOnce == retried = None => dayPc["retry"] = "off"

\* A daily run asks for every module, and reports what it has collected.
DailyAsksAll ==
  /\ dayPc["daily"] # "off" => requested["daily"] = StatusModules
  /\ dayPc["daily"] = "report" => merged["daily"] = [m \in StatusModules |-> result["daily"][m]]

\* The module states that a run reports if it puts its own over the latest.
Reported(r) ==
  [m \in StatusModules |-> IF m \in requested[r] THEN result[r][m] ELSE latest[m]]

\* What a run's status writer makes of the status that it reads.
Merged(r) ==
  [state |-> Daily!StateOf(r), day |-> slot.day,
   modules |-> IF dayPc[r] = "report" THEN merged[r] ELSE status.modules]

\* While no writers overlap, what is about to be written is the latest, or a report on
\* top of it.
WritesLatest ==
  /\ status.modules = latest /\ latest = [m \in StatusModules |-> latest[m]]
  /\ \A r \in Runs : dayPc[r] = "report" => merged[r] = Reported(r)
  /\ \A q, r \in Runs : draft[q] # None /\ draft[r] # None => q = r
  /\ \A r \in Runs : draft[r] # None =>
       draft[r].modules = IF dayPc[r] = "report" THEN merged[r] ELSE latest

ReportsLatest == ~overlapped => WritesLatest

DailyInv == DailyTypes /\ OneInside /\ RetryOnce /\ DailyAsksAll /\ ReportsLatest

LEMMA RunsAre == Runs = {"daily", "manual", "retry"} /\ None \notin Runs
  BY RunsAssumption DEF Runs, Daily!Runs, Daily!StatusAssumption

LEMMA DailyInitial == Daily!Init => DailyInv
<1> SUFFICES ASSUME Daily!Init PROVE DailyInv
  OBVIOUS
<1>1. DailyTypes /\ OneInside /\ RetryOnce /\ DailyAsksAll
  BY RunsAre DEF Daily!Init, DailyTypes, OneInside, RetryOnce, DailyAsksAll, Inside, Runs
<1>2. WritesLatest
  BY RunsAre DEF Daily!Init, WritesLatest, Runs
<1>3. QED
  BY <1>1, <1>2 DEF DailyInv, ReportsLatest

LEMMA DailyStep == DailyInv /\ [Daily!Next]_dailyVars => DailyInv'
<1> SUFFICES ASSUME DailyInv, [Daily!Next]_dailyVars PROVE DailyInv'
  OBVIOUS
<1> USE RunsAre DEF DailyInv
<1>1. ASSUME NEW r \in Runs, Daily!ReadAndMerge(r) PROVE DailyInv'
  <2>1. /\ draft[r] = None /\ dayPc[r] \in Daily!WritesStatus
        /\ draft' = [draft EXCEPT ![r] = Merged(r)]
        /\ overlapped' = (overlapped \/ \E q \in Runs \ {r} : draft[q] # None)
        /\ UNCHANGED <<status, slot, retried, dayPc, holder, requested, result, merged, latest>>
    BY <1>1 DEF Daily!ReadAndMerge, Daily!runVars, Runs, Merged
  <2>0. Merged(r).modules = IF dayPc[r] = "report" THEN merged[r] ELSE status.modules
    BY DEF Merged
  <2>2. DailyTypes' /\ OneInside' /\ RetryOnce' /\ DailyAsksAll'
    BY <2>1 DEF DailyTypes, OneInside, RetryOnce, DailyAsksAll
  <2>3. CASE ~overlapped'
    <3>1. WritesLatest /\ \A q \in Runs \ {r} : draft[q] = None
      BY <2>1, <2>3 DEF ReportsLatest
    <3>2. Reported(r)' = Reported(r) /\ \A q \in Runs : Reported(q)' = Reported(q)
      BY <2>1 DEF Reported
    <3>3. WritesLatest'
      BY <2>1, <2>0, <3>1, <3>2 DEF WritesLatest, DailyTypes
    <3>4. QED
      BY <2>2, <3>3 DEF ReportsLatest
  <2>4. QED
    BY <2>2, <2>3 DEF ReportsLatest
<1>2. ASSUME NEW r \in Runs, Daily!Rename(r) PROVE DailyInv'
  <2>1. /\ draft[r] # None /\ status' = draft[r]
        /\ draft' = [draft EXCEPT ![r] = None]
        /\ dayPc' = [dayPc EXCEPT ![r] = Daily!NextOf(r)]
        /\ latest' = IF dayPc[r] = "report" THEN Reported(r) ELSE latest
        /\ UNCHANGED <<retried, holder, requested, result, merged, overlapped>>
    BY <1>2 DEF Daily!Rename, Reported
  <2>2. /\ dayPc[r] \in Daily!WritesStatus
        /\ Daily!NextOf(r) \in {"await", "over"} \cup Inside
        /\ Daily!NextOf(r) # "report"
        /\ Daily!NextOf(r) \in Inside => dayPc[r] \in Inside
    BY <2>1 DEF DailyTypes, Daily!WritesStatus, Daily!NextOf, Inside
  <2>3. \A q \in Runs : dayPc'[q] = IF q = r THEN Daily!NextOf(r) ELSE dayPc[q]
    BY <2>1 DEF DailyTypes
  <2>4. \A q \in Runs : draft'[q] = IF q = r THEN None ELSE draft[q]
    BY <2>1 DEF DailyTypes
  <2>5. DailyTypes'
    <3>1. DOMAIN draft' = Runs /\ DOMAIN result' = Runs /\ DOMAIN merged' = Runs
      BY <2>1 DEF DailyTypes
    <3>2. requested' \in [Runs -> SUBSET StatusModules]
      BY <2>1 DEF DailyTypes
    <3>3. dayPc' \in [Runs -> {"off", "start", "requested", "await", "skipped", "over", "exited"}
                          \cup Inside]
      BY <2>1, <2>2 DEF DailyTypes
    <3>4. \A q \in Runs : draft'[q] # None => dayPc'[q] \in Daily!WritesStatus
      BY <2>3, <2>4 DEF DailyTypes
    <3>5. QED
      BY <3>1, <3>2, <3>3, <3>4 DEF DailyTypes
  <2>6. OneInside'
    BY <2>1, <2>2, <2>3 DEF OneInside
  <2>7. RetryOnce'
    BY <2>1, <2>2, <2>3 DEF RetryOnce, Daily!WritesStatus
  <2>8. DailyAsksAll'
    BY <2>1, <2>2, <2>3 DEF DailyAsksAll, Daily!WritesStatus
  <2>9. CASE ~overlapped'
    <3>1. WritesLatest
      BY <2>1, <2>9 DEF ReportsLatest
    <3>2. \A q \in Runs : draft'[q] = None
      BY <2>1, <2>4, <3>1 DEF WritesLatest
    <3>3. status'.modules = latest'
      BY <2>1, <3>1 DEF WritesLatest
    <3>4. latest' = [m \in StatusModules |-> latest'[m]]
      BY <2>1, <3>1 DEF WritesLatest, Reported
    <3>5. ASSUME NEW q \in Runs, dayPc'[q] = "report" PROVE merged'[q] = Reported(q)'
      <4>1. q # r /\ dayPc[q] = "report"
        BY <2>2, <2>3, <3>5
      <4>2. dayPc[r] # "report"
        BY <4>1 DEF OneInside, Inside
      <4>3. latest' = latest /\ merged[q] = Reported(q)
        BY <2>1, <3>1, <4>1, <4>2 DEF WritesLatest
      <4>4. QED
        BY <2>1, <4>3 DEF Reported
    <3>6. QED
      BY <2>5, <2>6, <2>7, <2>8, <3>2, <3>3, <3>4, <3>5 DEF ReportsLatest, WritesLatest
  <2>10. QED
    BY <2>5, <2>6, <2>7, <2>8, <2>9 DEF ReportsLatest
<1>3. CASE Daily!StartDaily
  <2>1. /\ dayPc["daily"] = "off" /\ dayPc' = [dayPc EXCEPT !["daily"] = "start"]
        /\ requested' = [requested EXCEPT !["daily"] = StatusModules]
        /\ UNCHANGED <<status, draft, retried, holder, result, merged, latest, overlapped>>
    BY <1>3 DEF Daily!StartDaily, Daily!Goto, Daily!historyVars
  <2>2. \A q \in Runs : dayPc'[q] = IF q = "daily" THEN "start" ELSE dayPc[q]
    BY <2>1 DEF DailyTypes
  <2>3. DailyTypes'
    BY <2>1 DEF DailyTypes, Daily!WritesStatus
  <2>4. OneInside' /\ RetryOnce' /\ DailyAsksAll'
    BY <2>1, <2>2 DEF OneInside, RetryOnce, DailyAsksAll, DailyTypes, Inside
  <2>5. \A q \in Runs : q # "daily" => Reported(q)' = Reported(q)
    BY <2>1 DEF Reported, DailyTypes
  <2>6. draft["daily"] = None
    BY <2>1 DEF DailyTypes, Daily!WritesStatus
  <2>7. WritesLatest => WritesLatest'
    BY <2>1, <2>2, <2>5, <2>6 DEF WritesLatest
  <2>8. QED
    BY <2>1, <2>3, <2>4, <2>7 DEF ReportsLatest
<1>4. CASE Daily!StartRetry
  <2>1. /\ retried = None /\ retried' = Daily!RetryList
        /\ dayPc' \in {dayPc, [dayPc EXCEPT !["retry"] = "start"]}
        /\ requested' = [requested EXCEPT !["retry"] = Daily!RetryList]
        /\ UNCHANGED <<status, draft, holder, result, merged, latest, overlapped>>
    BY <1>4 DEF Daily!StartRetry, Daily!Goto, Daily!historyVars
  <2>2. Daily!RetryList \in SUBSET StatusModules /\ Daily!RetryList # None
    BY RunsAssumption DEF Daily!RetryList, Daily!StatusAssumption
  <2>3. dayPc["retry"] = "off"
    BY <2>1 DEF RetryOnce
  <2>4. /\ \A q \in Runs : q # "retry" => dayPc'[q] = dayPc[q]
        /\ dayPc'["retry"] \in {"off", "start"}
    BY <2>1, <2>3 DEF DailyTypes
  <2>5. DailyTypes'
    <3>1. dayPc' \in [Runs -> {"off", "start", "requested", "await", "skipped", "over", "exited"}
                          \cup Inside]
      BY <2>1 DEF DailyTypes
    <3>2. \A q \in Runs : draft'[q] # None => dayPc'[q] \in Daily!WritesStatus
      BY <2>1, <2>3, <2>4 DEF DailyTypes, Daily!WritesStatus
    <3>3. requested' \in [Runs -> SUBSET StatusModules]
      BY <2>1, <2>2 DEF DailyTypes
    <3>4. QED
      BY <2>1, <3>1, <3>2, <3>3 DEF DailyTypes
  <2>6. OneInside'
    BY <2>1, <2>4 DEF OneInside, Inside
  <2>7. RetryOnce' /\ DailyAsksAll'
    BY <2>1, <2>2, <2>4 DEF RetryOnce, DailyAsksAll, DailyTypes
  <2>8. \A q \in Runs : q # "retry" => Reported(q)' = Reported(q)
    BY <2>1 DEF Reported, DailyTypes
  <2>9. draft["retry"] = None
    BY <2>3 DEF DailyTypes, Daily!WritesStatus
  <2>10. WritesLatest => WritesLatest'
    BY <2>1, <2>4, <2>8, <2>9 DEF WritesLatest
  <2>11. QED
    BY <2>1, <2>5, <2>6, <2>7, <2>10 DEF ReportsLatest
<1>5. CASE Daily!RequestManual
  <2>1. /\ dayPc["manual"] = "off" /\ dayPc' = [dayPc EXCEPT !["manual"] = "requested"]
        /\ requested' = [requested EXCEPT !["manual"] = Manual]
        /\ UNCHANGED <<status, draft, retried, holder, result, merged, latest, overlapped>>
    BY <1>5 DEF Daily!RequestManual, Daily!Goto, Daily!historyVars
  <2>2. \A q \in Runs : dayPc'[q] = IF q = "manual" THEN "requested" ELSE dayPc[q]
    BY <2>1 DEF DailyTypes
  <2>3. DailyTypes'
    BY <2>1, RunsAssumption DEF DailyTypes, Daily!WritesStatus, Daily!StatusAssumption
  <2>4. OneInside' /\ RetryOnce' /\ DailyAsksAll'
    BY <2>1, <2>2 DEF OneInside, RetryOnce, DailyAsksAll, DailyTypes, Inside
  <2>5. \A q \in Runs : q # "manual" => Reported(q)' = Reported(q)
    BY <2>1 DEF Reported, DailyTypes
  <2>6. draft["manual"] = None
    BY <2>1 DEF DailyTypes, Daily!WritesStatus
  <2>7. WritesLatest => WritesLatest'
    BY <2>1, <2>2, <2>5, <2>6 DEF WritesLatest
  <2>8. QED
    BY <2>1, <2>3, <2>4, <2>7 DEF ReportsLatest
\* A run goes on, between the statuses.
<1>6. ASSUME NEW r \in Runs, NEW from, NEW to,
             dayPc[r] = from, dayPc' = [dayPc EXCEPT ![r] = to],
             from \notin Daily!WritesStatus \cup {"off"}, to # "report",
             to \in {"start", "skipped", "over", "exited"} \cup Inside,
             to \in Inside => holder' = r,
             \A q \in Runs \ {r} : holder = q /\ dayPc[q] \in Inside => holder' = q,
             \A q \in Runs \ {r} : result'[q] = result[q],
             DOMAIN result' = DOMAIN result,
             UNCHANGED <<status, draft, retried, requested, merged, latest, overlapped>>
      PROVE  DailyInv'
  <2>1. \A q \in Runs : dayPc'[q] = IF q = r THEN to ELSE dayPc[q]
    BY <1>6 DEF DailyTypes
  <2>2. draft[r] = None
    BY <1>6 DEF DailyTypes
  <2>3. DailyTypes'
    <3>1. dayPc' \in [Runs -> {"off", "start", "requested", "await", "skipped", "over", "exited"}
                          \cup Inside]
      BY <1>6 DEF DailyTypes
    <3>2. \A q \in Runs : draft'[q] # None => dayPc'[q] \in Daily!WritesStatus
      BY <1>6, <2>1, <2>2 DEF DailyTypes
    <3>3. QED
      BY <1>6, <3>1, <3>2 DEF DailyTypes
  <2>4. OneInside'
    BY <1>6, <2>1 DEF OneInside
  <2>5. RetryOnce'
    BY <1>6, <2>1 DEF RetryOnce
  <2>6. DailyAsksAll'
    BY <1>6, <2>1 DEF DailyAsksAll
  <2>7. \A q \in Runs : q # r => Reported(q)' = Reported(q)
    BY <1>6 DEF Reported
  <2>8. WritesLatest => WritesLatest'
    BY <1>6, <2>1, <2>2, <2>7 DEF WritesLatest
  <2>9. QED
    BY <1>6, <2>3, <2>4, <2>5, <2>6, <2>8 DEF ReportsLatest
<1>7. CASE Daily!AwaitLock
  <2>1. /\ dayPc["manual"] = "await" /\ dayPc' = [dayPc EXCEPT !["manual"] = "start"]
        /\ UNCHANGED <<status, draft, retried, holder, requested, result, merged, latest, overlapped>>
    BY <1>7 DEF Daily!AwaitLock, Daily!Goto, Daily!historyVars
  <2>2. QED
    BY <1>6, <2>1 DEF Daily!WritesStatus, Inside
<1>8. ASSUME NEW r \in Runs, Daily!AcquireLock(r) PROVE DailyInv'
  <2>1. /\ dayPc[r] = "start"
        /\ \/ holder = None /\ holder' = r /\ dayPc' = [dayPc EXCEPT ![r] = "waiting"]
           \/ holder' = holder /\ dayPc' = [dayPc EXCEPT ![r] = "skipped"]
        /\ UNCHANGED <<status, draft, retried, requested, result, merged, latest, overlapped>>
    BY <1>8 DEF Daily!AcquireLock, Daily!Goto, Daily!historyVars
  <2>2. QED
    BY <1>6, <2>1 DEF Daily!WritesStatus, Inside
<1>9. ASSUME NEW r \in Runs, Daily!DelayOver(r) PROVE DailyInv'
  <2>1. /\ dayPc[r] = "delay" /\ dayPc' = [dayPc EXCEPT ![r] = "running"]
        /\ UNCHANGED <<status, draft, retried, holder, requested, result, merged, latest, overlapped>>
    BY <1>9 DEF Daily!DelayOver, Daily!Goto, Daily!historyVars
  <2>2. QED
    BY <1>6, <2>1 DEF Daily!WritesStatus, Inside, OneInside
<1>10. ASSUME NEW r \in Runs, Daily!Collect(r) PROVE DailyInv'
  <2>1. /\ dayPc[r] = "collect"
        /\ \/ dayPc' = [dayPc EXCEPT ![r] = "merge"]
           \/ dayPc' = [dayPc EXCEPT ![r] = "raised"]
        /\ \/ \E outcome : result' = [result EXCEPT ![r] = outcome]
           \/ result' = result
        /\ UNCHANGED <<status, draft, retried, holder, requested, merged, latest, overlapped>>
    BY <1>10 DEF Daily!Collect, Daily!Goto, Daily!historyVars
  <2>2. DOMAIN result' = DOMAIN result /\ \A q \in Runs \ {r} : result'[q] = result[q]
    <3>1. CASE result' = result
      BY <3>1
    <3>2. ASSUME NEW outcome, result' = [result EXCEPT ![r] = outcome]
          PROVE  DOMAIN result' = DOMAIN result /\ \A q \in Runs \ {r} : result'[q] = result[q]
      BY <3>2 DEF DailyTypes
    <3>3. QED
      BY <2>1, <3>1, <3>2
  <2>3. holder = r
    BY <2>1 DEF OneInside, Inside
  <2>4. CASE dayPc' = [dayPc EXCEPT ![r] = "merge"]
    BY <1>6, <2>1, <2>2, <2>3, <2>4 DEF Daily!WritesStatus, Inside
  <2>5. CASE dayPc' = [dayPc EXCEPT ![r] = "raised"]
    BY <1>6, <2>1, <2>2, <2>3, <2>5 DEF Daily!WritesStatus, Inside
  <2>6. QED
    BY <2>1, <2>4, <2>5
<1>11. ASSUME NEW r \in Runs, Daily!ReleaseLock(r) PROVE DailyInv'
  <2>1. /\ dayPc[r] \in {"release", "release failed"}
        /\ \/ dayPc' = [dayPc EXCEPT ![r] = "over"]
           \/ dayPc' = [dayPc EXCEPT ![r] = "exited"]
        /\ UNCHANGED <<status, draft, retried, requested, result, merged, latest, overlapped>>
    BY <1>11 DEF Daily!ReleaseLock, Daily!Goto, Daily!historyVars
  <2>2. \A q \in Runs \ {r} : ~(holder = q /\ dayPc[q] \in Inside)
    BY <2>1 DEF OneInside, Inside
  <2>3. QED
    BY <1>6, <2>1, <2>2 DEF Daily!WritesStatus, Inside, OneInside
<1>12. ASSUME NEW r \in Runs, Daily!MergeModules(r) PROVE DailyInv'
  <2>1. /\ dayPc[r] = "merge" /\ dayPc' = [dayPc EXCEPT ![r] = "report"]
        /\ merged' = [merged EXCEPT ![r] =
             [m \in StatusModules |-> IF m \in requested[r] THEN result[r][m] ELSE status.modules[m]]]
        /\ UNCHANGED <<status, draft, retried, holder, requested, result, latest, overlapped>>
    BY <1>12 DEF Daily!MergeModules, Daily!Goto, Daily!historyVars
  <2>2. \A q \in Runs : /\ dayPc'[q] = IF q = r THEN "report" ELSE dayPc[q]
                        /\ q # r => merged'[q] = merged[q]
    BY <2>1 DEF DailyTypes
  <2>3. merged'[r] =
          [m \in StatusModules |-> IF m \in requested[r] THEN result[r][m] ELSE status.modules[m]]
    BY <2>1 DEF DailyTypes
  <2>4. draft[r] = None
    BY <2>1 DEF DailyTypes, Daily!WritesStatus
  <2>5. DailyTypes'
    <3>1. dayPc' \in [Runs -> {"off", "start", "requested", "await", "skipped", "over", "exited"}
                          \cup Inside]
      BY <2>1 DEF DailyTypes, Inside
    <3>2. DOMAIN merged' = Runs
      BY <2>1 DEF DailyTypes
    <3>3. \A q \in Runs : draft'[q] # None => dayPc'[q] \in Daily!WritesStatus
      BY <2>1, <2>2, <2>4 DEF DailyTypes
    <3>4. QED
      BY <2>1, <3>1, <3>2, <3>3 DEF DailyTypes
  <2>6. OneInside' /\ RetryOnce'
    BY <2>1, <2>2 DEF OneInside, RetryOnce, Inside
  <2>7. DailyAsksAll'
    <3>1. r = "daily" => requested[r] = StatusModules
      BY <2>1 DEF DailyAsksAll
    <3>2. r = "daily" => merged'[r] = [m \in StatusModules |-> result[r][m]]
      BY <2>3, <3>1
    <3>3. QED
      BY <2>1, <2>2, <3>2 DEF DailyAsksAll
  <2>8. WritesLatest => WritesLatest'
    <3>1. \A q \in Runs : Reported(q)' = Reported(q)
      BY <2>1 DEF Reported
    <3>2. WritesLatest => merged'[r] = Reported(r)
      BY <2>3 DEF WritesLatest, Reported
    <3>3. QED
      BY <2>1, <2>2, <2>4, <3>1, <3>2 DEF WritesLatest
  <2>9. QED
    BY <2>1, <2>5, <2>6, <2>7, <2>8 DEF ReportsLatest
<1>13. CASE Daily!TimePasses
  <2>1. /\ \/ dayPc' = dayPc /\ retried' = retried
           \/ /\ \A r \in Runs : dayPc[r] \in {"off", "over"}
              /\ dayPc' = [r \in Runs |-> "off"] /\ retried' = None
        /\ UNCHANGED <<status, draft, holder, requested, result, merged, latest, overlapped>>
    BY <1>13 DEF Daily!TimePasses, Runs
  <2>2. CASE dayPc' = dayPc /\ retried' = retried
    BY <2>1, <2>2 DEF DailyTypes, OneInside, RetryOnce, DailyAsksAll, ReportsLatest, WritesLatest, Reported
  <2>3. CASE dayPc' = [r \in Runs |-> "off"] /\ \A r \in Runs : dayPc[r] \in {"off", "over"}
    <3>1. \A r \in Runs : draft[r] = None
      BY <2>3 DEF DailyTypes, Daily!WritesStatus
    <3>2. DailyTypes'
      BY <2>1, <2>3, <3>1 DEF DailyTypes
    <3>3. OneInside' /\ RetryOnce' /\ DailyAsksAll'
      BY <2>3 DEF OneInside, RetryOnce, DailyAsksAll, Inside
    <3>4. WritesLatest => WritesLatest'
      BY <2>1, <2>3, <3>1 DEF WritesLatest
    <3>5. QED
      BY <2>1, <3>2, <3>3, <3>4 DEF ReportsLatest
  <2>4. QED
    BY <2>1, <2>2, <2>3
<1>14. CASE UNCHANGED dailyVars
  BY <1>14 DEF dailyVars, DailyTypes, OneInside, RetryOnce, DailyAsksAll, ReportsLatest, WritesLatest, Reported
<1>15. ASSUME NEW r \in Runs, Daily!RunStep(r) PROVE DailyInv'
  BY <1>1, <1>2, <1>8, <1>9, <1>10, <1>11, <1>12, <1>15 DEF Daily!RunStep
<1>16. QED
  BY <1>3, <1>4, <1>5, <1>7, <1>13, <1>14, <1>15 DEF Daily!Next, Runs

\* Unless two writers overlap, the status tells of each module what the latest run said.
THEOREM StatusIsLatest == CollectorSpec => []ModulesAsReported
<1>1. CollectorInit => DailyInv
  BY DailyInitial DEF CollectorInit
<1>2. DailyInv /\ [CollectorNext]_collectorVars => DailyInv'
  <2>1. [CollectorNext]_collectorVars => [Daily!Next]_dailyVars
    BY DEF CollectorNext, collectorVars
  <2>2. QED
    BY <2>1, DailyStep
<1>3. DailyInv => ModulesAsReported
  BY DEF DailyInv, ReportsLatest, WritesLatest, ModulesAsReported, Daily!ModulesAsReported
<1>4. QED
  BY <1>1, <1>2, <1>3, PTL DEF CollectorSpec

----------------------------------------------------------------------------
\* What the daily run reports of all its modules.
DailyReport ==
  [state |-> IF \A m \in StatusModules : result["daily"][m] = "success" THEN "success"
                                                                   ELSE "partial_success",
   day |-> slot.day, modules |-> [m \in StatusModules |-> result["daily"][m]]]

DailyFailed == {m \in StatusModules : result["daily"][m] # "success"}

\* The daily run's report of today is on its way, or in the file that nobody has written
\* since.
ReportIsToday ==
  /\ DOMAIN slot = {"day", "late"}
  /\ draft["daily"] # None /\ dayPc["daily"] = "report" => draft["daily"] = DailyReport
  /\ undisturbed =>
       /\ dayPc["daily"] \in {"release", "over"}
       /\ status = DailyReport /\ dailyEnd = DailyFailed

LEMMA ReportInitial == Daily!Init => ReportIsToday
  BY RunsAre DEF Daily!Init, ReportIsToday, Runs

LEMMA ReportStep == DailyInv /\ ReportIsToday /\ [Daily!Next]_dailyVars => ReportIsToday'
<1> SUFFICES ASSUME DailyInv, ReportIsToday, [Daily!Next]_dailyVars PROVE ReportIsToday'
  OBVIOUS
<1> USE RunsAre DEF DailyInv
<1>0. dayPc' \in [Runs -> {"off", "start", "requested", "await", "skipped", "over", "exited"} \cup Inside]
  BY DailyStep DEF DailyTypes
<1>1. ASSUME NEW r \in Runs, Daily!ReadAndMerge(r) PROVE ReportIsToday'
  <2>1. /\ draft[r] = None /\ draft' = [draft EXCEPT ![r] = Merged(r)]
        /\ UNCHANGED <<status, slot, dayPc, result, undisturbed, dailyEnd>>
    BY <1>1 DEF Daily!ReadAndMerge, Daily!runVars, Merged
  <2>2. DailyReport' = DailyReport /\ DailyFailed' = DailyFailed
    BY <2>1 DEF DailyReport, DailyFailed
  <2>3. dayPc["daily"] = "report" => Merged("daily") = DailyReport
    BY DEF Merged, DailyReport, DailyAsksAll, Daily!StateOf
  <2>4. draft'["daily"] = IF r = "daily" THEN Merged(r) ELSE draft["daily"]
    BY <2>1 DEF DailyTypes
  <2>5. QED
    BY <2>1, <2>2, <2>3, <2>4 DEF ReportIsToday
<1>2. ASSUME NEW r \in Runs, Daily!Rename(r) PROVE ReportIsToday'
  <2>1. /\ draft[r] # None /\ status' = draft[r]
        /\ draft' = [draft EXCEPT ![r] = None]
        /\ dayPc' = [dayPc EXCEPT ![r] = Daily!NextOf(r)]
        /\ undisturbed' = (r = "daily" /\ dayPc[r] = "report")
        /\ undisturbed' => dailyEnd' = Daily!Failed(r)
        /\ UNCHANGED <<slot, requested, result>>
    BY <1>2 DEF Daily!Rename
  <2>2. DailyReport' = DailyReport /\ DailyFailed' = DailyFailed
    BY <2>1 DEF DailyReport, DailyFailed
  <2>3. \A q \in Runs : draft'[q] = IF q = r THEN None ELSE draft[q]
    BY <2>1 DEF DailyTypes
  <2>4. \A q \in Runs : dayPc'[q] = IF q = r THEN Daily!NextOf(r) ELSE dayPc[q]
    BY <2>1 DEF DailyTypes
  <2>5. CASE r = "daily" /\ dayPc[r] = "report"
    <3>1. dailyEnd' = DailyFailed
      BY <2>1, <2>5 DEF Daily!Failed, DailyFailed, DailyAsksAll
    <3>2. dayPc'["daily"] = "release"
      BY <2>4, <2>5 DEF Daily!NextOf
    <3>3. QED
      BY <2>1, <2>2, <2>5, <3>1, <3>2 DEF ReportIsToday
  <2>6. CASE ~(r = "daily" /\ dayPc[r] = "report")
    BY <2>1, <2>2, <2>3, <2>4, <2>6 DEF ReportIsToday
  <2>7. QED
    BY <2>5, <2>6
\* Any step of a run that writes nothing and is none of the daily run's report.
<1>3. ASSUME UNCHANGED <<status, draft, undisturbed, dailyEnd>>,
             slot'.day = slot.day, DOMAIN slot' = DOMAIN slot,
             dayPc["daily"] \in {"release", "over", "report"} =>
               /\ dayPc'["daily"] = dayPc["daily"] \/ dayPc'["daily"] = "over"
               /\ result'["daily"] = result["daily"],
             dayPc["daily"] # "report" /\ dayPc'["daily"] = "report" => draft["daily"] = None
      PROVE  ReportIsToday'
  <2>1. dayPc["daily"] \in {"release", "over", "report"}
          => DailyReport' = DailyReport /\ DailyFailed' = DailyFailed
    BY <1>3 DEF DailyReport, DailyFailed
  <2>2. QED
    BY <1>3, <2>1 DEF ReportIsToday
<1>4. CASE Daily!StartDaily
  <2>1. /\ dayPc["daily"] = "off" /\ dayPc' = [dayPc EXCEPT !["daily"] = "start"]
        /\ UNCHANGED <<status, slot, draft, undisturbed, dailyEnd>>
    BY <1>4 DEF Daily!StartDaily, Daily!Goto, Daily!historyVars
  <2>2. dayPc'["daily"] = "start"
    BY <2>1 DEF DailyTypes
  <2>3. QED
    BY <1>3, <2>1, <2>2
<1>5. CASE Daily!StartRetry \/ Daily!RequestManual \/ Daily!AwaitLock
  <2>1. /\ dayPc' \in {dayPc, [dayPc EXCEPT !["retry"] = "start"],
                       [dayPc EXCEPT !["manual"] = "requested"],
                       [dayPc EXCEPT !["manual"] = "start"]}
        /\ UNCHANGED <<status, slot, draft, result, undisturbed, dailyEnd>>
    BY <1>5 DEF Daily!StartRetry, Daily!RequestManual, Daily!AwaitLock, Daily!Goto, Daily!historyVars
  <2>2. dayPc'["daily"] = dayPc["daily"]
    BY <2>1 DEF DailyTypes
  <2>3. QED
    BY <1>3, <2>1, <2>2
<1>6. ASSUME NEW r \in Runs,
             Daily!AcquireLock(r) \/ Daily!DelayOver(r) \/ Daily!MergeModules(r) \/ Daily!ReleaseLock(r)
      PROVE  ReportIsToday'
  <2>1. /\ dayPc[r] \in {"start", "delay", "merge", "release", "release failed"}
        /\ \E to \in {"waiting", "skipped", "running", "report", "over", "exited"} :
             /\ dayPc' = [dayPc EXCEPT ![r] = to]
             /\ dayPc[r] = "release" => to = "over"
        /\ UNCHANGED <<status, slot, draft, result, undisturbed, dailyEnd>>
    <3>1. CASE Daily!AcquireLock(r)
      BY <3>1 DEF Daily!AcquireLock, Daily!Goto, Daily!historyVars
    <3>2. CASE Daily!DelayOver(r)
      BY <3>2 DEF Daily!DelayOver, Daily!Goto, Daily!historyVars
    <3>3. CASE Daily!MergeModules(r)
      BY <3>3 DEF Daily!MergeModules, Daily!Goto, Daily!historyVars
    <3>4. CASE Daily!ReleaseLock(r)
      BY <3>4 DEF Daily!ReleaseLock, Daily!Goto, Daily!historyVars
    <3>5. QED
      BY <1>6, <3>1, <3>2, <3>3, <3>4
  <2>2. draft[r] = None
    BY <2>1 DEF DailyTypes, Daily!WritesStatus
  <2>3. dayPc["daily"] \in {"release", "over", "report"} =>
               dayPc'["daily"] = dayPc["daily"] \/ dayPc'["daily"] = "over"
    BY <2>1 DEF DailyTypes
  <2>4. dayPc["daily"] # dayPc'["daily"] => r = "daily"
    BY <2>1 DEF DailyTypes
  <2>5. QED
    BY <1>3, <2>1, <2>2, <2>3, <2>4
<1>7. ASSUME NEW r \in Runs, Daily!Collect(r) PROVE ReportIsToday'
  <2>1. /\ dayPc[r] = "collect"
        /\ \E to \in {"merge", "raised"} : dayPc' = [dayPc EXCEPT ![r] = to]
        /\ \/ \E outcome : result' = [result EXCEPT ![r] = outcome]
           \/ result' = result
        /\ UNCHANGED <<status, slot, draft, undisturbed, dailyEnd>>
    BY <1>7 DEF Daily!Collect, Daily!Goto, Daily!historyVars
  <2>2. r # "daily" => result'["daily"] = result["daily"] /\ dayPc'["daily"] = dayPc["daily"]
    BY <2>1 DEF DailyTypes
  <2>3. dayPc'["daily"] = "report" => r # "daily"
    BY <2>1 DEF DailyTypes
  <2>4. QED
    BY <1>3, <2>1, <2>2, <2>3
<1>8. CASE Daily!TimePasses
  <2>1. CASE /\ slot' = [slot EXCEPT !.late = TRUE]
             /\ UNCHANGED <<dayPc, undisturbed, dailyEnd, status, draft, result>>
    <3>1. DOMAIN slot' = DOMAIN slot /\ slot'.day = slot.day
      BY <2>1 DEF ReportIsToday
    <3>2. QED
      BY <1>3, <2>1, <3>1
  <2>2. CASE /\ dayPc' = [r \in Runs |-> "off"] /\ undisturbed' = FALSE
             /\ \E day, late : slot' = [day |-> day, late |-> late]
    BY <2>2 DEF ReportIsToday
  <2>3. QED
    BY <1>8, <2>1, <2>2 DEF Daily!TimePasses, Runs
<1>9. CASE UNCHANGED dailyVars
  BY <1>3, <1>9 DEF dailyVars
<1>10. ASSUME NEW r \in Runs, Daily!RunStep(r) PROVE ReportIsToday'
  BY <1>1, <1>2, <1>6, <1>7, <1>10 DEF Daily!RunStep
<1>11. QED
  BY <1>4, <1>5, <1>8, <1>9, <1>10 DEF Daily!Next, Runs

\* The retry of a day collects what the daily run, if nobody has written since, failed to.
THEOREM RetryIsForReport == CollectorSpec => RetryFitsReport
<1>1. CollectorInit => DailyInv /\ ReportIsToday
  BY DailyInitial, ReportInitial DEF CollectorInit
<1>2. [CollectorNext]_collectorVars => [Daily!Next]_dailyVars
  BY DEF CollectorNext, collectorVars
<1>3. DailyInv /\ ReportIsToday /\ [CollectorNext]_collectorVars => DailyInv' /\ ReportIsToday'
  BY <1>2, DailyStep, ReportStep
<1>4. ReportIsToday /\ [CollectorNext]_collectorVars
        => [retried = None /\ retried' # None /\ undisturbed /\ dailyEnd # None
              => retried' = dailyEnd]_(Daily!vars)
  <2> SUFFICES ASSUME ReportIsToday, [Daily!Next]_dailyVars,
                      retried = None, retried' # None, undisturbed, dailyEnd # None
               PROVE  retried' = dailyEnd
    BY <1>2
  <2>1. Daily!StartRetry
    BY DEF Daily!Next, Daily!RunStep, dailyVars, Daily!StartDaily, Daily!RequestManual, Daily!AwaitLock,
       Daily!ReadAndMerge, Daily!Rename, Daily!AcquireLock, Daily!DelayOver, Daily!Collect,
       Daily!MergeModules, Daily!ReleaseLock, Daily!TimePasses
  <2>2. retried' = Daily!RetryList
    BY <2>1 DEF Daily!StartRetry
  <2>3. /\ status.day = slot.day
        /\ status.state = IF DailyFailed = {} THEN "success" ELSE "partial_success"
        /\ {m \in StatusModules : status.modules[m] # "success"} = DailyFailed
    BY DEF ReportIsToday, DailyReport, DailyFailed
  <2>4. Daily!RetryList = DailyFailed
    BY <2>3 DEF Daily!RetryList
  <2>5. QED
    BY <2>2, <2>4 DEF ReportIsToday
<1>5. QED
  BY <1>1, <1>3, <1>4, PTL DEF CollectorSpec, RetryFitsReport, Daily!RetryFitsReport

----------------------------------------------------------------------------
(***************************************************************************)
(* The parts go on alone                                                   *)
(***************************************************************************)

\* What is proved of a part holds in the composition: the capture with or without
\* the panels, the run and the status take no other step than on their own.
THEOREM PartsGoOnAlone ==
  CollectorSpec => /\ part # "douyin" => Spec
                   /\ part # "channel" => PanelSpec
                   /\ Compass!Spec /\ Daily!Spec
<1>1. CollectorInit => Init /\ PanelInit /\ Compass!Init /\ Daily!Init
  BY DEF CollectorInit, PanelInit
<1>2. part # "douyin" /\ [CollectorNext]_collectorVars => (part # "douyin")' /\ [Next]_vars
  BY DEF CollectorNext, collectorVars, captureVars, pvars
<1>3. part # "channel" /\ [CollectorNext]_collectorVars => (part # "channel")' /\ [PanelNext]_pvars
  BY DEF CollectorNext, collectorVars, captureVars, pvars
<1>4. [CollectorNext]_collectorVars => [Compass!Next]_(Compass!vars)
  BY DEF CollectorNext, collectorVars, compassVars, Compass!vars, Compass!pageVars, Compass!resultVars
<1>5. [CollectorNext]_collectorVars => [Daily!Next]_(Daily!vars)
  BY DEF CollectorNext, collectorVars, dailyVars, Daily!vars, Daily!runVars, Daily!historyVars
<1>6. CollectorSpec => (part # "douyin" => Spec)
  BY <1>1, <1>2, PTL DEF CollectorSpec, Spec
<1>7. CollectorSpec => (part # "channel" => PanelSpec)
  BY <1>1, <1>3, PTL DEF CollectorSpec, PanelSpec
<1>8. CollectorSpec => Compass!Spec
  BY <1>1, <1>4, PTL DEF CollectorSpec, Compass!Spec
<1>9. CollectorSpec => Daily!Spec
  BY <1>1, <1>5, PTL DEF CollectorSpec, Daily!Spec
<1>10. QED
  BY <1>6, <1>7, <1>8, <1>9
=============================================================================
