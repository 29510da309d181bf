---------------------------- MODULE MCOrderLedger ----------------------------
(***************************************************************************)
(* Instances of OrderLedger: two workbooks that share an order, uploaded   *)
(* by three calls, one of which brings both.                               *)
(***************************************************************************)
EXTENDS OrderLedger

CONSTANTS o1, o2, o3, f1, f2, p1, p2, p3

ThreeOrders == {o1, o2, o3}
TwoFiles == {f1, f2}
TwoPreviews == {p1, p2}
ThreePreviews == {p1, p2, p3}
Workbooks == [f \in {f1, f2} |-> IF f = f1 THEN {o1, o2} ELSE {o2, o3}]
Uploads == [p \in {p1, p2, p3} |-> IF p = p1 THEN {f1} ELSE IF p = p2 THEN {f2} ELSE {f1, f2}]
TwoUploads == [p \in {p1, p2} |-> {f1}]
Days == [o \in {o1, o2, o3} |-> IF o = o3 THEN "monday" ELSE "sunday"]
=============================================================================
