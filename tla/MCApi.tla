-------------------------------- MODULE MCApi --------------------------------
(***************************************************************************)
(* What the API and the upload pages keep, checked together.               *)
(*                                                                         *)
(*   ledger       two workbooks that share an order, uploaded by three     *)
(*                calls, one of which brings both                          *)
(*   storage      two requests and a worker sync the database              *)
(*   accounts     three names; users.json has one of them as administrator *)
(*                or none at all, or a viewer only                         *)
(*   store        the Python order store with three workbooks: the first   *)
(*                has an order of two rows, a closed row and a row without *)
(*                a number, the second repeats an order of the first, adds *)
(*                the closed one as open and has no number at the same     *)
(*                place, the third repeats an order of each                *)
(*   settlements  three uploads, two of the same bytes under different     *)
(*                shops and names                                          *)
(*   jd           uploads of three workbooks, two of them of one day: both *)
(*                of these, one of each kind, and one alone                *)
(***************************************************************************)
EXTENDS Api, Sequences, TLC

CONSTANTS o1, o2, o3, f1, f2, v1, v2, v3,
          r1, r2, w1, b1, b2, d1, admin, ann, bob, m1, m2, l1, t1, t2, u1, u2, u3,
          s1, s2, s3, p1, p2, p3, c1, c2, c3

OrdersInDef == f1 :> {o1, o2} @@ f2 :> {o2, o3}
UploadDef   == v1 :> {f1} @@ v2 :> {f2} @@ v3 :> {f1, f2}
DayOfDef    == o1 :> "sunday" @@ o2 :> "sunday" @@ o3 :> "monday"

OneAccount(name, r) == [u \in Users |-> IF u = name THEN r ELSE None]
LegacyDef == {OneAccount(First, "admin"), OneAccount(ann, "viewer"), OneAccount(None, None)}

Row(number, paid, amount, quantity, closed) ==
  [number |-> number, paid |-> paid, shop |-> "shop", amount |-> amount,
   quantity |-> quantity, closed |-> closed]

ExportsDef ==
  [a |-> <<Row("n1", 1, 5, 1, FALSE), Row("n1", 1, 5, 2, FALSE),
           Row("n2", 1, 3, 1, TRUE), Row("none", 2, 4, 1, FALSE)>>,
   b |-> <<Row("n1", 1, 5, 1, FALSE), Row("n2", 1, 3, 1, FALSE),
           Row("n4", None, 1, 1, FALSE), Row("none", 2, 7, 1, FALSE)>>,
   c |-> <<Row("n2", 1, 3, 1, FALSE)>>]

SourceDef       == [a |-> "miaosuda", b |-> "miaosuda", c |-> "tmall_global"]
OrderUploadsDef == {<<"a", "b">>, <<"c">>}
BoundsDef       == {[secrets |-> 2, commands |-> {}], [secrets |-> 0, commands |-> {<<"b">>}]}

BytesOfDef == u1 :> "x" @@ u2 :> "x" @@ u3 :> "y"
NameOfDef  == u1 :> "settled" @@ u2 :> "again" @@ u3 :> "settled"
ShopOfDef  == u1 :> "north" @@ u2 :> "south" @@ u3 :> "north"

SlotOfDef  == s1 :> "sunday" @@ s2 :> "sunday" @@ s3 :> "sales"
FilesOfDef == p1 :> <<s1, s2>> @@ p2 :> <<s1, s3>> @@ p3 :> <<s2>>
=============================================================================
