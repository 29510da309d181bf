----------------------------- MODULE ImportBook -----------------------------
(***************************************************************************)
(* What order imports promise to the dashboard: every order is counted     *)
(* once, under the batch that brought it; an import adds orders that were  *)
(* not there, and undoing a batch takes out exactly the orders it brought. *)
(***************************************************************************)
EXTENDS Naturals

CONSTANTS Orders, NoBatch

VARIABLES
  book,   \* the batch that each order was imported by, or NoBatch
  last    \* the number of the latest batch

Absent == {o \in Orders : book[o] = NoBatch}

Import ==
  /\ last' = last + 1
  /\ \E added \in (SUBSET Absent) \ {{}} :
       book' = [o \in Orders |-> IF o \in added THEN last + 1 ELSE book[o]]

Undo ==
  /\ \E b \in 1..last :
       /\ \E o \in Orders : book[o] = b
       /\ book' = [o \in Orders |-> IF book[o] = b THEN NoBatch ELSE book[o]]
  /\ UNCHANGED last

Init == book = [o \in Orders |-> NoBatch] /\ last = 0

Next == Import \/ Undo

Spec == Init /\ [][Next]_<<book, last>>
=============================================================================
