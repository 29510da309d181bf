----------------------------- MODULE SingleSlot -----------------------------
(***************************************************************************)
(* What the collection queue promises to those who POST to it: a slot for  *)
(* one request.  A request enters only when no other one is queued or      *)
(* being worked on; it is taken, possibly put back when the worker service *)
(* is interrupted, and settled once.                                       *)
(***************************************************************************)
CONSTANT Clients

VARIABLE phase

Phases == {"out", "queued", "taken", "settled"}

TypeOK == phase \in [Clients -> Phases]

Free == \A c \in Clients : phase[c] \in {"out", "settled"}

Move(c, from, to) == phase[c] = from /\ phase' = [phase EXCEPT ![c] = to]

Enqueue(c) == Free /\ Move(c, "out", "queued")
TakeUp(c) == Move(c, "queued", "taken")
PutBack(c) == Move(c, "taken", "queued")
Settle(c) == Move(c, "taken", "settled")

Init == phase = [c \in Clients |-> "out"]

Next == \E c \in Clients : Enqueue(c) \/ TakeUp(c) \/ PutBack(c) \/ Settle(c)

Spec == Init /\ [][Next]_phase
=============================================================================
