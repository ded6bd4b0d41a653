---------------------------- MODULE MCCheckouts -----------------------------
(* Small instances of Checkouts: a task with a sibling checkout, and another. *)
EXTENDS Checkouts

CONSTANTS home, guest, main, side, other, tracked, local

TaskSet == {home, guest}
CheckoutSet == {main, side, other}
Owners == [c \in CheckoutSet |-> IF c = other THEN guest ELSE home]
Primaries == [x \in TaskSet |-> IF x = home THEN main ELSE other]
=============================================================================
