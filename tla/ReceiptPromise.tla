-------------------------- MODULE ReceiptPromise --------------------------
(***************************************************************************)
(* What a person is promised about each receipt, without jobs, workers,    *)
(* retries or purchase rows: where the receipt stands, and how many of the *)
(* purchases made from it have prices that count.  ReceiptLifecycle is     *)
(* checked to implement it.                                                *)
(***************************************************************************)
EXTENDS Naturals

CONSTANT Docs

VARIABLES standing, counting

promise == <<standing, counting>>

Standings == {"unsent", "reading", "unreadable", "review", "kept", "removed"}

Init ==
  /\ standing = [d \in Docs |-> "unsent"]
  /\ counting = [d \in Docs |-> 0]

\* Receipt d goes from one of these standings to the next; prices stay.
Moves(d, from, to) ==
  /\ standing[d] \in from
  /\ standing' = [standing EXCEPT ![d] = to]
  /\ UNCHANGED counting

Send(d)       == Moves(d, {"unsent", "removed"}, "reading")
Read(d)       == Moves(d, {"reading"}, "review")
GiveUp(d)     == Moves(d, {"reading"}, "unreadable")
TryAgain(d)   == Moves(d, {"unreadable"}, "reading")
EnterByHand(d) == Moves(d, {"reading", "unreadable", "review"}, "kept")
Restore(d)    == Moves(d, {"removed"}, "kept")

\* Committing, deciding a line or voiding a price: only a kept receipt has
\* prices that count, and it has them once.
Record(d) ==
  /\ standing[d] \in {"review", "kept"}
  /\ standing' = [standing EXCEPT ![d] = "kept"]
  /\ \E n \in {0, 1} : counting' = [counting EXCEPT ![d] = n]

\* Removing a receipt takes its prices out with it.
Remove(d) ==
  /\ standing[d] \in {"unreadable", "review", "kept"}
  /\ standing' = [standing EXCEPT ![d] = "removed"]
  /\ counting' = [counting EXCEPT ![d] = 0]

Next == \E d \in Docs : Send(d) \/ Read(d) \/ GiveUp(d) \/ TryAgain(d) \/ EnterByHand(d)
                        \/ Restore(d) \/ Record(d) \/ Remove(d)

Spec == Init /\ [][Next]_promise
=============================================================================
