----------------------------- MODULE Settlement ------------------------------
(***************************************************************************)
(* What the facilitator promises its callers about payments, without       *)
(* processes, journal or messages: a payment is transferred at most once,  *)
(* gets at most one verdict, and the verdict is the truth.  In particular  *)
(* no transfer happens after the caller was told the payment failed.       *)
(***************************************************************************)
CONSTANT Payments

VARIABLES
  paid,     \* payments whose transfer is final on the chain
  verdict   \* what the stored response tells the caller

Init ==
  /\ paid = {}
  /\ verdict = [h \in Payments |-> "none"]

Transfer(h) ==
  /\ h \notin paid
  /\ verdict[h] = "none"
  /\ paid' = paid \cup {h}
  /\ UNCHANGED verdict

Report(h, v) ==
  /\ verdict[h] = "none"
  /\ v = (IF h \in paid THEN "succeeded" ELSE "failed")
  /\ verdict' = [verdict EXCEPT ![h] = v]
  /\ UNCHANGED paid

Next == \E h \in Payments : Transfer(h) \/ \E v \in {"succeeded", "failed"} : Report(h, v)

Spec == Init /\ [][Next]_<<paid, verdict>>

=============================================================================
