---------------------------- MODULE MCPaymentPlan ----------------------------
(* Instances of PaymentPlan: quotas before a near and a far event, and      *)
(* installments by days, by date, out of order, past and none at all.       *)
EXTENDS PaymentPlan

Quotas(n, s) == [kind |-> "quotas", quotas |-> n, start |-> s, terms |-> << >>]
Dated(s, ts) == [kind |-> "installments", quotas |-> 1, start |-> s, terms |-> ts]
Days(a, d) == [amount |-> a, due |-> "days", day |-> d]
Date(a, d) == [amount |-> a, due |-> "date", day |-> d]

SomePlans == {Quotas(n, s) : n \in 1..3, s \in {4, 12}} \cup
  {Dated(12, << >>), Dated(12, <<Days(2, 3), Date(0, 9)>>), Dated(12, <<Days(2, 9), Date(2, 5)>>),
   Dated(12, <<Date(3, 0 - 4), Days(3, 6)>>)}
TwoTerms == {Dated(12, <<Date(2, 2), Date(2, 8)>>)}
TwoPrices == {4, 6}
OnePrice == {4}
=============================================================================
