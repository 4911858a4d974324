---------------------- MODULE MCRegistrationAccounting ----------------------
(* Instances of RegistrationAccounting: two runs with a cheap and a dear   *)
(* price, and gifts that pay a part of either; or one price, and three     *)
(* registrations that are cancelled, refunded and made again.              *)
EXTENDS RegistrationAccounting

TwoRuns == {"spring", "autumn"}

PricesMove ==
  [prices |-> {10, 30}, amounts |-> {10, 20}, regs |-> 2, pays |-> 1, given |-> 20,
   enabled |-> {"money", "accept", "close", "drop"}]

RegistrationsEnd ==
  [prices |-> {30}, amounts |-> {20}, regs |-> 3, pays |-> 2, given |-> 40,
   enabled |-> {"money", "cancel", "friend"}]

Instances == {PricesMove, RegistrationsEnd}
=============================================================================
