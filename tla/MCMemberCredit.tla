--------------------------- MODULE MCMemberCredit ---------------------------
(* Instances of MemberCredit: two registrations, two workers.              *)
EXTENDS MemberCredit, TLC

CONSTANTS reg1, reg2
TwoRegs == {reg1, reg2}
Ways == <<{"give", "gift", "save", "redeem"}, {"save", "redeem", "close", "refund"}>>
Ones == 1..1
Costs == {0, 1}
Symmetry == Permutations(TwoRegs)
=============================================================================
