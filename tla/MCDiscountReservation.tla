----------------------- MODULE MCDiscountReservation -----------------------
(* Small instances of DiscountReservation for TLC. *)
EXTENDS DiscountReservation, TLC

CONSTANTS q1, q2, q3, m1, m2, m3, d1, d2, u1, u2, u3, u4

\* Codes are entered while a member saves and organizers add and remove uses.
ServesUses == (q1 :> {"code"}) @@ (q2 :> {"code", "save"}) @@ (q3 :> {"list", "remove", "cancel", "add"})

RedeemOne == (d1 :> 1)
TypeOne == (d1 :> "standard")

Symmetry == Permutations(Members) \cup Permutations(Rows)
=============================================================================
