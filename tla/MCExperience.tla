---------------------------- MODULE MCExperience ----------------------------
(* Instances of Experience: three abilities, one of which needs another;   *)
(* with free abilities, or bought by the system, or only by the player;    *)
(* two requests, or one with a change of the rules, or one with a kill.    *)
EXTENDS Experience, TLC

CONSTANTS q1, q2

Names == {"fencing", "riposte", "grit"}
Needs == [fencing |-> {}, riposte |-> {"fencing"}, grit |-> {}]

Discount == <<[of |-> "grit", needs |-> {"riposte"}, cost |-> 0],
              [of |-> "grit", needs |-> {"fencing"}, cost |-> 1]>>
Bonus == <<[needs |-> {"fencing"}, op |-> "ADD", amount |-> 1],
           [needs |-> {"riposte"}, op |-> "MUL", amount |-> 2]>>

Book(prices, points, modifiers, criterions, given, autobuy) ==
  [cost |-> prices, points |-> points, needs |-> Needs, visible |-> Names, modifiers |-> modifiers,
   criterions |-> criterions, free |-> given, autobuy |-> autobuy]

Dear == [fencing |-> 2, riposte |-> 2, grit |-> 2]
Gift == [fencing |-> 0, riposte |-> 2, grit |-> 2]

Priced == Book(Dear, 2, <<>>, Bonus, FALSE, FALSE)
Given  == Book(Gift, 4, Discount, <<>>, TRUE, FALSE)
Automatic == Book(Dear, 2, Discount, Bonus, TRUE, TRUE)

TwoCosts == {0, 2}
TwoPoints == {2, 4}
Limit(requests, changes, kills) == [requests |-> requests, changes |-> changes, kills |-> kills]
Limits == {Limit(2, 0, 0), Limit(1, 1, 0), Limit(1, 0, 1)}

Characters == {[book |-> b, left |-> l] : b \in {Priced, Given, Automatic}, l \in Limits}
=============================================================================
