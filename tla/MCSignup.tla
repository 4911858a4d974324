------------------------------ MODULE MCSignup ------------------------------
(* Instances of Signup: three members, the first of whom has the form open *)
(* in two tabs; players' tickets and a place on the waiting list.          *)
EXTENDS Signup, TLC

CONSTANTS ann, bob, eve, r1, r2, r3

People == {ann, bob, eve}
TwoPeople == {ann, bob}
Tabs == 1..4
TwoTabs == 1..2
OwnerOfTab == <<ann, ann, bob, eve>>
OwnerOfTwo == <<ann, bob>>

OneRow == {r1}
TwoRows == {r1, r2}
Rows == {r1, r2, r3}

\* One standard ticket, so that the event has room for another player when it is gone.
Sold == {"standard", "reduced", "waiting"}
SoldTier == [standard |-> "player", reduced |-> "player", waiting |-> "waiting"]
OneStandard == [standard |-> 1, reduced |-> 0, waiting |-> 0]
OneSold == {"standard"}
OneTier == [standard |-> "player"]
OneFree == [standard |-> 0]
=============================================================================
