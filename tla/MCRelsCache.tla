----------------------------- MODULE MCRelsCache -----------------------------
(* Instances of RelsCache: a faction and a character of it, with two        *)
(* concurrent changes, with two readers, and with a kill.                   *)
EXTENDS RelsCache

CONSTANTS faction, hero, e1, e2, r1, r2

Party(people, changes, kills) == [people |-> people, changes |-> changes, kills |-> kills]
Parties == {Party({e1, e2, r1}, 2, 0), Party({e1, r1, r2}, 1, 0), Party({e1, r1}, 1, 1)}
=============================================================================
