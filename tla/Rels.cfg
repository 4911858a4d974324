SPECIFICATION FairSpec
CONSTANTS
  faction = faction
  hero = hero
  e1 = e1
  e2 = e2
  r1 = r1
  r2 = r2
  Absent = Absent
  Groups = {faction}
  Characters = {hero}
  Editors = {e1, e2}
  Readers = {r1, r2}
  Bounds <- Parties
INVARIANTS TypeOK StaleIsFlagged FreshRead
PROPERTIES FlagsAreHandled HealsInTheEnd
CHECK_DEADLOCK FALSE
