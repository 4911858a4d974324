SPECIFICATION FairSpec
CONSTANTS
  ann = ann
  bob = bob
  eve = eve
  r1 = r1
  r2 = r2
  r3 = r3
  None = None
  NoTicket = NoTicket
  Members <- TwoPeople
  Requests <- TwoTabs
  Owner <- OwnerOfTwo
  Tickets <- OneSold
  Tier <- OneTier
  Avail <- OneFree
  Ids <- TwoRows
  MaxPg = 1
  MaxWaiting = 0
  MaxSeats = 1
  Editing = TRUE
  Approval = TRUE
  Linked <- OneSold
PROPERTIES RoomIsFound EveryFormIsAnswered
