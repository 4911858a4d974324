SPECIFICATION Spec
CONSTANTS
  ann = ann
  bob = bob
  eve = eve
  r1 = r1
  r2 = r2
  r3 = r3
  None = None
  NoTicket = NoTicket
  Members <- People
  Requests <- Tabs
  Owner <- OwnerOfTab
  Tickets <- Sold
  Tier <- SoldTier
  Avail <- OneStandard
  Ids <- OneRow
  MaxPg = 2
  MaxWaiting = 1
  MaxSeats = 2
  Editing = FALSE
  Approval = FALSE
  Linked <- OneSold
INVARIANTS TypeOK PlayersWithinCap TicketWithinCap
