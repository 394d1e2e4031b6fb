CONSTANTS
  e1 = e1
  e2 = e2
  e3 = e3
  shop = shop
  invoicing = invoicing
  Events = {e1, e2, e3}
  Nameless = {e3}
  Deliveries = {d1, d2}
  Consumers = {shop, invoicing}
  NoOne = NoOne
  NoEvent = NoEvent
  Listening <- TwoEars
  Owner <- OwnerOf
  MissLimit = 1
  MaxFaults = 2
SPECIFICATION FairSpec
INVARIANTS
  TypeOK
  HandledOnce
  PromiseKept
PROPERTIES
  EveryEventIsAnswered
