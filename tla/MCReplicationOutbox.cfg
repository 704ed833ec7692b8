SPECIFICATION FairSpec
CONSTANTS
  Peers = {p1, p2, p3}
  Keys = {k1}
  ReplicaSets = {{}, {p1}, {p1, p2}, {p2, p3}}
  Writers = {w1, w2}
  Workers = {x1, x2}
  Capacity = 2
  MaxAttempts = 2
  MaxVersion = 2
  NoItem = NoItem
  NoReservation = NoReservation
INVARIANTS
  WithinCapacity
  ReservationsHonoured
  OneSenderPerPair
  NewestIsKept
  NoSlotLeak
  QueueExact
PROPERTIES
  PublishedIsSettled
  ImplementsChannel
CHECK_DEADLOCK FALSE
