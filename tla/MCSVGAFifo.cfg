SPECIFICATION FairSpec
CONSTANTS
  Threads = {t1, t2}
  Payloads = {p1}
  NoThread = NoThread
  Nothing = Nothing
  Free = Free
  Min = 2
  Max = 5
  BounceSize = 2
  Devices <- MCDevices
  Sizes = {1, 2}
  FenceMod = 4
INVARIANTS
  TypeOK
  NoStrayReservation
  RoomReserved
  SyncedMeansRead
  DoorbellWakes
PROPERTIES
  QueueRefinement
  ReserveReturns
  SyncToFenceReturns
