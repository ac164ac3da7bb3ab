\* Two guests compete for one place while a presenter opens, pauses,
\* releases and deletes.
SPECIFICATION Spec
CONSTANTS
  MaxCapacity = 1
  Gen = {g1, g2}
  GuestHandlers = {a1, a2}
  PresenterHandlers = {p1}
  RecoveryWorkers = {}
  Requests = {"start", "renew", "open", "pause", "release", "delete"}
  MaxFaults = 0
  LeaseSuffices = FALSE
  NoGen = NoGen
  NoEvent = NoEvent
  NoSlot = NoSlot
  NoIndex = NoIndex
  NoReceipt = NoReceipt
SYMMETRY Symmetry
\* The event may be gone and every handler idle: the system may stop.
CHECK_DEADLOCK FALSE
INVARIANTS PurgeBeforeRelease HolderCanResume
PROPERTIES  KeepsPlaces
