\* A guest and two places: the walk over the numbers, a capacity that
\* changes under it, a deletion that lists the slots one by one.
SPECIFICATION Spec
CONSTANTS
  MaxCapacity = 2
  Gen = {g1, g2}
  GuestHandlers = {a1}
  PresenterHandlers = {p1}
  RecoveryWorkers = {}
  Requests = {"start", "open", "capacity", "delete"}
  MaxFaults = 1
  LeaseSuffices = FALSE
  NoGen = NoGen
  NoEvent = NoEvent
  NoSlot = NoSlot
  NoIndex = NoIndex
  NoReceipt = NoReceipt
SYMMETRY Symmetry
\* The event may be gone and every handler idle: the system may stop.
CHECK_DEADLOCK FALSE
INVARIANTS ReceiptCoversEveryone NothingLeftBehind
PROPERTIES KeepsPlaces
