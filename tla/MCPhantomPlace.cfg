\* A pause in the middle of an admission.
SPECIFICATION Spec
CONSTANTS
  MaxCapacity = 1
  Gen = {g1}
  GuestHandlers = {a1}
  PresenterHandlers = {p1}
  RecoveryWorkers = {}
  Requests = {"start", "open", "pause"}
  MaxFaults = 0
  LeaseSuffices = FALSE
  NoGen = NoGen
  NoEvent = NoEvent
  NoSlot = NoSlot
  NoIndex = NoIndex
  NoReceipt = NoReceipt
SYMMETRY Symmetry
\* The event may be gone and every handler idle: the system may stop.
CHECK_DEADLOCK FALSE
INVARIANTS ReservedIsResumable
