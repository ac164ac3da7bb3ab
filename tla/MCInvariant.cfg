\* Two presenters do anything to the event while a guest is admitted; one
\* failure anywhere.  Inv is the invariant of the proofs.
SPECIFICATION Spec
CONSTANTS
  MaxCapacity = 1
  Gen = {g1}
  GuestHandlers = {a1}
  PresenterHandlers = {p1, p2}
  RecoveryWorkers = {}
  Requests = {"start", "open", "pause", "capacity", "release", "delete"}
  MaxFaults = 1
  LeaseSuffices = FALSE
  NoGen = NoGen
  NoEvent = NoEvent
  NoSlot = NoSlot
  NoIndex = NoIndex
  NoReceipt = NoReceipt
SYMMETRY Symmetry
\* The event may be gone and every handler idle: the system may stop.
CHECK_DEADLOCK FALSE
INVARIANTS TypeOK Inv ReceiptCoversEveryone
PROPERTIES DeletionIsFinal
