\* A recovery worker beside a guest who comes back and a presenter who
\* pauses; one failure anywhere.
SPECIFICATION Spec
CONSTANTS
  MaxCapacity = 1
  Gen = {g1, g2}
  GuestHandlers = {a1}
  PresenterHandlers = {p1}
  RecoveryWorkers = {r1}
  Requests = {"start", "renew", "open", "pause"}
  MaxFaults = 1
  LeaseSuffices = FALSE
  NoGen = NoGen
  NoEvent = NoEvent
  NoSlot = NoSlot
  NoIndex = NoIndex
  NoReceipt = NoReceipt
SYMMETRY Symmetry
\* The event may be gone and every handler idle: the system may stop.
CHECK_DEADLOCK FALSE
INVARIANTS PurgeBeforeRelease HolderCanResume ClaimInv
PROPERTIES OnlyExpiredReclaimed
