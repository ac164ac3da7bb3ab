\* Liveness: with a recovery worker that always comes back and one failure
\* or crash anywhere, deletions complete, claims are cleaned up after and
\* expired places are reclaimed.  Symmetry is unsound for liveness and is
\* not used.
SPECIFICATION FairSpec
CONSTANTS
  MaxCapacity = 1
  Gen = {g1}
  GuestHandlers = {a1}
  PresenterHandlers = {p1}
  RecoveryWorkers = {r1}
  Requests = {"start", "renew", "open", "pause", "delete"}
  MaxFaults = 1
  LeaseSuffices = TRUE
  NoGen = NoGen
  NoEvent = NoEvent
  NoSlot = NoSlot
  NoIndex = NoIndex
  NoReceipt = NoReceipt
\* The event may be gone and every handler idle: the system may stop.
CHECK_DEADLOCK FALSE
INVARIANTS NothingLeftBehind
PROPERTIES DeletionCompletes ErasureCompletes ExpiredReclaimed
