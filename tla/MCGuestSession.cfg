\* Two requests of one guest at a time; the clock counts whatever unit is
\* one lease, and a token lives exactly as long as a place.
SPECIFICATION Spec
CONSTANTS
  Handlers = {h1, h2}
  LeaseTTL = 1
  GracePeriod = 1
  TokenTTL = 2
  WriteTimeout = 1
  Horizon = 3
  MaxFaults = 1
  NoPlace = NoPlace
  Never = Never
SYMMETRY Symmetry
\* The clock stops at the horizon and every handler may be idle.
CHECK_DEADLOCK FALSE
INVARIANTS TypeOK PromiseKept TokenRunsOut DeletedIsFinal 
PROPERTIES LeaseNeverShortened
