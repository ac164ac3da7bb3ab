\* An owner and a cohost at work on one event, three rotations at most,
\* two failures anywhere.
SPECIFICATION Spec
CONSTANTS
  Owner = owner
  Presenter = {p1}
  Invitation = {i1, i2, i3, i4}
  Grants = {{}, {"operate"}, {"delete"}}
  Handlers = {h1, h2}
  MaxFaults = 2
  NoEvent = NoEvent
  NoInvitation = NoInvitation
SYMMETRY Symmetry
\* The event may be gone and every handler idle: the system may stop.
CHECK_DEADLOCK FALSE
INVARIANTS TypeOK GivenInvitationAdmits SomeInvitationAdmits StraysAreFailures
PROPERTIES WritesPermitted
