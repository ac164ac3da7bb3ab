\* Two clients of either store: reads, conditional writes and deletions in
\* any order, with revisions kept across deletion and re-creation.
SPECIFICATION Spec
CONSTANTS
  Client = {c1, c2}
  Key = {k1, k2}
  Value = {v1, v2}
  Missing = Missing
  Purged = Purged
  MaxRevision = 5
\* The writes run out at MaxRevision, the reads do not.
CHECK_DEADLOCK FALSE
SYMMETRY Symmetry
INVARIANTS RevisionsOK
PROPERTIES KeepsContract
