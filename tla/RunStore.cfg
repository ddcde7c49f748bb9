\* Two files, every kind of outcome, two recordings each possibly cut short, one edit at any moment.
CONSTANTS
  Files = {f, g}
  Contents = {v1, v2}
  NoFile = NoFile
  InitialTree <- MCTree
  EvidenceIds = {"e1"}
  Outcomes <- MCOutcomes
  ClaimRefs <- MCOneClaim
  MaxEdits = 1
  MaxRecordings = 2
SPECIFICATION Spec
INVARIANTS
  GreenIsFresh
  GreenIsSupported
  UnchangedTreeReproduces
PROPERTIES
  VerifyReturns
CHECK_DEADLOCK FALSE
