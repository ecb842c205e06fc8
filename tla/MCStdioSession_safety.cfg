SPECIFICATION Spec
CONSTANTS
  c1 = c1  c2 = c2  n1 = n1  r1 = r1
  Nobody = Nobody
  Calls <- TwoCalls
  Notes <- NoNotes
  SrvReqs <- OneReq
  MaxId = 2
  PipeCap = 1
  MaxOut = 3
SYMMETRY CallSymmetry
CHECK_DEADLOCK FALSE
INVARIANTS
  ReaderNeverBlocks
  OwnAnswer
  NoLeakedEntry
  NeverOrphaned
PROPERTY ContractSpec
