SPECIFICATION FairSpec
CONSTANTS
  c1 = c1  c2 = c2  n1 = n1  r1 = r1
  Nobody = Nobody
  Calls <- OneCall
  Notes <- OneNote
  SrvReqs <- OneReq
  MaxId = 1
  PipeCap = 1
  MaxOut = 2
CHECK_DEADLOCK FALSE
PROPERTIES
  CallsReturn
  RequestsAnswered
  CloseUnblocks
  StdoutDrains
