SPECIFICATION Spec
CONSTANTS
  Generations = 3
  Digests = {d1}
  Gateways = {g1}
  NoRun = NoRun
INVARIANTS IndexVerifies BlobsVerify
CHECK_DEADLOCK FALSE
