SPECIFICATION Spec
CONSTANTS
  Generations = 2
  Digests = {d1, d2}
  Gateways = {g1, g2}
  NoRun = NoRun
PROPERTIES SiblingsStay
CHECK_DEADLOCK FALSE
