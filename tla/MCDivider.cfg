CONSTANTS
  W = 3
  Regs = {0}
SPECIFICATION FairSpec
INVARIANT ResultsRight
PROPERTY ControlRight
