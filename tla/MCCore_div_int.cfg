CONSTANTS
  NWords = 6
  Mtvec = 4
  Programs <- ShadowFreePrograms
  CalcCycles = 3
  IntInputs = {TRUE, FALSE}
  DmOps = {}
  ResetAtRest = TRUE
  Body = {"alu", "div"}
  Handler = {"alu"}
  DivBody = {}
  DivHandler = {}
  Targets = {0}
SPECIFICATION Spec
INVARIANTS PreciseTraps
