CONSTANTS
  NWords = 6
  Mtvec = 4
  Programs <- ShadowFreePrograms
  CalcCycles = 2
  ResetAtRest = TRUE
  IntInputs = {TRUE, FALSE}
  DmOps = {"halt", "resume", "reset", "access", "dmstatus"}
  Body = {"mem", "div"}
  Handler = {"epc"}
  DivBody = {}
  DivHandler = {}
  Targets = {0}
SPECIFICATION FairSpec
PROPERTIES Progress HaltStops
