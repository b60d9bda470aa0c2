CONSTANTS
  NWords = 6
  Mtvec = 4
  Programs <- AllPrograms
  CalcCycles = 3
  IntInputs = {FALSE}
  DmOps = {}
  ResetAtRest = TRUE
  Body = {"alu", "jmp", "ecall"}
  Handler = {"epc"}
  DivBody = {}
  DivHandler = {}
  Targets = {0, 2}
SPECIFICATION Spec
INVARIANTS PreciseTraps
