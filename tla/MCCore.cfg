CONSTANTS
  NWords = 6
  Mtvec = 4
  Programs <- CorePrograms
  CalcCycles = 3
  IntInputs = {TRUE, FALSE}
  DmOps = {"halt", "resume", "reset", "access", "dmstatus"}
  ResetAtRest = TRUE
  Body = {"mem", "br", "csrs", "ecall"}
  Handler = {"epc"}
  DivBody = {"mem", "br", "div", "csrs", "ebreak"}
  DivHandler = {"epc", "alu"}
  Targets = {0, 2}
SPECIFICATION CoreSpec
INVARIANTS TypeOK InOrder PreciseTraps CsrsFollow CsrsCoherent
PROPERTIES HaltedStaysDrained DivNotAborted ImplementsIsa
