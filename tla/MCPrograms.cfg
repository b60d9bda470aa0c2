CONSTANTS
  Off <- MCOff
  Mod = 4
  DestSize = 6
  MaxRetrans = 3
  Retries = 3
  SenderWait = 1
  SenderTries = 4
  MaxErrs = 3
  Cores = {TRUE, FALSE}
  Periods = {0, 1, 8}
  Slow = 8
  Reload = 2
  Delay = 3
  Rounds = 2
  ArithWidth = 4
  BufSize = 7
  Slots = 4
  ShellKeys = {"m", "5", "SP", "BS"}
  Arity <- MCArity
  NumbersWidth = 8
  Dec = 3
  Hex = 4
  Stack = 8
  LastCase = 3
  TestRegs <- MCTestRegs
  MaxTraps = 3
SPECIFICATION MCSpec
INVARIANTS TypesOK ReceivedIsPrefix SuccessMeansAll ConsoleRight ShellRight FirmwareRight ImageRight OutputRight
PROPERTIES EverythingEnds
CHECK_DEADLOCK FALSE
