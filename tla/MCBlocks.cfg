CONSTANTS
  Data = {z, a, b}
  Zero = z
  UartBits = 4
  Baud = 7
  MaxBurst = 2
  Period = 9
  Ticks = 3
  MaxGap = 2
  SpiBits = 3
  SpiDivs = {0, 2}
  SpiBytes <- TwoBytes
  PollLag = 2
  Words = 3
  Vals = {0, 1}
  Regs = {0, 1}
  DpcReg = 1
  ScanGap = 2
  Drain = 1
SPECIFICATION MCSpec
INVARIANTS TypesOK BusyIsTheTruth ImageInStep AccessesTakeEffect
PROPERTIES DataStable ChannelSpec RpcFairSpec LineSpec EverythingArrives
CHECK_DEADLOCK FALSE
