CONSTANTS
  NRx = 3
  Frames <- UdpFrame
  MaxFrames = 5
  MaxSends = 1
  MaxTries = 1
  LenBytes = 8
  MaxLine = 3
  MaxTx = 4
  Packets <- Typed
  Texts = {1, 2, 3}
  MaxPut = 7
  Junk = {0}
  SecTicks = 6
  Durations = {3, 6, 12}
  Longest = 12
  TicksPerRead = 1
  Plans <- UploadPlans
  BlockMod = 4
SPECIFICATION MCSpec
INVARIANTS TypesOK FramesHandled UploadRight
PROPERTIES FifoSpec TimerAccurate Handled MainLoopLives Rebooted
CHECK_DEADLOCK FALSE
