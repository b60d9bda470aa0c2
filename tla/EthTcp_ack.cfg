SPECIFICATION Spec
CONSTANTS
  Ports <- TwoPorts
  Plans <- OptionsPlan
  NBuf = 8
  MaxSockets = 3
INVARIANT AckedWasReceived
CHECK_DEADLOCK FALSE
