SPECIFICATION FairSpec
CONSTANTS
  Ports <- TwoPorts
  Plans <- AllPlans
  NBuf = 8
  MaxSockets = 3
INVARIANT SessionsRight
PROPERTY Served
CHECK_DEADLOCK FALSE
