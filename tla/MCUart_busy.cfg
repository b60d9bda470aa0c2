CONSTANTS
  DataBits = 3
  Baud = 6
  DriverOps = {"putc", "getc"}
  MaxBurst = 2
SPECIFICATION Spec
INVARIANTS BusyMeansWork
