\* Two goroutines, a clock that may be set forward or back, one restart.
SPECIFICATION Spec
CONSTANTS
  Callers <- MCCallers
  None = "none"
  Tick = 2
  Shifts <- MCShifts
  MaxTime = 7
  MaxShifts = 1
  MaxIds = 3
  MaxRestarts = 1
INVARIANTS IInv MutualExclusion GrowsInProcess UniqueUnlessSetBack OneNapUnlessSetBack
\* The bounds on time and calls end every behaviour.
CHECK_DEADLOCK FALSE
