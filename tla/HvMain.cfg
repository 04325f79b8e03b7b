\* Five ticks awaited in M6a; intervals of one and three counts, handlers up to
\* ten deadlines late.
CONSTANTS
  MaxNow = 10
  Intervals = {1, 3}
  NTicks = 5
  MainInterval = 1
SPECIFICATION FairMainSpec
INVARIANTS NoDrift NeverEarly ResumesUnharmed
PROPERTIES CatchesUp BootProceeds
