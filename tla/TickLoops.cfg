\* All the loops.  Each may end.
CONSTANTS
  VCpus = {0, 1}
  Intids = {0, 27, 30}
  NLR = 4
SPECIFICATION FairSpec
INVARIANT ShareKept
PROPERTIES TickFromOwnGic TickKept TickDelivered PowerOffEndsLoop
CHECK_DEADLOCK FALSE
