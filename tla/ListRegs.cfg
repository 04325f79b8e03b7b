\* The code's four list registers, and five INTIDs: SGIs 0 and 1, the two
\* timer PPIs and the UART SPI.  One vCPU: the actions never relate two.
CONSTANTS
  VCpus = {c0}
  Intids = {0, 1, 27, 30, 33}
  NLR = 4
SPECIFICATION LrSpec
INVARIANTS NoDuplicate InjectLosesOnlyWhenFull
PROPERTY ImplementsIrqLine
