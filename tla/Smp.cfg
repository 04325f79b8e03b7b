\* Bring-up, timer ticks, keystrokes and one SGI competing for two list registers.
CONSTANTS
  Demos = {"M14", "M15", "M22", "M32"}
  VCpus = {0, 1}
  Intids = {0, 1, 27, 30, 33}
  NLR = 2
  VGIC_MAX_VCPUS = 2
  Redists <- TwoFrames
  Privates = {27, 30}
  Spis = {33}
  Sgis = {0}
  MaxKeys = 2
  OnArgs <- TwoOnArgs
  GicWrites <- DeviceWrites
SPECIFICATION Spec
INVARIANTS OnlyStartedRuns RxNotRepeated
PROPERTIES SecondaryNotRestarted DeviceIrqsGated SgiCarriedOnce
CHECK_DEADLOCK FALSE
