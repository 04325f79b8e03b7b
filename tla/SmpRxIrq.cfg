\* A keystroke while SPI 33 cannot be queued.
CONSTANTS
  Demos = {"M32"}
  VCpus = {0, 1}
  Intids = {0, 1, 27, 30, 33}
  NLR = 4
  VGIC_MAX_VCPUS = 2
  Redists <- TwoFrames
  Privates = {27, 30}
  Spis = {33}
  Sgis = {0}
  MaxKeys = 2
  OnArgs <- OneOnArgs
  GicWrites <- UartWrites
SPECIFICATION Spec
INVARIANT RxIrqDelivered
CHECK_DEADLOCK FALSE
