\* Progress of both vCPUs; two SGIs, one list register.
CONSTANTS
  Demos = {"M15", "M22", "M32"}
  VCpus = {0, 1}
  Intids = {0, 1, 27, 30, 33}
  NLR = 1
  VGIC_MAX_VCPUS = 2
  Redists <- TwoFrames
  Privates = {27, 30}
  Spis = {33}
  Sgis = {0, 1}
  MaxKeys = 0
  OnArgs <- OneOnArgs
  GicWrites <- NoWrites
SPECIFICATION FairSpec
PROPERTIES CpuOnStartsSecondary BothRun OffEndsRun SgisDrain
CHECK_DEADLOCK FALSE
