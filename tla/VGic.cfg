\* Two VMs presented one redistributor frame each (M18, M19, M21), which address
\* two: the second is the other VM's for VM 0 and, clamped, its own again for VM 1.
CONSTANTS
  VGIC_MAX_VCPUS = 2
  Redists <- TwoVms
  Privates = {27}
  Spis = {33}
  Sgis = {0}
SPECIFICATION VGicSpec
PROPERTY ImplementsGicBanks
