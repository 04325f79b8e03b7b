\* One of the tenants of M28; batches of up to two requests, transfers of one or two bytes.
\* Byte addresses wrap at 6: sector 2 is beyond the disk, sector 3 is sector 0 again.
CONSTANTS
  VMs = {1}
  PA <- SecondTenant
  Blocks = {0, 2}
  NChains = 2
  QueueNum = 8
  IdxMod = 8
  VBLK_SECTORS = 2
  VBLK_SECSZ = 2
  MaxSector = 3
  WordMod = 6
  MaxLen = 2
  Bytes = {0, 1}
SPECIFICATION BlkSpec
INVARIANT DiskIsOwnWrites
PROPERTY AnswersAsDisk
