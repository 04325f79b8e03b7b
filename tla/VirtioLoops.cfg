\* Queues of two entries, two buffers each; a queue address may lead to the other VM's
\* block.  Every loop may stop.
CONSTANTS
  VMs = {0, 1}
  PA <- TwoBlocks
  Blocks = {0, 1}
  GuestBlocks <- Around
  QueueNum = 2
  IdxMod = 4
  BufMod = 3
  MaxFirst = 1
  VCpus = {0, 1}
  Intids = {0, 20}
  NLR = 4
SPECIFICATION IrqSpec
INVARIANTS CompletesOnce PrintsInOrder CompletionSignalled
PROPERTY CompletionsSeen
CHECK_DEADLOCK FALSE
