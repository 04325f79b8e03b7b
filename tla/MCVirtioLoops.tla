---------------------------- MODULE MCVirtioLoops ----------------------------
EXTENDS VirtioLoops

\* VM 0 in the block host_off = 0 leads to, VM 1 in the next.
TwoBlocks == [vm \in {0, 1} |-> vm]

\* A guest's own RAM and the blocks before and after it.
Around == -1 .. 1
==============================================================================
