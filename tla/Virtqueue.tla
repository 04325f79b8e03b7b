----------------------------- MODULE Virtqueue ------------------------------
(***************************************************************************)
(* What the two virtio devices of vvirtio.c have in common: where their    *)
(* queues are, and the arithmetic of ring indices.  Memory is divided into *)
(* blocks of the size of a VM's RAM, numbered from VM_IPA, so that guest   *)
(* block 0 is the RAM a guest sees.  A device reaches the queue by adding  *)
(* host_off to the guest address the guest gave it, which nothing checks.  *)
(***************************************************************************)
EXTENDS Integers, FiniteSets

CONSTANTS
  VMs,        \* the VMs with a device
  PA,         \* PA[vm]: the host RAM block stage-2 gives to vm
  Blocks,     \* the host RAM blocks
  QueueNum,   \* entries of the queue, at most QueueNumMax = 8
  IdxMod      \* 2^16: avail and used indices are uint16_t

ASSUME VirtqueueAssumption ==
  /\ QueueNum \in Nat \ {0}
  /\ IdxMod \in Nat \ {0}
  /\ QueueNum <= IdxMod /\ IdxMod % QueueNum = 0    \* both powers of two
  /\ Blocks \subseteq Int /\ 0 \in Blocks
  /\ \A vm \in VMs : PA[vm] \in Blocks
  /\ \A vm, wm \in VMs : PA[vm] = PA[wm] => vm = wm

Ring == 0 .. QueueNum - 1

\* An index advanced n times.
Adv(i, n) == (i + n) % IdxMod

\* How far index j is ahead of index i.
Ahead(j, i) == (j + IdxMod - i) % IdxMod
=============================================================================
