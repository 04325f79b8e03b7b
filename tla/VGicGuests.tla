----------------------------- MODULE VGicGuests -----------------------------
(***************************************************************************)
(* The emulated GIC of module VGic by itself, with guests that write any   *)
(* register of any frame the window holds, theirs or not, shown to         *)
(* implement the register banks of module GicBanks.                        *)
(***************************************************************************)
EXTENDS VGic

VARIABLE req     \* history: the last write that was trapped

guestVars == <<vgicVars, req>>

NoWrite == [reg |-> "none", at |-> <<>>, val |-> {}]

VGicInit ==
  /\ vg = [e \in Entries |-> ZeroState]
  /\ g_sgi_pending = [e \in Entries |-> {}]
  /\ g_ngicr = 1
  /\ req = NoWrite

\* The access is decoded to the frame and the register; a distributor access
\* carries no frame, and comes from any vCPU of the VM.
vgic_mmio_write(r, reg, val) ==
  /\ reg_write(r[1], reg, r[2], val)
  /\ req' = [reg |-> reg, at |-> r, val |-> val]
  /\ UNCHANGED <<g_sgi_pending, g_ngicr>>

VGicNext ==
  \/ vgic_reset /\ req' = NoWrite
  \/ \E n \in 1 .. VGIC_MAX_VCPUS : vgic_set_ngicr(n) /\ UNCHANGED req
  \/ \E r \in VMs \X Frames, reg \in Registers :
       \E val \in SUBSET BitsOf(reg) : vgic_mmio_write(r, reg, val)
  \/ \E c \in Entries, i \in Sgis : vgic_post_sgi(c, i) /\ UNCHANGED req
  \/ \E c \in Entries : vgic_pop_sgi(c) /\ UNCHANGED req

VGicSpec == VGicInit /\ [][VGicNext]_guestVars

-----------------------------------------------------------------------------
Banks == INSTANCE GicBanks WITH
  CtlrBits <- BitsOf("GICD_CTLR"),
  enabled <- [r \in Redists |-> reg_read(r[1], "GICR_ISENABLER0", r[2])],
  group   <- [r \in Redists |-> reg_read(r[1], "GICR_IGROUPR0", r[2])],
  spi     <- [vm \in VMs |-> reg_read(vm, "GICD_ISENABLER", 0)],
  ctlr    <- [vm \in VMs |-> reg_read(vm, "GICD_CTLR", 0)]

(* What a guest reads back from the frames presented to it and from its
   distributor is what was written there: no write is lost, and the accesses of
   other vCPUs to their frames, and of other VMs to their distributors, never
   show.  A VM's distributor is out of every other VM's reach; its frames are
   not: the entry is vm + frame, unchecked, so a VM that goes past the last
   frame presented to it writes one entry of the array, which may be another
   VM's bank. *)
ImplementsGicBanks == Banks!Spec
=============================================================================
