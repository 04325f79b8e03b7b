-------------------------------- MODULE VGic --------------------------------
(***************************************************************************)
(* The software GICv3 of vgic.c: the distributor and redistributor state a *)
(* guest programs through trapped MMIO, and the mailbox of software        *)
(* generated interrupts (SGIs) between the vCPUs of a guest.  A bitmap is  *)
(* the set of the INTIDs whose bit is one.                                 *)
(***************************************************************************)
EXTENDS Naturals, FiniteSets

CONSTANTS
  VGIC_MAX_VCPUS,  \* length of the arrays; 4 in the code
  Redists,         \* the <<vm, frame>> pairs presented to the guests
  Privates,        \* SGI and PPI INTIDs in use (below 32)
  Spis,            \* SPI INTIDs in use (32 .. 255)
  Sgis             \* SGI INTIDs in use (0 .. 15)

\* The entry of vg[] behind frame f of VM vm.
Idx(vm, f) == IF vm + f >= VGIC_MAX_VCPUS THEN VGIC_MAX_VCPUS - 1 ELSE vm + f

Entries == 0 .. VGIC_MAX_VCPUS - 1

\* The frames vgic_contains lets every VM address, whatever it was presented.
Frames == 0 .. VGIC_MAX_VCPUS - 1

VMs == {r[1] : r \in Redists}

\* The two configurations the hypervisor sets up, several VMs of one frame
\* each and one VM of several frames, give every frame presented an entry of
\* its own.  The other frames share their entries with these.
ASSUME VGicAssumption ==
  /\ VGIC_MAX_VCPUS \in Nat \ {0}
  /\ Redists \subseteq Entries \X Frames
  /\ \A r, q \in Redists : Idx(r[1], r[2]) = Idx(q[1], q[2]) => r = q
  /\ Privates \subseteq 0 .. 31
  /\ Spis \subseteq 32 .. 255
  /\ Sgis \subseteq 0 .. 15

VARIABLES
  vg,              \* vg[e]: struct vgic_state
  g_sgi_pending,   \* g_sgi_pending[e]: SGIs posted to vCPU e, not yet taken
  g_ngicr          \* redistributor frames presented

vgicVars == <<vg, g_sgi_pending, g_ngicr>>

vgic_state == [gicd_ctlr : SUBSET (0 .. 31),
               enabled : SUBSET Privates,
               group : SUBSET Privates,
               spi_enabled : SUBSET Spis]

ZeroState == [gicd_ctlr |-> {}, enabled |-> {}, group |-> {}, spi_enabled |-> {}]

vgic_reset ==
  /\ g_ngicr' = 1
  /\ vg' = [e \in Entries |-> ZeroState]
  /\ g_sgi_pending' = [e \in Entries |-> {}]

vgic_set_ngicr(n) == g_ngicr' = n /\ UNCHANGED <<vg, g_sgi_pending>>

vgic_irq_enabled(vm, i) == i < 32 /\ i \in vg[vm].enabled

vgic_spi_enabled(vm, i) == i \in 32 .. 255 /\ i \in vg[vm].spi_enabled

\* A 32-bit register, or the pair a 64-bit access covers: its name, the frame
\* it is in (0 for the distributor) and the INTIDs whose bits are written as
\* one.  "other" is every register that ignores writes.
Registers == {"GICD_CTLR", "GICD_ISENABLER", "GICD_ICENABLER", "GICR_IGROUPR0",
              "GICR_ISENABLER0", "GICR_ICENABLER0", "other"}

\* Mutant of reg_write: one distributor for all VMs.
MutWriteSharedGicd(vm, reg, f, val) ==
  vg' = CASE reg = "GICD_ISENABLER" -> [vg EXCEPT ![0].spi_enabled = @ \union val]
          [] reg = "GICD_ICENABLER" -> [vg EXCEPT ![0].spi_enabled = @ \ val]
          [] OTHER -> vg

reg_write(vm, reg, f, val) ==
  LET e == Idx(vm, f)
  IN  vg' = CASE reg = "GICR_IGROUPR0"   -> [vg EXCEPT ![e].group = val]
              [] reg = "GICR_ISENABLER0" -> [vg EXCEPT ![e].enabled = @ \union val]
              [] reg = "GICR_ICENABLER0" -> [vg EXCEPT ![e].enabled = @ \ val]
              [] reg = "GICD_CTLR"       -> [vg EXCEPT ![vm].gicd_ctlr = val]
              [] reg = "GICD_ISENABLER"  -> [vg EXCEPT ![vm].spi_enabled = @ \union val]
              [] reg = "GICD_ICENABLER"  -> [vg EXCEPT ![vm].spi_enabled = @ \ val]
              [] OTHER -> vg

\* GICR_TYPER is its Last bit; the processor number and affinity fields, both
\* f, and the constant identification registers are left out.
reg_read(vm, reg, f) ==
  LET e == Idx(vm, f)
  IN  CASE reg = "GICD_CTLR"       -> vg[vm].gicd_ctlr
        [] reg = "GICR_TYPER"      -> IF f = g_ngicr - 1 THEN {4} ELSE {}
        [] reg = "GICR_IGROUPR0"   -> vg[e].group
        [] reg = "GICR_ISENABLER0" -> vg[e].enabled
        [] reg \in {"GICD_ISENABLER", "GICD_ICENABLER"} -> vg[vm].spi_enabled
        [] OTHER -> {}

vgic_post_sgi(self, i) ==
  /\ g_sgi_pending' = [e \in Entries |->
       IF e = self THEN g_sgi_pending[e] ELSE g_sgi_pending[e] \union {i}]
  /\ UNCHANGED <<vg, g_ngicr>>

\* Mutant of LowestSgi: the scan starts at the highest bit.
MutHighestSgi(c) == CHOOSE b \in g_sgi_pending[c] : \A d \in g_sgi_pending[c] : b >= d

LowestSgi(c) == CHOOSE b \in g_sgi_pending[c] : \A d \in g_sgi_pending[c] : b <= d

\* The SGIs a call for vCPU c removes from its mailbox: the one it returns,
\* or none.
PoppedSgi(c) == IF g_sgi_pending[c] = {} THEN {} ELSE {LowestSgi(c)}

\* Mutant of vgic_pop_sgi: the bit is not cleared.
Mut_pop_sgi_keeps(c) == UNCHANGED vgicVars

vgic_pop_sgi(c) ==
  /\ g_sgi_pending' = [g_sgi_pending EXCEPT ![c] = @ \ PoppedSgi(c)]
  /\ UNCHANGED <<vg, g_ngicr>>

-----------------------------------------------------------------------------
\* The bits of a register that the model tells apart.
BitsOf(reg) ==
  CASE reg \in {"GICD_ISENABLER", "GICD_ICENABLER"} -> Spis
    [] reg \in {"GICR_IGROUPR0", "GICR_ISENABLER0", "GICR_ICENABLER0"} -> Privates
    [] OTHER -> {1}

(* The arrays hold bitmaps. *)
VGicTypeOK ==
  /\ vg \in [Entries -> vgic_state]
  /\ g_sgi_pending \in [Entries -> SUBSET Sgis]
  /\ g_ngicr \in 1 .. VGIC_MAX_VCPUS
=============================================================================
