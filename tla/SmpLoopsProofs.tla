--------------------------- MODULE SmpLoopsProofs ---------------------------
(***************************************************************************)
(* Proofs about the emulated GIC (module VGicGuests) and the SMP loops     *)
(* that use it (module SmpLoops).  The GIC: for any array length and any   *)
(* redistributor frames presented that have an entry each, the shared      *)
(* arrays implement the banks of module GicBanks.  The                     *)
(* loops: for any number of list registers, any SGIs, CPU_ON arguments,    *)
(* GIC writes of the guest and keystrokes, vCPU 1 runs only once started   *)
(* and is started once, device interrupts come only where the guest        *)
(* enabled them, and SGIs are carried once.                                *)
(***************************************************************************)
EXTENDS SmpLoops, VGicGuests, ListRegsProofs

(* Every frame's and every VM's entry is in the array. *)
LEMMA IdxInRange ==
  /\ \A vm \in Entries, f \in Frames : Idx(vm, f) \in Entries
  /\ VMs \subseteq Entries
  /\ \A r \in Redists : r \in VMs \X Frames
BY VGicAssumption DEF Idx, Entries, Frames, VMs

\* Entry x of the array after a write to register reg of entry e or VM vm.
Written(x, e, vm, reg, val) ==
  /\ vg'[x].enabled =
       IF x = e /\ reg = "GICR_ISENABLER0" THEN vg[x].enabled \union val
       ELSE IF x = e /\ reg = "GICR_ICENABLER0" THEN vg[x].enabled \ val
       ELSE vg[x].enabled
  /\ vg'[x].group =
       IF x = e /\ reg = "GICR_IGROUPR0" THEN val ELSE vg[x].group
  /\ vg'[x].spi_enabled =
       IF x = vm /\ reg = "GICD_ISENABLER" THEN vg[x].spi_enabled \union val
       ELSE IF x = vm /\ reg = "GICD_ICENABLER" THEN vg[x].spi_enabled \ val
       ELSE vg[x].spi_enabled
  /\ vg'[x].gicd_ctlr =
       IF x = vm /\ reg = "GICD_CTLR" THEN val ELSE vg[x].gicd_ctlr

(* What a register write leaves in the array: at most one field of one entry
   is changed. *)
LEMMA WriteOneField ==
  ASSUME vg \in [Entries -> vgic_state], NEW vm \in Entries, NEW f \in Frames,
         NEW reg \in Registers, NEW val \in SUBSET BitsOf(reg),
         reg_write(vm, reg, f, val)
  PROVE  /\ vg' \in [Entries -> vgic_state]
         /\ \A x \in Entries : Written(x, Idx(vm, f), vm, reg, val)
<1> DEFINE e == Idx(vm, f)
<1>0. e \in Entries
  BY IdxInRange
<1> HIDE DEF e
<1>u. vg' = CASE reg = "GICR_IGROUPR0"   -> [vg EXCEPT ![e].group = val]
              [] reg = "GICR_ISENABLER0" -> [vg EXCEPT ![e].enabled = @ \union val]
              [] reg = "GICR_ICENABLER0" -> [vg EXCEPT ![e].enabled = @ \ val]
              [] reg = "GICD_CTLR"       -> [vg EXCEPT ![vm].gicd_ctlr = val]
              [] reg = "GICD_ISENABLER"  -> [vg EXCEPT ![vm].spi_enabled = @ \union val]
              [] reg = "GICD_ICENABLER"  -> [vg EXCEPT ![vm].spi_enabled = @ \ val]
              [] OTHER -> vg
  BY DEF reg_write, e
<1>1. CASE reg = "GICR_IGROUPR0"
  <2>1. val \subseteq Privates
    BY <1>1 DEF BitsOf
  <2>2. vg' = [vg EXCEPT ![e].group = val]
    BY <1>u, <1>1
  <2> QED BY <1>0, <1>1, <2>1, <2>2 DEF vgic_state, Written, e
<1>2. CASE reg = "GICR_ISENABLER0"
  <2>1. val \subseteq Privates
    BY <1>2 DEF BitsOf
  <2>2. vg' = [vg EXCEPT ![e].enabled = @ \union val]
    BY <1>u, <1>2
  <2> QED BY <1>0, <1>2, <2>1, <2>2, Zenon DEF vgic_state, Written, e
<1>3. CASE reg = "GICR_ICENABLER0"
  <2>2. vg' = [vg EXCEPT ![e].enabled = @ \ val]
    BY <1>u, <1>3
  <2> QED BY <1>0, <1>3, <2>2, Zenon DEF vgic_state, Written, e
<1>4. CASE reg = "GICD_CTLR"
  <2>1. val \subseteq 0 .. 31
    BY <1>4 DEF BitsOf
  <2>2. vg' = [vg EXCEPT ![vm].gicd_ctlr = val]
    BY <1>u, <1>4
  <2> QED BY <1>0, <1>4, <2>1, <2>2 DEF vgic_state, Written, e
<1>5. CASE reg = "GICD_ISENABLER"
  <2>1. val \subseteq Spis
    BY <1>5 DEF BitsOf
  <2>2. vg' = [vg EXCEPT ![vm].spi_enabled = @ \union val]
    BY <1>u, <1>5
  <2> QED BY <1>0, <1>5, <2>1, <2>2, Zenon DEF vgic_state, Written, e
<1>6. CASE reg = "GICD_ICENABLER"
  <2>2. vg' = [vg EXCEPT ![vm].spi_enabled = @ \ val]
    BY <1>u, <1>6
  <2> QED BY <1>0, <1>6, <2>2, Zenon DEF vgic_state, Written, e
<1>7. CASE reg = "other"
  <2>2. vg' = vg
    BY <1>u, <1>7
  <2> QED BY <1>7, <2>2 DEF Written, e
<1> QED BY <1>1, <1>2, <1>3, <1>4, <1>5, <1>6, <1>7 DEF Registers

-----------------------------------------------------------------------------
(* The arrays start zeroed, with one frame. *)
LEMMA InitType == VGicInit => VGicTypeOK
BY VGicAssumption DEF VGicInit, VGicTypeOK, ZeroState, vgic_state

(* Every call keeps the arrays within their types. *)
LEMMA NextType == VGicTypeOK /\ [VGicNext]_guestVars => VGicTypeOK'
<1> SUFFICES ASSUME VGicTypeOK, [VGicNext]_guestVars PROVE VGicTypeOK'
  OBVIOUS
<1>1. CASE vgic_reset
  BY <1>1, VGicAssumption DEF VGicTypeOK, vgic_reset, ZeroState, vgic_state
<1>2. ASSUME NEW n \in 1 .. VGIC_MAX_VCPUS, vgic_set_ngicr(n) PROVE VGicTypeOK'
  BY <1>2 DEF VGicTypeOK, vgic_set_ngicr
<1>3. ASSUME NEW r \in VMs \X Frames, NEW reg \in Registers, NEW val \in SUBSET BitsOf(reg),
             vgic_mmio_write(r, reg, val)
      PROVE  VGicTypeOK'
  <2>1. vg \in [Entries -> vgic_state] /\ r[1] \in Entries /\ r[2] \in Frames
    BY IdxInRange DEF VGicTypeOK
  <2>2. vg' \in [Entries -> vgic_state]
    BY <1>3, <2>1, WriteOneField DEF vgic_mmio_write
  <2> QED BY <1>3, <2>2 DEF VGicTypeOK, vgic_mmio_write
<1>4. ASSUME NEW c \in Entries, NEW i \in Sgis, vgic_post_sgi(c, i) PROVE VGicTypeOK'
  BY <1>4 DEF VGicTypeOK, vgic_post_sgi
<1>5. ASSUME NEW c \in Entries, vgic_pop_sgi(c) PROVE VGicTypeOK'
  BY <1>5 DEF VGicTypeOK, vgic_pop_sgi
<1>6. CASE UNCHANGED guestVars
  BY <1>6 DEF VGicTypeOK, guestVars, vgicVars
<1> QED BY <1>1, <1>2, <1>3, <1>4, <1>5, <1>6 DEF VGicNext

(* The emulated GIC's state is always a bitmap of each kind per entry, and at
   least one and at most VGIC_MAX_VCPUS frames are presented. *)
THEOREM VGicTypes == VGicSpec => []VGicTypeOK
BY InitType, NextType, PTL DEF VGicSpec

-----------------------------------------------------------------------------
\* Refinement of GicBanks.

En == [r \in Redists |-> vg[Idx(r[1], r[2])].enabled]
Grp == [r \in Redists |-> vg[Idx(r[1], r[2])].group]
Spi == [vm \in VMs |-> vg[vm].spi_enabled]
Ctl == [vm \in VMs |-> vg[vm].gicd_ctlr]

(* The refinement mapping, which is what a guest reads, in terms of the array. *)
LEMMA Mapping ==
  /\ En = [r \in Redists |-> reg_read(r[1], "GICR_ISENABLER0", r[2])]
  /\ Grp = [r \in Redists |-> reg_read(r[1], "GICR_IGROUPR0", r[2])]
  /\ Spi = [vm \in VMs |-> reg_read(vm, "GICD_ISENABLER", 0)]
  /\ Ctl = [vm \in VMs |-> reg_read(vm, "GICD_CTLR", 0)]
  /\ En' = [r \in Redists |-> reg_read(r[1], "GICR_ISENABLER0", r[2])']
  /\ Grp' = [r \in Redists |-> reg_read(r[1], "GICR_IGROUPR0", r[2])']
  /\ Spi' = [vm \in VMs |-> reg_read(vm, "GICD_ISENABLER", 0)']
  /\ Ctl' = [vm \in VMs |-> reg_read(vm, "GICD_CTLR", 0)']
BY DEF En, Grp, Spi, Ctl, reg_read

(* Different frames presented have different entries. *)
LEMMA OwnEntry ==
  \A r, q \in Redists : Idx(r[1], r[2]) = Idx(q[1], q[2]) <=> r = q
BY VGicAssumption

\* The banks after a write to register reg of frame r[2] by VM r[1]; B is the
\* set of the banks behind that frame, at most one.
Effect(r, B, reg, val) ==
  /\ \A q \in Redists :
       /\ En'[q] = IF q \in B /\ reg = "GICR_ISENABLER0" THEN En[q] \union val
                   ELSE IF q \in B /\ reg = "GICR_ICENABLER0" THEN En[q] \ val ELSE En[q]
       /\ Grp'[q] = IF q \in B /\ reg = "GICR_IGROUPR0" THEN val ELSE Grp[q]
  /\ Spi' = CASE reg = "GICD_ISENABLER" -> [Spi EXCEPT ![r[1]] = @ \union val]
              [] reg = "GICD_ICENABLER" -> [Spi EXCEPT ![r[1]] = @ \ val]
              [] OTHER -> Spi
  /\ Ctl' = IF reg = "GICD_CTLR" THEN [Ctl EXCEPT ![r[1]] = val] ELSE Ctl

(* A register write takes effect in the banks behind the frame it addresses,
   or in the VM's own distributor, and nowhere else. *)
LEMMA WriteEffect ==
  ASSUME vg \in [Entries -> vgic_state], NEW r \in VMs \X Frames, NEW reg \in Registers,
         NEW val \in SUBSET BitsOf(reg), reg_write(r[1], reg, r[2], val)
  PROVE  Effect(r, {b \in Redists : Idx(b[1], b[2]) = Idx(r[1], r[2])}, reg, val)
<1> DEFINE e == Idx(r[1], r[2])
           vm == r[1]
           B == {b \in Redists : Idx(b[1], b[2]) = e}
<1>0. /\ vm \in VMs /\ r[2] \in Frames /\ vm \in Entries
      /\ \A q \in Redists : Idx(q[1], q[2]) \in Entries
      /\ \A w \in VMs : w \in Entries
  BY IdxInRange
<1>1. \A x \in Entries : Written(x, e, vm, reg, val)
  BY <1>0, WriteOneField
<1>b. \A q \in Redists : q \in B <=> Idx(q[1], q[2]) = e
  OBVIOUS
<1> HIDE DEF e, vm, B
<1>2. \A q \in Redists :
        /\ En'[q] = IF q \in B /\ reg = "GICR_ISENABLER0" THEN En[q] \union val
                    ELSE IF q \in B /\ reg = "GICR_ICENABLER0" THEN En[q] \ val ELSE En[q]
        /\ Grp'[q] = IF q \in B /\ reg = "GICR_IGROUPR0" THEN val ELSE Grp[q]
  BY <1>0, <1>1, <1>b, Zenon DEF Written, En, Grp
<1>3. \A w \in VMs :
        /\ Spi'[w] = IF w = vm /\ reg = "GICD_ISENABLER" THEN Spi[w] \union val
                     ELSE IF w = vm /\ reg = "GICD_ICENABLER" THEN Spi[w] \ val ELSE Spi[w]
        /\ Ctl'[w] = IF w = vm /\ reg = "GICD_CTLR" THEN val ELSE Ctl[w]
  BY <1>0, <1>1, Zenon DEF Written, Spi, Ctl
<1>6. Spi' = CASE reg = "GICD_ISENABLER" -> [Spi EXCEPT ![vm] = @ \union val]
               [] reg = "GICD_ICENABLER" -> [Spi EXCEPT ![vm] = @ \ val]
               [] OTHER -> Spi
  BY <1>0, <1>3, Zenon DEF Spi
<1>7. Ctl' = IF reg = "GICD_CTLR" THEN [Ctl EXCEPT ![vm] = val] ELSE Ctl
  BY <1>0, <1>3, Zenon DEF Ctl
<1> QED BY <1>2, <1>6, <1>7 DEF Effect, vm, B, e

(* A write to a frame behind which there is a bank changes that bank alone. *)
LEMMA WriteRefines ==
  ASSUME vg \in [Entries -> vgic_state], NEW r \in VMs \X Frames, NEW reg \in Registers,
         NEW val \in SUBSET BitsOf(reg), reg_write(r[1], reg, r[2], val),
         NEW b \in Redists, Idx(b[1], b[2]) = Idx(r[1], r[2])
  PROVE  /\ En' = CASE reg = "GICR_ISENABLER0" -> [En EXCEPT ![b] = @ \union val]
                     [] reg = "GICR_ICENABLER0" -> [En EXCEPT ![b] = @ \ val]
                     [] OTHER -> En
         /\ Grp' = IF reg = "GICR_IGROUPR0" THEN [Grp EXCEPT ![b] = val] ELSE Grp
         /\ b \in Banks!Banks(r)
<1> DEFINE B == {q \in Redists : Idx(q[1], q[2]) = Idx(r[1], r[2])}
<1>1. Effect(r, B, reg, val)
  BY WriteEffect
<1>2. B = {b}
  BY OwnEntry
<1>3. b \in Banks!Banks(r)
  BY OwnEntry DEF Banks!Banks
<1> HIDE DEF B
<1>4. \A q \in Redists :
        /\ En'[q] = IF q = b /\ reg = "GICR_ISENABLER0" THEN En[q] \union val
                    ELSE IF q = b /\ reg = "GICR_ICENABLER0" THEN En[q] \ val ELSE En[q]
        /\ Grp'[q] = IF q = b /\ reg = "GICR_IGROUPR0" THEN val ELSE Grp[q]
  BY <1>1, <1>2 DEF Effect
<1>5. En' = CASE reg = "GICR_ISENABLER0" -> [En EXCEPT ![b] = @ \union val]
              [] reg = "GICR_ICENABLER0" -> [En EXCEPT ![b] = @ \ val]
              [] OTHER -> En
  BY <1>4, Zenon DEF En
<1>6. Grp' = IF reg = "GICR_IGROUPR0" THEN [Grp EXCEPT ![b] = val] ELSE Grp
  BY <1>4, Zenon DEF Grp
<1> QED BY <1>3, <1>5, <1>6

(* A write to a frame behind which there is no bank, and one to a register of
   the distributor, changes no bank. *)
LEMMA WriteElsewhere ==
  ASSUME vg \in [Entries -> vgic_state], NEW r \in VMs \X Frames, NEW reg \in Registers,
         NEW val \in SUBSET BitsOf(reg), reg_write(r[1], reg, r[2], val),
         \/ reg \notin {"GICR_ISENABLER0", "GICR_ICENABLER0", "GICR_IGROUPR0"}
         \/ \A b \in Redists : Idx(b[1], b[2]) # Idx(r[1], r[2])
  PROVE  En' = En /\ Grp' = Grp
<1> DEFINE B == {q \in Redists : Idx(q[1], q[2]) = Idx(r[1], r[2])}
<1>1. Effect(r, B, reg, val)
  BY WriteEffect
<1>2. \A q \in Redists : En'[q] = En[q] /\ Grp'[q] = Grp[q]
  BY <1>1, Zenon DEF Effect
<1> QED BY <1>2 DEF En, Grp

(* The one array, indexed by VM plus frame, implements the banks, for any number
   of VMs or of frames and any frames the guests address: a guest reads back
   what was written to the frames presented to it and to its own distributor;
   only a write to a frame not presented to its VM can show in a bank that is
   not its own, and then in one. *)
THEOREM VGicRefinesGicBanks == VGicSpec => ImplementsGicBanks
<1>0. VMs = Banks!VMs /\ NoWrite = Banks!NoRequest
  BY DEF VMs, Banks!VMs, NoWrite, Banks!NoRequest, Banks!Request
<1>1. VGicInit => Banks!Init
  <2> SUFFICES ASSUME VGicInit PROVE Banks!Init
    OBVIOUS
  <2>1. /\ En = [r \in Redists |-> {}]
        /\ Grp = [r \in Redists |-> {}]
        /\ Spi = [vm \in VMs |-> {}]
        /\ Ctl = [vm \in VMs |-> {}]
    BY IdxInRange DEF VGicInit, ZeroState, En, Grp, Spi, Ctl
  <2> QED BY <1>0, <2>1, Mapping DEF Banks!Init, VGicInit
<1>2. VGicTypeOK /\ [VGicNext]_guestVars => [Banks!Next]_(Banks!vars)
  <2> SUFFICES ASSUME VGicTypeOK, [VGicNext]_guestVars
               PROVE  Banks!Next \/ (En' = En /\ Grp' = Grp /\ Spi' = Spi /\ Ctl' = Ctl
                                     /\ req' = req)
    BY Mapping DEF Banks!vars
  <2>1. ASSUME vgic_reset, req' = NoWrite PROVE Banks!Next
    <3>1. /\ En' = [r \in Redists |-> {}]
          /\ Grp' = [r \in Redists |-> {}]
          /\ Spi' = [vm \in VMs |-> {}]
          /\ Ctl' = [vm \in VMs |-> {}]
      BY <2>1, IdxInRange DEF vgic_reset, ZeroState, En, Grp, Spi, Ctl
    <3>2. Banks!Reset
      BY <1>0, <2>1, <3>1, Mapping DEF Banks!Reset
    <3> QED BY <3>2 DEF Banks!Next
  <2>2. ASSUME NEW r \in VMs \X Frames, NEW reg \in Registers, NEW val \in SUBSET BitsOf(reg),
               vgic_mmio_write(r, reg, val)
        PROVE  Banks!Next
    <3>0. r \in Banks!VMs \X Frames
      BY <1>0
    <3>1. vg \in [Entries -> vgic_state] /\ reg_write(r[1], reg, r[2], val)
      BY <2>2 DEF VGicTypeOK, vgic_mmio_write
    <3>2. req' = Banks!Request(reg, r, val) /\ req'.reg = reg /\ req'.at = r
      BY <2>2 DEF vgic_mmio_write, Banks!Request
    <3>d. /\ Spi' = CASE reg = "GICD_ISENABLER" -> [Spi EXCEPT ![r[1]] = @ \union val]
                       [] reg = "GICD_ICENABLER" -> [Spi EXCEPT ![r[1]] = @ \ val]
                       [] OTHER -> Spi
          /\ Ctl' = IF reg = "GICD_CTLR" THEN [Ctl EXCEPT ![r[1]] = val] ELSE Ctl
      <4> DEFINE B == {b \in Redists : Idx(b[1], b[2]) = Idx(r[1], r[2])}
      <4>1. Effect(r, B, reg, val)
        BY <3>1, WriteEffect
      <4> HIDE DEF B
      <4> QED BY <4>1, Zenon DEF Effect
    <3>3. CASE /\ reg \in {"GICR_ISENABLER0", "GICR_ICENABLER0", "GICR_IGROUPR0"}
               /\ \E b \in Redists : Idx(b[1], b[2]) = Idx(r[1], r[2])
      <4>1. PICK b \in Redists : Idx(b[1], b[2]) = Idx(r[1], r[2])
        BY <3>3
      <4>2. /\ En' = CASE reg = "GICR_ISENABLER0" -> [En EXCEPT ![b] = @ \union val]
                       [] reg = "GICR_ICENABLER0" -> [En EXCEPT ![b] = @ \ val]
                       [] OTHER -> En
            /\ Grp' = IF reg = "GICR_IGROUPR0" THEN [Grp EXCEPT ![b] = val] ELSE Grp
            /\ b \in Banks!Banks(r)
        BY <3>1, <4>1, WriteRefines, Zenon
      <4>3. val \in SUBSET Privates /\ Spi' = Spi /\ Ctl' = Ctl
        BY <3>3, <3>d DEF BitsOf
      <4>4. CASE reg = "GICR_ISENABLER0"
        <5>1. Banks!Enable(r, b, val)
          BY <3>2, <4>2, <4>3, <4>4, Mapping, Zenon DEF Banks!Enable
        <5> QED BY <3>0, <4>2, <4>3, <5>1 DEF Banks!Next
      <4>5. CASE reg = "GICR_ICENABLER0"
        <5>1. Banks!Disable(r, b, val)
          BY <3>2, <4>2, <4>3, <4>5, Mapping, Zenon DEF Banks!Disable
        <5> QED BY <3>0, <4>2, <4>3, <5>1 DEF Banks!Next
      <4>6. CASE reg = "GICR_IGROUPR0"
        <5>1. Banks!SetGroup(r, b, val)
          BY <3>2, <4>2, <4>3, <4>6, Mapping DEF Banks!SetGroup
        <5> QED BY <3>0, <4>2, <4>3, <5>1 DEF Banks!Next
      <4> QED BY <3>3, <4>4, <4>5, <4>6
    <3>4. CASE /\ reg \in {"GICR_ISENABLER0", "GICR_ICENABLER0", "GICR_IGROUPR0"}
               /\ \A b \in Redists : Idx(b[1], b[2]) # Idx(r[1], r[2])
      <4>1. En' = En /\ Grp' = Grp /\ Spi' = Spi /\ Ctl' = Ctl
        BY <3>1, <3>4, <3>d, WriteElsewhere
      <4>2. r \notin Redists
        BY <3>4
      <4>3. Banks!Ignore
        BY <3>2, <4>1, <4>2, Mapping DEF Banks!Ignore
      <4> QED BY <4>3 DEF Banks!Next
    <3>5. CASE reg \notin {"GICR_ISENABLER0", "GICR_ICENABLER0", "GICR_IGROUPR0"}
      <4>0. En' = En /\ Grp' = Grp
        BY <3>1, <3>5, WriteElsewhere
      <4>1. CASE reg = "GICD_ISENABLER"
        <5>1. Banks!EnableSpi(r, val)
          BY <3>2, <3>d, <4>0, <4>1, Mapping, Zenon DEF Banks!EnableSpi
        <5>2. val \in SUBSET Spis
          BY <4>1 DEF BitsOf
        <5> QED BY <3>0, <5>1, <5>2 DEF Banks!Next
      <4>2. CASE reg = "GICD_ICENABLER"
        <5>1. Banks!DisableSpi(r, val)
          BY <3>2, <3>d, <4>0, <4>2, Mapping, Zenon DEF Banks!DisableSpi
        <5>2. val \in SUBSET Spis
          BY <4>2 DEF BitsOf
        <5> QED BY <3>0, <5>1, <5>2 DEF Banks!Next
      <4>3. CASE reg = "GICD_CTLR"
        <5>1. Banks!SetCtlr(r, val)
          BY <3>2, <3>d, <4>0, <4>3, Mapping DEF Banks!SetCtlr
        <5> QED BY <3>0, <4>3, <5>1 DEF Banks!Next
      <4>4. CASE reg = "other"
        <5>1. Banks!Ignore
          BY <3>2, <3>d, <4>0, <4>4, Mapping DEF Banks!Ignore
        <5> QED BY <5>1 DEF Banks!Next
      <4> QED BY <3>5, <4>1, <4>2, <4>3, <4>4 DEF Registers
    <3> QED BY <3>3, <3>4, <3>5
  <2>3. CASE vg' = vg /\ req' = req
    BY <2>3 DEF En, Grp, Spi, Ctl
  <2> QED BY <2>1, <2>2, <2>3
          DEF VGicNext, guestVars, vgicVars, vgic_set_ngicr, vgic_post_sgi, vgic_pop_sgi
<1> QED BY <1>1, <1>2, VGicTypes, PTL DEF VGicSpec, ImplementsGicBanks, Banks!Spec

-----------------------------------------------------------------------------
\* The list registers of both vCPUs, well formed.
Good(files) == files \in [VCpus -> Files] /\ \A v \in VCpus : Distinct(files[v])

\* Outstanding and pending interrupts of vCPU v.
Out(files, v) == Held(files[v], All)
Wait(files, v) == Held(files[v], {"pending"})

SmpTypeOK ==
  /\ Good(lr)
  /\ g_sgi_pending \in [Entries -> SUBSET Sgis]
  /\ demo \in {"M14", "M15", "M22", "M32"}
  /\ at \in {"top", "guest", "ended"}
  /\ cur \in VCpus /\ ncpu \in {1, 2}
  /\ psci_on_pending \in BOOLEAN /\ v_imsc \in BOOLEAN
  /\ nkeys \in Nat /\ v_rx \in Nat /\ rx_read \in Nat

\* M14 starts both vCPUs; the bytes are keystrokes that have been typed.
SmpInv ==
  /\ SmpTypeOK
  /\ demo = "M14" => ncpu = 2
  /\ OnlyStartedRuns
  /\ RxNotRepeated /\ v_rx <= nkeys /\ rx_read <= nkeys

\* What a step may do: the bodies of the action properties.
OnceStep ==
  ncpu = 2 =>
    /\ ncpu' = 2
    /\ started' = started
    /\ at = "top" => Outstanding(1) \subseteq Outstanding(1)'

GatedStep ==
  \A c \in VCpus, i \in {27, 30, 33} :
    i \notin Outstanding(c) /\ i \in Outstanding(c)' =>
      IF i = 33
      THEN c = 0 /\ vgic_spi_enabled(0, 33) /\ vuart_rx_irq_pending'
      ELSE vgic_irq_enabled(c, i)

SgiStep ==
  \A c \in VCpus, i \in Sgis :
    LET InBox == i \in g_sgi_pending[c]
        Waits == i \in Held(lr[c], {"pending"})
    IN  /\ ~InBox /\ InBox' => at = "guest" /\ cur # c
        /\ ~Waits /\ Waits' => InBox /\ ~InBox'
        /\ InBox /\ ~InBox' =>
             i \in Outstanding(c)' \/ Cardinality(Outstanding(c)') = NLR

(* Outstanding interrupts, by the names used here. *)
LEMMA OutstandingIsOut ==
  \A c \in VCpus : Outstanding(c) = Out(lr, c) /\ Outstanding(c)' = Out(lr', c)
BY DEF Outstanding, Out, All

(* Two vCPUs have a mailbox each, and SGIs are not device interrupts. *)
LEMMA SmpConstants ==
  /\ VCpus = {0, 1} /\ VCpus \subseteq Entries
  /\ Sgis \subseteq Intids /\ Sgis \intersect {27, 30, 33} = {}
  /\ {27, 30, 33} \subseteq Intids /\ Sgis \subseteq Nat
BY SmpAssumption, VGicAssumption DEF Entries

-----------------------------------------------------------------------------
\* An injection into the list registers of vCPU c.
Injected(files, c, i) == [files EXCEPT ![c] = vgic_inject(@, i)]

(* It changes the interrupts of that vCPU only, and those only by INTID i. *)
LEMMA InjectInto ==
  ASSUME NEW files, Good(files), NEW c \in VCpus, NEW i \in Intids
  PROVE  LET new == Injected(files, c, i)
         IN  /\ Good(new)
             /\ \A v \in VCpus \ {c} : new[v] = files[v]
             /\ Out(files, c) \subseteq Out(new, c)
             /\ Out(new, c) \subseteq Out(files, c) \union {i}
             /\ Wait(new, c) \subseteq Wait(files, c) \union {i}
             /\ i \in Out(new, c) \/ Cardinality(Out(new, c)) = NLR
<1> DEFINE new == Injected(files, c, i)
           file == vgic_inject(files[c], i)
<1>1. files[c] \in Files /\ Distinct(files[c])
  BY DEF Good
<1>2. file \in Files /\ Distinct(file)
  BY <1>1, InjectType, InjectDistinct
<1>3. /\ Held(file, All) \subseteq Held(files[c], All) \union {i}
      /\ Held(file, {"pending"}) \subseteq Held(files[c], {"pending"}) \union {i}
      /\ Held(files[c], All) \subseteq Held(file, All)
      /\ i \in Held(file, All) \/ (file = files[c] /\ Cardinality(Held(files[c], All)) = NLR)
  BY <1>1, InjectOutcome
<1> HIDE DEF file
<1>4. new = [files EXCEPT ![c] = file]
  BY DEF file, Injected
<1> HIDE DEF new
<1>5. new[c] = file /\ \A v \in VCpus \ {c} : new[v] = files[v]
  BY <1>4 DEF Good
<1>6. Good(new)
  BY <1>2, <1>4, <1>5 DEF Good
<1>7. /\ Good(new)
      /\ \A v \in VCpus \ {c} : new[v] = files[v]
      /\ Out(files, c) \subseteq Out(new, c) /\ Out(new, c) \subseteq Out(files, c) \union {i}
      /\ Wait(new, c) \subseteq Wait(files, c) \union {i}
      /\ i \in Out(new, c) \/ Cardinality(Out(new, c)) = NLR
  BY <1>3, <1>5, <1>6 DEF Out, Wait
<1> QED BY <1>7 DEF new

(* vcpu_init of vCPU 1 at the top of the loop. *)
LEMMA BringUpOutcome ==
  ASSUME SmpInv, NEW new, new = AfterBringUp(lr)
  PROVE  /\ Good(new)
         /\ new[0] = lr[0]
         /\ Out(new, 1) \subseteq Out(lr, 1) /\ Wait(new, 1) \subseteq Wait(lr, 1)
         /\ ncpu = 2 => new = lr
         /\ ncpu = 1 => Out(new, 1) = {}
<1>1. CASE BringUp
  <2> DEFINE zero == [s \in Slots |-> Empty]
  <2>1. new = [lr EXCEPT ![1] = zero]
    BY <1>1 DEF AfterBringUp
  <2>2. zero \in Files /\ Distinct(zero)
    BY ZeroWellFormed
  <2>3. Held(zero, All) = {} /\ Held(zero, {"pending"}) = {}
    BY DEF Held, Empty, All
  <2> HIDE DEF zero
  <2>4. new[1] = zero /\ new[0] = lr[0] /\ Good(new)
    BY <2>1, <2>2, SmpConstants DEF SmpInv, SmpTypeOK, Good
  <2>5. ncpu # 2
    BY <1>1 DEF BringUp
  <2> QED BY <2>3, <2>4, <2>5 DEF Out, Wait
<1>2. CASE ~BringUp
  <2>1. new = lr
    BY <1>2 DEF AfterBringUp
  <2> QED BY <2>1, OutstandingIsOut, SmpConstants DEF SmpInv, SmpTypeOK, OnlyStartedRuns
<1> QED BY <1>1, <1>2

(* The SGI vgic_pop_sgi returns is one of those in the mailbox. *)
LEMMA LowestIsPending ==
  ASSUME SmpTypeOK, NEW c \in VCpus, g_sgi_pending[c] # {}
  PROVE  LowestSgi(c) \in g_sgi_pending[c] /\ LowestSgi(c) \in Sgis
<1>1. g_sgi_pending[c] \in SUBSET Sgis
  BY SmpConstants DEF SmpTypeOK
<1>2. g_sgi_pending[c] \in SUBSET Nat
  BY <1>1, SmpConstants
<1>3. \E b \in g_sgi_pending[c] : \A d \in g_sgi_pending[c] : b <= d
  BY <1>2, LeastElement
<1> QED BY <1>1, <1>3 DEF LowestSgi

(* The keystroke's interrupt, if one was typed and the guest wants it. *)
LEMMA KeyOutcome ==
  ASSUME NEW files, Good(files), NEW typed \in BOOLEAN, NEW new, new = AfterKey(files, typed)
  PROVE  /\ Good(new) /\ new[1] = files[1]
         /\ Out(files, 0) \subseteq Out(new, 0)
         /\ \A i \in Out(new, 0) \ Out(files, 0) :
              i = 33 /\ typed /\ v_imsc /\ vgic_spi_enabled(0, 33)
         /\ Wait(new, 0) \subseteq Wait(files, 0) \union {33}
<1>1. CASE typed /\ v_imsc /\ vgic_spi_enabled(0, 33)
  <2>1. new = Injected(files, 0, 33)
    BY <1>1 DEF AfterKey, Injected
  <2>2. 0 \in VCpus /\ 1 \in VCpus \ {0} /\ 33 \in Intids
    BY SmpConstants
  <2>3. /\ Good(new)
        /\ \A v \in VCpus \ {0} : new[v] = files[v]
        /\ Out(files, 0) \subseteq Out(new, 0) /\ Out(new, 0) \subseteq Out(files, 0) \union {33}
        /\ Wait(new, 0) \subseteq Wait(files, 0) \union {33}
    BY <2>1, <2>2, InjectInto
  <2> QED BY <1>1, <2>2, <2>3
<1>2. CASE ~(typed /\ v_imsc /\ vgic_spi_enabled(0, 33))
  <2>1. new = files
    BY <1>2 DEF AfterKey
  <2> QED BY <2>1
<1> QED BY <1>1, <1>2

(* The SGI from the mailbox. *)
LEMMA SgiOutcome ==
  ASSUME SmpTypeOK, NEW files, Good(files), NEW new, new = AfterSgi(files)
  PROVE  /\ Good(new) /\ \A v \in VCpus \ {cur} : new[v] = files[v]
         /\ Out(files, cur) \subseteq Out(new, cur)
         /\ Out(new, cur) \subseteq Out(files, cur) \union PoppedSgi(cur)
         /\ Wait(new, cur) \subseteq Wait(files, cur) \union PoppedSgi(cur)
         /\ \A i \in PoppedSgi(cur) : i \in Out(new, cur) \/ Cardinality(Out(new, cur)) = NLR
<1>0. cur \in VCpus
  BY DEF SmpTypeOK
<1>1. CASE g_sgi_pending[cur] = {}
  <2>1. PoppedSgi(cur) = {}
    BY <1>1 DEF PoppedSgi
  <2>2. new = files
    BY <2>1 DEF AfterSgi
  <2> QED BY <2>1, <2>2
<1>2. CASE g_sgi_pending[cur] # {}
  <2>1. PoppedSgi(cur) = {LowestSgi(cur)}
    BY <1>2 DEF PoppedSgi
  <2>2. LowestSgi(cur) \in Intids
    BY <1>0, <1>2, LowestIsPending, SmpConstants
  <2>3. new = Injected(files, cur, LowestSgi(cur))
    BY <2>1 DEF AfterSgi, Injected
  <2>4. /\ Good(new)
        /\ \A v \in VCpus \ {cur} : new[v] = files[v]
        /\ Out(files, cur) \subseteq Out(new, cur)
        /\ Out(new, cur) \subseteq Out(files, cur) \union {LowestSgi(cur)}
        /\ Wait(new, cur) \subseteq Wait(files, cur) \union {LowestSgi(cur)}
        /\ LowestSgi(cur) \in Out(new, cur) \/ Cardinality(Out(new, cur)) = NLR
    BY <1>0, <2>2, <2>3, InjectInto
  <2> QED BY <2>1, <2>4
<1> QED BY <1>1, <1>2

(* All that happens to the list registers on the way into the guest. *)
LEMMA EnterOutcome ==
  ASSUME SmpInv, NEW typed \in BOOLEAN,
         NEW new, new = AfterSgi(AfterKey(AfterBringUp(lr), typed))
  PROVE  /\ Good(new)
         /\ \A c \in VCpus, i \in Intids :
              /\ i \in Out(new, c) \ Out(lr, c) =>
                   \/ i = 33 /\ c = 0 /\ typed /\ v_imsc /\ vgic_spi_enabled(0, 33)
                   \/ c = cur /\ i \in PoppedSgi(cur)
              /\ i \in Wait(new, c) \ Wait(lr, c) => i = 33 \/ (c = cur /\ i \in PoppedSgi(cur))
         /\ \A i \in PoppedSgi(cur) : i \in Out(new, cur) \/ Cardinality(Out(new, cur)) = NLR
         /\ ncpu = 2 => Out(lr, 1) \subseteq Out(new, 1)
         /\ ncpu = 1 => Out(new, 1) = {}
<1> DEFINE f1 == AfterBringUp(lr)
           f2 == AfterKey(f1, typed)
<1>0. SmpTypeOK /\ VCpus = {0, 1} /\ cur \in VCpus /\ (ncpu = 1 => cur = 0)
  BY SmpConstants DEF SmpInv, SmpTypeOK, OnlyStartedRuns
<1>1. /\ Good(f1) /\ f1[0] = lr[0]
      /\ Out(f1, 1) \subseteq Out(lr, 1) /\ Wait(f1, 1) \subseteq Wait(lr, 1)
      /\ ncpu = 2 => f1 = lr
      /\ ncpu = 1 => Out(f1, 1) = {}
  BY BringUpOutcome
<1> HIDE DEF f1
<1>2. /\ Good(f2) /\ f2[1] = f1[1]
      /\ Out(f1, 0) \subseteq Out(f2, 0)
      /\ \A i \in Out(f2, 0) \ Out(f1, 0) :
           i = 33 /\ typed /\ v_imsc /\ vgic_spi_enabled(0, 33)
      /\ Wait(f2, 0) \subseteq Wait(f1, 0) \union {33}
  BY <1>1, KeyOutcome
<1> HIDE DEF f2
<1>3. /\ Good(new) /\ \A v \in VCpus \ {cur} : new[v] = f2[v]
      /\ Out(f2, cur) \subseteq Out(new, cur)
      /\ Out(new, cur) \subseteq Out(f2, cur) \union PoppedSgi(cur)
      /\ Wait(new, cur) \subseteq Wait(f2, cur) \union PoppedSgi(cur)
      /\ \A i \in PoppedSgi(cur) : i \in Out(new, cur) \/ Cardinality(Out(new, cur)) = NLR
  <2>1. new = AfterSgi(f2)
    BY DEF f1, f2
  <2> QED BY <1>0, <1>2, <2>1, SgiOutcome
<1>4. /\ Out(f1, 0) = Out(lr, 0) /\ Wait(f1, 0) = Wait(lr, 0)
      /\ Out(f2, 1) = Out(f1, 1) /\ Wait(f2, 1) = Wait(f1, 1)
  BY <1>1, <1>2 DEF Out, Wait
<1>5. \A v \in VCpus \ {cur} : Out(new, v) = Out(f2, v) /\ Wait(new, v) = Wait(f2, v)
  BY <1>3 DEF Out, Wait
<1>6. ncpu = 2 => Out(lr, 1) \subseteq Out(new, 1)
  BY <1>0, <1>1, <1>3, <1>4, <1>5
<1>7. ncpu = 1 => Out(new, 1) = {}
  BY <1>0, <1>1, <1>4, <1>5
<1>8. ASSUME NEW c \in VCpus, NEW i \in Intids, i \in Out(new, c) \ Out(lr, c)
      PROVE  \/ i = 33 /\ c = 0 /\ typed /\ v_imsc /\ vgic_spi_enabled(0, 33)
             \/ c = cur /\ i \in PoppedSgi(cur)
  BY <1>0, <1>1, <1>2, <1>3, <1>4, <1>5, <1>8
<1>9. ASSUME NEW c \in VCpus, NEW i \in Intids, i \in Wait(new, c) \ Wait(lr, c)
      PROVE  i = 33 \/ (c = cur /\ i \in PoppedSgi(cur))
  BY <1>0, <1>1, <1>2, <1>3, <1>4, <1>5, <1>9
<1> QED BY <1>3, <1>6, <1>7, <1>8, <1>9

-----------------------------------------------------------------------------
(* The loop from its top into the guest. *)
LEMMA EnterStep ==
  ASSUME SmpInv, NEW typed \in BOOLEAN, Enter(typed)
  PROVE  SmpInv' /\ OnceStep /\ GatedStep /\ SgiStep
<1>0. /\ SmpTypeOK /\ VCpus = {0, 1} /\ VCpus \subseteq Entries /\ Sgis \subseteq Intids
      /\ Sgis \intersect {27, 30, 33} = {} /\ {27, 30, 33} \subseteq Intids
  BY SmpConstants DEF SmpInv
<1>1. /\ Good(lr')
      /\ \A c \in VCpus, i \in Intids :
           /\ i \in Out(lr', c) \ Out(lr, c) =>
                \/ i = 33 /\ c = 0 /\ typed /\ v_imsc /\ vgic_spi_enabled(0, 33)
                \/ c = cur /\ i \in PoppedSgi(cur)
           /\ i \in Wait(lr', c) \ Wait(lr, c) => i = 33 \/ (c = cur /\ i \in PoppedSgi(cur))
      /\ \A i \in PoppedSgi(cur) : i \in Out(lr', cur) \/ Cardinality(Out(lr', cur)) = NLR
      /\ ncpu = 2 => Out(lr, 1) \subseteq Out(lr', 1)
      /\ ncpu = 1 => Out(lr', 1) = {}
  <2>1. lr' = AfterSgi(AfterKey(AfterBringUp(lr), typed))
    BY DEF Enter
  <2> QED BY <2>1, EnterOutcome
<1>2. PoppedSgi(cur) \subseteq g_sgi_pending[cur] /\ PoppedSgi(cur) \subseteq Sgis
  BY <1>0, LowestIsPending DEF PoppedSgi, SmpTypeOK
<1>3. /\ at = "top" /\ at' = "guest" /\ UNCHANGED <<demo, cur>>
      /\ g_sgi_pending' = [g_sgi_pending EXCEPT ![cur] = @ \ PoppedSgi(cur)]
      /\ ncpu' = IF BringUp THEN 2 ELSE ncpu
      /\ started' = IF BringUp THEN psci_on_args ELSE started
  BY DEF Enter, vgic_pop_sgi
<1>4. /\ nkeys' = IF typed THEN nkeys + 1 ELSE nkeys
      /\ v_rx' = IF typed THEN nkeys + 1 ELSE v_rx
      /\ UNCHANGED <<v_imsc, rx_read>>
  BY DEF Enter, vuart_push_rx, uartVars
<1>5. psci_on_pending' \in BOOLEAN
  BY DEF Enter
<1>6. SmpTypeOK'
  BY <1>0, <1>1, <1>2, <1>3, <1>4, <1>5 DEF SmpTypeOK
<1>7. OnlyStartedRuns'
  BY <1>0, <1>1, <1>3, OutstandingIsOut DEF SmpInv, SmpTypeOK, OnlyStartedRuns
<1>8. SmpInv'
  BY <1>3, <1>4, <1>6, <1>7 DEF SmpInv, SmpTypeOK, RxNotRepeated, NoByte
<1>9. OnceStep
  BY <1>0, <1>1, <1>3, OutstandingIsOut DEF OnceStep, BringUp
<1>10. GatedStep
  BY <1>0, <1>1, <1>2, <1>4, OutstandingIsOut
    DEF GatedStep, vuart_rx_irq_pending, NoByte, SmpTypeOK
<1>11. SgiStep
  <2> SUFFICES ASSUME NEW c \in VCpus, NEW i \in Sgis
               PROVE  /\ i \notin g_sgi_pending[c] => i \notin g_sgi_pending'[c]
                      /\ i \in Wait(lr', c) \ Wait(lr, c) =>
                           i \in g_sgi_pending[c] /\ i \notin g_sgi_pending'[c]
                      /\ i \in g_sgi_pending[c] /\ i \notin g_sgi_pending'[c] =>
                           i \in Out(lr', c) \/ Cardinality(Out(lr', c)) = NLR
    BY OutstandingIsOut DEF SgiStep, Wait
  <2>1. g_sgi_pending'[c] = IF c = cur THEN g_sgi_pending[c] \ PoppedSgi(cur) ELSE g_sgi_pending[c]
    BY <1>0, <1>3 DEF SmpTypeOK
  <2>2. i \in Intids /\ i # 33
    BY <1>0
  <2> QED BY <1>1, <1>2, <2>1, <2>2
<1> QED BY <1>8, <1>9, <1>10, <1>11

(* The interrupt of a tick, if the guest wants one. *)
LEMMA TickOutcome ==
  ASSUME cur \in VCpus, NEW files, Good(files),
         NEW new, \/ new = files
                  \/ \E i \in TickIntid : new = Injected(files, cur, i)
  PROVE  /\ Good(new) /\ \A v \in VCpus \ {cur} : new[v] = files[v]
         /\ Out(new, cur) \subseteq Out(files, cur) \union TickIntid
         /\ Wait(new, cur) \subseteq Wait(files, cur) \union TickIntid
<1>1. CASE new = files
  BY <1>1
<1>2. CASE \E i \in TickIntid : new = Injected(files, cur, i)
  <2>1. PICK i \in TickIntid : new = Injected(files, cur, i)
    BY <1>2
  <2>2. i \in Intids
    BY SmpConstants DEF TickIntid
  <2>3. /\ Good(new)
        /\ \A v \in VCpus \ {cur} : new[v] = files[v]
        /\ Out(files, cur) \subseteq Out(new, cur)
        /\ Out(new, cur) \subseteq Out(files, cur) \union {i}
        /\ Wait(new, cur) \subseteq Wait(files, cur) \union {i}
        /\ i \in Out(new, cur) \/ Cardinality(Out(new, cur)) = NLR
    BY <2>1, <2>2, InjectInto
  <2> QED BY <2>1, <2>3
<1> QED BY <1>1, <1>2

(* A tick, with its interrupt for the running vCPU and the end of the slice. *)
LEMMA TimerStep ==
  ASSUME SmpInv, TimerIrq
  PROVE  SmpInv' /\ OnceStep /\ GatedStep /\ SgiStep
<1>0. /\ SmpTypeOK /\ VCpus = {0, 1} /\ cur \in VCpus /\ Good(lr)
      /\ Sgis \intersect {27, 30, 33} = {} /\ {27, 30, 33} \subseteq Intids
  BY SmpConstants DEF SmpInv, SmpTypeOK
<1>1. /\ Good(lr') /\ \A v \in VCpus \ {cur} : lr'[v] = lr[v]
      /\ Out(lr', cur) \subseteq Out(lr, cur) \union TickIntid
      /\ Wait(lr', cur) \subseteq Wait(lr, cur) \union TickIntid
  <2>1. lr' = lr \/ \E i \in TickIntid : lr' = Injected(lr, cur, i)
    BY <1>0 DEF TimerIrq, Good, Injected
  <2> QED BY <1>0, <2>1, TickOutcome
<1>2. TickIntid \subseteq {27, 30} /\ \A i \in TickIntid : vgic_irq_enabled(cur, i)
  BY DEF TickIntid
<1>3. /\ at = "guest" /\ at' = "top" /\ cur' = IF ncpu = 2 THEN 1 - cur ELSE cur
      /\ UNCHANGED <<demo, ncpu, started, nkeys, vgicVars, uartVars, psciVars>>
  BY DEF TimerIrq, Exit
<1>4. \A v \in VCpus \ {cur} : Out(lr', v) = Out(lr, v) /\ Wait(lr', v) = Wait(lr, v)
  BY <1>1 DEF Out, Wait
<1>5. SmpTypeOK'
  BY <1>0, <1>1, <1>3 DEF SmpTypeOK, vgicVars, uartVars, psciVars
<1>6. OnlyStartedRuns'
  BY <1>0, <1>3, <1>4, OutstandingIsOut DEF SmpInv, SmpTypeOK, OnlyStartedRuns
<1>7. SmpInv'
  BY <1>3, <1>5, <1>6 DEF SmpInv, RxNotRepeated, uartVars
<1>8. OnceStep
  BY <1>3 DEF OnceStep
<1>9. GatedStep
  BY <1>0, <1>1, <1>2, <1>4, OutstandingIsOut DEF GatedStep
<1>10. SgiStep
  <2>1. \A c \in VCpus, i \in Sgis : i \notin Wait(lr', c) \ Wait(lr, c)
    BY <1>0, <1>1, <1>2, <1>4
  <2> QED BY <1>3, <2>1 DEF SgiStep, Wait, vgicVars
<1> QED BY <1>7, <1>8, <1>9, <1>10

(* The guest's acknowledge and end of interrupt. *)
LEMMA GuestStep ==
  ASSUME SmpInv, NEW s \in Slots, GuestAck(s) \/ GuestEoi(s)
  PROVE  SmpInv' /\ OnceStep /\ GatedStep /\ SgiStep
<1> DEFINE new == lr'[cur]
<1>0. /\ VCpus = {0, 1} /\ cur \in VCpus /\ Good(lr)
      /\ lr[cur] \in Files /\ Distinct(lr[cur])
  BY SmpConstants DEF SmpInv, SmpTypeOK, Good
<1>1. /\ \/ CanAck(lr[cur], s) /\ new = AckSlot(lr[cur], s)
         \/ lr[cur][s].state = "active" /\ new = EoiSlot(lr[cur], s)
      /\ lr' = [lr EXCEPT ![cur] = new]
  BY <1>0 DEF GuestAck, GuestEoi, LrAck, LrEoi, Good
<1>2. at = "guest" /\ UNCHANGED <<vgicVars, uartVars, schedVars>>
  BY DEF GuestAck, GuestEoi
<1> HIDE DEF new
<1>3. new \in Files /\ Distinct(new)
  BY <1>0, <1>1, AckWellFormed, EoiWellFormed
<1>4. /\ Held(new, All) \subseteq Held(lr[cur], All)
      /\ Held(new, {"pending"}) \subseteq Held(lr[cur], {"pending"})
  BY <1>0, <1>1, GuestAddsNothing
<1>5. lr'[cur] = new /\ \A v \in VCpus \ {cur} : lr'[v] = lr[v]
  BY <1>0, <1>1 DEF Good
<1>6. Good(lr')
  BY <1>0, <1>1, <1>3, <1>5 DEF Good
<1>7. \A v \in VCpus : Out(lr', v) \subseteq Out(lr, v) /\ Wait(lr', v) \subseteq Wait(lr, v)
  BY <1>4, <1>5 DEF Out, Wait
<1>8. SmpTypeOK'
  BY <1>2, <1>6 DEF SmpInv, SmpTypeOK, vgicVars, uartVars, schedVars, psciVars
<1>9. OnlyStartedRuns'
  BY <1>0, <1>2, <1>7, OutstandingIsOut DEF SmpInv, OnlyStartedRuns, schedVars
<1>10. SmpInv'
  BY <1>2, <1>8, <1>9 DEF SmpInv, RxNotRepeated, uartVars, schedVars
<1>11. OnceStep /\ GatedStep
  BY <1>2, <1>7, OutstandingIsOut DEF OnceStep, GatedStep, schedVars
<1>12. SgiStep
  BY <1>2, <1>7 DEF SgiStep, Wait, vgicVars
<1> QED BY <1>10, <1>11, <1>12

(* A write to ICC_SGI1R_EL1. *)
LEMMA SgiWriteStep ==
  ASSUME SmpInv, NEW i \in Sgis, SgiWrite(i)
  PROVE  SmpInv' /\ OnceStep /\ GatedStep /\ SgiStep
<1>0. SmpTypeOK /\ VCpus = {0, 1} /\ VCpus \subseteq Entries
  BY SmpConstants DEF SmpInv
<1>1. /\ at = "guest" /\ at' = "top" /\ cur' = IF demo = "M14" THEN 1 - cur ELSE cur
      /\ UNCHANGED <<demo, ncpu, started, nkeys, lr, uartVars, psciVars>>
  BY DEF SgiWrite, Exit, Again
<1>2. g_sgi_pending' = [e \in Entries |->
        IF e = cur THEN g_sgi_pending[e] ELSE g_sgi_pending[e] \union {i}]
  BY <1>0 DEF SgiWrite, vgic_post_sgi, SmpTypeOK
<1>3. \A c \in VCpus : Outstanding(c)' = Outstanding(c)
  BY <1>1 DEF Outstanding
<1>4. SmpTypeOK'
  BY <1>0, <1>1, <1>2 DEF SmpTypeOK, uartVars, psciVars
<1>5. SmpInv'
  BY <1>0, <1>1, <1>3, <1>4 DEF SmpInv, OnlyStartedRuns, RxNotRepeated, uartVars
<1>6. OnceStep /\ GatedStep
  BY <1>1, <1>3 DEF OnceStep, GatedStep
<1>7. SgiStep
  BY <1>0, <1>1, <1>2 DEF SgiStep
<1> QED BY <1>5, <1>6, <1>7

(* The steps that leave list registers and mailboxes alone: the remaining
   exits, the end of the loop, and no step at all. *)
LEMMA QuietStep ==
  ASSUME SmpInv,
         \/ BoundReached \/ HaltedExit \/ NeutralExit \/ GicMmio
         \/ UartMmio \/ PsciCall \/ LastExit \/ UNCHANGED vars
  PROVE  SmpInv' /\ OnceStep /\ GatedStep /\ SgiStep
<1>0. SmpTypeOK /\ VCpus = {0, 1} /\ VCpus \subseteq Entries
  BY SmpConstants DEF SmpInv
<1>1. /\ UNCHANGED <<demo, ncpu, started, nkeys, lr, g_sgi_pending>>
      /\ at' \in {"top", "guest", "ended"}
      /\ cur' = cur \/ (demo = "M14" /\ cur' = 1 - cur)
  BY <1>0 DEF BoundReached, HaltedExit, NeutralExit, GicMmio, UartMmio, PsciCall,
    LastExit, Exit, Again, vars, schedVars, vgicVars, SmpTypeOK
<1>2. psci_on_pending' \in BOOLEAN
  BY <1>0, Zenon DEF BoundReached, HaltedExit, NeutralExit, GicMmio, UartMmio, PsciCall,
    LastExit, psci_handle, psciVars, vars, schedVars, SmpTypeOK
<1>3. /\ v_imsc' \in BOOLEAN
      /\ \/ UNCHANGED <<v_rx, rx_read>>
         \/ v_rx' = NoByte /\ rx_read' \in {v_rx, rx_read}
  BY <1>0 DEF BoundReached, HaltedExit, NeutralExit, GicMmio, UartMmio, PsciCall,
    LastExit, mmio_emulate, vuart_read, vuart_write, uartVars, vars, SmpTypeOK
<1>4. \A c \in VCpus : Outstanding(c)' = Outstanding(c)
  BY <1>1 DEF Outstanding
<1>5. SmpTypeOK'
  BY <1>0, <1>1, <1>2, <1>3 DEF SmpTypeOK, NoByte
<1>6. SmpInv'
  BY <1>0, <1>1, <1>3, <1>4, <1>5 DEF SmpInv, OnlyStartedRuns, RxNotRepeated, NoByte, SmpTypeOK
<1>7. OnceStep
  BY <1>0, <1>1, <1>4 DEF OnceStep
<1>8. GatedStep
  BY <1>4 DEF GatedStep
<1>9. SgiStep
  BY <1>1 DEF SgiStep
<1> QED BY <1>6, <1>7, <1>8, <1>9

-----------------------------------------------------------------------------
(* The loops start in the invariant. *)
LEMMA SmpInitInv == Init => SmpInv
<1> SUFFICES ASSUME Init PROVE SmpInv
  OBVIOUS
<1>0. VCpus = {0, 1} /\ Demos \subseteq {"M14", "M15", "M22", "M32"}
  BY SmpAssumption
<1>1. lr = [v \in VCpus |-> [s \in Slots |-> Empty]]
  BY DEF Init, LrInit
<1>2. [s \in Slots |-> Empty] \in Files /\ Distinct([s \in Slots |-> Empty])
  BY ZeroWellFormed
<1>3. Good(lr)
  BY <1>1, <1>2 DEF Good
<1>4. Outstanding(1) = {}
  BY <1>0, <1>1 DEF Outstanding, Held, Empty
<1>5. SmpTypeOK
  BY <1>0, <1>3 DEF Init, SmpTypeOK, VUartInit, NoByte
<1> QED BY <1>4, <1>5 DEF SmpInv, Init, VUartInit, OnlyStartedRuns, RxNotRepeated, NoByte

(* Every step keeps the invariant and does only what the properties allow. *)
LEMMA SmpNextStep ==
  SmpInv /\ [Next]_vars => SmpInv' /\ OnceStep /\ GatedStep /\ SgiStep
<1> SUFFICES ASSUME SmpInv, [Next]_vars
             PROVE  SmpInv' /\ OnceStep /\ GatedStep /\ SgiStep
  OBVIOUS
<1>1. CASE \E typed \in BOOLEAN : Enter(typed)
  BY <1>1, EnterStep
<1>2. CASE \E s \in Slots : GuestAck(s) \/ GuestEoi(s)
  BY <1>2, GuestStep
<1>3. CASE TimerIrq
  BY <1>3, TimerStep
<1>4. CASE \E i \in Sgis : SgiWrite(i)
  BY <1>4, SgiWriteStep
<1>5. CASE \/ BoundReached \/ HaltedExit \/ NeutralExit \/ GicMmio
           \/ UartMmio \/ PsciCall \/ LastExit \/ UNCHANGED vars
  BY <1>5, QuietStep
<1> QED BY <1>1, <1>2, <1>3, <1>4, <1>5 DEF Next

(* The invariant holds throughout. *)
LEMMA SmpInvHolds == Spec => []SmpInv
<1>1. SmpInv /\ [Next]_vars => SmpInv'
  BY SmpNextStep
<1> QED BY <1>1, SmpInitInv, PTL DEF Spec

(* vCPU 1 is not scheduled and has no interrupts before a CPU_ON, or the demo
   itself, has had it initialised. *)
THEOREM SecondaryWaits == Spec => []OnlyStartedRuns
<1>1. SmpInv => OnlyStartedRuns
  BY DEF SmpInv
<1> QED BY <1>1, SmpInvHolds, PTL

(* A keystroke that waits in the receive FIFO has not been read before, for
   any number of keystrokes and any reads of the guest. *)
THEOREM KeysReadOnce == Spec => []RxNotRepeated
<1>1. SmpInv => RxNotRepeated
  BY DEF SmpInv
<1> QED BY <1>1, SmpInvHolds, PTL

(* A repeated CPU_ON leaves a running vCPU 1 alone. *)
THEOREM StartedOnce == Spec => SecondaryNotRestarted
<1>1. SmpInv /\ [Next]_vars =>
        [ncpu = 2 =>
           /\ ncpu' = 2
           /\ started' = started
           /\ at = "top" => Outstanding(1) \subseteq Outstanding(1)']_vars
  BY SmpNextStep DEF OnceStep
<1> QED BY <1>1, SmpInvHolds, PTL DEF Spec, SecondaryNotRestarted

(* Ticks and the UART interrupt come only where the guest has enabled them,
   whatever it writes to its GIC and whenever. *)
THEOREM GatedByGuest == Spec => DeviceIrqsGated
<1>1. SmpInv /\ [Next]_vars =>
        [\A c \in VCpus, i \in {27, 30, 33} :
           i \notin Outstanding(c) /\ i \in Outstanding(c)' =>
             IF i = 33
             THEN c = 0 /\ vgic_spi_enabled(0, 33) /\ vuart_rx_irq_pending'
             ELSE vgic_irq_enabled(c, i)]_vars
  BY SmpNextStep DEF GatedStep
<1> QED BY <1>1, SmpInvHolds, PTL DEF Spec, DeviceIrqsGated

(* An SGI reaches the other vCPU, only that one, and once, for any number of
   list registers and any SGIs. *)
THEOREM SgisCarriedOnce == Spec => SgiCarriedOnce
<1>1. SmpInv /\ [Next]_vars =>
        [\A c \in VCpus, i \in Sgis :
           LET InBox == i \in g_sgi_pending[c]
               Waits == i \in Held(lr[c], {"pending"})
           IN  /\ ~InBox /\ InBox' => at = "guest" /\ cur # c
               /\ ~Waits /\ Waits' => InBox /\ ~InBox'
               /\ InBox /\ ~InBox' =>
                    i \in Outstanding(c)' \/ Cardinality(Outstanding(c)') = NLR]_vars
  BY SmpNextStep DEF SgiStep
<1> QED BY <1>1, SmpInvHolds, PTL DEF Spec, SgiCarriedOnce
=============================================================================
