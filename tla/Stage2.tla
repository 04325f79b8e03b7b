------------------------------- MODULE Stage2 --------------------------------
(***************************************************************************)
(* The stage-2 tables (stage2.c) through the whole boot: hv_main runs one  *)
(* demo after another, each of which rebuilds the tables it uses while     *)
(* translations of earlier demos may still be in the TLB.  tlbi            *)
(* vmalls12e1 drops only those of the VMID then in VTTBR_EL2, and the code *)
(* writes VTTBR_EL2 only in vcpu_run_once.                                 *)
(*                                                                         *)
(* Addresses are 1 GiB blocks: 0 holds the devices, 1 is guest RAM (and    *)
(* the hypervisor), 2 and 3 are VM0_PA and VM1_PA.  In block 0 a guest     *)
(* touches a device the demo knows ("gic", "uart", "virtio") or something  *)
(* else ("other").                                                         *)
(***************************************************************************)
EXTENDS Naturals, Sequences, FiniteSets

Blocks == 0 .. 3
Things == {"gic", "uart", "virtio", "other"}

\* How a demo uses stage-2.  vms: the tables it runs on, 0 for s2_l1 (VMID 0),
\* v for s2_vm[v - 1] (VMID v).  init: it calls stage2_init.  dev: it maps
\* block 0 as a device.  emul: the devices it emulates.  miss: what it does
\* with any other abort.  touches: what its guest uses in block 0.
D(vms, init, dev, emul, miss, touches) ==
  [vms |-> vms, init |-> init, dev |-> dev, emul |-> emul, miss |-> miss, touches |-> touches]

Bare(vms, init) == D(vms, init, FALSE, {}, "stop", {})

sched_demo == D({0}, TRUE, FALSE, {"uart"}, "map", {"uart"})
virq_demo == Bare({0}, FALSE)
vgic_demo == D({0}, TRUE, FALSE, {"gic"}, "map", {"gic"})
smp_demo == Bare({0}, TRUE)
smp_sched_demo == Bare({0}, TRUE)
mtenant_demo == Bare({1, 2}, TRUE)
mtenant_vgic_demo == D({1, 2}, TRUE, FALSE, {"gic"}, "stop", {"gic"})
smp_psci_demo == Bare({0}, TRUE)
virtio_demo == D({0}, TRUE, FALSE, {"virtio"}, "zero", {"virtio"})
virtio_irq_demo == D({0}, TRUE, FALSE, {"virtio", "gic"}, "zero", {"virtio", "gic"})
vblk_demo == D({0}, TRUE, FALSE, {"virtio", "gic"}, "zero", {"virtio", "gic"})
vblk_rd_demo == D({0}, TRUE, FALSE, {"virtio", "gic"}, "zero", {"virtio", "gic"})
mtenant_virtio_demo == D({1, 2}, TRUE, FALSE, {"virtio"}, "zero", {"virtio"})
mtenant_vblk_demo == D({1, 2}, TRUE, FALSE, {"virtio"}, "zero", {"virtio"})
smp_vtimer_demo == D({1}, TRUE, FALSE, {"gic"}, "zero", {"gic"})
smp_gicr_demo == D({1}, TRUE, FALSE, {"gic"}, "zero", {"gic"})
real_guest_demo == D({0}, FALSE, FALSE, {"uart"}, "map", {"uart"})

linux_vgic_boot == D({0}, TRUE, FALSE, {"gic", "uart"}, "zero", Things)
mtenant_os_demo == D({1, 2}, TRUE, FALSE, {"gic", "uart"}, "zero", Things)
linux_boot == D({0}, TRUE, TRUE, {}, "map", Things)
fermios_boot == D({0}, TRUE, TRUE, {}, "map", Things)
fermios_vgic_boot == D({0}, TRUE, FALSE, {"gic", "uart"}, "map", Things)
mtenant_real_demo == D({1, 2}, TRUE, FALSE, {"gic", "uart"}, "stop", Things)

\* The demos hv_main always runs, in order.
AllDemos ==
  <<sched_demo, virq_demo, vgic_demo, smp_demo, smp_sched_demo, mtenant_demo,
    mtenant_vgic_demo, smp_psci_demo, virtio_demo, virtio_irq_demo, vblk_demo,
    vblk_rd_demo, mtenant_virtio_demo, mtenant_vblk_demo, smp_vtimer_demo,
    smp_gicr_demo, real_guest_demo>>

\* The guest it boots at the end, if one was loaded.
LastDemos ==
  {linux_vgic_boot, mtenant_os_demo, linux_boot, fermios_boot, fermios_vgic_boot,
   mtenant_real_demo}

VARIABLES
  step,     \* how many demos have been set up
  demo,     \* the demo running
  table,    \* table[0]: s2_l1, table[v]: s2_vm[v - 1]; table[t][b]: set of
            \* at most one <<block, memory type>>
  vmid,     \* VTTBR_EL2: the table and VMID in use
  tlb,      \* cached translations <<vmid, block, <<block, type>>>>
  acc,      \* history: the last guest access, [vm, block, thing, to]
  probed    \* history: the demo's guest has touched a device it does not emulate

s2vars == <<step, demo, table, vmid, tlb, acc, probed>>

Unmapped == [b \in Blocks |-> {}]

\* No VM has been run yet: 3 is none of them.
NoAccess == [vm |-> 3, block |-> 1, thing |-> "none", to |-> {}]

S2Init ==
  /\ step = 0
  /\ demo = Bare({}, FALSE)
  /\ table = [t \in 0 .. 2 |-> Unmapped]
  /\ vmid = 0
  /\ tlb = {}
  /\ acc = NoAccess
  /\ probed = FALSE

-----------------------------------------------------------------------------
\* tlbi vmalls12e1
Invalidated == {e \in tlb : e[1] # vmid}

\* Mutant of stage2_init: the device block is mapped as well.
Mut_stage2_init_block0 == [Unmapped EXCEPT ![1] = {<<1, "normal">>}, ![0] = {<<0, "normal">>}]

\* s2_l1 after stage2_init: cleared, then stage2_map_1gb(0x40000000).
stage2_init == [Unmapped EXCEPT ![1] = {<<1, "normal">>}]

\* s2_l1 after stage2_map_1gb_device.
stage2_map_1gb_device(t, b) == [t EXCEPT ![b] = {<<b, "device">>}]

stage2_map_1gb(t, b) == [t EXCEPT ![b] = {<<b, "normal">>}]

\* Mutant of stage2_build_vm: M29 and M30 put VMID 1 at VM1_PA.
Mut_build_vm_moves(v) == [Unmapped EXCEPT ![1] = {<<IF step \in {14, 15} THEN 3 ELSE v + 1, "normal">>}]

\* s2_vm[v - 1]: IPA block 1 at VM0_PA or VM1_PA.
stage2_build_vm(v) == [Unmapped EXCEPT ![1] = {<<v + 1, "normal">>}]

SetUpDemo(d) ==
  /\ demo' = d
  /\ step' = step + 1
  /\ table' = [t \in 0 .. 2 |->
       IF t = 0
       THEN LET base == IF d.init THEN stage2_init ELSE table[0]
            IN  IF d.dev THEN stage2_map_1gb_device(base, 0) ELSE base
       ELSE IF t \in d.vms THEN stage2_build_vm(t) ELSE table[t]]
  /\ tlb' = IF d.init THEN Invalidated ELSE tlb
  /\ acc' = NoAccess
  /\ probed' = FALSE
  /\ UNCHANGED vmid

hv_main ==
  \/ step < Len(AllDemos) /\ SetUpDemo(AllDemos[step + 1])
  \/ step = Len(AllDemos) /\ \E d \in LastDemos : SetUpDemo(d)

\* Mutant of RunOnce: VTTBR_EL2 is written only on the first run.
MutRunOnceKeepsVttbr(v) ==
  /\ v \in demo.vms
  /\ vmid' = IF vmid \in demo.vms THEN vmid ELSE v
  /\ acc' = [NoAccess EXCEPT !.vm = v]
  /\ UNCHANGED <<step, demo, table, tlb, probed>>

\* vcpu_run_once of a vCPU of VM v writes VTTBR_EL2.
RunOnce(v) ==
  /\ v \in demo.vms
  /\ vmid' = v
  /\ acc' = [NoAccess EXCEPT !.vm = v]
  /\ UNCHANGED <<step, demo, table, tlb, probed>>

-----------------------------------------------------------------------------
\* A guest access: translated by the TLB or by a walk, which may be cached.

Cached(b) == {e[3] : e \in {f \in tlb : f[1] = vmid /\ f[2] = b}}

Use(b, thing, to) ==
  /\ acc' = [acc EXCEPT !.block = b, !.thing = thing, !.to = to]
  /\ probed' = (probed \/ (b = 0 /\ thing \notin demo.emul))

Hit(b, thing) ==
  /\ \E to \in Cached(b) : Use(b, thing, {to})
  /\ UNCHANGED <<step, demo, table, vmid, tlb>>

Walk(b, thing) ==
  /\ Cached(b) = {}
  /\ \E to \in table[vmid][b] :
       /\ Use(b, thing, {to})
       /\ tlb' \in {tlb, tlb \union {<<vmid, b, to>>}}
  /\ UNCHANGED <<step, demo, table, vmid>>

\* A stage-2 abort: emulated, mapped for a retry, answered with zero, or the
\* end of the demo.
Abort(b, thing) ==
  /\ Cached(b) = {} /\ table[vmid][b] = {}
  /\ Use(b, thing, {})
  /\ IF thing \notin demo.emul /\ demo.miss = "map"
     THEN /\ table' = [table EXCEPT ![0] = stage2_map_1gb(@, b)]
          /\ tlb' = Invalidated
     ELSE UNCHANGED <<table, tlb>>
  /\ UNCHANGED <<step, demo, vmid>>

Access(b, thing) == acc.vm \in demo.vms /\ (Hit(b, thing) \/ Walk(b, thing) \/ Abort(b, thing))

S2Next ==
  \/ hv_main
  \/ \E v \in 0 .. 2 : RunOnce(v)
  \/ \E thing \in demo.touches : Access(0, thing)
  \/ Access(1, "ram")
  \/ demo.dev /\ Access(2, "ram")

S2Spec == S2Init /\ [][S2Next]_s2vars

-----------------------------------------------------------------------------
(* No stale translation: whatever earlier demos left behind in the TLB, the
   entries of the VMs now running agree with their tables, although a rebuild
   of the tables invalidates one VMID only. *)
TlbCoherent ==
  \A e \in tlb : e[1] \in demo.vms => e[3] \in table[e[1]][e[2]]

(* Two tenants use the same guest address and never reach the same memory, nor
   the hypervisor's block: the loads and stores of VM v are confined to its own
   block.  What an emulated device reads and writes for a VM does not go through
   these tables (VirtioConsole). *)
TenantsIsolated == acc.vm \in {1, 2} => acc.to \subseteq {<<acc.vm + 1, "normal">>}

(* A device the running demo emulates traps, so the guest does not get at the
   hardware behind it ("block0 (GIC+UART) unmapped", vcpu.c:896).  The
   exception is a demo that maps what it does not know, once its guest has
   touched another device: the whole 1 GiB block is mapped for it. *)
EmulatedDevicesTrap ==
  acc.thing \in demo.emul /\ ~(probed /\ demo.miss = "map") => acc.to = {}
=============================================================================
