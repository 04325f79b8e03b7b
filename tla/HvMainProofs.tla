---------------------------- MODULE HvMainProofs ----------------------------
(***************************************************************************)
(* Proofs about the boot: modules HypTimer, HvMain and Stage2.             *)
(*                                                                         *)
(* The timer: for any interval, and without a bound on the counter's reach *)
(* or on how late a handler runs.  An exception of the hypervisor gives    *)
(* back every register, the stack and the interrupt mask, for any number   *)
(* of ticks; and hv_main uses the timer only as module HypTimer says, so   *)
(* that the timer's theorems hold of the whole boot.                       *)
(*                                                                         *)
(* Stage-2: why no translation is stale and no tenant leaves its memory,   *)
(* although a rebuild of the tables invalidates one VMID only.             *)
(***************************************************************************)
EXTENDS HvMain, Stage2, TLAPS

\* While an interrupt is handled its deadline stays in the past: nothing stops
\* or restarts the timer before the handler has moved the deadline.
AckedIsDue == handler = "acked" => Line

Inv == TypeOK /\ NoDrift /\ NeverEarly /\ AckedIsDue

(* One more interval. *)
LEMMA NextMultiple ==
  ASSUME NEW n \in Nat, NEW iv \in Nat
  PROVE  (n + 1) * iv = n * iv + iv /\ n * iv \in Nat
OBVIOUS

(* The timer starts stopped. *)
LEMMA InitInv == Init => Inv
<1> SUFFICES ASSUME Init PROVE Inv
  OBVIOUS
<1>1. TypeOK
  BY Zenon DEF Init, TypeOK
<1>2. ~ctl
  BY Zenon DEF Init
<1>3. AckedIsDue
  BY DEF Init, AckedIsDue
<1> QED BY <1>1, <1>2, <1>3 DEF Inv, NoDrift, NeverEarly

(* Every step of the counter, the handler and the C interface keeps Inv. *)
LEMMA NextInv == Inv /\ [Next]_vars => Inv'
<1> SUFFICES ASSUME Inv, [Next]_vars PROVE Inv'
  OBVIOUS
<1> DEFINE due == t_ticks * t_interval
           next == (t_ticks + 1) * t_interval
<1>0. /\ due \in Nat /\ next \in Nat /\ next = due + t_interval
      /\ ctl => cval = began + next /\ began + due <= now
  BY NextMultiple DEF Inv, TypeOK, NoDrift, NeverEarly
<1> USE DEF Inv, TypeOK, NoDrift, NeverEarly, AckedIsDue, Line
<1>1. CASE Count
  <2>1. now' = now + 1 /\ due' = due /\ next' = next
    BY <1>1 DEF Count
  <2> HIDE DEF due, next
  <2>2. TypeOK' /\ AckedIsDue'
    BY <1>1 DEF Count
  <2>3. ctl' => cval' = began' + next' /\ began' + due' <= now'
    BY <1>0, <1>1, <2>1 DEF Count
  <2> QED BY <2>2, <2>3, Zenon DEF due, next
<1>2. ASSUME NEW iv \in Intervals, hyptimer_start(iv) PROVE Inv'
  <2>1. iv \in Nat
    BY HypTimerAssumption
  <2>2. (0 + 1) * iv = iv /\ 0 * iv = 0
    BY <2>1
  <2> QED BY <1>2, <2>1, <2>2 DEF hyptimer_start
<1>3. CASE hyptimer_stop
  BY <1>3, Zenon DEF hyptimer_stop
<1>4. CASE gic_ack
  BY <1>4, Zenon DEF gic_ack
<1>5. CASE hyptimer_on_irq
  <2>1. cval <= now /\ ctl
    BY <1>5 DEF hyptimer_on_irq
  <2>2. /\ t_ticks' = t_ticks + 1 /\ t_interval' = t_interval
        /\ cval' = cval + t_interval
        /\ began' = began /\ now' = now /\ ctl' = ctl
    BY <1>5 DEF hyptimer_on_irq
  <2>3. due' = next /\ next' = next + t_interval
    BY <2>2, NextMultiple
  <2>4. TypeOK' /\ AckedIsDue'
    BY <1>5 DEF hyptimer_on_irq
  <2> HIDE DEF due, next
  <2>5. ctl' => cval' = began' + next' /\ began' + due' <= now'
    BY <1>0, <2>1, <2>2, <2>3
  <2> QED BY <2>4, <2>5 DEF due, next
<1>6. CASE gic_eoi
  BY <1>6 DEF gic_eoi
<1>7. CASE UNCHANGED vars
  BY <1>7 DEF vars
<1> QED BY <1>1, <1>2, <1>3, <1>4, <1>5, <1>6, <1>7 DEF Next

(* The inductive invariant holds throughout. *)
LEMMA InvHolds == Spec => []Inv
BY InitInv, NextInv, PTL DEF Spec

-----------------------------------------------------------------------------
(* The timer's variables keep their types. *)
THEOREM HypTimerTypes == Spec => []TypeOK
BY InvHolds, PTL DEF Inv

(* hyptimer_on_irq keeps the deadlines on the grid that hyptimer_start laid
   out, however late it runs. *)
THEOREM TimerDoesNotDrift == Spec => []NoDrift
BY InvHolds, PTL DEF Inv

(* It never counts a tick whose interval has not passed. *)
THEOREM TicksAreDue == Spec => []NeverEarly
BY InvHolds, PTL DEF Inv

-----------------------------------------------------------------------------
\* Where hv_main runs with interrupts unmasked.
Waiting == {"check", "wfi", "asleep", "mask"}

\* The interrupt mask that belongs to a place.
Kept(p, m) == (p \in Waiting /\ m = FALSE) \/ (p \notin Waiting /\ m = TRUE)

\* The saved state lies where the handler has got to: in the registers and
\* ELR_EL2 at first, in the frame once el2_common has filled it.
Saved ==
  /\ exc \in {"none", "taken"} => (\A r \in Gprs : reg[r] = "main") /\ sp = 0
  /\ exc = "none" => Kept(pc, masked)
  /\ exc \in {"taken", "stub"} => Kept(elr, spsr) /\ (vector = "sync" => spsr = TRUE)
  /\ exc = "stub" =>
       /\ \A r \in StubRegs : frame[r] = "main"
       /\ \A r \in CommonRegs : reg[r] = "main"
  /\ exc \in {"dispatch", "return"} => \A r \in Gprs : frame[r] = "main"
  /\ exc = "dispatch" =>
       Kept(frame["elr"], frame["spsr"]) /\ (vector = "sync" => frame["spsr"] = TRUE)
  /\ exc = "return" => Kept(frame["elr"], frame["spsr"])
  /\ exc \in {"stub", "dispatch", "return"} => sp = 1

Shape ==
  /\ DOMAIN frame = Gprs \union {"elr", "spsr"}
  /\ DOMAIN reg = Gprs
  /\ exc \in {"none", "taken", "stub", "dispatch", "return"}

MainInv == Shape /\ Saved

(* hv_main starts with its own registers and interrupts masked. *)
LEMMA MainInitInv == MainInit => MainInv
BY DEF MainInit, MainInv, Shape, Saved, Kept, Waiting, Gprs, StubRegs, CommonRegs

(* The steps of hv_main leave the registers alone and change the mask only with
   the place. *)
LEMMA MainStepInv ==
  ASSUME MainInv, MainStep \/ Demos \/ CountOn
  PROVE  MainInv'
<1> USE DEF MainInv, Shape, Saved, Kept, Waiting
<1>1. CASE Brk
  BY <1>1 DEF Brk, Take, Running
<1>2. CASE gic_init_el2 \/ hyptimer_init \/ RouteToEl2
  BY <1>2 DEF gic_init_el2, hyptimer_init, RouteToEl2, SetUp, Running
<1>3. CASE Start \/ Check \/ Wfi \/ Stop
  BY <1>3 DEF Start, Check, Wfi, Stop, Goto, Running
<1>4. CASE SetMask("unmask", FALSE, "check") \/ SetMask("mask", TRUE, "stop")
  BY <1>4 DEF SetMask, Running
<1>5. CASE Demos \/ CountOn
  BY <1>5 DEF Demos, CountOn, cpuVars
<1> QED BY <1>1, <1>2, <1>3, <1>4, <1>5, Zenon DEF MainStep

(* An exception moves what it saves, stage by stage, and moves it back. *)
LEMMA ExceptionInv ==
  ASSUME MainInv, Irq \/ Exception
  PROVE  MainInv'
<1> USE DEF MainInv, Shape, Saved
<1>1. CASE Irq
  BY <1>1 DEF Irq, Take
<1>2. CASE VEC
  <2>1. /\ exc = "taken" /\ exc' = "stub" /\ sp' = sp + 1
        /\ UNCHANGED <<elr, spsr, vector>>
    BY <1>2 DEF VEC
  <2>2. DOMAIN frame' = DOMAIN frame /\ \A r \in StubRegs : frame'[r] = reg[r]
    BY <1>2 DEF VEC, Gprs, StubRegs, CommonRegs
  <2>3. DOMAIN reg' = DOMAIN reg /\ \A r \in CommonRegs : reg'[r] = reg[r]
    BY <1>2 DEF VEC, Gprs, StubRegs, CommonRegs
  <2>4. Shape'
    BY <1>2, <2>1, <2>2, <2>3 DEF VEC
  <2>5. Kept(elr, spsr)' /\ (vector = "sync" => spsr = TRUE)'
    BY <2>1 DEF Kept
  <2> QED BY <2>1, <2>2, <2>3, <2>4, <2>5 DEF Gprs
<1>3. CASE el2_common_save
  BY <1>3 DEF el2_common_save, Gprs, StubRegs, CommonRegs
<1>4. CASE DispatchIrq \/ DispatchEoi
  BY <1>4 DEF DispatchIrq, DispatchEoi, Clobbered
<1>5. CASE DispatchBrk
  BY <1>5 DEF DispatchBrk, Clobbered, Kept, Waiting, Gprs, StubRegs, CommonRegs
<1>6. CASE el2_common_return
  BY <1>6 DEF el2_common_return
<1> QED BY <1>1, <1>2, <1>3, <1>4, <1>5, <1>6, Zenon DEF Exception

(* MainInv holds throughout. *)
LEMMA MainInvHolds == MainSpec => []MainInv
<1>1. MainInv /\ UNCHANGED mainVars => MainInv'
  BY DEF mainVars, cpuVars, MainInv, Shape, Saved
<1>2. MainInv /\ [MainNext]_mainVars => MainInv'
  BY <1>1, MainStepInv, ExceptionInv DEF MainNext
<1> QED BY MainInitInv, <1>2, PTL DEF MainSpec

-----------------------------------------------------------------------------
(* The stub, el2_common and el2_exception_dispatch leave no trace in the code
   they interrupt, wherever the interrupt comes. *)
THEOREM InterruptsLeaveNoTrace == MainSpec => []ResumesUnharmed
<1>1. MainInv => ResumesUnharmed
  BY Zenon DEF MainInv, Saved, Kept, Waiting, ResumesUnharmed
<1> QED BY <1>1, MainInvHolds, PTL

(* hv_main and its interrupt handler use the EL2 timer as HypTimer says. *)
LEMMA MainUsesTimer == MainSpec => Spec
<1>1. MainInit => Init
  BY DEF MainInit
<1>2. [MainNext]_mainVars => [Next]_vars
  <2> SUFFICES ASSUME [MainNext]_mainVars PROVE Next \/ UNCHANGED vars
    OBVIOUS
  <2>1. CASE MainStep
    BY <2>1, HvMainAssumption DEF MainStep, Brk, Take, gic_init_el2, hyptimer_init, RouteToEl2,
      SetUp, Start, SetMask, Check, Wfi, Stop, Next
  <2>2. CASE Irq \/ Exception
    BY <2>2 DEF Irq, Take, Exception, VEC, el2_common_save, DispatchIrq, DispatchEoi,
      DispatchBrk, el2_common_return, Next
  <2>3. CASE Demos \/ CountOn
    BY <2>3 DEF Demos, CountOn, Next
  <2>4. CASE UNCHANGED mainVars
    BY <2>4 DEF mainVars
  <2> QED BY <2>1, <2>2, <2>3, <2>4 DEF MainNext
<1> QED BY <1>1, <1>2, PTL DEF MainSpec, Spec

(* From reset through every demo the deadlines stay on the grid and no tick is
   counted early. *)
THEOREM BootTimerExact == MainSpec => [](NoDrift /\ NeverEarly)
BY MainUsesTimer, TimerDoesNotDrift, TicksAreDue, PTL

-----------------------------------------------------------------------------
\* Stage-2.  The argument uses what the demos have in common (DemoFacts) and not
\* their order, save that the demo before real_guest_demo, which does not clear
\* the tables, leaves the devices unmapped.

NoDemo == Bare({}, FALSE)

\* What the demos have in common.  A demo runs guests on s2_l1 or on tables of
\* VMs, never on both; in the latter case it calls stage2_init, and never maps
\* what it does not know; a demo that emulates devices does not map them.
Disciplined(d) ==
  /\ d.vms \subseteq {0} \/ d.vms \subseteq {1, 2}
  /\ 0 \notin d.vms /\ d # NoDemo => d.init = TRUE
  /\ 0 \notin d.vms => d.dev = FALSE /\ d.miss # "map"
  /\ d.emul # {} => d.dev = FALSE
  /\ d.init \in BOOLEAN /\ d.dev \in BOOLEAN
  /\ d.dev = TRUE => d.init = TRUE
  /\ d.emul \subseteq Things \ {"other"} /\ d.touches \subseteq Things

(* The demos keep to these rules. *)
LEMMA DemoFacts ==
  /\ Disciplined(NoDemo)
  /\ \A i \in 1 .. Len(AllDemos) : Disciplined(AllDemos[i])
  /\ \A d \in LastDemos : Disciplined(d)
<1>1. Disciplined(NoDemo)
  <2>1. NoDemo.vms = {}
    BY DEF NoDemo, Bare, D
  <2>2. NoDemo.emul = {} /\ NoDemo.touches = {}
    BY DEF NoDemo, Bare, D
  <2>3. NoDemo.miss = "stop" /\ NoDemo.init = FALSE /\ NoDemo.dev = FALSE
    BY DEF NoDemo, Bare, D
  <2> QED BY <2>1, <2>2, <2>3, Zenon DEF Disciplined
<1>2. /\ Disciplined(linux_vgic_boot) /\ Disciplined(mtenant_os_demo) /\ Disciplined(linux_boot)
      /\ Disciplined(fermios_boot) /\ Disciplined(fermios_vgic_boot) /\ Disciplined(mtenant_real_demo)
  BY DEF Disciplined, NoDemo, Bare, D, Things, linux_vgic_boot, mtenant_os_demo,
    linux_boot, fermios_boot, fermios_vgic_boot, mtenant_real_demo
<1>3. /\ Disciplined(sched_demo) /\ Disciplined(virq_demo) /\ Disciplined(vgic_demo)
      /\ Disciplined(smp_demo) /\ Disciplined(smp_sched_demo) /\ Disciplined(mtenant_demo)
  BY DEF Disciplined, NoDemo, Bare, D, Things, sched_demo, virq_demo, vgic_demo, smp_demo,
    smp_sched_demo, mtenant_demo
<1>4. /\ Disciplined(mtenant_vgic_demo) /\ Disciplined(smp_psci_demo) /\ Disciplined(virtio_demo)
      /\ Disciplined(virtio_irq_demo) /\ Disciplined(vblk_demo) /\ Disciplined(vblk_rd_demo)
  BY DEF Disciplined, NoDemo, Bare, D, Things, mtenant_vgic_demo, smp_psci_demo, virtio_demo,
    virtio_irq_demo, vblk_demo, vblk_rd_demo
<1>5. /\ Disciplined(mtenant_virtio_demo) /\ Disciplined(mtenant_vblk_demo)
      /\ Disciplined(smp_vtimer_demo) /\ Disciplined(smp_gicr_demo) /\ Disciplined(real_guest_demo)
  BY DEF Disciplined, NoDemo, Bare, D, Things, mtenant_virtio_demo, mtenant_vblk_demo,
    smp_vtimer_demo, smp_gicr_demo, real_guest_demo
<1>6. \A i \in 1 .. Len(AllDemos) : Disciplined(AllDemos[i])
  BY <1>3, <1>4, <1>5 DEF AllDemos
<1> QED BY <1>1, <1>2, <1>6 DEF LastDemos

(* Every demo runs some VM. *)
LEMMA DemosRunVMs ==
  /\ \A i \in 1 .. Len(AllDemos) : AllDemos[i] # NoDemo
  /\ \A d \in LastDemos : d # NoDemo
<1>1. NoDemo.vms = {}
  BY DEF NoDemo, Bare, D
<1>2. \A d \in {sched_demo, virq_demo, vgic_demo, smp_demo, smp_sched_demo, mtenant_demo,
        mtenant_vgic_demo, smp_psci_demo, virtio_demo, virtio_irq_demo, vblk_demo,
        vblk_rd_demo, mtenant_virtio_demo, mtenant_vblk_demo, smp_vtimer_demo,
        smp_gicr_demo, real_guest_demo} : d.vms # {}
  BY DEF sched_demo, virq_demo, vgic_demo, smp_demo, smp_sched_demo, mtenant_demo,
        mtenant_vgic_demo, smp_psci_demo, virtio_demo, virtio_irq_demo, vblk_demo,
        vblk_rd_demo, mtenant_virtio_demo, mtenant_vblk_demo, smp_vtimer_demo,
        smp_gicr_demo, real_guest_demo, D, Bare
<1>3. \A d \in LastDemos : d.vms # {}
  BY DEF LastDemos, D, linux_vgic_boot, mtenant_os_demo,
    linux_boot, fermios_boot, fermios_vgic_boot, mtenant_real_demo
<1>4. \A i \in 1 .. Len(AllDemos) : AllDemos[i].vms # {}
  BY <1>2 DEF AllDemos
<1> QED BY <1>1, <1>3, <1>4

(* Only virq_demo, which emulates nothing, and real_guest_demo emulate devices
   on tables they have not cleared; before the latter comes smp_gicr_demo. *)
LEMMA KeepsTables ==
  /\ \A d \in LastDemos : d.init = TRUE
  /\ \A i \in 1 .. Len(AllDemos) : AllDemos[i].init = FALSE /\ AllDemos[i].emul # {} => i = 17
  /\ Len(AllDemos) = 17
  /\ AllDemos[16].emul # {} /\ AllDemos[16].miss # "map"
<1>1. \A d \in LastDemos : d.init = TRUE
  BY DEF LastDemos, D, linux_vgic_boot, mtenant_os_demo,
    linux_boot, fermios_boot, fermios_vgic_boot, mtenant_real_demo
<1>2. Len(AllDemos) = 17 /\ AllDemos[16] = smp_gicr_demo
  BY DEF AllDemos
<1>3. smp_gicr_demo.emul # {} /\ smp_gicr_demo.miss # "map"
  BY DEF smp_gicr_demo, D
<1>4. \A d \in {sched_demo, virq_demo, vgic_demo, smp_demo, smp_sched_demo, mtenant_demo,
        mtenant_vgic_demo, smp_psci_demo, virtio_demo, virtio_irq_demo, vblk_demo,
        vblk_rd_demo, mtenant_virtio_demo, mtenant_vblk_demo, smp_vtimer_demo,
        smp_gicr_demo} : d.init = FALSE => d.emul = {}
  BY DEF sched_demo, virq_demo, vgic_demo, smp_demo, smp_sched_demo, mtenant_demo,
        mtenant_vgic_demo, smp_psci_demo, virtio_demo, virtio_irq_demo, vblk_demo,
        vblk_rd_demo, mtenant_virtio_demo, mtenant_vblk_demo, smp_vtimer_demo,
        smp_gicr_demo, D, Bare
<1>5. \A i \in 1 .. 16 : AllDemos[i].init = FALSE => AllDemos[i].emul = {}
  BY <1>4 DEF AllDemos
<1> QED BY <1>1, <1>2, <1>3, <1>5

-----------------------------------------------------------------------------
\* The invariant.  The tables of VMs are empty or as stage2_build_vm makes
\* them, and s2_l1 maps block 1 to itself if at all.
Tables ==
  /\ table \in [0 .. 2 -> [Blocks -> SUBSET (Blocks \X {"normal", "device"})]]
  /\ table[0][1] \subseteq {<<1, "normal">>}
  /\ \A v \in {1, 2} :
       /\ table[v][1] \subseteq {<<v + 1, "normal">>}
       /\ \A b \in Blocks \ {1} : table[v][b] = {}
       /\ v \in demo.vms => table[v][1] = {<<v + 1, "normal">>}

\* Cached translations.  While VMs run, or whenever VTTBR_EL2 has the VMID of
\* one, all that is left of VMID 0 is block 1, which no rebuild changes.
Cache ==
  \A e \in tlb :
    /\ e \in (0 .. 2) \X Blocks \X (Blocks \X {"normal", "device"})
    /\ e[1] = 0 => e[3] \in table[0][e[2]]
    /\ e[1] = 0 /\ (vmid # 0 \/ 0 \notin demo.vms) => e[2] = 1
    /\ e[1] # 0 => e[2] = 1 /\ e[3] = <<e[1] + 1, "normal">>

\* The devices of a demo that emulates some are unmapped until it has faulted
\* in the block they are in.
DevicesUnmapped ==
  demo.emul # {} /\ ~(probed = TRUE /\ demo.miss = "map") => table[0][0] = {}

Current ==
  /\ step \in 0 .. Len(AllDemos) + 1
  /\ step = 0 => demo = NoDemo
  /\ step \in 1 .. Len(AllDemos) => demo = AllDemos[step]
  /\ Disciplined(demo)
  /\ vmid \in 0 .. 2 /\ probed \in BOOLEAN
  /\ acc \in [vm : 0 .. 3, block : Blocks, thing : Things \union {"none", "ram"},
             to : SUBSET (Blocks \X {"normal", "device"})]
  /\ acc.vm \in demo.vms => vmid = acc.vm
  /\ acc.vm \in demo.vms \union {3}

Stage2Inv == Current /\ Tables /\ Cache /\ DevicesUnmapped /\ TenantsIsolated /\ EmulatedDevicesTrap

(* Nothing is mapped or cached before the first demo. *)
LEMMA Stage2InitInv == S2Init => Stage2Inv
<1> SUFFICES ASSUME S2Init PROVE Stage2Inv
  OBVIOUS
<1>1. Current
  <2>1. Disciplined(demo)
    BY DemoFacts DEF S2Init, NoDemo
  <2>2. demo.vms = {}
    BY DEF S2Init, Bare, D
  <2>3. acc.vm = 3 /\ step = 0 /\ demo = NoDemo /\ vmid = 0 /\ probed \in BOOLEAN
    BY Zenon DEF S2Init, NoDemo, NoAccess
  <2>4. acc \in [vm : 0 .. 3, block : Blocks, thing : Things \union {"none", "ram"},
                to : SUBSET (Blocks \X {"normal", "device"})]
    BY DEF S2Init, NoAccess, Blocks
  <2> QED BY <2>1, <2>2, <2>3, <2>4, KeepsTables DEF Current
<1>2. Tables
  <2>1. demo.vms = {}
    BY DEF S2Init, Bare, D
  <2>2. \A t \in 0 .. 2 : table[t] = [b \in Blocks |-> {}]
    BY DEF S2Init, Unmapped
  <2>3. \A t \in 0 .. 2, b \in Blocks : table[t][b] = {}
    BY <2>2
  <2>4. table \in [0 .. 2 -> [Blocks -> SUBSET (Blocks \X {"normal", "device"})]]
    BY DEF S2Init, Unmapped
  <2> QED BY <2>1, <2>3, <2>4 DEF Tables, Blocks
<1>3. Cache
  BY DEF S2Init, Cache
<1>4. DevicesUnmapped /\ TenantsIsolated /\ EmulatedDevicesTrap
  BY DEF S2Init, DevicesUnmapped, TenantsIsolated, EmulatedDevicesTrap, NoAccess, Bare, D
<1> QED BY <1>1, <1>2, <1>3, <1>4 DEF Stage2Inv

(* The set-up of a demo: whatever it leaves of VMID 0 is block 1. *)
LEMMA SetUpInv ==
  ASSUME Stage2Inv, NEW d, SetUpDemo(d), Disciplined(d), d # NoDemo,
         d.init = FALSE /\ d.emul # {} => demo.emul # {} /\ demo.miss # "map",
         \/ step < Len(AllDemos) /\ d = AllDemos[step + 1]
         \/ step = Len(AllDemos) /\ d \in LastDemos
  PROVE  Stage2Inv'
<1> USE DEF Stage2Inv
<1>1. /\ demo' = d /\ step' = step + 1 /\ vmid' = vmid /\ acc' = NoAccess /\ probed' = FALSE
      /\ tlb' = IF d.init THEN {e \in tlb : e[1] # vmid} ELSE tlb
  BY DEF SetUpDemo, Invalidated
<1>2. /\ table' \in [0 .. 2 -> [Blocks -> SUBSET (Blocks \X {"normal", "device"})]]
      /\ \A v \in {1, 2} : table'[v] = IF v \in d.vms THEN stage2_build_vm(v) ELSE table[v]
  <2> DEFINE T == [Blocks -> SUBSET (Blocks \X {"normal", "device"})]
  <2>1. stage2_init \in T /\ \A v \in {1, 2} : stage2_build_vm(v) \in T
    BY DEF stage2_init, stage2_build_vm, Unmapped, Blocks
  <2>2. \A t \in T : stage2_map_1gb_device(t, 0) \in T
    BY DEF stage2_map_1gb_device, Blocks
  <2>3. \A t \in 0 .. 2 : table[t] \in T
    BY DEF Tables
  <2> HIDE DEF T
  <2>4. table' \in [0 .. 2 -> T]
    BY <2>1, <2>2, <2>3 DEF SetUpDemo
  <2>5. \A v \in {1, 2} : table'[v] = IF v \in d.vms THEN stage2_build_vm(v) ELSE table[v]
    BY DEF SetUpDemo
  <2> QED BY <2>4, <2>5 DEF T
<1>3. /\ d.init = FALSE => table'[0] = table[0]
      /\ d.init = TRUE => table'[0][1] = {<<1, "normal">>} /\ (d.dev = FALSE => table'[0][0] = {})
  BY DEF SetUpDemo, Tables, stage2_init, stage2_map_1gb_device, Unmapped, Blocks, Disciplined
<1>4. Current'
  <2>1. acc'.vm = 3 /\ probed' \in BOOLEAN
    BY <1>1, Zenon DEF NoAccess
  <2>4. 3 \notin d.vms
    BY DEF Disciplined
  <2>5. acc' \in [vm : 0 .. 3, block : Blocks, thing : Things \union {"none", "ram"},
                 to : SUBSET (Blocks \X {"normal", "device"})]
    BY <1>1 DEF NoAccess, Blocks
  <2>2. Len(AllDemos) = 17 /\ step \in 0 .. 17 /\ vmid \in 0 .. 2
    BY KeepsTables DEF Current
  <2>3. step' \in 0 .. 18 /\ (step' \in 1 .. 17 => demo' = AllDemos[step'])
    BY <1>1, <2>2
  <2> QED BY <1>1, <2>1, <2>2, <2>3, <2>4, <2>5 DEF Current
<1>5. Tables'
  <2>1. table'[0][1] \subseteq {<<1, "normal">>}
    BY <1>3 DEF Tables, Disciplined
  <2>2. \A v \in {1, 2} : /\ stage2_build_vm(v)[1] = {<<v + 1, "normal">>}
                         /\ \A b \in Blocks \ {1} : stage2_build_vm(v)[b] = {}
    BY DEF stage2_build_vm, Unmapped, Blocks
  <2>3. \A v \in {1, 2} :
          /\ table'[v][1] \subseteq {<<v + 1, "normal">>}
          /\ \A b \in Blocks \ {1} : table'[v][b] = {}
          /\ v \in d.vms => table'[v][1] = {<<v + 1, "normal">>}
    BY <1>2, <2>2 DEF Tables
  <2> QED BY <1>1, <1>2, <2>1, <2>3 DEF Tables
<1>6. Cache'
  <2> SUFFICES ASSUME NEW e \in tlb'
               PROVE  /\ e \in (0 .. 2) \X Blocks \X (Blocks \X {"normal", "device"})
                      /\ e[1] = 0 => e[3] \in table'[0][e[2]]
                      /\ e[1] = 0 /\ (vmid' # 0 \/ 0 \notin demo'.vms) => e[2] = 1
                      /\ e[1] # 0 => e[2] = 1 /\ e[3] = <<e[1] + 1, "normal">>
    BY DEF Cache
  <2>1. e \in tlb /\ (d.init = TRUE => e[1] # vmid)
    BY <1>1
  <2>2. e[1] = 0 /\ d.init = TRUE => e[2] = 1 /\ e[3] = <<1, "normal">>
    BY <2>1 DEF Cache, Tables
  <2> QED BY <1>1, <1>3, <2>1, <2>2 DEF Cache, Disciplined
<1>7. DevicesUnmapped'
  <2> SUFFICES ASSUME d.emul # {} PROVE table'[0][0] = {}
    BY <1>1 DEF DevicesUnmapped
  <2>1. d.dev = FALSE /\ d.init \in BOOLEAN
    BY DEF Disciplined
  <2>2. CASE d.init = TRUE
    BY <1>3, <2>1, <2>2
  <2>3. CASE d.init = FALSE
    BY <1>3, <2>3 DEF DevicesUnmapped
  <2> QED BY <2>1, <2>2, <2>3, Zenon
<1>8. TenantsIsolated' /\ EmulatedDevicesTrap'
  BY <1>1, Zenon DEF TenantsIsolated, EmulatedDevicesTrap, NoAccess, Disciplined, Things
<1> QED BY <1>4, <1>5, <1>6, <1>7, <1>8

(* Entering a vCPU: VTTBR_EL2 leaves VMID 0 only for the demos that run VMs. *)
LEMMA RunOnceInv ==
  ASSUME Stage2Inv, NEW v \in 0 .. 2, RunOnce(v)
  PROVE  Stage2Inv'
<1> USE DEF Stage2Inv
<1>1. /\ v \in demo.vms /\ vmid' = v /\ acc' = [NoAccess EXCEPT !.vm = v]
      /\ UNCHANGED <<step, demo, table, tlb, probed>>
  BY DEF RunOnce
<1>2. acc'.vm = v /\ acc'.to = {} /\ acc'.thing = "none"
  BY <1>1 DEF NoAccess
<1>3. Current'
  <2>1. acc' \in [vm : 0 .. 3, block : Blocks, thing : Things \union {"none", "ram"},
                 to : SUBSET (Blocks \X {"normal", "device"})]
    BY <1>1 DEF NoAccess, Blocks
  <2> QED BY <1>1, <1>2, <2>1 DEF Current
<1>4. Tables' /\ DevicesUnmapped'
  BY <1>1 DEF Tables, DevicesUnmapped
<1>5. Cache'
  BY <1>1 DEF Cache, Current, Disciplined
<1>6. TenantsIsolated' /\ EmulatedDevicesTrap'
  BY <1>2 DEF TenantsIsolated, EmulatedDevicesTrap
<1> QED BY <1>3, <1>4, <1>5, <1>6

(* What a guest reaches in block b is in the table of the VMID it runs under,
   whether the translation was cached or walked. *)
LEMMA UseInv ==
  ASSUME Stage2Inv, acc.vm \in demo.vms,
         NEW b \in Blocks, NEW thing \in Things \union {"ram"}, thing = "ram" <=> b # 0,
         NEW to \in SUBSET table[vmid][b], Use(b, thing, to), UNCHANGED <<step, demo, vmid>>
  PROVE  /\ Current' /\ TenantsIsolated' /\ EmulatedDevicesTrap'
         /\ probed = TRUE => probed' = TRUE
         /\ b = 0 /\ thing \notin demo.emul => probed' = TRUE
<1> USE DEF Stage2Inv
<1>1. vmid \in demo.vms /\ vmid = acc.vm
  BY DEF Current
<1>2. to \subseteq Blocks \X {"normal", "device"}
  BY DEF Current, Tables
<1>3. /\ acc' \in [vm : 0 .. 3, block : Blocks, thing : Things \union {"none", "ram"},
                  to : SUBSET (Blocks \X {"normal", "device"})]
      /\ acc'.vm = vmid /\ acc'.thing = thing /\ acc'.to = to
  BY <1>1, <1>2, Zenon DEF Use, Current
<1>4. /\ probed' \in BOOLEAN
      /\ probed = TRUE => probed' = TRUE
      /\ b = 0 /\ thing \notin demo.emul => probed' = TRUE
  BY Zenon DEF Use, Current
<1>5. Current'
  BY <1>1, <1>3, <1>4 DEF Current
<1>6. TenantsIsolated'
  <2> SUFFICES ASSUME vmid \in {1, 2} PROVE to \subseteq {<<vmid + 1, "normal">>}
    BY <1>3 DEF TenantsIsolated
  <2> QED BY DEF Tables
<1>7. EmulatedDevicesTrap'
  <2> SUFFICES ASSUME thing \in demo.emul, ~(probed' = TRUE /\ demo.miss = "map")
               PROVE  to = {}
    BY <1>3, <1>4, Zenon DEF EmulatedDevicesTrap
  <2>1. thing # "ram" /\ b = 0
    BY DEF Current, Disciplined, Things
  <2>2. table[0][0] = {}
    BY <1>4 DEF DevicesUnmapped
  <2> QED BY <2>1, <2>2 DEF Tables, Current, Blocks
<1> QED BY <1>4, <1>5, <1>6, <1>7

(* What is cached for the VMID in use is in its table. *)
LEMMA CachedInTable ==
  ASSUME Stage2Inv, acc.vm \in demo.vms, NEW b \in Blocks, NEW to \in Cached(b)
  PROVE  to \in table[vmid][b]
<1> USE DEF Stage2Inv
<1>1. PICK e \in tlb : e[1] = vmid /\ e[2] = b /\ e[3] = to
  BY DEF Cached
<1>2. vmid \in demo.vms /\ vmid \in 0 .. 2
  BY DEF Current
<1>3. CASE vmid = 0
  BY <1>1, <1>3 DEF Cache
<1>4. CASE vmid \in {1, 2}
  <2>1. b = 1 /\ to = <<vmid + 1, "normal">>
    BY <1>1, <1>4 DEF Cache
  <2> QED BY <1>2, <1>4, <2>1 DEF Tables
<1> QED BY <1>2, <1>3, <1>4

(* A guest access preserves the invariant: a walk caches what the table has,
   and only a demo on s2_l1 changes a table, dropping all of VMID 0. *)
LEMMA AccessInv ==
  ASSUME Stage2Inv, NEW b \in Blocks, NEW thing \in Things \union {"ram"},
         thing = "ram" <=> b # 0, Access(b, thing)
  PROVE  Stage2Inv'
<1> USE DEF Stage2Inv
<1>0. acc.vm \in demo.vms /\ vmid \in demo.vms /\ vmid \in 0 .. 2
  BY DEF Access, Current
<1>1. CASE Hit(b, thing)
  <2>1. PICK to \in Cached(b) : Use(b, thing, {to})
    BY <1>1 DEF Hit
  <2>2. UNCHANGED <<step, demo, table, vmid, tlb>>
    BY <1>1 DEF Hit
  <2>3. {to} \in SUBSET table[vmid][b]
    BY <1>0, CachedInTable
  <2>4. /\ Current' /\ TenantsIsolated' /\ EmulatedDevicesTrap'
        /\ probed = TRUE => probed' = TRUE
    BY <1>0, <2>1, <2>2, <2>3, UseInv, Zenon
  <2>5. Tables' /\ Cache' /\ DevicesUnmapped'
    BY <2>2, <2>4 DEF Tables, Cache, DevicesUnmapped
  <2> QED BY <2>4, <2>5
<1>2. CASE Walk(b, thing)
  <2>1. PICK to \in table[vmid][b] : /\ Use(b, thing, {to})
                                     /\ tlb' \in {tlb, tlb \union {<<vmid, b, to>>}}
    BY <1>2, Zenon DEF Walk
  <2>2. UNCHANGED <<step, demo, table, vmid>>
    BY <1>2 DEF Walk
  <2>3. {to} \in SUBSET table[vmid][b]
    OBVIOUS
  <2>4. /\ Current' /\ TenantsIsolated' /\ EmulatedDevicesTrap'
        /\ probed = TRUE => probed' = TRUE
    BY <1>0, <2>1, <2>2, <2>3, UseInv, Zenon
  <2>5. Tables' /\ DevicesUnmapped'
    BY <2>2, <2>4 DEF Tables, DevicesUnmapped
  <2>6. vmid # 0 => b = 1 /\ to = <<vmid + 1, "normal">>
    BY <1>0 DEF Tables
  <2>7. to \in Blocks \X {"normal", "device"}
    BY <1>0 DEF Tables
  <2>8. Cache'
    <3> SUFFICES ASSUME NEW e \in tlb'
                 PROVE  /\ e \in (0 .. 2) \X Blocks \X (Blocks \X {"normal", "device"})
                        /\ e[1] = 0 => e[3] \in table[0][e[2]]
                        /\ e[1] = 0 /\ (vmid # 0 \/ 0 \notin demo.vms) => e[2] = 1
                        /\ e[1] # 0 => e[2] = 1 /\ e[3] = <<e[1] + 1, "normal">>
      BY <2>2 DEF Cache
    <3>1. CASE e \in tlb
      BY <3>1 DEF Cache
    <3>2. CASE e = <<vmid, b, to>>
      BY <1>0, <2>6, <2>7, <3>2
    <3> QED BY <2>1, <3>1, <3>2
  <2> QED BY <2>4, <2>5, <2>8
<1>3. CASE Abort(b, thing)
  <2>1. Use(b, thing, {}) /\ UNCHANGED <<step, demo, vmid>>
    BY <1>3 DEF Abort
  <2>2. /\ Current' /\ TenantsIsolated' /\ EmulatedDevicesTrap'
        /\ probed = TRUE => probed' = TRUE
        /\ b = 0 /\ thing \notin demo.emul => probed' = TRUE
    BY <1>0, <2>1, UseInv, Zenon
  <2>3. CASE UNCHANGED <<table, tlb>>
    <3>1. Tables' /\ Cache' /\ DevicesUnmapped'
      BY <2>1, <2>2, <2>3 DEF Tables, Cache, DevicesUnmapped
    <3> QED BY <2>2, <3>1
  <2>4. CASE /\ thing \notin demo.emul /\ demo.miss = "map"
             /\ table' = [table EXCEPT ![0] = stage2_map_1gb(@, b)]
             /\ tlb' = Invalidated
    <3>1. vmid = 0 /\ 0 \in demo.vms
      BY <1>0, <2>4 DEF Current, Disciplined
    <3>2. /\ table'[0] = [table[0] EXCEPT ![b] = {<<b, "normal">>}]
          /\ table' \in [0 .. 2 -> [Blocks -> SUBSET (Blocks \X {"normal", "device"})]]
          /\ \A v \in {1, 2} : table'[v] = table[v]
      BY <2>4 DEF Tables, stage2_map_1gb
    <3>3. table'[0][1] \subseteq {<<1, "normal">>} /\ (b # 0 => table'[0][0] = table[0][0])
      <4>1. table[0] \in [Blocks -> SUBSET (Blocks \X {"normal", "device"})]
            /\ table[0][1] \subseteq {<<1, "normal">>} /\ 0 \in Blocks /\ 1 \in Blocks
        BY DEF Tables, Blocks
      <4>2. b = 1 => table'[0][1] = {<<1, "normal">>}
        BY <3>2, <4>1
      <4>3. b # 1 => table'[0][1] = table[0][1]
        BY <3>2, <4>1
      <4>4. b # 0 => table'[0][0] = table[0][0]
        BY <3>2, <4>1
      <4> QED BY <4>1, <4>2, <4>3, <4>4
    <3>4. Tables'
      BY <2>1, <3>2, <3>3, Zenon DEF Tables
    <3>5. tlb' = {e \in tlb : e[1] # 0}
      BY <2>4, <3>1 DEF Invalidated
    <3>6. Cache'
      BY <2>1, <3>5 DEF Cache
    <3>7. DevicesUnmapped'
      BY <2>1, <2>2, <2>4, <3>3 DEF DevicesUnmapped
    <3> QED BY <2>2, <3>4, <3>6, <3>7
  <2> QED BY <1>3, <2>3, <2>4 DEF Abort
<1> QED BY <1>1, <1>2, <1>3 DEF Access

(* Every step of the boot preserves the invariant. *)
LEMMA Stage2NextInv == Stage2Inv /\ [S2Next]_s2vars => Stage2Inv'
<1> SUFFICES ASSUME Stage2Inv, [S2Next]_s2vars PROVE Stage2Inv'
  OBVIOUS
<1> USE DEF Stage2Inv
<1>1. CASE hv_main
  <2>1. PICK d : /\ SetUpDemo(d)
                 /\ \/ step < Len(AllDemos) /\ d = AllDemos[step + 1]
                    \/ step = Len(AllDemos) /\ d \in LastDemos
    BY <1>1 DEF hv_main
  <2>2. step \in Nat /\ Len(AllDemos) = 17
    BY KeepsTables DEF Current
  <2>3. Disciplined(d) /\ d # NoDemo
    BY <2>1, <2>2, DemoFacts, DemosRunVMs
  <2>4. d.init = FALSE /\ d.emul # {} => demo.emul # {} /\ demo.miss # "map"
    BY <2>1, <2>2, KeepsTables DEF Current
  <2> QED BY <2>1, <2>3, <2>4, SetUpInv, Zenon
<1>2. CASE \E v \in 0 .. 2 : RunOnce(v)
  BY <1>2, RunOnceInv
<1>3. CASE \E thing \in demo.touches : Access(0, thing)
  <2>1. PICK thing \in demo.touches : Access(0, thing)
    BY <1>3
  <2>2. thing \in Things \union {"ram"} /\ thing # "ram" /\ 0 \in Blocks
    BY DEF Current, Disciplined, Things, Blocks
  <2> QED BY <2>1, <2>2, AccessInv
<1>4. CASE Access(1, "ram") \/ (demo.dev /\ Access(2, "ram"))
  <2>1. 1 \in Blocks /\ 2 \in Blocks
    BY DEF Blocks
  <2> QED BY <1>4, <2>1, AccessInv
<1>5. CASE UNCHANGED s2vars
  BY <1>5 DEF s2vars, Current, Tables, Cache, DevicesUnmapped, TenantsIsolated, EmulatedDevicesTrap
<1> QED BY <1>1, <1>2, <1>3, <1>4, <1>5 DEF S2Next

(* The inductive invariant holds throughout the boot. *)
LEMMA Stage2Invariant == S2Spec => []Stage2Inv
<1> QED BY Stage2InitInv, Stage2NextInv, PTL DEF S2Spec

(* No demo translates a guest access by an entry an earlier demo left in the
   TLB: what tlbi vmalls12e1 of one VMID (stage2.c) leaves behind of another
   is never wrong when that VMID runs again. *)
THEOREM NoStaleTranslation == S2Spec => []TlbCoherent
<1>1. Stage2Inv => TlbCoherent
  <2> SUFFICES ASSUME Stage2Inv, NEW e \in tlb, e[1] \in demo.vms
               PROVE  e[3] \in table[e[1]][e[2]]
    BY DEF TlbCoherent
  <2>1. e[1] \in 0 .. 2
    BY DEF Stage2Inv, Cache
  <2>2. CASE e[1] = 0
    BY <2>2 DEF Stage2Inv, Cache
  <2>3. CASE e[1] \in {1, 2}
    BY <2>3 DEF Stage2Inv, Cache, Tables
  <2> QED BY <2>1, <2>2, <2>3
<1> QED BY <1>1, Stage2Invariant, PTL

(* The memory tenants reach, cached or walked, is their own block
   (stage2_build_vm). *)
THEOREM TenantsStayIsolated == S2Spec => []TenantsIsolated
<1>1. Stage2Inv => TenantsIsolated
  BY DEF Stage2Inv
<1> QED BY <1>1, Stage2Invariant, PTL

(* An emulated device traps in every demo, until a demo that faults blocks in
   has mapped the whole block for another device. *)
THEOREM EmulatedDevicesAlwaysTrap == S2Spec => []EmulatedDevicesTrap
<1>1. Stage2Inv => EmulatedDevicesTrap
  BY DEF Stage2Inv
<1> QED BY <1>1, Stage2Invariant, PTL
=============================================================================
