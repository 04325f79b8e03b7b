-------------------------------- MODULE Traps --------------------------------
(***************************************************************************)
(* The exit loops of vcpu.c, all of them, as far as they act on the guest  *)
(* they run: which exits a loop decodes, what it does to the saved         *)
(* registers and the saved pc, which vCPU it runs next, and when it stops. *)
(* One demo is chosen at the start.                                        *)
(*                                                                         *)
(* The hardware (external) reports a trap in ESR_EL2 with the pc of the    *)
(* trapped instruction, or for HVC of the next one.  An interrupt leaves   *)
(* ESR_EL2 as it was: exit_esr then describes an earlier trap, perhaps of  *)
(* the other vCPU.  The virtual interrupts and the emulated devices        *)
(* themselves are modelled in SmpLoops, TickLoops, VGic, VUart and         *)
(* the virtio modules.                                                     *)
(***************************************************************************)
EXTENDS Naturals, FiniteSets, GuestInstrs

CONSTANTS
  VCpus,      \* indices of vcpus[]
  MaxInstrs,  \* bound: the instructions a vCPU executes
  Budget      \* the budget of run_vcpus: 3 in M4, 1 in M5

ASSUME TrapsAssumption ==
  /\ VCpus = {0, 1}
  /\ MaxInstrs \in Nat
  /\ Budget \in Nat \ {0}

\* A loop.  n: its vCPUs.  sched: who runs after an exit; "same", "next" (the
\* other one), "tick" (the other one after a timer tick) or "seq" (the next
\* VM when the current one is done).  imo: interrupts come to EL2.  hvc, smc,
\* sysreg: what it does with these exits, "end" if it has no case for them.
\* emul: it emulates devices.  other, fetch: what it does with other data
\* aborts and with instruction aborts.
L(n, sched, imo, hvc, smc, sysreg, emul, other, fetch) ==
  [n |-> n, sched |-> sched, imo |-> imo, hvc |-> hvc, smc |-> smc, sysreg |-> sysreg,
   emul |-> emul, other |-> other, fetch |-> fetch]

sched_demo        == L(2, "next", FALSE, "count", "end", "end", TRUE, "map", "map")
virq_demo         == L(1, "same", TRUE, "count", "end", "end", FALSE, "end", "end")
vgic_demo         == L(1, "same", TRUE, "count", "end", "end", TRUE, "map", "map")
smp_demo          == L(2, "next", TRUE, "ipi", "end", "sgi", FALSE, "end", "end")
smp_sched_demo    == L(2, "tick", TRUE, "end", "end", "sgi", FALSE, "end", "end")
mtenant_demo      == L(2, "seq", FALSE, "done", "end", "end", FALSE, "end", "end")
mtenant_vgic_demo == L(2, "tick", TRUE, "count", "end", "end", TRUE, "log", "end")
smp_psci_demo     == L(2, "tick", TRUE, "psci_or_done", "end", "sgi", FALSE, "end", "end")
virtio_demo       == L(1, "same", FALSE, "done", "end", "end", TRUE, "zero", "end")
virtio_irq_demo   == L(1, "same", TRUE, "done", "end", "end", TRUE, "zero", "end")
vblk_demo         == L(1, "same", TRUE, "done", "end", "end", TRUE, "zero", "end")
vblk_rd_demo      == L(1, "same", TRUE, "done", "end", "end", TRUE, "zero", "end")
mtenant_virtio_demo == L(2, "seq", FALSE, "done", "end", "end", TRUE, "zero", "end")
mtenant_vblk_demo == L(2, "seq", FALSE, "done", "end", "end", TRUE, "zero", "end")
smp_vtimer_demo   == L(2, "tick", TRUE, "count", "end", "end", TRUE, "zero", "end")
smp_gicr_demo     == L(2, "tick", TRUE, "count", "end", "end", TRUE, "zero", "end")
real_guest_demo   == L(1, "same", TRUE, "done", "end", "end", TRUE, "map", "map")
linux_boot        == L(1, "same", FALSE, "psci", "psci", "end", FALSE, "map", "map")
fermios_boot      == L(1, "same", FALSE, "end", "psci", "end", FALSE, "map_or_skip", "map_or_skip")
fermios_vgic_boot == L(1, "same", TRUE, "end", "psci", "cntp", TRUE, "map", "map")
mtenant_real_demo == L(2, "tick", TRUE, "count", "psci", "cntp", TRUE, "log", "log")
linux_vgic_boot   == L(2, "tick", TRUE, "psci", "psci", "sgi_or_cntp", TRUE, "zero", "zero")
mtenant_os_demo   == L(2, "tick", TRUE, "psci", "psci", "cntp", TRUE, "zero", "zero")

Loops ==
  {sched_demo, virq_demo, vgic_demo, smp_demo, smp_sched_demo, mtenant_demo, mtenant_vgic_demo,
   smp_psci_demo, virtio_demo, virtio_irq_demo, vblk_demo, vblk_rd_demo, mtenant_virtio_demo,
   mtenant_vblk_demo, smp_vtimer_demo, smp_gicr_demo, real_guest_demo, linux_boot, fermios_boot,
   fermios_vgic_boot, mtenant_real_demo, linux_vgic_boot, mtenant_os_demo}

\* The loops that start with vCPU 0 only, that never end by themselves, and
\* that look at the halted field after a run.
BootOne == {smp_psci_demo, linux_vgic_boot}
Endless == {real_guest_demo, linux_boot, fermios_boot, linux_vgic_boot}
TestsHalted == {linux_boot, fermios_boot, fermios_vgic_boot, linux_vgic_boot, mtenant_os_demo}

VARIABLES
  loop,      \* the loop running
  at,        \* "top" of the loop, in the "guest", at an "exit", or "ended"
  cur, up,   \* the vCPU of this iteration; how many are scheduled
  reason,    \* exit_reason: "sync" or "irq"; "none" once the exit is handled
  esr,       \* ESR_EL2 with FAR_EL2 and HPFAR_EL2: the instruction last trapped
  pc, x,     \* the contexts: pc counts instructions
  timer,     \* g_cntp_ctl, g_cntp_cval, g_cntp_tval
  mapped,    \* "block" is mapped in stage-2
  halted,    \* the vCPUs whose halted field is set
  hcalls, active,  \* the locals of run_vcpus
  ins        \* history: the instruction at a pc, if it is known: it has trapped
             \* and is to be retried, or an interrupt came before it

ctxVars == <<pc, x, timer, ins>>
runVars == <<halted, hcalls, active>>
vars == <<loop, at, cur, up, reason, esr, mapped, ctxVars, runVars>>

Init ==
  /\ loop \in Loops
  /\ at = "top" /\ cur = 0
  /\ up = IF loop \in BootOne THEN 1 ELSE loop.n
  /\ reason = "none" /\ esr = None
  /\ pc = [c \in VCpus |-> 0]
  /\ x = [c \in VCpus |-> [x0 |-> 0, x1 |-> 1]]
  /\ timer = [c \in VCpus |-> [r \in CntpRegs |-> 0]]
  /\ mapped = FALSE
  /\ halted = {} /\ hcalls = [c \in VCpus |-> 0] /\ active = loop.n
  /\ ins = [c \in VCpus |-> None]

-----------------------------------------------------------------------------
\* From the top of the loop to __guest_enter.  run_vcpus passes over halted
\* vCPUs and looks at active after the last one.

Enter ==
  /\ at = "top"
  /\ loop = sched_demo => cur \notin halted
  /\ at' = "guest"
  /\ UNCHANGED <<loop, cur, up, reason, esr, mapped, ctxVars, runVars>>

RunVcpusPasses ==
  /\ at = "top" /\ loop = sched_demo
  /\ cur \in halted
  /\ cur = 0 => active > 0
  /\ cur' = (cur + 1) % loop.n
  /\ UNCHANGED <<loop, at, up, reason, esr, mapped, ctxVars, runVars>>

\* Mutant of RunVcpusReturns: the first vCPU to finish ends the loop.
MutReturnsEarly ==
  /\ at = "top" /\ loop = sched_demo
  /\ cur = 0 /\ active < loop.n
  /\ at' = "ended"
  /\ UNCHANGED <<loop, cur, up, reason, esr, mapped, ctxVars, runVars>>

RunVcpusReturns ==
  /\ at = "top" /\ loop = sched_demo
  /\ cur = 0 /\ active = 0
  /\ at' = "ended"
  /\ UNCHANGED <<loop, cur, up, reason, esr, mapped, ctxVars, runVars>>

\* The tick target, the slices, the rounds (of both vCPUs) or the guard of the
\* loop; where the VMs run one after the other, of the loop for one VM.
BoundReached ==
  /\ at = "top" /\ loop \notin Endless \union {sched_demo, mtenant_demo}
  /\ loop = smp_demo => cur = 0
  /\ IF loop.sched = "seq" /\ cur = 0
     THEN cur' = 1 /\ UNCHANGED at
     ELSE at' = "ended" /\ UNCHANGED cur
  /\ UNCHANGED <<loop, up, reason, esr, mapped, ctxVars, runVars>>

-----------------------------------------------------------------------------
\* The guest and the hardware.

\* What the guests of a loop may execute.
Program ==
  Sets \union Others
  \union Accesses("block") \union RunsIn("block") \union Accesses("high") \union RunsIn("high")
  \union (IF loop.emul THEN Accesses("device") ELSE {})
  \union (IF loop.sysreg \in {"cntp", "sgi_or_cntp"} THEN CntpAccesses ELSE {})
  \union (IF loop.sysreg \in {"sgi", "sgi_or_cntp"} THEN SgiWrites ELSE {})
  \union (IF loop.hvc \in {"psci", "psci_or_done"} THEN Hvcs ELSE {I("hvc", "yield", "x0")})
  \union (IF loop.smc = "psci" THEN Smcs ELSE {})

\* The instruction at the pc: any, unless it is known.
Fetched == IF ins[cur] = None THEN Program ELSE {ins[cur]}

Traps(i) ==
  \/ i.op \in {"mrs", "msr", "sgi", "hvc", "smc", "wfx"}
  \/ i.what \in {"device", "high"}
  \/ i.what = "block" /\ ~mapped

Executing == at = "guest" /\ pc[cur] < MaxInstrs

\* A physical interrupt, before the instruction at the pc.  The loop cannot
\* see that instruction; noting one that sets x1 shows whether it is skipped.
IrqExit ==
  /\ at = "guest" /\ loop.imo
  /\ at' = "exit" /\ reason' = "irq"
  /\ \/ UNCHANGED ins
     \/ ins[cur] = None /\ pc[cur] < MaxInstrs /\ ins' = [ins EXCEPT ![cur] = I("set", "zero", "x1")]
  /\ UNCHANGED <<loop, cur, up, esr, mapped, pc, x, timer, runVars>>

TrapExit(i) ==
  /\ Executing /\ Traps(i)
  /\ at' = "exit" /\ reason' = "sync" /\ esr' = i
  /\ pc' = [pc EXCEPT ![cur] = IF i.op = "hvc" THEN @ + 1 ELSE @]
  /\ UNCHANGED <<loop, cur, up, mapped, x, timer, ins, runVars>>

\* No trap: the instruction completes by itself, with RAM in the block.
Direct(i) ==
  /\ Executing /\ ~Traps(i)
  /\ pc' = [pc EXCEPT ![cur] = @ + 1]
  /\ x' = [x EXCEPT ![cur] =
       IF i.op = "str" \/ i.rt = "xzr" THEN @
       ELSE [@ EXCEPT ![i.rt] = IF i.what = "zero" THEN 0 ELSE 1]]
  /\ ins' = [ins EXCEPT ![cur] = None]
  /\ UNCHANGED <<loop, at, cur, up, reason, esr, mapped, timer, runVars>>

-----------------------------------------------------------------------------
\* The exit is decoded: the halted field first, then exit_reason, then the
\* exception class and the other fields of exit_esr.

HaltedNow == loop \in TestsHalted /\ cur \in halted

HaltedExit ==
  /\ at = "exit" /\ HaltedNow
  /\ at' = "ended"
  /\ UNCHANGED <<loop, cur, up, reason, esr, mapped, ctxVars, runVars>>

\* Mutant of Sync: the exception class is looked at whatever the reason is.
MutSyncAnyReason(ops) == at = "exit" /\ ~HaltedNow /\ esr.op \in ops

Sync(ops) == at = "exit" /\ ~HaltedNow /\ reason = "sync" /\ esr.op \in ops

\* The pc of the trapped instruction.
Here == IF esr.op = "hvc" THEN pc[cur] - 1 ELSE pc[cur]

SavePc(p) ==
  /\ pc' = [pc EXCEPT ![cur] = p]
  /\ ins' = [ins EXCEPT ![cur] = IF p = Here THEN esr ELSE None]

Advance == SavePc(pc[cur] + 1)   \* v->pc += 4
Keep == SavePc(pc[cur])

\* x[rt] = v, unless rt is the zero register.
WriteReg(rt, v) ==
  x' = IF rt = "xzr" THEN x ELSE [x EXCEPT ![cur] = [@ EXCEPT ![rt] = v]]

ReadReg(rt) == IF rt = "xzr" THEN 0 ELSE x[cur][rt]

\* Another iteration, and the end of the loop or of the loop for one VM.
Again ==
  /\ at' = "top" /\ reason' = "none"
  /\ cur' = IF loop.sched = "next" THEN (cur + 1) % loop.n ELSE cur
  /\ UNCHANGED <<loop, esr>>

Leave ==
  /\ reason' = "none"
  /\ IF loop.sched = "seq" /\ cur = 0
     THEN at' = "top" /\ cur' = 1
     ELSE at' = "ended" /\ UNCHANGED cur
  /\ UNCHANGED <<loop, esr>>

\* gic_ack finds the EL2 timer, which may end the time slice, or nothing.
HandleIrq ==
  /\ at = "exit" /\ ~HaltedNow /\ reason = "irq"
  /\ at' = "top" /\ reason' = "none"
  /\ cur' \in CASE loop.sched = "next" -> {(cur + 1) % loop.n}
                [] loop.sched = "tick" /\ up = 2 -> VCpus
                [] OTHER -> {cur}
  /\ UNCHANGED <<loop, up, esr, mapped, ctxVars, runVars>>

\* mmio_emulate, vgic_mmio, virtio_mmio and vblk_mmio as the guest sees them.
EmulatedAccess ==
  /\ Sync({"ldr", "str", "ldp"}) /\ esr.what = "device"
  /\ IF esr.op = "ldr" THEN WriteReg(esr.rt, 1) ELSE UNCHANGED x
  /\ Advance /\ Again
  /\ UNCHANGED <<up, mapped, timer, runVars>>

\* What the loop does with any other abort.
AbortCase == IF esr.op = "run" THEN loop.fetch ELSE loop.other

OtherAbort == Sync({"ldr", "str", "ldp", "run"}) /\ esr.what # "device"

\* Mutant of FaultIn: another block than the one that faulted is mapped.
MutFaultInElsewhere ==
  /\ OtherAbort
  /\ AbortCase = "map" \/ (AbortCase = "map_or_skip" /\ esr.what = "block")
  /\ Keep /\ Again
  /\ UNCHANGED <<up, mapped, x, timer, runVars>>

\* stage2_map_1gb masks the index: for an access beyond the table it fills an
\* entry that is not the one the access is translated by.
FaultIn ==
  /\ OtherAbort
  /\ AbortCase = "map" \/ (AbortCase = "map_or_skip" /\ esr.what = "block")
  /\ mapped' = (mapped \/ esr.what = "block")
  /\ Keep /\ Again
  /\ UNCHANGED <<up, x, timer, runVars>>

SkipHigh ==
  /\ OtherAbort
  /\ AbortCase = "map_or_skip" /\ esr.what = "high"
  /\ Advance /\ Again
  /\ UNCHANGED <<up, mapped, x, timer, runVars>>

mmio_zero ==
  /\ OtherAbort /\ AbortCase = "zero"
  /\ IF esr.op = "ldr" THEN WriteReg(esr.rt, 0) ELSE UNCHANGED x
  /\ Advance /\ Again
  /\ UNCHANGED <<up, mapped, timer, runVars>>

\* M18 and M19 only print, and run the guest into the same abort again.
LoggedAbort ==
  /\ OtherAbort /\ AbortCase = "log"
  /\ Keep /\ Again
  /\ UNCHANGED <<up, mapped, x, timer, runVars>>

\* A trapped ICC_SGI1R_EL1 write; the SGI itself is followed in SmpLoops.
SgiWrite ==
  /\ Sync({"sgi"})
  /\ Advance /\ Again
  /\ UNCHANGED <<up, mapped, x, timer, runVars>>

cntp_emulate(vm) ==
  /\ Sync({"mrs", "msr"})
  /\ IF esr.op = "msr"
     THEN timer' = [timer EXCEPT ![vm] = [@ EXCEPT ![esr.what] = ReadReg(esr.rt)]] /\ UNCHANGED x
     ELSE WriteReg(esr.rt, timer[vm][esr.what]) /\ UNCHANGED timer
  /\ Advance /\ Again
  /\ UNCHANGED <<up, mapped, runVars>>

\* M17 has one VM and passes 0, the others the vCPU's index.
CntpTrap == cntp_emulate(IF loop = fermios_vgic_boot THEN 0 ELSE cur)

\* CPU_ON takes effect at the top of the next iteration, in the loops that
\* look for it.
psci_handle ==
  /\ CASE esr.what = "on" -> WriteReg("x0", 0)
       [] esr.what = "off" -> UNCHANGED x
       [] OTHER -> WriteReg("x0", 1)
  /\ halted' = IF esr.what = "off" THEN halted \union {cur} ELSE halted
  /\ up' = IF esr.what = "on" /\ loop \in BootOne THEN 2 ELSE up
  /\ UNCHANGED <<hcalls, active>>

SmcPsci ==
  /\ Sync({"smc"})
  /\ psci_handle
  /\ Advance /\ Again
  /\ UNCHANGED <<mapped, timer>>

HvcPsci ==
  /\ Sync({"hvc"})
  /\ loop.hvc = "psci" \/ (loop.hvc = "psci_or_done" /\ esr.what # "yield")
  /\ psci_handle
  /\ Keep /\ Again
  /\ UNCHANGED <<mapped, timer>>

\* Mutant of HvcCounted: a vCPU that has used up its budget stays active.
MutHvcKeepsActive ==
  /\ Sync({"hvc"})
  /\ loop.hvc = "count"
  /\ IF loop = sched_demo
     THEN /\ hcalls' = [hcalls EXCEPT ![cur] = @ + 1]
          /\ halted' = IF hcalls'[cur] >= Budget THEN halted \union {cur} ELSE halted
          /\ UNCHANGED active
     ELSE UNCHANGED runVars
  /\ Keep /\ Again
  /\ UNCHANGED <<up, mapped, x, timer>>

\* run_vcpus halts a vCPU that has used up its budget; the ticks that the
\* other loops count are in BoundReached.
HvcCounted ==
  /\ Sync({"hvc"})
  /\ loop.hvc = "count" \/ (loop.hvc = "ipi" /\ cur = 0)
  /\ IF loop = sched_demo
     THEN /\ hcalls' = [hcalls EXCEPT ![cur] = @ + 1]
          /\ halted' = IF hcalls'[cur] >= Budget THEN halted \union {cur} ELSE halted
          /\ active' = IF hcalls'[cur] >= Budget THEN active - 1 ELSE active
     ELSE UNCHANGED runVars
  /\ Keep /\ Again
  /\ UNCHANGED <<up, mapped, x, timer>>

HvcDone ==
  /\ Sync({"hvc"})
  /\ \/ loop.hvc = "done"
     \/ loop.hvc = "ipi" /\ cur = 1
     \/ loop.hvc = "psci_or_done" /\ esr.what = "yield"
  /\ Keep /\ Leave
  /\ UNCHANGED <<up, mapped, x, timer, runVars>>

NoCase ==
  \/ Sync({"wfx"})
  \/ Sync({"hvc"}) /\ loop.hvc = "end"
  \/ OtherAbort /\ AbortCase = "end"

\* run_vcpus halts the vCPU and goes on with the other.
UnexpectedExit ==
  /\ NoCase
  /\ Keep
  /\ IF loop = sched_demo
     THEN Again /\ halted' = halted \union {cur} /\ active' = active - 1 /\ UNCHANGED hcalls
     ELSE Leave /\ UNCHANGED runVars
  /\ UNCHANGED <<up, mapped, x, timer>>

Handle ==
  \/ HaltedExit \/ HandleIrq \/ EmulatedAccess \/ FaultIn \/ SkipHigh \/ mmio_zero
  \/ LoggedAbort \/ SgiWrite \/ CntpTrap \/ SmcPsci \/ HvcPsci \/ HvcCounted \/ HvcDone
  \/ UnexpectedExit

Next ==
  \/ Enter \/ RunVcpusPasses \/ RunVcpusReturns \/ BoundReached
  \/ IrqExit
  \/ \E i \in Fetched : TrapExit(i) \/ Direct(i)
  \/ Handle

Spec == Init /\ [][Next]_vars

-----------------------------------------------------------------------------
InFlight(c) == reason = "sync" /\ c = cur

Platform ==
  [block |-> CASE loop.other \in {"map", "map_or_skip"} -> "ram"
               [] loop.other = "zero" -> "absent"
               [] OTHER -> "none",
   calls |-> CASE loop.hvc = "psci" -> "psci"
               [] loop.hvc = "psci_or_done" -> "psci_or_yield"
               [] OTHER -> "yield"]

Machine == INSTANCE GuestMachine WITH
  plat <- Platform,
  pc <- [c \in VCpus |-> IF InFlight(c) THEN Here ELSE pc[c]],
  ins <- [c \in VCpus |-> IF InFlight(c) THEN esr ELSE ins[c]]

(* Trap and emulate is transparent, in every demo: whatever traps, interrupts
   and time slices come between, each vCPU executes its instructions in order,
   none twice and none skipped, and the result of an emulated one is in the
   register it names.  In particular the pc is moved past an SMC, a system
   register access and an emulated access but not past an HVC, a faulted-in
   access is retried, and an interrupt never acts on the syndrome an earlier
   trap left in exit_esr. *)
ImplementsGuestMachine == Machine!MachineSpec

(* No loop runs a guest into the same trap twice: an instruction that is
   retried has had its block mapped.  The exceptions are the aborts M18 and M19
   only report, and the accesses beyond the 512 GiB of the table in the loops
   that map whatever faulted: what they map is another block, the access faults
   again, and the loop goes on so (the hang of DEVLOG.md:160, which fermios_boot
   avoids by a test). *)
NeverTrapsTwice ==
  at = "exit" /\ reason = "sync" /\ ins[cur] # None =>
    \/ loop \in {mtenant_vgic_demo, mtenant_real_demo}
    \/ esr.what = "high" /\ AbortCase = "map"

(* run_vcpus counts the vCPUs that still run, although it halts them in two
   places: it never spins on halted vCPUs and never stops before the last. *)
ActiveIsRunning == loop = sched_demo => active = Cardinality((0 .. loop.n - 1) \ halted)

(* "until each has made `budget` hypercalls" (vcpu.c:122): when run_vcpus
   returns, each vCPU has made exactly that many, or has stopped at an
   instruction the loop has no case for. *)
BudgetSpent ==
  loop = sched_demo /\ at = "ended" =>
    \A c \in 0 .. loop.n - 1 : hcalls[c] = Budget \/ (hcalls[c] < Budget /\ ins[c] # None)
=============================================================================
