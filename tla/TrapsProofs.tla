----------------------------- MODULE TrapsProofs -----------------------------
(***************************************************************************)
(* Proofs about module Traps: for guest programs of any length and any     *)
(* budget, every loop executes the guest's instructions in order and once, *)
(* none runs a guest into the same trap twice but those NeverTrapsTwice    *)
(* names, and run_vcpus counts its vCPUs.                                  *)
(***************************************************************************)
EXTENDS Traps, FiniteSetTheorems, TLAPS

(* How the loops are put together: who can be scheduled, and what follows an
   abort. *)
LEMMA LoopFacts ==
  ASSUME NEW l \in Loops
  PROVE  /\ l.n \in {1, 2}
         /\ l.sched \in {"same", "next", "tick", "seq"}
         /\ l.sched # "same" => l.n = 2
         /\ l.other \in {"map", "map_or_skip", "zero", "log", "end"}
         /\ l.fetch \in {"map", "map_or_skip", "zero", "log", "end"}
         /\ l.fetch \in {"map", "map_or_skip"} => l.other \in {"map", "map_or_skip"}
         /\ l.fetch = "zero" => l.other = "zero"
         /\ "log" \in {l.other, l.fetch} => l \in {mtenant_vgic_demo, mtenant_real_demo}
         /\ l.hvc \in {"count", "end", "ipi", "done", "psci", "psci_or_done"}
BY DEF Loops, L, sched_demo, virq_demo, vgic_demo, smp_demo, smp_sched_demo, mtenant_demo,
  mtenant_vgic_demo, smp_psci_demo, virtio_demo, virtio_irq_demo, vblk_demo, vblk_rd_demo,
  mtenant_virtio_demo, mtenant_vblk_demo, smp_vtimer_demo, smp_gicr_demo, real_guest_demo,
  linux_boot, fermios_boot, fermios_vgic_boot, mtenant_real_demo, linux_vgic_boot, mtenant_os_demo

(* run_vcpus, and the loops it differs from. *)
LEMMA SchedDemoFacts ==
  /\ sched_demo.n = 2 /\ sched_demo.sched = "next" /\ sched_demo.hvc = "count"
  /\ sched_demo.other = "map" /\ sched_demo.fetch = "map"
  /\ sched_demo \notin TestsHalted /\ sched_demo \notin {mtenant_vgic_demo, mtenant_real_demo}
  /\ fermios_vgic_boot.n = 1
BY DEF L, sched_demo, TestsHalted, linux_boot, fermios_boot, fermios_vgic_boot, linux_vgic_boot,
  mtenant_os_demo, mtenant_vgic_demo, mtenant_real_demo

(* The instructions of a program, by their operation. *)
LEMMA ProgramShape ==
  ASSUME NEW i \in Program
  PROVE  /\ i \in AllInstrs /\ i # None
         /\ i.op \in {"set", "run", "ldr", "ldp", "str", "mrs", "msr", "sgi", "hvc", "smc", "wfx"}
         /\ i.op = "set" => i.rt = "x1" /\ i.what \in {"zero", "one"}
         /\ i.op \in {"run", "ldp"} => i.rt = "x1"
         /\ i.op \in {"ldr", "mrs", "msr"} => i.rt \in {"x1", "xzr"}
         /\ i.op = "run" => i.what \in {"block", "high"}
         /\ i.op \in {"ldr", "ldp", "str"} => i.what \in {"device", "block", "high"}
         /\ i.what \in {"device", "block", "high"} => i.op \in {"ldr", "ldp", "str", "run"}
         /\ i.op \in {"mrs", "msr"} => i.what \in CntpRegs
         /\ i.op \in {"hvc", "smc"} => i.what \in {"version", "on", "off", "unknown", "yield"}
<1>1. \/ i \in Sets \union Others \union RunsIn("block") \union RunsIn("high")
      \/ i \in Accesses("block") \union Accesses("device")
      \/ i \in Accesses("high")
      \/ i \in CntpAccesses \union SgiWrites
      \/ i \in Hvcs \union Smcs
  BY DEF Program, Hvcs
<1>2. i \in AllInstrs
  BY <1>1 DEF AllInstrs
<1>3. CASE i \in Sets \union Others \union RunsIn("block") \union RunsIn("high")
  BY <1>2, <1>3 DEF Sets, Others, RunsIn, I, None
<1>4. CASE i \in Accesses("block") \union Accesses("device")
  BY <1>2, <1>4 DEF Accesses, I, None
<1>5. CASE i \in Accesses("high")
  BY <1>2, <1>5 DEF Accesses, I, None
<1>6. CASE i \in CntpAccesses \union SgiWrites
  BY <1>2, <1>6 DEF CntpAccesses, SgiWrites, CntpRegs, I, None
<1>7. CASE i \in Hvcs \union Smcs
  BY <1>2, <1>7 DEF Hvcs, Smcs, PsciFns, I, None
<1> QED BY <1>1, <1>3, <1>4, <1>5, <1>6, <1>7

-----------------------------------------------------------------------------
\* The invariant.  While an exit is being handled exit_esr is an instruction
\* of this guest, and the one it is at, if that one is known; the block gets
\* mapped only in the loops that have RAM there.
TrapsTypeOK ==
  /\ loop \in Loops /\ at \in {"top", "guest", "exit", "ended"}
  /\ cur \in VCpus /\ up \in {1, 2} /\ (loop.n = 1 => cur = 0)
  /\ reason \in {"none", "sync", "irq"} /\ (at \in {"top", "guest"} => reason = "none")
  /\ pc \in [VCpus -> Nat]
  /\ x \in [VCpus -> [{"x0", "x1"} -> {0, 1}]]
  /\ timer \in [VCpus -> [CntpRegs -> {0, 1}]]
  /\ ins \in [VCpus -> Program \union {None}]
  /\ reason = "sync" =>
       esr \in Program /\ ins[cur] \in {None, esr} /\ (esr.op = "hvc" => pc[cur] > 0)
  /\ mapped = FALSE \/ (mapped = TRUE /\ loop.other \in {"map", "map_or_skip"})

\* The steps of the loop that leave the contexts alone.
LoopStep ==
  Enter \/ RunVcpusPasses \/ RunVcpusReturns \/ BoundReached \/ HaltedExit \/ HandleIrq

(* Which they do, and no exit gets lost that is being handled. *)
LEMMA LoopStepOutcome ==
  ASSUME TrapsTypeOK, LoopStep
  PROVE  /\ UNCHANGED <<loop, up, esr, mapped, ctxVars, runVars>>
         /\ at' \in {"top", "guest", "exit", "ended"} /\ cur' \in VCpus
         /\ loop.n = 1 => cur' = 0
         /\ reason' \in {"none", "sync", "irq"} /\ (at' \in {"top", "guest"} => reason' = "none")
         /\ (reason = "sync") = (reason' = "sync") /\ (reason = "sync" => cur' = cur)
<1>1. /\ loop.n \in {1, 2} /\ (loop.sched # "same" => loop.n = 2) /\ VCpus = {0, 1}
      /\ sched_demo.n = 2
  BY LoopFacts, SchedDemoFacts, TrapsAssumption DEF TrapsTypeOK
<1>2. CASE Enter
  BY <1>2 DEF Enter, TrapsTypeOK
<1>3. CASE RunVcpusPasses
  BY <1>1, <1>3 DEF RunVcpusPasses, TrapsTypeOK
<1>4. CASE RunVcpusReturns
  BY <1>4 DEF RunVcpusReturns, TrapsTypeOK
<1>5. CASE BoundReached
  BY <1>1, <1>5 DEF BoundReached, TrapsTypeOK
<1>6. CASE HaltedExit
  BY <1>6 DEF HaltedExit, TrapsTypeOK
<1>7. CASE HandleIrq
  BY <1>1, <1>7 DEF HandleIrq, TrapsTypeOK
<1> QED BY <1>2, <1>3, <1>4, <1>5, <1>6, <1>7 DEF LoopStep

\* The handlers of a synchronous exit.
SyncStep ==
  \/ EmulatedAccess \/ FaultIn \/ SkipHigh \/ mmio_zero \/ LoggedAbort \/ SgiWrite \/ CntpTrap
  \/ SmcPsci \/ HvcPsci \/ HvcCounted \/ HvcDone \/ UnexpectedExit

\* An instruction beyond the table, in a loop that maps whatever faulted.
Beyond(i) == i.what = "high" /\ (IF i.op = "run" THEN loop.fetch ELSE loop.other) = "map"

(* Faulting in maps the block that was accessed, in the loops with RAM there,
   or nothing that helps the access. *)
LEMMA FaultInMaps ==
  ASSUME TrapsTypeOK, FaultIn
  PROVE  /\ Keep
         /\ \/ mapped' = TRUE /\ esr.what = "block" /\ loop.other \in {"map", "map_or_skip"}
            \/ mapped' = mapped /\ Beyond(esr)
<1>1. /\ esr \in Program /\ esr.op \in {"ldr", "str", "ldp", "run"} /\ esr.what # "device"
      /\ AbortCase = "map" \/ (AbortCase = "map_or_skip" /\ esr.what = "block")
      /\ mapped' = (mapped \/ esr.what = "block") /\ Keep
  BY DEF FaultIn, OtherAbort, Sync, TrapsTypeOK
<1>2. esr.what \in {"block", "high"}
  BY <1>1, ProgramShape
<1>3. loop.fetch \in {"map", "map_or_skip"} => loop.other \in {"map", "map_or_skip"}
  BY LoopFacts DEF TrapsTypeOK
<1>4. CASE esr.what = "block"
  BY <1>1, <1>3, <1>4, Zenon DEF AbortCase
<1>5. CASE esr.what = "high"
  BY <1>1, <1>5, Zenon DEF AbortCase, Beyond, TrapsTypeOK
<1> QED BY <1>1, <1>2, <1>4, <1>5, Zenon

(* They finish with the exit: the pc is saved, and the next iteration or the
   next VM follows, or the loop ends. *)
LEMMA SyncStepOutcome ==
  ASSUME TrapsTypeOK, SyncStep
  PROVE  /\ at = "exit" /\ reason = "sync" /\ UNCHANGED <<loop, esr>>
         /\ Advance \/ Keep
         /\ at' \in {"top", "ended"} /\ cur' \in VCpus /\ (loop.n = 1 => cur' = 0)
         /\ reason' = "none" /\ up' \in {1, 2}
         /\ mapped' = mapped
              \/ (mapped' = TRUE /\ esr.what = "block" /\ Keep /\ loop.other \in {"map", "map_or_skip"})
<1>1. loop.n \in {1, 2} /\ (loop.sched # "same" => loop.n = 2) /\ VCpus = {0, 1}
  BY LoopFacts, TrapsAssumption DEF TrapsTypeOK
<1>2. at = "exit" /\ reason = "sync" /\ (Advance \/ Keep) /\ (Again \/ Leave)
  BY DEF SyncStep, EmulatedAccess, FaultIn, SkipHigh, mmio_zero, LoggedAbort, SgiWrite, CntpTrap,
    cntp_emulate, SmcPsci, HvcPsci, HvcCounted, HvcDone, UnexpectedExit, NoCase, OtherAbort, Sync
<1>3. up' \in {1, 2}
  BY DEF SyncStep, EmulatedAccess, FaultIn, SkipHigh, mmio_zero, LoggedAbort, SgiWrite, CntpTrap,
    cntp_emulate, SmcPsci, HvcPsci, HvcCounted, HvcDone, UnexpectedExit, psci_handle, TrapsTypeOK
<1>4. mapped' = mapped \/ FaultIn
  BY DEF SyncStep, EmulatedAccess, SkipHigh, mmio_zero, LoggedAbort, SgiWrite, CntpTrap,
    cntp_emulate, SmcPsci, HvcPsci, HvcCounted, HvcDone, UnexpectedExit
<1>5. /\ UNCHANGED <<loop, esr>> /\ at' \in {"top", "ended"} /\ cur' \in VCpus
      /\ (loop.n = 1 => cur' = 0) /\ reason' = "none"
  BY <1>1, <1>2 DEF Again, Leave, TrapsTypeOK
<1> QED BY <1>2, <1>3, <1>4, <1>5, FaultInMaps, Zenon

-----------------------------------------------------------------------------
\* The trapped instruction is to be tried again, or it has been completed.
Retried == Keep /\ esr.op # "hvc" /\ UNCHANGED <<x, timer>>

Completed ==
  /\ (Advance /\ esr.op # "hvc") \/ (Keep /\ esr.op = "hvc")
  /\ x' = [x EXCEPT ![cur] = Machine!RegsAfter(esr, cur)]
  /\ timer' = [timer EXCEPT ![cur] = Machine!TimerAfter(esr, cur)]

(* An instruction that only moves on: registers and timer stay. *)
LEMMA OnlyMovesOn ==
  ASSUME TrapsTypeOK, UNCHANGED <<x, timer>>,
         (Advance /\ esr.op # "hvc") \/ (Keep /\ esr.op = "hvc"),
         Machine!RegsAfter(esr, cur) = x[cur], esr.op # "msr"
  PROVE  Completed
BY DEF Completed, TrapsTypeOK, Machine!TimerAfter

(* A register is written, and the timer stays. *)
LEMMA WritesRegister ==
  ASSUME TrapsTypeOK, UNCHANGED timer, esr.op # "msr",
         (Advance /\ esr.op # "hvc") \/ (Keep /\ esr.op = "hvc"),
         NEW rt \in {"x0", "x1", "xzr"}, NEW v, WriteReg(rt, v),
         Machine!RegsAfter(esr, cur) = IF rt = "xzr" THEN x[cur] ELSE [x[cur] EXCEPT ![rt] = v]
  PROVE  Completed
BY Zenon DEF Completed, TrapsTypeOK, Machine!TimerAfter, WriteReg

(* Emulated devices and absent ones: a load gets its value, any other access
   is skipped. *)
LEMMA AccessEffect ==
  ASSUME TrapsTypeOK, EmulatedAccess \/ mmio_zero \/ SkipHigh
  PROVE  Completed
<1>1. /\ reason = "sync" /\ esr.op \in {"ldr", "str", "ldp", "run"} /\ Advance /\ UNCHANGED timer
      /\ esr \in Program
  BY DEF EmulatedAccess, mmio_zero, SkipHigh, OtherAbort, Sync, TrapsTypeOK
<1>2. /\ esr.op = "run" => esr.what # "device"
      /\ esr.op = "ldr" => esr.rt \in {"x1", "xzr"}
      /\ esr.what \in {"device", "block", "high"}
  BY <1>1, ProgramShape
<1>3. loop.fetch = "zero" => loop.other = "zero"
  BY LoopFacts DEF TrapsTypeOK
<1>4. CASE EmulatedAccess
  <2>1. esr.what = "device" /\ esr.op # "run"
    BY <1>2, <1>4 DEF EmulatedAccess, Sync
  <2>2. CASE esr.op = "ldr"
    <3>1. WriteReg(esr.rt, 1)
      BY <1>4, <2>2 DEF EmulatedAccess
    <3>2. Machine!Loaded(esr) = {1}
      BY <2>1 DEF Machine!Loaded
    <3>3. Machine!RegsAfter(esr, cur) = IF esr.rt = "xzr" THEN x[cur] ELSE [x[cur] EXCEPT ![esr.rt] = 1]
      BY <2>2, <3>2 DEF Machine!RegsAfter
    <3> QED BY <1>1, <1>2, <2>2, <3>1, <3>3, WritesRegister
  <2>3. CASE esr.op # "ldr"
    <3>1. Machine!RegsAfter(esr, cur) = x[cur]
      BY <1>1, <2>1, <2>3 DEF Machine!RegsAfter
    <3>2. UNCHANGED x
      BY <1>4, <2>3 DEF EmulatedAccess
    <3> QED BY <1>1, <3>1, <3>2, OnlyMovesOn
  <2> QED BY <2>2, <2>3
<1>5. CASE mmio_zero
  <2>1. AbortCase = "zero" /\ esr.what # "device"
    BY <1>5 DEF mmio_zero, OtherAbort
  <2>2. Platform.block = "absent"
    BY <1>3, <2>1 DEF Platform, AbortCase
  <2>3. CASE esr.op = "ldr"
    <3>1. WriteReg(esr.rt, 0)
      BY <1>5, <2>3 DEF mmio_zero
    <3>2. Machine!Loaded(esr) = {0}
      BY <1>2, <2>1, <2>2, <2>3 DEF Machine!Loaded, AbortCase
    <3>3. Machine!RegsAfter(esr, cur) = IF esr.rt = "xzr" THEN x[cur] ELSE [x[cur] EXCEPT ![esr.rt] = 0]
      BY <2>3, <3>2 DEF Machine!RegsAfter
    <3> QED BY <1>1, <1>2, <2>3, <3>1, <3>3, WritesRegister
  <2>4. CASE esr.op # "ldr"
    <3>1. Machine!RegsAfter(esr, cur) = x[cur]
      BY <1>1, <2>2, <2>4 DEF Machine!RegsAfter
    <3>2. UNCHANGED x
      BY <1>5, <2>4 DEF mmio_zero
    <3> QED BY <1>1, <3>1, <3>2, OnlyMovesOn
  <2> QED BY <2>3, <2>4
<1>6. CASE SkipHigh
  <2>1. esr.what = "high" /\ AbortCase = "map_or_skip" /\ UNCHANGED x
    BY <1>6 DEF SkipHigh
  <2>2. Machine!Loaded(esr) = {}
    <3>1. Platform.block = "ram"
      BY <2>1, LoopFacts DEF Platform, AbortCase, TrapsTypeOK
    <3> QED BY <2>1, <3>1 DEF Machine!Loaded
  <2>3. Machine!RegsAfter(esr, cur) = x[cur]
    BY <1>1, <2>1, <2>2 DEF Machine!RegsAfter
  <2> QED BY <1>1, <2>1, <2>3, OnlyMovesOn
<1> QED BY <1>4, <1>5, <1>6

(* The CNTP registers: each vCPU has its own. *)
LEMMA CntpEffect ==
  ASSUME TrapsTypeOK, CntpTrap
  PROVE  Completed
<1>1. cntp_emulate(cur)
  BY SchedDemoFacts DEF CntpTrap, TrapsTypeOK
<1>2. /\ reason = "sync" /\ esr.op \in {"mrs", "msr"} /\ Advance /\ esr \in Program
  BY <1>1 DEF cntp_emulate, Sync, TrapsTypeOK
<1>3. esr.rt \in {"x1", "xzr"} /\ esr.what \in CntpRegs
  BY <1>2, ProgramShape
<1>4. CASE esr.op = "mrs"
  <2>1. WriteReg(esr.rt, timer[cur][esr.what]) /\ UNCHANGED timer
    BY <1>1, <1>4 DEF cntp_emulate
  <2>2. Machine!RegsAfter(esr, cur) =
          IF esr.rt = "xzr" THEN x[cur] ELSE [x[cur] EXCEPT ![esr.rt] = timer[cur][esr.what]]
    BY <1>4 DEF Machine!RegsAfter
  <2> QED BY <1>2, <1>3, <1>4, <2>1, <2>2, WritesRegister
<1>5. CASE esr.op = "msr"
  <2>1. timer' = [timer EXCEPT ![cur] = [@ EXCEPT ![esr.what] = ReadReg(esr.rt)]] /\ UNCHANGED x
    BY <1>1, <1>5 DEF cntp_emulate
  <2>2. timer' = [timer EXCEPT ![cur] = Machine!TimerAfter(esr, cur)]
    BY <1>5, <2>1 DEF Machine!TimerAfter, ReadReg
  <2>3. Machine!RegsAfter(esr, cur) = x[cur]
    BY <1>5 DEF Machine!RegsAfter
  <2>4. x' = [x EXCEPT ![cur] = Machine!RegsAfter(esr, cur)]
    BY <2>1, <2>3 DEF TrapsTypeOK
  <2> QED BY <1>2, <2>2, <2>4 DEF Completed
<1> QED BY <1>2, <1>4, <1>5

(* PSCI calls, by SMC and by HVC: the result is in x0. *)
LEMMA PsciEffect ==
  ASSUME TrapsTypeOK, SmcPsci \/ HvcPsci
  PROVE  Completed
<1>1. /\ reason = "sync" /\ esr.op \in {"smc", "hvc"} /\ UNCHANGED timer /\ psci_handle
      /\ (Advance /\ esr.op # "hvc") \/ (Keep /\ esr.op = "hvc")
  BY DEF SmcPsci, HvcPsci, Sync
<1>2. esr.op = "hvc" => Machine!Call(esr)
  BY DEF SmcPsci, HvcPsci, Sync, Machine!Call, Platform
<1>3. Machine!RegsAfter(esr, cur) = [x[cur] EXCEPT !["x0"] = Machine!Result(esr.what, @)]
  BY <1>1, <1>2 DEF Machine!RegsAfter
<1>4. CASE esr.what = "off"
  <2>1. UNCHANGED x /\ Machine!RegsAfter(esr, cur) = [x[cur] EXCEPT !["x0"] = @]
    BY <1>1, <1>3, <1>4 DEF psci_handle, Machine!Result
  <2>2. Machine!RegsAfter(esr, cur) = x[cur]
    BY <2>1 DEF TrapsTypeOK
  <2> QED BY <1>1, <2>1, <2>2, OnlyMovesOn
<1>5. CASE esr.what # "off"
  <2> DEFINE v == IF esr.what = "on" THEN 0 ELSE 1
  <2>1. WriteReg("x0", v)
    BY <1>1, <1>5 DEF psci_handle
  <2>2. Machine!RegsAfter(esr, cur) = [x[cur] EXCEPT !["x0"] = v]
    BY <1>3, <1>5 DEF Machine!Result
  <2> QED BY <1>1, <2>1, <2>2, WritesRegister
<1> QED BY <1>4, <1>5

(* The hypercalls that only yield, an SGI, and the exits that are retried or
   end the loop. *)
LEMMA OtherEffect ==
  ASSUME TrapsTypeOK,
         FaultIn \/ LoggedAbort \/ SgiWrite \/ HvcCounted \/ HvcDone \/ UnexpectedExit
  PROVE  Completed \/ Retried
<1>1. /\ reason = "sync" /\ UNCHANGED <<x, timer>> /\ esr \in Program
      /\ Keep \/ (Advance /\ esr.op = "sgi")
  BY DEF FaultIn, LoggedAbort, SgiWrite, HvcCounted, HvcDone, UnexpectedExit, NoCase, OtherAbort,
    Sync, TrapsTypeOK
<1>2. CASE esr.op = "sgi"
  <2>1. Machine!RegsAfter(esr, cur) = x[cur]
    BY <1>2 DEF Machine!RegsAfter
  <2>2. Advance
    BY <1>2 DEF FaultIn, LoggedAbort, SgiWrite, HvcCounted, HvcDone, UnexpectedExit, NoCase,
      OtherAbort, Sync
  <2> QED BY <1>1, <1>2, <2>1, <2>2, OnlyMovesOn
<1>3. CASE esr.op = "hvc"
  <2>1. ~Machine!Call(esr)
    BY <1>3 DEF FaultIn, LoggedAbort, SgiWrite, HvcCounted, HvcDone, UnexpectedExit, NoCase,
      OtherAbort, Sync, Machine!Call, Platform
  <2>2. Machine!RegsAfter(esr, cur) = x[cur]
    BY <1>3, <2>1 DEF Machine!RegsAfter
  <2> QED BY <1>1, <1>3, <2>2, OnlyMovesOn
<1>4. CASE esr.op \notin {"sgi", "hvc"}
  BY <1>1, <1>4 DEF Retried
<1> QED BY <1>2, <1>3, <1>4

(* Every handler completes the trapped instruction or has it tried again. *)
LEMMA SyncEffect ==
  ASSUME TrapsTypeOK, SyncStep
  PROVE  Completed \/ Retried
BY AccessEffect, CntpEffect, PsciEffect, OtherEffect DEF SyncStep

-----------------------------------------------------------------------------
\* The pc and the instruction of a vCPU as the abstract machine has them.
MPc(c) == IF InFlight(c) THEN Here ELSE pc[c]
MIns(c) == IF InFlight(c) THEN esr ELSE ins[c]

(* Both have the same instructions. *)
LEMMA SameInstrs == Machine!AllInstrs = AllInstrs /\ Machine!None = None /\ Machine!CntpRegs = CntpRegs
<1>1. /\ \A op, what, rt : Machine!I(op, what, rt) = I(op, what, rt)
      /\ Machine!CntpRegs = CntpRegs /\ Machine!PsciFns = PsciFns
  BY DEF Machine!I, I, Machine!CntpRegs, CntpRegs, Machine!PsciFns, PsciFns
<1>2. /\ Machine!Sets = Sets /\ Machine!SgiWrites = SgiWrites
      /\ Machine!Others = Others /\ Machine!None = None
  BY <1>1 DEF Machine!Sets, Sets, Machine!SgiWrites, SgiWrites,
    Machine!Others, Others, Machine!None, None
<1>3. \A place : Machine!Accesses(place) = Accesses(place) /\ Machine!RunsIn(place) = RunsIn(place)
  BY <1>1 DEF Machine!Accesses, Accesses, Machine!RunsIn, RunsIn
<1>4. Machine!CntpAccesses = CntpAccesses
  BY <1>1 DEF Machine!CntpAccesses, CntpAccesses
<1>5. Machine!Hvcs = Hvcs /\ Machine!Smcs = Smcs
  BY <1>1 DEF Machine!Hvcs, Hvcs, Machine!Smcs, Smcs
<1> QED BY <1>1, <1>2, <1>3, <1>4, <1>5 DEF Machine!AllInstrs, AllInstrs

(* What it takes for a step to be one of the abstract machine. *)
LEMMA MachineExecutes ==
  ASSUME NEW c \in VCpus, NEW i \in AllInstrs,
         UNCHANGED loop,
         MPc(c)' = MPc(c) + 1, MIns(c) \in {None, i}, MIns(c)' = None,
         \A d \in VCpus \ {c} : MPc(d)' = MPc(d) /\ MIns(d)' = MIns(d),
         x' = [x EXCEPT ![c] = Machine!RegsAfter(i, c)],
         timer' = [timer EXCEPT ![c] = Machine!TimerAfter(i, c)]
  PROVE  Machine!MachineNext
<1>1. Machine!Execute(c)
  BY SameInstrs, Zenon DEF Machine!Execute, MPc, MIns, Platform
<1> QED BY <1>1, SameInstrs DEF Machine!MachineNext

(* Or an attempt. *)
LEMMA MachineAttempts ==
  ASSUME NEW c \in VCpus, NEW i \in AllInstrs,
         UNCHANGED <<loop, x, timer>>,
         MIns(c) = None, MIns(c)' = i,
         \A d \in VCpus : MPc(d)' = MPc(d),
         \A d \in VCpus \ {c} : MIns(d)' = MIns(d)
  PROVE  Machine!MachineNext
<1>1. Machine!Attempt(c)
  BY SameInstrs, Zenon DEF Machine!Attempt, MPc, MIns, Platform
<1> QED BY <1>1, SameInstrs DEF Machine!MachineNext

(* Or nothing that it can see. *)
LEMMA MachineStutters ==
  ASSUME UNCHANGED <<loop, x, timer>>,
         \A d \in VCpus : MPc(d)' = MPc(d) /\ MIns(d)' = MIns(d)
  PROVE  UNCHANGED Machine!machineVars
BY DEF Machine!machineVars, MPc, MIns, Platform

(* Registers stay registers. *)
LEMMA AfterTypes ==
  ASSUME TrapsTypeOK, NEW i \in Program
  PROVE  /\ Machine!RegsAfter(i, cur) \in [{"x0", "x1"} -> {0, 1}]
         /\ Machine!TimerAfter(i, cur) \in [CntpRegs -> {0, 1}]
<1>1. x[cur] \in [{"x0", "x1"} -> {0, 1}] /\ timer[cur] \in [CntpRegs -> {0, 1}]
  BY DEF TrapsTypeOK
<1>2. /\ i.op \in {"run", "ldp"} => i.rt = "x1"
      /\ i.op \in {"ldr", "mrs", "msr"} => i.rt \in {"x1", "xzr"}
      /\ i.op \in {"mrs", "msr"} => i.what \in CntpRegs
  BY ProgramShape
<1>3. Machine!TimerAfter(i, cur) \in [CntpRegs -> {0, 1}]
  BY <1>1, <1>2 DEF Machine!TimerAfter
<1>4. Machine!Loaded(i) \in {{}, {0}, {1}}
  BY DEF Machine!Loaded
<1>5. Machine!Result(i.what, x[cur]["x0"]) \in {0, 1}
  BY <1>1 DEF Machine!Result
<1>6. Machine!RegsAfter(i, cur) \in [{"x0", "x1"} -> {0, 1}]
  BY <1>1, <1>2, <1>4, <1>5 DEF Machine!RegsAfter
<1> QED BY <1>3, <1>6

(* A loop step is none of the machine's. *)
LEMMA LoopStepRefines ==
  ASSUME TrapsTypeOK, LoopStep
  PROVE  TrapsTypeOK' /\ UNCHANGED Machine!machineVars
<1>1. /\ UNCHANGED <<loop, up, esr, mapped, pc, x, timer, ins>>
      /\ at' \in {"top", "guest", "exit", "ended"} /\ cur' \in VCpus
      /\ loop.n = 1 => cur' = 0
      /\ reason' \in {"none", "sync", "irq"} /\ (at' \in {"top", "guest"} => reason' = "none")
      /\ (reason = "sync") = (reason' = "sync") /\ (reason = "sync" => cur' = cur)
  BY LoopStepOutcome DEF ctxVars
<1>2. Program' = Program
  BY <1>1 DEF Program
<1>3. TrapsTypeOK'
  BY <1>1, <1>2 DEF TrapsTypeOK
<1>4. \A d \in VCpus : MPc(d)' = MPc(d) /\ MIns(d)' = MIns(d)
  BY <1>1 DEF MPc, MIns, InFlight, Here
<1> QED BY <1>1, <1>3, <1>4, MachineStutters

(* A handler executes the trapped instruction, or leaves it as attempted. *)
LEMMA SyncStepRefines ==
  ASSUME TrapsTypeOK, SyncStep
  PROVE  TrapsTypeOK' /\ (Machine!MachineNext \/ UNCHANGED Machine!machineVars)
<1>1. /\ at = "exit" /\ reason = "sync" /\ UNCHANGED <<loop, esr>>
      /\ at' \in {"top", "ended"} /\ cur' \in VCpus /\ (loop.n = 1 => cur' = 0)
      /\ reason' = "none" /\ up' \in {1, 2} /\ (Advance \/ Keep)
      /\ mapped' = mapped \/ (mapped' = TRUE /\ loop.other \in {"map", "map_or_skip"})
  BY SyncStepOutcome, Zenon
<1>2. Completed \/ Retried
  BY SyncEffect
<1>3. Program' = Program
  BY <1>1 DEF Program
<1>4. esr \in Program /\ esr \in AllInstrs
  BY <1>1, ProgramShape DEF TrapsTypeOK
<1>5. PICK c \in VCpus : c = cur
  BY DEF TrapsTypeOK
<1>6. pc' \in [VCpus -> Nat] /\ ins' \in [VCpus -> Program \union {None}]
  <2>1. /\ cur \in VCpus /\ pc \in [VCpus -> Nat] /\ ins \in [VCpus -> Program \union {None}]
        /\ pc[cur] \in Nat
    BY DEF TrapsTypeOK
  <2>2. PICK q \in Nat : SavePc(q)
    BY <1>1, <2>1 DEF Advance, Keep
  <2> QED BY <1>4, <2>1, <2>2 DEF SavePc
<1>7. /\ x' \in [VCpus -> [{"x0", "x1"} -> {0, 1}]]
      /\ timer' \in [VCpus -> [CntpRegs -> {0, 1}]]
  BY <1>2, <1>4, AfterTypes, Zenon DEF TrapsTypeOK, Completed, Retried
<1>8. TrapsTypeOK'
  BY <1>1, <1>3, <1>6, <1>7 DEF TrapsTypeOK
<1>9. \A d \in VCpus \ {c} : MPc(d)' = MPc(d) /\ MIns(d)' = MIns(d)
  BY <1>1, <1>5 DEF MPc, MIns, InFlight, Advance, Keep, SavePc, TrapsTypeOK
<1>10. CASE Completed
  <2>1. MPc(c)' = MPc(c) + 1 /\ MIns(c) \in {None, esr} /\ MIns(c)' = None
    BY <1>1, <1>5, <1>10 DEF MPc, MIns, InFlight, Here, Completed, Advance, Keep, SavePc, TrapsTypeOK
  <2>2. /\ x' = [x EXCEPT ![c] = Machine!RegsAfter(esr, c)]
        /\ timer' = [timer EXCEPT ![c] = Machine!TimerAfter(esr, c)]
    BY <1>5, <1>10 DEF Completed
  <2>3. Machine!MachineNext
    BY <1>1, <1>4, <1>9, <2>1, <2>2, MachineExecutes, Zenon
  <2> QED BY <1>8, <2>3
<1>11. CASE Retried
  <2>1. MPc(c)' = MPc(c) /\ MIns(c)' = MIns(c)
    BY <1>1, <1>5, <1>11 DEF MPc, MIns, InFlight, Here, Retried, Keep, SavePc, TrapsTypeOK
  <2>2. UNCHANGED Machine!machineVars
    BY <1>1, <1>9, <1>11, <2>1, MachineStutters DEF Retried
  <2> QED BY <1>8, <2>2
<1> QED BY <1>2, <1>10, <1>11

(* An interrupt comes before an instruction, which may become known by it. *)
LEMMA IrqExitRefines ==
  ASSUME TrapsTypeOK, IrqExit
  PROVE  TrapsTypeOK' /\ (Machine!MachineNext \/ UNCHANGED Machine!machineVars)
<1> DEFINE i == I("set", "zero", "x1")
<1>1. /\ at = "guest" /\ at' = "exit" /\ reason' = "irq" /\ reason = "none"
      /\ UNCHANGED <<loop, cur, up, esr, mapped, pc, x, timer>>
      /\ UNCHANGED ins \/ (ins[cur] = None /\ ins' = [ins EXCEPT ![cur] = i])
  BY DEF IrqExit, TrapsTypeOK
<1>2. Program' = Program /\ i \in Program /\ i \in AllInstrs
  <2>1. Program' = Program /\ i \in Program
    BY <1>1 DEF Program, Sets
  <2> QED BY <2>1, ProgramShape
<1> HIDE DEF i
<1>2a. ins' \in [VCpus -> Program \union {None}]
  BY <1>1, <1>2 DEF TrapsTypeOK
<1>3. TrapsTypeOK'
  BY <1>1, <1>2, <1>2a, Zenon DEF TrapsTypeOK
<1>4. PICK c \in VCpus : c = cur
  BY DEF TrapsTypeOK
<1>5. \A d \in VCpus : MPc(d)' = MPc(d) /\ (d # c => MIns(d)' = MIns(d))
  BY <1>1, <1>4 DEF MPc, MIns, InFlight, TrapsTypeOK
<1>6. CASE UNCHANGED ins
  <2>1. MIns(c)' = MIns(c)
    BY <1>1, <1>6 DEF MIns, InFlight
  <2> QED BY <1>1, <1>3, <1>5, <2>1, MachineStutters
<1>7. CASE ins[cur] = None /\ ins' = [ins EXCEPT ![cur] = i]
  <2>1. MIns(c) = None /\ MIns(c)' = i
    BY <1>1, <1>4, <1>7 DEF MIns, InFlight, TrapsTypeOK
  <2>2. Machine!MachineNext
    BY <1>1, <1>2, <1>5, <2>1, MachineAttempts
  <2> QED BY <1>3, <2>2
<1> QED BY <1>1, <1>6, <1>7

(* The instruction fetched is one of the program's, and the known one if it is
   known. *)
LEMMA FetchedFacts ==
  ASSUME TrapsTypeOK, NEW i \in Fetched
  PROVE  i \in Program /\ ins[cur] \in {None, i}
BY DEF Fetched, TrapsTypeOK

(* A trap attempts an instruction, unless it has been attempted before. *)
LEMMA TrapExitRefines ==
  ASSUME TrapsTypeOK, NEW i \in Fetched, TrapExit(i)
  PROVE  TrapsTypeOK' /\ (Machine!MachineNext \/ UNCHANGED Machine!machineVars)
<1>1. /\ at = "guest" /\ at' = "exit" /\ reason' = "sync" /\ reason = "none" /\ esr' = i
      /\ UNCHANGED <<loop, cur, up, mapped, x, timer, ins>>
      /\ pc' = [pc EXCEPT ![cur] = IF i.op = "hvc" THEN @ + 1 ELSE @]
  BY DEF TrapExit, Executing, TrapsTypeOK
<1>2. i \in Program /\ ins[cur] \in {None, i} /\ i \in AllInstrs
  BY FetchedFacts, ProgramShape
<1>3. Program' = Program
  BY <1>1 DEF Program
<1>4. TrapsTypeOK'
  BY <1>1, <1>2, <1>3 DEF TrapsTypeOK
<1>5. PICK c \in VCpus : c = cur
  BY DEF TrapsTypeOK
<1>6. \A d \in VCpus : MPc(d)' = MPc(d) /\ (d # c => MIns(d)' = MIns(d))
  BY <1>1, <1>5 DEF MPc, MIns, InFlight, Here, TrapsTypeOK
<1>7. MIns(c) = ins[cur] /\ MIns(c)' = i
  BY <1>1, <1>5 DEF MIns, InFlight
<1>8. CASE ins[cur] = None
  BY <1>1, <1>2, <1>4, <1>6, <1>7, <1>8, MachineAttempts
<1>9. CASE ins[cur] = i
  BY <1>1, <1>4, <1>6, <1>7, <1>9, MachineStutters
<1> QED BY <1>2, <1>8, <1>9

(* An instruction that does not trap is executed. *)
LEMMA DirectRefines ==
  ASSUME TrapsTypeOK, NEW i \in Fetched, Direct(i)
  PROVE  TrapsTypeOK' /\ Machine!MachineNext
<1>1. /\ at = "guest" /\ reason = "none"
      /\ UNCHANGED <<loop, at, cur, up, reason, esr, mapped, timer>>
      /\ pc' = [pc EXCEPT ![cur] = @ + 1] /\ ins' = [ins EXCEPT ![cur] = None]
      /\ x' = [x EXCEPT ![cur] = IF i.op = "str" \/ i.rt = "xzr" THEN @
                                 ELSE [@ EXCEPT ![i.rt] = IF i.what = "zero" THEN 0 ELSE 1]]
  BY DEF Direct, Executing, TrapsTypeOK
<1>2. i \in Program /\ ins[cur] \in {None, i} /\ i \in AllInstrs
  BY FetchedFacts, ProgramShape
<1>3. Program' = Program
  BY <1>1 DEF Program
<1>4. /\ i.op \in {"set", "run", "ldr", "ldp", "str"}
      /\ i.op = "set" \/ (i.what = "block" /\ Platform.block = "ram")
  <2>1. ~Traps(i)
    BY DEF Direct
  <2>2. i.op \in {"set", "run", "ldr", "ldp", "str"}
    BY <1>2, <2>1, ProgramShape DEF Traps
  <2>3. i.op # "set" => i.what = "block"
    BY <1>2, <2>1, <2>2, ProgramShape DEF Traps
  <2>4. i.what = "block" => Platform.block = "ram"
    BY <2>1 DEF Traps, TrapsTypeOK, Platform
  <2> QED BY <2>2, <2>3, <2>4
<1>5. /\ i.op = "set" => i.rt = "x1" /\ i.what \in {"zero", "one"}
      /\ i.op \in {"run", "ldp"} => i.rt = "x1"
      /\ i.op = "ldr" => i.rt \in {"x1", "xzr"}
  BY <1>2, ProgramShape
<1>6. x' = [x EXCEPT ![cur] = Machine!RegsAfter(i, cur)]
  <2>1. Machine!RegsAfter(i, cur) =
          IF i.op = "str" \/ i.rt = "xzr" THEN x[cur]
          ELSE [x[cur] EXCEPT ![i.rt] = IF i.what = "zero" THEN 0 ELSE 1]
    <3>1. i.what = "block" => Machine!Loaded(i) = {1}
      BY <1>4, <1>5 DEF Machine!Loaded
    <3> QED BY <1>4, <1>5, <3>1 DEF Machine!RegsAfter
  <2> QED BY <1>1, <2>1
<1>7. timer' = [timer EXCEPT ![cur] = Machine!TimerAfter(i, cur)]
  BY <1>1, <1>4 DEF Machine!TimerAfter, TrapsTypeOK
<1>8. x' \in [VCpus -> [{"x0", "x1"} -> {0, 1}]]
  BY <1>2, <1>6, AfterTypes, Zenon DEF TrapsTypeOK
<1>9. TrapsTypeOK'
  BY <1>1, <1>3, <1>8 DEF TrapsTypeOK
<1>10. PICK c \in VCpus : c = cur
  BY DEF TrapsTypeOK
<1>11. \A d \in VCpus \ {c} : MPc(d)' = MPc(d) /\ MIns(d)' = MIns(d)
  BY <1>1, <1>10 DEF MPc, MIns, InFlight, TrapsTypeOK
<1>12. MPc(c)' = MPc(c) + 1 /\ MIns(c) \in {None, i} /\ MIns(c)' = None
  BY <1>1, <1>2, <1>10 DEF MPc, MIns, InFlight, TrapsTypeOK
<1>13. /\ x' = [x EXCEPT ![c] = Machine!RegsAfter(i, c)]
       /\ timer' = [timer EXCEPT ![c] = Machine!TimerAfter(i, c)]
  BY <1>6, <1>7, <1>10
<1>14. Machine!MachineNext
  BY <1>1, <1>2, <1>11, <1>12, <1>13, MachineExecutes, Zenon
<1> QED BY <1>9, <1>14

-----------------------------------------------------------------------------
(* The initial states, of the loops and of the machine. *)
LEMMA TrapsInit == Init => TrapsTypeOK /\ Machine!MachineInit
<1> SUFFICES ASSUME Init PROVE TrapsTypeOK /\ Machine!MachineInit
  OBVIOUS
<1>1. /\ loop \in Loops /\ at = "top" /\ cur = 0 /\ reason = "none" /\ mapped = FALSE
      /\ pc = [c \in VCpus |-> 0] /\ ins = [c \in VCpus |-> None]
      /\ x = [c \in VCpus |-> [x0 |-> 0, x1 |-> 1]]
      /\ timer = [c \in VCpus |-> [r \in CntpRegs |-> 0]]
      /\ up = IF loop \in BootOne THEN 1 ELSE loop.n
  BY DEF Init
<1>2. [x0 |-> 0, x1 |-> 1] \in [{"x0", "x1"} -> {0, 1}]
  OBVIOUS
<1>3. 0 \in VCpus /\ loop.n \in {1, 2}
  <2>1. loop \in Loops
    BY <1>1
  <2>2. loop.n \in {1, 2}
    BY ONLY <2>1, LoopFacts
  <2> QED BY <2>2, TrapsAssumption
<1>4. TrapsTypeOK
  BY <1>1, <1>2, <1>3, Zenon DEF TrapsTypeOK
<1>5. /\ Platform \in [block : {"ram", "absent", "none"}, calls : {"psci", "yield", "psci_or_yield"}]
      /\ \A c \in VCpus : ~InFlight(c)
  BY <1>1 DEF Platform, InFlight
<1>6. Machine!MachineInit
  BY <1>1, <1>5, SameInstrs DEF Machine!MachineInit
<1> QED BY <1>4, <1>6

(* Every step is one of the machine or is not seen by it. *)
LEMMA TrapsStep ==
  TrapsTypeOK /\ [Next]_vars => TrapsTypeOK' /\ [Machine!MachineNext]_(Machine!machineVars)
<1> SUFFICES ASSUME TrapsTypeOK, [Next]_vars
             PROVE  TrapsTypeOK' /\ (Machine!MachineNext \/ UNCHANGED Machine!machineVars)
  OBVIOUS
<1>1. CASE LoopStep
  BY <1>1, LoopStepRefines
<1>2. CASE SyncStep
  BY <1>2, SyncStepRefines
<1>3. CASE IrqExit
  BY <1>3, IrqExitRefines
<1>4. CASE \E i \in Fetched : TrapExit(i)
  BY <1>4, TrapExitRefines
<1>5. CASE \E i \in Fetched : Direct(i)
  BY <1>5, DirectRefines
<1>6. CASE UNCHANGED vars
  <2>1. UNCHANGED <<loop, at, cur, up, reason, esr, mapped, pc, x, timer, ins>>
    BY <1>6 DEF vars, ctxVars
  <2>2. Program' = Program
    BY <2>1 DEF Program
  <2>3. TrapsTypeOK'
    BY <2>1, <2>2 DEF TrapsTypeOK
  <2>4. \A d \in VCpus : MPc(d)' = MPc(d) /\ MIns(d)' = MIns(d)
    BY <2>1 DEF MPc, MIns, InFlight, Here
  <2> QED BY <2>1, <2>3, <2>4, MachineStutters
<1> QED BY <1>1, <1>2, <1>3, <1>4, <1>5, <1>6 DEF Next, Handle, LoopStep, SyncStep

(* For programs of any length every loop of vcpu.c executes the instructions
   of its vCPUs in order, each once and completely. *)
THEOREM TrapsRefineMachine == Spec => ImplementsGuestMachine
<1>1. TrapsTypeOK /\ [Next]_vars => TrapsTypeOK'
  BY TrapsStep
<1>2. Spec => []TrapsTypeOK
  BY <1>1, TrapsInit, PTL DEF Spec
<1>3. TrapsTypeOK /\ [Next]_vars => [Machine!MachineNext]_(Machine!machineVars)
  BY TrapsStep
<1>4. Init => Machine!MachineInit
  BY TrapsInit
<1> QED BY <1>2, <1>3, <1>4, PTL DEF Spec, ImplementsGuestMachine, Machine!MachineSpec

-----------------------------------------------------------------------------
\* An instruction that is known has not trapped, or its block has been mapped
\* since, or it is beyond the table, or its vCPU does not run any more.
Passes(i) == i = None \/ i.op = "set" \/ (i.what = "block" /\ mapped = TRUE) \/ Beyond(i)

Stopped(c) ==
  \/ at = "ended"
  \/ loop = sched_demo /\ c \in halted
  \/ loop.sched = "seq" /\ c = 0 /\ cur = 1

RetryInv ==
  /\ loop = sched_demo /\ at \in {"guest", "exit"} => cur \notin halted
  /\ loop \notin {mtenant_vgic_demo, mtenant_real_demo} =>
       \A c \in VCpus : Passes(ins[c]) \/ Stopped(c)
  /\ NeverTrapsTwice

(* A loop step stops no vCPU and lets none run again. *)
LEMMA LoopStepRetry ==
  ASSUME TrapsTypeOK, RetryInv, LoopStep
  PROVE  RetryInv'
<1>1. /\ UNCHANGED <<loop, mapped, ins, halted>>
      /\ (reason = "sync") = (reason' = "sync") /\ (reason = "sync" => cur' = cur)
  BY LoopStepOutcome DEF ctxVars, runVars
<1>2. loop = sched_demo /\ at' \in {"guest", "exit"} => cur' \notin halted
  BY SchedDemoFacts
    DEF LoopStep, Enter, RunVcpusPasses, RunVcpusReturns, BoundReached, HaltedExit, HandleIrq
<1>3. /\ at # "ended" /\ (loop.sched = "seq" /\ cur = 1 => at' = "ended" \/ cur' = 1)
      /\ at' = "exit" => FALSE
  BY SchedDemoFacts
    DEF LoopStep, Enter, RunVcpusPasses, RunVcpusReturns, BoundReached, HaltedExit, HandleIrq
<1>4. \A c \in VCpus : Passes(ins[c])' = Passes(ins[c]) /\ (Stopped(c) => Stopped(c)')
  BY <1>1, <1>3 DEF Passes, Beyond, Stopped
<1>5. NeverTrapsTwice'
  BY <1>3 DEF NeverTrapsTwice
<1> QED BY <1>1, <1>2, <1>4, <1>5 DEF RetryInv

(* What is fetched and traps was not known, except in M18 and M19 and beyond the
   table. *)
LEMMA GuestRetry ==
  ASSUME TrapsTypeOK, RetryInv,
         IrqExit \/ \E i \in Fetched : TrapExit(i) \/ Direct(i)
  PROVE  RetryInv'
<1>1. /\ at = "guest" /\ at' \in {"guest", "exit"} /\ UNCHANGED <<loop, cur, mapped, halted>>
  BY DEF IrqExit, TrapExit, Direct, Executing, runVars
<1>2. \A c \in VCpus : Stopped(c)' = Stopped(c)
  BY <1>1 DEF Stopped
<1>3. ~Stopped(cur)
  BY <1>1 DEF Stopped, RetryInv
<1>4. /\ \A c \in VCpus \ {cur} : ins'[c] = ins[c]
      /\ ins'[cur] \in {ins[cur], None, I("set", "zero", "x1")}
  BY DEF IrqExit, TrapExit, Direct, TrapsTypeOK
<1>5. \A c \in VCpus : Passes(ins[c]) => Passes(ins[c])'
  BY <1>1, <1>4 DEF Passes, Beyond, I
<1>6. NeverTrapsTwice'
  <2> SUFFICES ASSUME at' = "exit", reason' = "sync", ins'[cur'] # None,
                      loop' \notin {mtenant_vgic_demo, mtenant_real_demo}
               PROVE  esr'.what = "high" /\ AbortCase' = "map"
    BY DEF NeverTrapsTwice
  <2>1. PICK i \in Fetched : TrapExit(i)
    BY <1>1 DEF IrqExit, Direct
  <2>2. /\ i \in Program /\ ins[cur] \in {None, i} /\ UNCHANGED ins /\ Traps(i) /\ cur \in VCpus
        /\ esr' = i
    BY <2>1, FetchedFacts, Zenon DEF TrapExit, TrapsTypeOK
  <2>3. Passes(ins[cur])
    BY <1>1, <1>3, <2>2 DEF RetryInv
  <2>4. ins[cur] = i
    BY <1>1, <2>2
  <2>5. i # None /\ (i.what = "block" => i.op \in {"set", "run", "ldr", "ldp", "str"})
    BY <2>2, ProgramShape
  <2>s. i.op = "set" => i.what \in {"zero", "one"}
    BY <2>2, ProgramShape
  <2>6. ~(i.op = "set") /\ ~(i.what = "block" /\ mapped = TRUE)
    BY <2>2, <2>5, <2>s DEF Traps
  <2>7. Beyond(i)
    BY <2>3, <2>4, <2>5, <2>6 DEF Passes
  <2> QED BY <1>1, <2>2, <2>7 DEF Beyond, AbortCase
<1> QED BY <1>1, <1>2, <1>5, <1>6 DEF RetryInv

(* Mapping a block, stopping the vCPU or going past the instruction. *)
LEMMA SyncRetry ==
  ASSUME TrapsTypeOK, RetryInv, SyncStep
  PROVE  RetryInv'
<1>1. /\ at = "exit" /\ reason = "sync" /\ UNCHANGED <<loop, esr>> /\ at' \in {"top", "ended"}
      /\ mapped' \in {mapped, TRUE} /\ (Advance \/ Keep)
  BY SyncStepOutcome, Zenon
<1>2. halted \subseteq halted'
  BY DEF SyncStep, EmulatedAccess, FaultIn, SkipHigh, mmio_zero, LoggedAbort, SgiWrite, CntpTrap,
    cntp_emulate, SmcPsci, HvcPsci, HvcCounted, HvcDone, UnexpectedExit, psci_handle, runVars
<1>3. loop.sched = "seq" /\ cur = 1 => cur' = 1
  <2>1. Again \/ Leave
    BY DEF SyncStep, EmulatedAccess, FaultIn, SkipHigh, mmio_zero, LoggedAbort, SgiWrite, CntpTrap,
      cntp_emulate, SmcPsci, HvcPsci, HvcCounted, HvcDone, UnexpectedExit
  <2> QED BY <2>1 DEF Again, Leave
<1>4. /\ \A c \in VCpus \ {cur} : ins'[c] = ins[c]
      /\ ins'[cur] = None \/ (Keep /\ esr.op # "hvc" /\ ins'[cur] = esr)
  BY <1>1 DEF Advance, Keep, SavePc, Here, TrapsTypeOK
<1>5. \A c \in VCpus \ {cur} :
        (Passes(ins[c]) => Passes(ins[c])') /\ (Stopped(c) => Stopped(c)')
  BY <1>1, <1>2, <1>3, <1>4, Zenon DEF Passes, Beyond, Stopped
<1>6. ASSUME loop \notin {mtenant_vgic_demo, mtenant_real_demo},
             NEW c \in VCpus, c = cur
      PROVE  Passes(ins[c])' \/ Stopped(c)'
  <2>1. CASE ins'[cur] = None
    BY <1>6, <2>1 DEF Passes
  <2>2. CASE Keep /\ esr.op # "hvc" /\ ins'[cur] = esr
    <3>1. FaultIn \/ LoggedAbort \/ UnexpectedExit
      <4>1. Keep => ~Advance
        BY DEF Keep, Advance, SavePc, TrapsTypeOK
      <4> QED BY <2>2, <4>1 DEF SyncStep, EmulatedAccess, SkipHigh, mmio_zero, SgiWrite, CntpTrap,
            cntp_emulate, SmcPsci, HvcPsci, HvcCounted, HvcDone, Sync
    <3>2. ~LoggedAbort
      <4>1. "log" \notin {loop.other, loop.fetch}
        BY <1>6, LoopFacts DEF TrapsTypeOK
      <4> QED BY <4>1 DEF LoggedAbort, AbortCase
    <3>3. CASE FaultIn
      <4>1. (mapped' = TRUE /\ esr.what = "block") \/ Beyond(esr)
        BY <3>3, FaultInMaps, Zenon
      <4> QED BY <1>1, <1>6, <2>2, <4>1 DEF Passes, Beyond
    <3>4. CASE UnexpectedExit
      <4>1. CASE loop = sched_demo
        BY <1>1, <1>6, <3>4, <4>1 DEF UnexpectedExit, Stopped
      <4>2. CASE loop # sched_demo
        <5>1. Leave
          BY <3>4, <4>2 DEF UnexpectedExit
        <5> QED BY <1>1, <1>6, <5>1, TrapsAssumption DEF Leave, Stopped
      <4> QED BY <4>1, <4>2
    <3> QED BY <3>1, <3>2, <3>3, <3>4
  <2> QED BY <1>4, <2>1, <2>2
<1>7. NeverTrapsTwice'
  BY <1>1 DEF NeverTrapsTwice
<1> QED BY <1>1, <1>5, <1>6, <1>7 DEF RetryInv

-----------------------------------------------------------------------------
\* What run_vcpus counts.
RunVcpusInv ==
  loop = sched_demo =>
    /\ halted \subseteq VCpus /\ hcalls \in [VCpus -> Nat]
    /\ active = Cardinality(VCpus \ halted)
    /\ \A c \in VCpus :
         IF c \in halted
         THEN hcalls[c] = Budget \/ (hcalls[c] < Budget /\ ins[c] # None)
         ELSE hcalls[c] < Budget
    /\ at = "ended" => halted = VCpus

(* The vCPUs left. *)
LEMMA CountRunning ==
  ASSUME NEW S, S \subseteq VCpus
  PROVE  /\ Cardinality(VCpus \ S) \in Nat
         /\ Cardinality(VCpus \ S) = 0 => S = VCpus
         /\ \A c \in VCpus \ S :
              Cardinality(VCpus \ (S \union {c})) = Cardinality(VCpus \ S) - 1
<1>1. IsFiniteSet(VCpus)
  <2>1. IsFiniteSet({0}) /\ VCpus = {0} \union {1}
    BY TrapsAssumption, FS_Singleton
  <2> QED BY <2>1, FS_AddElement
<1>2. IsFiniteSet(VCpus \ S)
  BY <1>1, FS_Difference
<1>3. Cardinality(VCpus \ S) \in Nat /\ (Cardinality(VCpus \ S) = 0 => VCpus \ S = {})
  BY <1>2, FS_CardinalityType, FS_EmptySet
<1>4. ASSUME NEW c \in VCpus \ S
      PROVE  Cardinality(VCpus \ (S \union {c})) = Cardinality(VCpus \ S) - 1
  <2>1. VCpus \ (S \union {c}) = (VCpus \ S) \ {c}
    OBVIOUS
  <2>2. Cardinality((VCpus \ S) \ {c}) = Cardinality(VCpus \ S) - 1
    BY <1>2, <1>4, FS_RemoveElement, Zenon
  <2> QED BY <2>1, <2>2
<1> QED BY <1>3, <1>4

(* run_vcpus has no SMC in its guests' programs. *)
LEMMA SchedDemoProgram ==
  ASSUME loop = sched_demo, NEW i \in Program
  PROVE  i.op # "smc"
<1>1. sched_demo.smc = "end"
  BY DEF sched_demo, L
<1>2. i \in Sets \union Others \union RunsIn("block") \union RunsIn("high")
          \union Accesses("block") \union Accesses("device") \union Accesses("high") \union CntpAccesses \union SgiWrites \union Hvcs
  BY <1>1 DEF Program, Hvcs
<1> QED BY <1>2 DEF Sets, Others, RunsIn, Accesses, CntpAccesses, SgiWrites, Hvcs, I

(* Everything but the handlers leaves the counts alone, and run_vcpus returns
   only when no vCPU is left. *)
LEMMA UncountedStep ==
  ASSUME TrapsTypeOK, RetryInv, RunVcpusInv,
         \/ LoopStep \/ IrqExit
         \/ \E i \in Fetched : TrapExit(i) \/ Direct(i)
  PROVE  RunVcpusInv'
<1> SUFFICES ASSUME loop' = sched_demo PROVE RunVcpusInv'
  BY DEF RunVcpusInv
<1>1. UNCHANGED <<loop, halted, hcalls, active>> /\ at # "ended"
  BY DEF LoopStep, Enter, RunVcpusPasses, RunVcpusReturns, BoundReached, HaltedExit, HandleIrq,
    IrqExit, TrapExit, Direct, Executing, runVars
<1>2. \A c \in halted : c \in VCpus => ins'[c] = ins[c]
  <2>1. CASE LoopStep
    BY <2>1, LoopStepOutcome DEF ctxVars
  <2>2. CASE ~LoopStep
    <3>1. at = "guest"
      BY <2>2 DEF IrqExit, TrapExit, Direct, Executing
    <3>2. cur \notin halted
      BY <1>1, <3>1 DEF RetryInv
    <3> QED BY <2>2, <3>2 DEF IrqExit, TrapExit, Direct, TrapsTypeOK
  <2> QED BY <2>1, <2>2
<1>3. at' = "ended" => active = 0
  BY <1>1, SchedDemoFacts DEF LoopStep, Enter, RunVcpusPasses, RunVcpusReturns, BoundReached,
    HaltedExit, HaltedNow, HandleIrq, IrqExit, TrapExit, Direct, Executing
<1>4. at' = "ended" => halted = VCpus
  BY <1>1, <1>3, CountRunning, Zenon DEF RunVcpusInv
<1> QED BY <1>1, <1>2, <1>4 DEF RunVcpusInv

(* The two places where run_vcpus halts a vCPU, and the other handlers. *)
LEMMA CountedStep ==
  ASSUME TrapsTypeOK, RetryInv, RunVcpusInv, SyncStep
  PROVE  RunVcpusInv'
<1> SUFFICES ASSUME loop' = sched_demo PROVE RunVcpusInv'
  BY DEF RunVcpusInv
<1>1. /\ loop = sched_demo /\ reason = "sync" /\ at = "exit" /\ (Advance \/ Keep)
      /\ esr \in Program /\ cur \in VCpus /\ cur \notin halted
  BY SyncStepOutcome, Zenon DEF TrapsTypeOK, RetryInv
<1>2. /\ halted \subseteq VCpus /\ hcalls \in [VCpus -> Nat]
      /\ active = Cardinality(VCpus \ halted) /\ hcalls[cur] < Budget /\ Budget \in Nat
  BY <1>1, TrapsAssumption DEF RunVcpusInv
<1>3. \A c \in VCpus \ {cur} : ins'[c] = ins[c]
  BY <1>1 DEF Advance, Keep, SavePc, TrapsTypeOK
<1>4. /\ ~SmcPsci /\ ~HvcPsci /\ ~HvcDone
  BY <1>1, SchedDemoFacts, SchedDemoProgram DEF SmcPsci, HvcPsci, HvcDone, Sync
<1>5. at' # "ended"
  <2>1. Again
    BY <1>1, <1>4 DEF SyncStep, EmulatedAccess, FaultIn, SkipHigh, mmio_zero, LoggedAbort, SgiWrite,
      CntpTrap, cntp_emulate, HvcCounted, UnexpectedExit
  <2> QED BY <2>1 DEF Again
<1>6. Cardinality(VCpus \ (halted \union {cur})) = active - 1
  BY <1>1, <1>2, CountRunning
<1>7. CASE UNCHANGED runVars
  BY <1>1, <1>2, <1>3, <1>5, <1>7 DEF RunVcpusInv, runVars
<1>8. CASE HvcCounted
  <2>1. /\ hcalls' = [hcalls EXCEPT ![cur] = @ + 1]
        /\ halted' = IF hcalls'[cur] >= Budget THEN halted \union {cur} ELSE halted
        /\ active' = IF hcalls'[cur] >= Budget THEN active - 1 ELSE active
    BY <1>1, <1>8 DEF HvcCounted
  <2>2. hcalls'[cur] = hcalls[cur] + 1 /\ \A c \in VCpus \ {cur} : hcalls'[c] = hcalls[c]
    BY <1>1, <1>2, <2>1
  <2>3. CASE hcalls'[cur] >= Budget
    <3>1. hcalls'[cur] = Budget
      BY <1>1, <1>2, <2>2, <2>3
    <3> QED BY <1>1, <1>2, <1>3, <1>5, <1>6, <2>1, <2>2, <2>3, <3>1 DEF RunVcpusInv
  <2>4. CASE ~(hcalls'[cur] >= Budget)
    <3>1. hcalls'[cur] < Budget
      BY <1>1, <1>2, <2>2, <2>4
    <3> QED BY <1>1, <1>2, <1>3, <1>5, <2>1, <2>2, <2>4, <3>1 DEF RunVcpusInv
  <2> QED BY <2>3, <2>4
<1>9. CASE UnexpectedExit
  <2>1. halted' = halted \union {cur} /\ active' = active - 1 /\ UNCHANGED hcalls /\ Keep /\ NoCase
    BY <1>1, <1>9 DEF UnexpectedExit
  <2>2. esr.op = "wfx"
    BY <1>1, <2>1, SchedDemoFacts DEF NoCase, OtherAbort, AbortCase, Sync
  <2>3. ins'[cur] = esr /\ esr # None
    <3>1. esr # None
      BY <1>1, ProgramShape
    <3> QED BY <1>1, <2>1, <2>2, <3>1 DEF Keep, SavePc, Here, TrapsTypeOK
  <2> QED BY <1>1, <1>2, <1>3, <1>5, <1>6, <2>1, <2>3, Zenon DEF RunVcpusInv
<1> QED BY <1>4, <1>7, <1>8, <1>9 DEF SyncStep, EmulatedAccess, FaultIn, SkipHigh, mmio_zero,
      LoggedAbort, SgiWrite, CntpTrap, cntp_emulate

-----------------------------------------------------------------------------
TrapsInv == TrapsTypeOK /\ RetryInv /\ RunVcpusInv

(* The loops start in the invariant. *)
LEMMA TrapsInvInit == Init => TrapsInv
<1> SUFFICES ASSUME Init PROVE TrapsInv
  OBVIOUS
<1>1. /\ at = "top" /\ halted = {} /\ hcalls = [c \in VCpus |-> 0] /\ active = loop.n
      /\ ins = [c \in VCpus |-> None]
  BY DEF Init
<1>2. TrapsTypeOK
  BY TrapsInit
<1>3. RetryInv
  BY <1>1 DEF RetryInv, Passes, NeverTrapsTwice
<1>4. Cardinality(VCpus) = 2
  <2>1. IsFiniteSet({0}) /\ Cardinality({0}) = 1
    BY FS_Singleton, Zenon
  <2>2. Cardinality({0} \union {1}) = 2
    BY <2>1, FS_AddElement
  <2>3. VCpus = {0} \union {1}
    BY TrapsAssumption
  <2> QED BY <2>2, <2>3
<1>5. RunVcpusInv
  BY <1>1, <1>4, SchedDemoFacts, TrapsAssumption DEF RunVcpusInv
<1> QED BY <1>2, <1>3, <1>5 DEF TrapsInv

(* And stay in it. *)
LEMMA TrapsInvStep == TrapsInv /\ [Next]_vars => TrapsInv'
<1> SUFFICES ASSUME TrapsTypeOK, RetryInv, RunVcpusInv, [Next]_vars
             PROVE  TrapsTypeOK' /\ RetryInv' /\ RunVcpusInv'
  BY DEF TrapsInv
<1>1. TrapsTypeOK'
  BY TrapsStep
<1>2. CASE LoopStep
  BY <1>1, <1>2, LoopStepRetry, UncountedStep
<1>3. CASE SyncStep
  BY <1>1, <1>3, SyncRetry, CountedStep
<1>4. CASE IrqExit \/ \E i \in Fetched : TrapExit(i) \/ Direct(i)
  BY <1>1, <1>4, GuestRetry, UncountedStep
<1>5. CASE UNCHANGED vars
  <2>1. UNCHANGED <<loop, at, cur, reason, esr, mapped, ins, halted, hcalls, active>>
    BY <1>5 DEF vars, ctxVars, runVars
  <2>2. \A c \in VCpus : Passes(ins[c])' = Passes(ins[c]) /\ Stopped(c)' = Stopped(c)
    BY <2>1 DEF Passes, Beyond, Stopped
  <2>3. NeverTrapsTwice' = NeverTrapsTwice
    BY <2>1 DEF NeverTrapsTwice, AbortCase
  <2>4. RetryInv'
    BY <2>1, <2>2, <2>3 DEF RetryInv
  <2>5. RunVcpusInv'
    BY <2>1 DEF RunVcpusInv
  <2> QED BY <1>1, <2>4, <2>5
<1> QED BY <1>2, <1>3, <1>4, <1>5 DEF Next, Handle, LoopStep, SyncStep

(* The invariant holds throughout. *)
LEMMA TrapsInvHolds == Spec => []TrapsInv
BY TrapsInvInit, TrapsInvStep, PTL DEF Spec

(* A guest is run into the same trap again only by M18 and M19, and by the loops
   that map whatever faulted for an instruction beyond the table. *)
THEOREM NoTrapTwice == Spec => []NeverTrapsTwice
<1>1. TrapsInv => NeverTrapsTwice
  BY DEF TrapsInv, RetryInv
<1> QED BY <1>1, TrapsInvHolds, PTL

(* run_vcpus knows how many of its vCPUs still run. *)
THEOREM RunVcpusCounts == Spec => []ActiveIsRunning
<1>1. TrapsInv => ActiveIsRunning
  <2>1. sched_demo.n = 2 /\ 0 .. 2 - 1 = VCpus
    BY SchedDemoFacts, TrapsAssumption
  <2> QED BY <2>1 DEF TrapsInv, RunVcpusInv, ActiveIsRunning
<1> QED BY <1>1, TrapsInvHolds, PTL

(* For any budget each vCPU has spent it when run_vcpus returns, or has
   stopped for good. *)
THEOREM BudgetsAreSpent == Spec => []BudgetSpent
<1>1. TrapsInv => BudgetSpent
  <2>1. sched_demo.n = 2 /\ 0 .. 2 - 1 = VCpus
    BY SchedDemoFacts, TrapsAssumption
  <2> QED BY <2>1 DEF TrapsInv, RunVcpusInv, BudgetSpent
<1> QED BY <1>1, TrapsInvHolds, PTL
=============================================================================
