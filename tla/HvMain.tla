------------------------------- MODULE HvMain --------------------------------
(***************************************************************************)
(* The hypervisor's own exceptions: hv_main up to M6a, which traps on a    *)
(* BRK and then waits in WFI for timer interrupts taken at EL2, the stubs  *)
(* and el2_common of vectors.S, and el2_exception_dispatch.  The demos     *)
(* that follow, which run with EL2 interrupts masked and take the timer's  *)
(* as guest exits, use timer and GIC as in module HypTimer.                *)
(*                                                                         *)
(* A general-purpose register holds its owner's value or the handler's:    *)
(* "main" or "handler".  x0 and x1 stand for what the stub saves, x2 for   *)
(* what el2_common saves and C code may use, x19 for what it saves and C   *)
(* code preserves, x30 for the link register.                              *)
(***************************************************************************)
EXTENDS HypTimer

CONSTANTS
  NTicks,      \* the ticks M6a waits for; 5 in the code
  MainInterval \* the interval of M6a

ASSUME HvMainAssumption ==
  /\ NTicks \in Nat
  /\ MainInterval \in Intervals
  /\ (NTicks + 2) * MainInterval <= MaxNow

VARIABLES
  pc,         \* hv_main: "brk", "gic", "ppi", "imo", "start", "unmask", "check",
              \* "wfi", "asleep", "mask", "stop" or "demos"
  on,         \* what is set up of the interrupt's path: "gic" (gic_init_el2),
              \* "ppi" (hyptimer_init), "imo" (HCR_EL2.IMO)
  exc,        \* "none", or how far the exception is: "taken", "stub",
              \* "dispatch", "return"
  masked,     \* PSTATE.I
  reg, sp,    \* registers and stack pointer, in frames below hv_main's
  frame,      \* struct el2_frame
  elr, spsr,  \* ELR_EL2, SPSR_EL2 (its I bit)
  vector      \* the stub entered: "sync" or "irq"

cpuVars == <<pc, on, exc, masked, reg, sp, frame, elr, spsr, vector>>
mainVars == <<vars, cpuVars>>

StubRegs == {"x0", "x1"}
CommonRegs == {"x2", "x19", "x30"}
Gprs == StubRegs \union CommonRegs

Running(p) == exc = "none" /\ pc = p

\* The GIC signals the timer's interrupt to the core.
Signalled == Line /\ ~active /\ {"gic", "ppi"} \subseteq on

MainInit ==
  /\ Init
  /\ pc = "brk" /\ on = {} /\ exc = "none" /\ masked = TRUE
  /\ reg = [r \in Gprs |-> "main"] /\ sp = 0
  /\ frame = [x0 |-> "handler", x1 |-> "handler", x2 |-> "handler", x19 |-> "handler",
              x30 |-> "handler", elr |-> "brk", spsr |-> TRUE]
  /\ elr = "brk" /\ spsr = TRUE /\ vector = "sync"

-----------------------------------------------------------------------------
\* hv_main.

Goto(p) == pc' = p /\ UNCHANGED <<on, exc, masked, reg, sp, frame, elr, spsr, vector>>

SetUp(part, to) ==
  /\ Running(part)
  /\ on' = on \union {part} /\ pc' = to
  /\ UNCHANGED <<vars, exc, masked, reg, sp, frame, elr, spsr, vector>>

\* gic_init_el2 and the gic_enable_ppi of hyptimer_init, then HCR_EL2.
gic_init_el2 == SetUp("gic", "ppi")
hyptimer_init == SetUp("ppi", "imo")
RouteToEl2 == SetUp("imo", "start")

Start ==
  /\ Running("start")
  /\ hyptimer_start(MainInterval)
  /\ Goto("unmask")

SetMask(from, m, to) ==
  /\ Running(from)
  /\ masked' = m /\ pc' = to
  /\ UNCHANGED <<vars, on, exc, reg, sp, frame, elr, spsr, vector>>

Check ==
  /\ Running("check")
  /\ Goto(IF t_ticks < NTicks THEN "wfi" ELSE "mask")
  /\ UNCHANGED vars

\* WFI: the core sleeps until an interrupt is pending, and takes it behind the WFI.
Wfi ==
  /\ \/ Running("wfi") /\ Goto(IF Signalled THEN "check" ELSE "asleep")
     \/ Running("asleep") /\ Signalled /\ Goto("check")
  /\ UNCHANGED vars

Stop == Running("stop") /\ hyptimer_stop /\ Goto("demos")

Demos ==
  /\ Running("demos")
  /\ \/ \E iv \in Intervals : hyptimer_start(iv)
     \/ hyptimer_stop \/ gic_ack \/ hyptimer_on_irq \/ gic_eoi
  /\ UNCHANGED cpuVars

-----------------------------------------------------------------------------
\* Exceptions.  The hardware saves where to return to and masks interrupts.

Take(v) ==
  /\ exc = "none" /\ exc' = "taken"
  /\ elr' = pc /\ spsr' = masked /\ masked' = TRUE
  /\ vector' = v
  /\ UNCHANGED <<vars, pc, on, reg, sp, frame>>

Brk == Running("brk") /\ Take("sync")

Irq == ~masked /\ "imo" \in on /\ Signalled /\ pc # "asleep" /\ Take("irq")

\* The stub VEC: a frame is made, x0 becomes the vector index.
VEC ==
  /\ exc = "taken" /\ exc' = "stub"
  /\ sp' = sp + 1
  /\ frame' = [frame EXCEPT !["x0"] = reg["x0"], !["x1"] = reg["x1"]]
  /\ reg' = [reg EXCEPT !["x0"] = "handler"]
  /\ UNCHANGED <<vars, pc, on, masked, elr, spsr, vector>>

el2_common_save ==
  /\ exc = "stub" /\ exc' = "dispatch"
  /\ frame' = [f \in DOMAIN frame |->
       CASE f \in CommonRegs -> reg[f]
         [] f = "elr" -> elr [] f = "spsr" -> spsr
         [] OTHER -> frame[f]]
  /\ reg' = [reg EXCEPT !["x1"] = "handler", !["x30"] = "handler"]
  /\ UNCHANGED <<vars, pc, on, masked, sp, elr, spsr, vector>>

\* C code uses the registers it need not preserve.
Clobbered == [r \in Gprs |-> IF r = "x19" THEN reg[r] ELSE "handler"]

DispatchIrq ==
  /\ exc = "dispatch" /\ vector = "irq"
  /\ gic_ack \/ hyptimer_on_irq
  /\ reg' = Clobbered
  /\ UNCHANGED <<pc, on, exc, masked, sp, frame, elr, spsr, vector>>

DispatchEoi ==
  /\ exc = "dispatch" /\ vector = "irq"
  /\ gic_eoi
  /\ exc' = "return"
  /\ reg' = Clobbered
  /\ UNCHANGED <<pc, on, masked, sp, frame, elr, spsr, vector>>

\* Mutant of DispatchBrk: the return address is left at the BRK.
MutBrkNotSkipped ==
  /\ exc = "dispatch" /\ vector = "sync"
  /\ exc' = "return"
  /\ reg' = Clobbered
  /\ UNCHANGED <<vars, pc, on, masked, sp, frame, elr, spsr, vector>>

\* The only synchronous exception of hv_main; f->elr += 4.
DispatchBrk ==
  /\ exc = "dispatch" /\ vector = "sync"
  /\ frame' = [frame EXCEPT !["elr"] = "gic"]
  /\ exc' = "return"
  /\ reg' = Clobbered
  /\ UNCHANGED <<vars, pc, on, masked, sp, elr, spsr, vector>>

\* Mutant of el2_common_return: x0 is taken for a return value.
Mut_return_keeps_x0 ==
  /\ exc = "return" /\ exc' = "none"
  /\ pc' = frame["elr"] /\ masked' = frame["spsr"]
  /\ elr' = frame["elr"] /\ spsr' = frame["spsr"]
  /\ reg' = [r \in Gprs |-> IF r = "x0" THEN reg[r] ELSE frame[r]]
  /\ sp' = sp - 1
  /\ UNCHANGED <<vars, on, frame, vector>>

\* The second half of el2_common, with its eret.
el2_common_return ==
  /\ exc = "return" /\ exc' = "none"
  /\ pc' = frame["elr"] /\ masked' = frame["spsr"]
  /\ elr' = frame["elr"] /\ spsr' = frame["spsr"]
  /\ reg' = [r \in Gprs |-> frame[r]]
  /\ sp' = sp - 1
  /\ UNCHANGED <<vars, on, frame, vector>>

Exception ==
  VEC \/ el2_common_save \/ DispatchIrq \/ DispatchEoi \/ DispatchBrk \/ el2_common_return

MainStep ==
  \/ Brk \/ gic_init_el2 \/ hyptimer_init \/ RouteToEl2 \/ Start
  \/ SetMask("unmask", FALSE, "check") \/ Check \/ Wfi \/ SetMask("mask", TRUE, "stop") \/ Stop

\* Bound: the counter is followed from the start of M6a on, and in M6a past one
\* more deadline than is waited for only when the core sleeps.
CountOn ==
  /\ pc \notin {"brk", "gic", "ppi", "imo", "start"}
  /\ \/ pc = "demos"
     \/ pc = "asleep" /\ ~Signalled
     \/ now < (NTicks + 1) * MainInterval
  /\ Count
  /\ UNCHANGED cpuVars

MainNext == MainStep \/ Irq \/ Exception \/ Demos \/ CountOn

MainSpec == MainInit /\ [][MainNext]_mainVars

\* The core executes its program and its handlers and takes an unmasked
\* interrupt, and time passes.  The demos are those of FairSpec.
FairMainSpec ==
  /\ MainSpec
  /\ WF_mainVars(MainStep) /\ WF_mainVars(Irq) /\ WF_mainVars(Exception) /\ WF_mainVars(CountOn)
  /\ SF_mainVars(Line /\ gic_ack /\ UNCHANGED cpuVars)
  /\ WF_mainVars(hyptimer_on_irq /\ UNCHANGED cpuVars) /\ WF_mainVars(gic_eoi /\ UNCHANGED cpuVars)

-----------------------------------------------------------------------------
(* An exception of the hypervisor leaves no trace in the code it interrupts:
   whenever hv_main runs, all registers are its own and the stack pointer is
   where it was, and interrupts are unmasked exactly in the M6a wait, wherever
   in the loop the ticks have come. *)
ResumesUnharmed ==
  exc = "none" =>
    /\ \A r \in Gprs : reg[r] = "main"
    /\ sp = 0
    /\ masked = (pc \notin {"check", "wfi", "asleep", "mask"})

(* hv_main gets past the BRK and the wait: the BRK is skipped, not repeated, and
   although a tick that comes between the test of hyptimer_ticks and the WFI is
   slept over, the next one ends the sleep. *)
BootProceeds == <>(pc = "demos")
=============================================================================
