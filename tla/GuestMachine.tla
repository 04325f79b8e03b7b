---------------------------- MODULE GuestMachine -----------------------------
(***************************************************************************)
(* What a guest may expect of the machine the hypervisor shows it: every   *)
(* vCPU executes the instructions of its program one after the other, each *)
(* completely and once.  There are no traps, no retries and no time slices *)
(* here; an instruction may only have been attempted before it completes.  *)
(***************************************************************************)
EXTENDS Naturals, GuestInstrs

CONSTANT VCpus

VARIABLES
  plat,     \* what the machine has: [block, calls], see Loaded, Call
  pc,       \* pc[c]: number of the instruction c is at
  ins,      \* ins[c]: that instruction if it has been attempted, or None
  x,        \* x[c]: registers x0 and x1
  timer     \* timer[c]: the CNTP registers of c

machineVars == <<plat, pc, ins, x, timer>>

Regs == {"x0", "x1"}
Values == {0, 1}

MachineTypeOK ==
  /\ plat \in [block : {"ram", "absent", "none"},
             calls : {"psci", "yield", "psci_or_yield"}]
  /\ pc \in [VCpus -> Nat]
  /\ ins \in [VCpus -> AllInstrs \union {None}]
  /\ x \in [VCpus -> [Regs -> Values]]
  /\ timer \in [VCpus -> [CntpRegs -> Values]]

MachineInit ==
  /\ plat \in [block : {"ram", "absent", "none"},
             calls : {"psci", "yield", "psci_or_yield"}]
  /\ pc = [c \in VCpus |-> 0]
  /\ ins = [c \in VCpus |-> None]
  /\ x = [c \in VCpus |-> [x0 |-> 0, x1 |-> 1]]
  /\ timer = [c \in VCpus |-> [r \in CntpRegs |-> 0]]

-----------------------------------------------------------------------------
\* What a PSCI function returns in x0: SUCCESS is 0; a version and
\* NOT_SUPPORTED are not.  SYSTEM_OFF and SYSTEM_RESET return nothing.
Result(fn, x0) == CASE fn = "on" -> 0 [] fn = "off" -> x0 [] OTHER -> 1

\* What a load finds at a place, if anything.
Loaded(i) ==
  CASE i.what = "device" -> {1}
    [] i.what = "block" /\ plat.block = "ram" -> {1}
    [] i.what \in {"block", "high"} /\ plat.block = "absent" -> {0}
    [] OTHER -> {}

\* A hypercall is a PSCI call, or one that only gives up the CPU.
Call(i) == plat.calls = "psci" \/ (plat.calls = "psci_or_yield" /\ i.what # "yield")

\* The registers after instruction i.
RegsAfter(i, c) ==
  CASE i.op = "set" -> [x[c] EXCEPT !["x1"] = IF i.what = "one" THEN 1 ELSE 0]
    [] i.op = "run" /\ i.what = "block" /\ plat.block = "ram" -> [x[c] EXCEPT !["x1"] = 1]
    [] i.op = "ldr" /\ i.rt # "xzr" /\ Loaded(i) # {} ->
         [x[c] EXCEPT ![i.rt] = CHOOSE v \in Loaded(i) : TRUE]
    [] i.op = "ldp" /\ i.what = "block" /\ plat.block = "ram" -> [x[c] EXCEPT ![i.rt] = 1]
    [] i.op = "mrs" /\ i.rt # "xzr" -> [x[c] EXCEPT ![i.rt] = timer[c][i.what]]
    [] i.op = "smc" \/ (i.op = "hvc" /\ Call(i)) ->
         [x[c] EXCEPT !["x0"] = Result(i.what, @)]
    [] OTHER -> x[c]

TimerAfter(i, c) ==
  IF i.op = "msr"
  THEN [timer[c] EXCEPT ![i.what] = IF i.rt = "xzr" THEN 0 ELSE x[c][i.rt]]
  ELSE timer[c]

\* Something stops an instruction before it has had any effect.
Attempt(c) ==
  /\ ins[c] = None
  /\ ins'[c] \in AllInstrs
  /\ ins' = [ins EXCEPT ![c] = ins'[c]]
  /\ UNCHANGED <<plat, pc, x, timer>>

Execute(c) ==
  /\ pc' = [pc EXCEPT ![c] = @ + 1]
  /\ ins' = [ins EXCEPT ![c] = None]
  /\ \E i \in AllInstrs :
       /\ ins[c] \in {None, i}
       /\ x' = [x EXCEPT ![c] = RegsAfter(i, c)]
       /\ timer' = [timer EXCEPT ![c] = TimerAfter(i, c)]
  /\ UNCHANGED plat

MachineNext == \E c \in VCpus : Attempt(c) \/ Execute(c)

MachineSpec == MachineInit /\ [][MachineNext]_machineVars
=============================================================================
