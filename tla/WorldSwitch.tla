----------------------------- MODULE WorldSwitch -----------------------------
(***************************************************************************)
(* The world switch: vcpu_run_once and the C-managed registers (vcpu.c),   *)
(* __guest_enter and __guest_exit (world.S) and the guest-exit vector stub *)
(* (vectors.S), with the registers by name.  x2_x18 and x19_x30 stand for  *)
(* the registers between, q for q0..q31, ich_lr for the four list          *)
(* registers.  pc and pstate are the guest's while it runs, ELR_EL2 and    *)
(* SPSR_EL2 otherwise.  The exit record (exit_reason, exit_esr, exit_far,  *)
(* exit_hpfar) is written afresh by every exit and is left out.            *)
(***************************************************************************)
EXTENDS Integers

CONSTANTS
  Contexts,    \* the vcpu_t objects, one per vCPU
  Val,         \* register values
  Unmanaged,   \* registers a guest can write that the code does not switch
  HvWritten,   \* fields of vcpu_t that exit handlers change
  GuestSets    \* sets of registers a guest changes in one step

\* save_el1_sysregs, restore_el1_sysregs
El1Regs ==
  {"sctlr_el1", "cpacr_el1", "ttbr0_el1", "ttbr1_el1", "tcr_el1", "mair_el1",
   "amair_el1", "vbar_el1", "contextidr_el1", "sp_el1", "elr_el1", "spsr_el1",
   "esr_el1", "far_el1", "tpidr_el0", "tpidrro_el0", "tpidr_el1"}

\* Mutant of save_el1_sysregs: one register is forgotten.
MutSaveForgetsTpidr == El1Regs \ {"tpidr_el1"}

save_el1_sysregs == El1Regs

restore_el1_sysregs == El1Regs

VgicRegs == {"ich_lr", "ich_vmcr", "ich_ap1r0"}

VmRegs == {"vttbr", "vmpidr"}

GpRegs == {"x0", "x1", "x2_x18", "x19_x30"}

ReturnRegs == {"pc", "pstate", "sp_el0"}

FpRegs == {"q", "fpsr", "fpcr"}

\* What vcpu_t has a field for.
CtxRegs == El1Regs \union VgicRegs \union VmRegs \union GpRegs \union ReturnRegs \union FpRegs

\* What a guest can change; VTTBR_EL2 and VMPIDR_EL2 it cannot.
GuestRegs == (CtxRegs \ VmRegs) \union Unmanaged

Regs == CtxRegs \union Unmanaged

ASSUME WorldSwitchAssumption ==
  /\ 0 \in Val
  /\ Unmanaged \intersect CtxRegs = {}
  /\ HvWritten \subseteq CtxRegs
  /\ GuestSets \subseteq SUBSET GuestRegs

VARIABLES
  phase,    \* "hv", "loaded", "guest", "stub" or "exited": see the actions
  vcpu,     \* the vCPU that vcpu_run_once is called for
  hw,       \* the live registers
  ctx,      \* ctx[v]: the fields of vcpu_t
  tpidr,    \* TPIDR_EL2
  sp,       \* EL2 stack pointer, relative to its value in the C caller
  hyp_sp,   \* hyp_sp[v]: the field of vcpu_t
  frame,    \* callee-saved registers pushed by __guest_enter
  pushed,   \* guest x0 and x1 pushed by the vector stub
  callee,   \* history: callee-saved registers when __guest_enter was called
  own       \* history: own[v][r]: the value the guest, or a handler on its
            \* behalf, last gave register r of vCPU v

wsvars == <<phase, vcpu, hw, ctx, tpidr, sp, hyp_sp, frame, pushed, callee, own>>

Zero == [r \in Regs |-> 0]

WsInit ==
  /\ phase = "hv"
  /\ vcpu \in Contexts
  /\ hw = Zero
  /\ ctx = [v \in Contexts |-> Zero]
  /\ tpidr = vcpu
  /\ sp = 0
  /\ hyp_sp = [v \in Contexts |-> 0]
  /\ frame = 0
  /\ pushed = [x0 |-> 0, x1 |-> 0]
  /\ callee = 0
  /\ own = [v \in Contexts |-> Zero]

\* The live registers with those in S taken from f.
Load(S, f) == [r \in Regs |-> IF r \in S THEN f[r] ELSE hw[r]]

\* The context of v with the registers in S taken from f.
Save(v, S, f) ==
  [ctx EXCEPT ![v] = [r \in Regs |-> IF r \in S THEN f[r] ELSE ctx[v][r]]]

-----------------------------------------------------------------------------
\* C code between two runs: it uses the general registers as it likes, and an
\* exit handler changes fields of a vcpu_t.

HvCode(val) ==
  /\ phase = "hv"
  /\ hw' = [r \in Regs |-> IF r \in GpRegs THEN val ELSE hw[r]]
  /\ UNCHANGED <<phase, vcpu, ctx, tpidr, sp, hyp_sp, frame, pushed, callee, own>>

HvWrite(v, r, val) ==
  /\ phase = "hv"
  /\ ctx' = [ctx EXCEPT ![v][r] = val]
  /\ own' = [own EXCEPT ![v][r] = val]
  /\ UNCHANGED <<phase, vcpu, hw, tpidr, sp, hyp_sp, frame, pushed, callee>>

\* vcpu_init: zeroes, then the initial values (pc, vttbr, ...), which are data.
vcpu_init(v) ==
  /\ phase = "hv"
  /\ ctx' = [ctx EXCEPT ![v] = Zero]
  /\ own' = [own EXCEPT ![v] = [r \in Regs |-> IF r \in Unmanaged THEN own[v][r] ELSE 0]]
  /\ hyp_sp' = [hyp_sp EXCEPT ![v] = 0]
  /\ UNCHANGED <<phase, vcpu, hw, tpidr, sp, frame, pushed, callee>>

\* vcpu_run_once up to the call of __guest_enter.
RunOnce(v) ==
  /\ phase = "hv"
  /\ phase' = "loaded"
  /\ vcpu' = v
  /\ hw' = Load(restore_el1_sysregs \union VmRegs \union VgicRegs, ctx[v])
  /\ UNCHANGED <<ctx, tpidr, sp, hyp_sp, frame, pushed, callee, own>>

\* Mutant of __guest_enter: TPIDR_EL2 is left as it was.
Mut_enter_keeps_tpidr ==
  /\ phase = "loaded"
  /\ phase' = "guest"
  /\ sp' = sp - 96
  /\ frame' = hw["x19_x30"]
  /\ callee' = hw["x19_x30"]
  /\ hyp_sp' = [hyp_sp EXCEPT ![vcpu] = sp - 96]
  /\ hw' = Load(ReturnRegs \union FpRegs \union GpRegs, ctx[vcpu])
  /\ UNCHANGED <<vcpu, ctx, tpidr, pushed, own>>

__guest_enter ==
  /\ phase = "loaded"
  /\ phase' = "guest"
  /\ sp' = sp - 96
  /\ frame' = hw["x19_x30"]
  /\ callee' = hw["x19_x30"]
  /\ tpidr' = vcpu
  /\ hyp_sp' = [hyp_sp EXCEPT ![vcpu] = sp - 96]
  /\ hw' = Load(ReturnRegs \union FpRegs \union GpRegs, ctx[vcpu])
  /\ UNCHANGED <<vcpu, ctx, pushed, own>>

Guest(S, val) ==
  /\ phase = "guest"
  /\ hw' = [r \in Regs |-> IF r \in S THEN val ELSE hw[r]]
  /\ own' = [own EXCEPT ![vcpu] = [r \in Regs |-> IF r \in S THEN val ELSE own[vcpu][r]]]
  /\ UNCHANGED <<phase, vcpu, ctx, tpidr, sp, hyp_sp, frame, pushed, callee>>

\* A trap to EL2 and the stub: x0 and x1 go to the stack and are reused.
VEC_GUEST ==
  /\ phase = "guest"
  /\ phase' = "stub"
  /\ sp' = sp - 16
  /\ pushed' = [x0 |-> hw["x0"], x1 |-> hw["x1"]]
  /\ \E val \in Val : hw' = [hw EXCEPT !["x0"] = val, !["x1"] = val]
  /\ UNCHANGED <<vcpu, ctx, tpidr, hyp_sp, frame, callee, own>>

\* Mutant of __guest_exit: the stack pointer is not taken from hyp_sp.
Mut_exit_keeps_sp ==
  LET v == tpidr
      guest == [hw EXCEPT !["x0"] = pushed.x0, !["x1"] = pushed.x1]
  IN  /\ phase = "stub"
      /\ phase' = "exited"
      /\ ctx' = Save(v, GpRegs \union ReturnRegs \union FpRegs, guest)
      /\ sp' = sp + 96
      /\ hw' = [hw EXCEPT !["x19_x30"] = frame]
      /\ UNCHANGED <<vcpu, tpidr, hyp_sp, frame, pushed, callee, own>>

__guest_exit ==
  LET v == tpidr
      guest == [hw EXCEPT !["x0"] = pushed.x0, !["x1"] = pushed.x1]
  IN  /\ phase = "stub"
      /\ phase' = "exited"
      /\ ctx' = Save(v, GpRegs \union ReturnRegs \union FpRegs, guest)
      /\ sp' = hyp_sp[v] + 96
      /\ hw' = [hw EXCEPT !["x19_x30"] = frame]
      /\ UNCHANGED <<vcpu, tpidr, hyp_sp, frame, pushed, callee, own>>

\* The rest of vcpu_run_once.
RunOnceReturns ==
  /\ phase = "exited"
  /\ phase' = "hv"
  /\ ctx' = Save(vcpu, save_el1_sysregs \union VgicRegs, hw)
  /\ UNCHANGED <<vcpu, hw, tpidr, sp, hyp_sp, frame, pushed, callee, own>>

WsNext ==
  \/ \E val \in Val : HvCode(val)
  \/ \E v \in Contexts, r \in HvWritten, val \in Val : HvWrite(v, r, val)
  \/ \E v \in Contexts : vcpu_init(v)
  \/ \E v \in Contexts : RunOnce(v)
  \/ __guest_enter
  \/ \E S \in GuestSets, val \in Val : Guest(S, val)
  \/ VEC_GUEST
  \/ __guest_exit
  \/ RunOnceReturns

WsSpec == WsInit /\ [][WsNext]_wsvars

-----------------------------------------------------------------------------
(* The variables have the shape of the code's. *)
TypeOK ==
  /\ phase \in {"hv", "loaded", "guest", "stub", "exited"}
  /\ vcpu \in Contexts
  /\ hw \in [Regs -> Val]
  /\ ctx \in [Contexts -> [Regs -> Val]]
  /\ tpidr \in Contexts
  /\ sp \in Int
  /\ hyp_sp \in [Contexts -> Int]
  /\ frame \in Val
  /\ pushed \in [x0 : Val, x1 : Val]
  /\ callee \in Val
  /\ own \in [Contexts -> [Regs -> Val]]

(* Whatever the other vCPU, the hypervisor's C code and the exit handlers did
   in between, a running guest finds in every register that vcpu_t has a field
   for what it, or a handler on its behalf, last put there. *)
GuestSeesOwnRegisters ==
  phase = "guest" => \A r \in CtxRegs : hw[r] = own[vcpu][r]

(* While the hypervisor runs, the saved context of every vCPU is complete: a
   handler that reads or changes it works on the guest's real state. *)
ContextComplete ==
  phase = "hv" => \A v \in Contexts : \A r \in CtxRegs : ctx[v][r] = own[v][r]

(* __guest_enter returns to its caller with the stack pointer and the
   callee-saved registers it was called with: no stack is lost per exit. *)
ReturnsToCaller ==
  /\ phase \in {"hv", "loaded", "exited"} => sp = 0
  /\ phase = "exited" => hw["x19_x30"] = callee
=============================================================================
