--------------------------- MODULE TickLoopsProofs --------------------------
(***************************************************************************)
(* Proofs about module TickLoops, for any number of list registers and any *)
(* INTIDs: ticks reach a VM only through its own GIC, are kept until they  *)
(* can be delivered, and end time slices so that each VM has its share.    *)
(* Then about the world switch those slices rest on (WorldSwitch).         *)
(***************************************************************************)
EXTENDS TickLoops, WorldSwitch, ListRegsProofs

\* The list registers are well formed and only timer interrupts are in them.
OnlyTimers ==
  /\ lr \in [VCpus -> Files]
  /\ \A vm \in VCpus : Distinct(lr[vm]) /\ Outstanding(vm) \subseteq TimerIntids

\* How long a VM has waited, by the place in the pattern of slices.
Shares ==
  demo \in Pairs =>
    /\ at # "top" => waited[cur] = 0
    /\ waited[0] <= IF cur = 0 THEN 2 ELSE 1
    /\ IF demo \in {"M19", "M21"}
       THEN IF cur = 0 THEN waited[1] <= slot ELSE slot = 0 /\ waited[1] <= 4
       ELSE waited[1] <= IF cur = 1 THEN 2 ELSE 1

TickTypeOK ==
  /\ demo \in Singles \union Pairs
  /\ at \in {"top", "guest", "ended"}
  /\ cur \in VCpus /\ slot \in 0 .. 3
  /\ pend \in [VCpus -> BOOLEAN]
  /\ en \in [VCpus -> SUBSET TimerIntids]
  /\ waited \in [VCpus -> 0 .. WaitCap]

TickInv == TickTypeOK /\ OnlyTimers /\ Shares

(* A loop starts with empty list registers and nobody waiting. *)
LEMMA TickInitInv == Init => TickInv
<1> SUFFICES ASSUME Init PROVE TickInv
  OBVIOUS
<1>1. lr = [v \in VCpus |-> [s \in Slots |-> Empty]]
  BY DEF Init, LrInit
<1>2. OnlyTimers
  <2>1. Held([s \in Slots |-> Empty], All) = {}
    BY DEF Held, All, Empty
  <2> QED BY <1>1, <2>1, ZeroWellFormed DEF OnlyTimers, Outstanding, All
<1>3. TickTypeOK
  BY TenantsAssumption DEF Init, TickTypeOK, WaitCap
<1>4. Shares
  BY TenantsAssumption DEF Init, Shares
<1> QED BY <1>2, <1>3, <1>4 DEF TickInv

(* The INTID a tick becomes is a timer's, and enabled by the VM itself save in
   M6b. *)
LEMMA OfferedIsOwn ==
  ASSUME TickTypeOK, NEW vm \in VCpus, NEW i \in Offered(vm)
  PROVE  i \in TimerIntids /\ i \in Intids /\ (demo # "M6b" => i \in en[vm])
BY TenantsAssumption DEF TickTypeOK, Singles, Pairs, Offered, TimerIntids

(* What a tick offered to the current VM does to the list registers. *)
LEMMA TickedOutcome ==
  ASSUME TickTypeOK, OnlyTimers, lr' = Ticked
  PROVE  /\ OnlyTimers'
         /\ \A vm \in VCpus : \A i \in Outstanding(vm)' \ Outstanding(vm) :
              cur = vm /\ (demo # "M6b" => i \in en[vm])
         /\ \A vm \in VCpus :
              vm = cur /\ Offered(vm) # {} => Outstanding(vm)' \intersect TimerIntids # {}
<1>1. CASE Offered(cur) = {}
  BY <1>1 DEF Ticked, OnlyTimers, Outstanding
<1>2. CASE Offered(cur) # {}
  <2> DEFINE i == CHOOSE j \in Offered(cur) : TRUE
             new == vgic_inject(lr[cur], i)
  <2>1. cur \in VCpus /\ lr[cur] \in Files /\ Distinct(lr[cur])
    BY DEF TickTypeOK, OnlyTimers
  <2>2. i \in Offered(cur)
    BY <1>2
  <2>3. i \in TimerIntids /\ i \in Intids /\ (demo # "M6b" => i \in en[cur])
    BY <2>1, <2>2, OfferedIsOwn
  <2> HIDE DEF i
  <2>4. new \in Files /\ Distinct(new)
    BY <2>1, <2>3, InjectType, InjectDistinct
  <2>5. /\ Held(new, All) \subseteq Held(lr[cur], All) \union {i}
        /\ i \in Held(new, All) \/ (new = lr[cur] /\ Cardinality(Held(lr[cur], All)) = NLR)
    BY <2>1, <2>3, InjectOutcome
  <2>6. lr' = [lr EXCEPT ![cur] = new]
    BY <1>2 DEF Ticked, i
  <2> HIDE DEF new
  <2>7. lr'[cur] = new /\ \A vm \in VCpus \ {cur} : lr'[vm] = lr[vm]
    BY <2>1, <2>6 DEF OnlyTimers
  <2>8. OnlyTimers'
    BY <2>1, <2>3, <2>4, <2>5, <2>6, <2>7 DEF OnlyTimers, Outstanding, All
  <2>9. Outstanding(cur) \subseteq TimerIntids
    BY <2>1 DEF OnlyTimers
  <2>10. Outstanding(cur) # {} \/ i \in Held(new, All)
    <3>1. CASE Cardinality(Held(lr[cur], All)) = NLR
      BY <3>1, FS_EmptySet, ListRegsAssumption DEF Outstanding, All
    <3> QED BY <2>5, <3>1
  <2>11. \A vm \in VCpus :
           IF vm = cur
           THEN Outstanding(vm)' = Held(new, All) /\ Outstanding(vm) = Held(lr[cur], All)
           ELSE Outstanding(vm)' = Outstanding(vm)
    BY <2>7 DEF Outstanding, All
  <2>12. Held(new, All) \intersect TimerIntids # {}
    BY <2>1, <2>3, <2>5, <2>9, <2>10, <2>11
  <2> QED BY <2>1, <2>3, <2>5, <2>8, <2>11, <2>12
<1> QED BY <1>1, <1>2

(* The guest adds nothing to its list registers. *)
LEMMA GuestOutcome ==
  ASSUME TickTypeOK, OnlyTimers, NEW s \in Slots, LrAck(cur, s) \/ LrEoi(cur, s)
  PROVE  OnlyTimers' /\ \A vm \in VCpus : Outstanding(vm)' \subseteq Outstanding(vm)
<1> DEFINE new == lr'[cur]
<1>1. cur \in VCpus /\ lr[cur] \in Files /\ Distinct(lr[cur])
  BY DEF TickTypeOK, OnlyTimers
<1>2. /\ \/ CanAck(lr[cur], s) /\ new = AckSlot(lr[cur], s)
         \/ lr[cur][s].state = "active" /\ new = EoiSlot(lr[cur], s)
      /\ lr' = [lr EXCEPT ![cur] = new]
  BY <1>1 DEF LrAck, LrEoi, OnlyTimers
<1> HIDE DEF new
<1>3. new \in Files /\ Distinct(new)
  BY <1>1, <1>2, AckWellFormed, EoiWellFormed
<1>4. Held(new, All) \subseteq Held(lr[cur], All)
  BY <1>1, <1>2, GuestAddsNothing
<1>5. lr'[cur] = new /\ \A vm \in VCpus \ {cur} : lr'[vm] = lr[vm]
  BY <1>1, <1>2 DEF OnlyTimers
<1>6. \A vm \in VCpus : Outstanding(vm)' \subseteq Outstanding(vm)
  BY <1>1, <1>4, <1>5 DEF Outstanding, All
<1>7. lr' \in [VCpus -> Files] /\ \A vm \in VCpus : Distinct(lr'[vm])
  BY <1>1, <1>2, <1>3, <1>5 DEF OnlyTimers
<1> QED BY <1>6, <1>7 DEF OnlyTimers

-----------------------------------------------------------------------------
\* What one step may do to the interrupts of the VMs and to the ticks due.
OwnGicStep ==
  \A vm \in VCpus : \A i \in Outstanding(vm)' \ Outstanding(vm) :
    /\ cur = vm
    /\ demo \in Pairs => at = "top" /\ pend[vm]
    /\ demo # "M6b" => i \in en[vm]

KeptStep ==
  demo # "M21" => \A vm \in VCpus :
    pend[vm] /\ ~pend'[vm] => Outstanding(vm)' \intersect TimerIntids # {}

(* Entering a VM delivers a tick that is due, if the VM's GIC lets it. *)
LEMMA EnterStep ==
  ASSUME TickInv, Enter
  PROVE  TickInv' /\ OwnGicStep /\ KeptStep
<1> USE DEF TickInv
<1>1. TickTypeOK'
  BY DEF TickTypeOK, Enter, WaitCap
<1>2. Shares'
  BY TenantsAssumption DEF TickTypeOK, Shares, Enter, WaitCap
<1>3. CASE pend[cur]
  <2>1. lr' = Ticked
    BY <1>3 DEF Enter
  <2>2. \A vm \in VCpus : pend[vm] /\ ~pend'[vm] => vm = cur /\ ~KeepsTick(cur)
    BY DEF Enter, TickTypeOK
  <2>3. KeptStep
    BY <2>1, <2>2, TickedOutcome DEF KeptStep, KeepsTick
  <2>4. OwnGicStep
    BY <1>3, <2>1, TickedOutcome DEF OwnGicStep, Enter
  <2> QED BY <1>1, <1>2, <2>1, <2>3, <2>4, TickedOutcome
<1>4. CASE ~pend[cur]
  <2>1. lr' = lr /\ \A vm \in VCpus : pend'[vm] = pend[vm]
    BY <1>4 DEF Enter, TickTypeOK
  <2> QED BY <1>1, <1>2, <2>1 DEF OnlyTimers, Outstanding, OwnGicStep, KeptStep
<1> QED BY <1>3, <1>4

(* The timer ends a slice and marks a tick due; a single guest gets it at once. *)
LEMMA TimerStep ==
  ASSUME TickInv, TimerTick \/ TimerTickAlone
  PROVE  TickInv' /\ OwnGicStep /\ KeptStep
<1> USE DEF TickInv
<1>1. CASE TimerTick
  <2>1. TickTypeOK'
    BY <1>1, TenantsAssumption DEF TickTypeOK, TimerTick, Resume, NextSlice, WaitCap
  <2>2. Shares'
    <3>1. /\ at = "guest" /\ demo' = demo /\ demo \in Pairs
          /\ slot' = (slot + 1) % 4 /\ cur' = NextSlice(slot')
          /\ waited[cur] = 0 /\ waited[0] \in Nat /\ waited[1] \in Nat /\ slot \in 0 .. 3
      BY <1>1, TenantsAssumption DEF TimerTick, Resume, Shares, TickTypeOK, WaitCap
    <3>2. \A vm \in VCpus : waited[vm] < 5 => waited'[vm] = waited[vm] + 1
      BY <1>1 DEF TimerTick, WaitCap
    <3>3. at' = "top"
      BY <1>1 DEF TimerTick, Resume
    <3>4. CASE demo \in {"M19", "M21"}
      BY <3>1, <3>2, <3>3, <3>4, TenantsAssumption DEF Shares, NextSlice, TickTypeOK
    <3>5. CASE demo \notin {"M19", "M21"}
      BY <3>1, <3>2, <3>3, <3>5, TenantsAssumption DEF Shares, NextSlice, TickTypeOK, Pairs
    <3> QED BY <3>4, <3>5
  <2>3. lr' = lr /\ \A vm \in VCpus : pend'[vm]
    BY <1>1 DEF TimerTick
  <2> QED BY <2>1, <2>2, <2>3 DEF OnlyTimers, Outstanding, OwnGicStep, KeptStep
<1>2. CASE TimerTickAlone
  <2>1. lr' = Ticked /\ demo \notin Pairs /\ UNCHANGED <<demo, cur, slot, pend, en, waited>>
    BY <1>2 DEF TimerTickAlone, Singles, Pairs
  <2>2. TickTypeOK' /\ Shares'
    BY <1>2, <2>1 DEF TimerTickAlone, Resume, TickTypeOK, Shares
  <2>3. OwnGicStep /\ KeptStep
    BY <2>1, TickedOutcome DEF OwnGicStep, KeptStep
  <2> QED BY <2>1, <2>2, <2>3, TickedOutcome
<1> QED BY <1>1, <1>2

(* No other step touches list registers or ticks due, but for the guest's own
   acknowledge and end of interrupt. *)
LEMMA OtherStep ==
  ASSUME TickInv,
         \/ \E s \in Slots : GuestAck(s) \/ GuestEoi(s)
         \/ \E i \in TimerIntids : GicMmio(i)
         \/ PsciOff \/ NeutralExit \/ HaltedExit \/ LoopEnds \/ UNCHANGED vars
  PROVE  TickInv' /\ OwnGicStep /\ KeptStep
<1> USE DEF TickInv
<1>1. CASE \E s \in Slots : GuestAck(s) \/ GuestEoi(s)
  <2>1. UNCHANGED <<demo, at, cur, slot, pend, en, halted, waited>>
    BY <1>1 DEF GuestAck, GuestEoi
  <2>2. OnlyTimers' /\ \A vm \in VCpus : Outstanding(vm)' \subseteq Outstanding(vm)
    BY <1>1, GuestOutcome DEF GuestAck, GuestEoi
  <2> QED BY <2>1, <2>2 DEF TickTypeOK, Shares, OwnGicStep, KeptStep
<1>2. ASSUME NEW i \in TimerIntids, GicMmio(i) PROVE TickInv' /\ OwnGicStep /\ KeptStep
  <2>1. UNCHANGED <<demo, lr, cur, slot, pend, waited>> /\ at = "guest" /\ at' = "top"
    BY <1>2 DEF GicMmio, Resume
  <2>2. en' \in [VCpus -> SUBSET TimerIntids]
    BY <1>2 DEF GicMmio, TickTypeOK
  <2> QED BY <2>1, <2>2 DEF TickTypeOK, Shares, OnlyTimers, Outstanding, OwnGicStep, KeptStep
<1>3. CASE PsciOff \/ NeutralExit \/ HaltedExit \/ LoopEnds \/ UNCHANGED vars
  <2>1. /\ UNCHANGED <<demo, lr, cur, slot, pend, en, waited>>
        /\ at' = at \/ (at = "guest" /\ at' \in {"top", "ended"})
    BY <1>3 DEF PsciOff, NeutralExit, HaltedExit, LoopEnds, Resume, vars
  <2> QED BY <2>1 DEF TickTypeOK, Shares, OnlyTimers, Outstanding, OwnGicStep, KeptStep
<1> QED BY <1>1, <1>2, <1>3

(* Every step of the loops. *)
LEMMA TickNextStep == TickInv /\ [Next]_vars => TickInv' /\ OwnGicStep /\ KeptStep
BY EnterStep, TimerStep, OtherStep DEF Next

(* The invariant holds throughout. *)
LEMMA TickInvHolds == Spec => []TickInv
BY TickInitInv, TickNextStep, PTL DEF Spec

-----------------------------------------------------------------------------
(* Between two slices of a VM there are at most two ticks, four for the lesser
   tenant of M19 and M21, whatever the guests do. *)
THEOREM SharesAreKept == Spec => []ShareKept
<1>1. TickInv => ShareKept
  BY TenantsAssumption DEF TickInv, TickTypeOK, Shares, ShareKept, Pairs, WaitCap
<1> QED BY <1>1, TickInvHolds, PTL

(* A tenant gets a timer interrupt only as it runs, for a tick that is due to it,
   and if its own GIC has the interrupt enabled. *)
THEOREM TicksFromOwnGic == Spec => TickFromOwnGic
<1>1. TickInv /\ [Next]_vars =>
        [\A vm \in VCpus : \A i \in Outstanding(vm)' \ Outstanding(vm) :
           /\ cur = vm
           /\ demo \in Pairs => at = "top" /\ pend[vm]
           /\ demo # "M6b" => i \in en[vm]]_vars
  BY TickNextStep DEF OwnGicStep
<1> QED BY <1>1, TickInvHolds, PTL DEF Spec, TickFromOwnGic

(* Where ticks are kept, one that is due is forgotten only when the VM has the
   interrupt: with only timer interrupts in them the list registers are never
   too full for it. *)
THEOREM TicksAreKept == Spec => TickKept
<1>1. TickInv /\ [Next]_vars =>
        [demo # "M21" => \A vm \in VCpus :
           pend[vm] /\ ~pend'[vm] => Outstanding(vm)' \intersect TimerIntids # {}]_vars
  BY TickNextStep DEF KeptStep
<1> QED BY <1>1, TickInvHolds, PTL DEF Spec, TickKept

-----------------------------------------------------------------------------
\* The world switch, for any number of vCPUs, any values, any fields a handler
\* changes and any registers a guest changes in one step.

\* The registers switched in C and those switched in assembly.
CSide == El1Regs \union VgicRegs
AsmSide == GpRegs \union ReturnRegs \union FpRegs

(* Where a register is switched decides who preserves it: the ones the
   assembly reuses are not among those C saves after it. *)
LEMMA RegSets ==
  /\ CtxRegs = CSide \union VmRegs \union AsmSide
  /\ CtxRegs \subseteq Regs
  /\ {"x0", "x1", "x19_x30"} \subseteq AsmSide
  /\ {"x0", "x1", "x19_x30"} \intersect CSide = {}
  /\ "x0" # "x1" /\ "x0" # "x19_x30" /\ "x1" # "x19_x30"
  /\ GpRegs \intersect CSide = {}
BY DEF CtxRegs, CSide, AsmSide, Regs, El1Regs, VgicRegs, VmRegs, GpRegs, ReturnRegs, FpRegs

\* S of vCPU v is saved; S of the running vCPU is live.
Saved(v, S) == \A r \in S : ctx[v][r] = own[v][r]
Live(S) == \A r \in S : hw[r] = own[vcpu][r]

\* Which copy of each register is the true one, by phase.
Copies ==
  /\ phase \in {"hv", "loaded"} => \A v \in Contexts : Saved(v, CtxRegs)
  /\ phase \in {"guest", "stub", "exited"} =>
       /\ \A v \in Contexts \ {vcpu} : Saved(v, CtxRegs)
       /\ Saved(vcpu, VmRegs)
  /\ phase = "loaded" => Live(CSide \union VmRegs)
  /\ phase = "guest" => Live(CtxRegs)
  /\ phase = "stub" =>
       /\ Live(CtxRegs \ {"x0", "x1"})
       /\ pushed.x0 = own[vcpu]["x0"] /\ pushed.x1 = own[vcpu]["x1"]
  /\ phase = "exited" => Live(CSide) /\ Saved(vcpu, AsmSide)

\* The stack, and the way back to it.
Stack ==
  /\ phase \in {"hv", "loaded", "exited"} => sp = 0
  /\ phase \in {"guest", "stub"} =>
       tpidr = vcpu /\ hyp_sp[vcpu] = -96 /\ frame = callee
  /\ phase = "exited" => hw["x19_x30"] = callee

Inv == TypeOK /\ Copies /\ Stack

(* All contexts start out zero, and the hypervisor runs. *)
LEMMA InitInv == WsInit => Inv
BY WorldSwitchAssumption
   DEF WsInit, Inv, TypeOK, Copies, Stack, Saved, Live, Zero, CtxRegs, Regs

(* Types survive every step. *)
LEMMA TypeStep == TypeOK /\ [WsNext]_wsvars => TypeOK'
<1> SUFFICES ASSUME TypeOK, [WsNext]_wsvars PROVE TypeOK'
  OBVIOUS
<1> USE DEF TypeOK
<1>1. ASSUME NEW val \in Val, HvCode(val) PROVE TypeOK'
  BY <1>1 DEF HvCode
<1>2. ASSUME NEW v \in Contexts, NEW r \in HvWritten, NEW val \in Val, HvWrite(v, r, val)
      PROVE  TypeOK'
  BY <1>2, Zenon DEF HvWrite
<1>3. ASSUME NEW v \in Contexts, vcpu_init(v) PROVE TypeOK'
  BY <1>3, WorldSwitchAssumption DEF vcpu_init, Zero
<1>4. ASSUME NEW v \in Contexts, RunOnce(v) PROVE TypeOK'
  BY <1>4 DEF RunOnce, Load
<1>5. CASE __guest_enter
  BY <1>5, RegSets DEF __guest_enter, Load, CtxRegs, GpRegs
<1>6. ASSUME NEW S \in GuestSets, NEW val \in Val, Guest(S, val) PROVE TypeOK'
  BY <1>6 DEF Guest
<1>7. CASE VEC_GUEST
  BY <1>7, RegSets DEF VEC_GUEST, CtxRegs, GpRegs
<1>8. CASE __guest_exit
  BY <1>8, RegSets DEF __guest_exit, Save, CtxRegs, GpRegs
<1>9. CASE RunOnceReturns
  BY <1>9 DEF RunOnceReturns, Save
<1>10. CASE UNCHANGED wsvars
  BY <1>10 DEF wsvars
<1> QED BY <1>1, <1>2, <1>3, <1>4, <1>5, <1>6, <1>7, <1>8, <1>9, <1>10 DEF WsNext

(* The stack discipline survives every step. *)
LEMMA StackStep == TypeOK /\ Stack /\ [WsNext]_wsvars => Stack'
<1> SUFFICES ASSUME TypeOK, Stack, [WsNext]_wsvars PROVE Stack'
  OBVIOUS
<1> USE DEF TypeOK, Stack
<1>1. ASSUME NEW val \in Val, HvCode(val) PROVE Stack'
  BY <1>1 DEF HvCode
<1>2. ASSUME NEW v \in Contexts, NEW r \in HvWritten, NEW val \in Val, HvWrite(v, r, val)
      PROVE  Stack'
  BY <1>2 DEF HvWrite
<1>3. ASSUME NEW v \in Contexts, vcpu_init(v) PROVE Stack'
  BY <1>3 DEF vcpu_init
<1>4. ASSUME NEW v \in Contexts, RunOnce(v) PROVE Stack'
  BY <1>4 DEF RunOnce
<1>5. CASE __guest_enter
  BY <1>5 DEF __guest_enter
<1>6. ASSUME NEW S \in GuestSets, NEW val \in Val, Guest(S, val) PROVE Stack'
  BY <1>6 DEF Guest
<1>7. CASE VEC_GUEST
  BY <1>7 DEF VEC_GUEST
<1>8. CASE __guest_exit
  BY <1>8, RegSets DEF __guest_exit, CtxRegs, GpRegs
<1>9. CASE RunOnceReturns
  BY <1>9 DEF RunOnceReturns
<1>10. CASE UNCHANGED wsvars
  BY <1>10, Zenon DEF wsvars
<1> QED BY <1>1, <1>2, <1>3, <1>4, <1>5, <1>6, <1>7, <1>8, <1>9, <1>10 DEF WsNext

(* The true copy of every register survives every step. *)
LEMMA CopiesStep == Inv /\ [WsNext]_wsvars => Copies'
<1> SUFFICES ASSUME Inv, [WsNext]_wsvars PROVE Copies'
  OBVIOUS
<1> USE RegSets DEF Inv, TypeOK, Copies, Saved, Live
<1>1. ASSUME NEW val \in Val, HvCode(val) PROVE Copies'
  BY <1>1 DEF HvCode
<1>2. ASSUME NEW v \in Contexts, NEW r \in HvWritten, NEW val \in Val, HvWrite(v, r, val)
      PROVE  Copies'
  BY <1>2, WorldSwitchAssumption DEF HvWrite
<1>3. ASSUME NEW v \in Contexts, vcpu_init(v) PROVE Copies'
  BY <1>3, WorldSwitchAssumption DEF vcpu_init, Zero
<1>4. ASSUME NEW v \in Contexts, RunOnce(v) PROVE Copies'
  BY <1>4 DEF RunOnce, Load, restore_el1_sysregs, CSide
<1>5. CASE __guest_enter
  BY <1>5 DEF __guest_enter, Load, AsmSide
<1>6. ASSUME NEW S \in GuestSets, NEW val \in Val, Guest(S, val) PROVE Copies'
  <2>1. S \intersect VmRegs = {}
    BY WorldSwitchAssumption DEF GuestRegs
  <2> QED BY <1>6, <2>1 DEF Guest
<1>7. CASE VEC_GUEST
  BY <1>7 DEF VEC_GUEST
<1>8. CASE __guest_exit
  <2> DEFINE guest == [hw EXCEPT !["x0"] = pushed.x0, !["x1"] = pushed.x1]
  <2>1. tpidr = vcpu /\ phase = "stub" /\ phase' = "exited" /\ vcpu' = vcpu /\ own' = own
    BY <1>8 DEF __guest_exit, Stack
  <2>2. \A r \in AsmSide : guest[r] = own[vcpu][r]
    BY <2>1
  <2>3. /\ \A r \in Regs : ctx'[vcpu][r] = IF r \in AsmSide THEN guest[r] ELSE ctx[vcpu][r]
        /\ \A v \in Contexts \ {vcpu} : ctx'[v] = ctx[v]
    BY <1>8, <2>1 DEF __guest_exit, Save, AsmSide
  <2>4. hw' = [hw EXCEPT !["x19_x30"] = frame]
    BY <1>8 DEF __guest_exit
  <2> HIDE DEF guest
  <2>5. Live(CSide)'
    BY <2>1, <2>4
  <2>6. Saved(vcpu, AsmSide)' /\ Saved(vcpu, VmRegs)'
    BY <2>1, <2>2, <2>3
  <2>7. \A v \in Contexts \ {vcpu} : Saved(v, CtxRegs)'
    BY <2>1, <2>3
  <2> QED BY <2>1, <2>5, <2>6, <2>7
<1>9. CASE RunOnceReturns
  BY <1>9 DEF RunOnceReturns, Save, save_el1_sysregs, CSide
<1>10. CASE UNCHANGED wsvars
  BY <1>10 DEF wsvars
<1> QED BY <1>1, <1>2, <1>3, <1>4, <1>5, <1>6, <1>7, <1>8, <1>9, <1>10, Zenon DEF WsNext

(* The inductive invariant holds throughout. *)
LEMMA InvHolds == WsSpec => []Inv
<1>1. Inv /\ [WsNext]_wsvars => Inv'
  BY TypeStep, StackStep, CopiesStep DEF Inv
<1> QED BY <1>1, InitInv, PTL DEF WsSpec

-----------------------------------------------------------------------------
(* The variables of the world switch keep their types. *)
THEOREM WorldSwitchTypes == WsSpec => []TypeOK
BY InvHolds, PTL DEF Inv

(* A running guest finds every register that vcpu_t has a field for as it, or a
   handler for it, left it, whatever else is not switched. *)
THEOREM NoRegisterLost == WsSpec => []GuestSeesOwnRegisters
<1>1. Inv => GuestSeesOwnRegisters
  BY DEF Inv, Copies, Live, GuestSeesOwnRegisters
<1> QED BY <1>1, InvHolds, PTL

(* Whenever the hypervisor's C code runs, every vCPU's saved context is its
   guest's true state, in every field of vcpu_t. *)
THEOREM ContextsAreTrue == WsSpec => []ContextComplete
<1>1. Inv => ContextComplete
  BY DEF Inv, Copies, Saved, ContextComplete
<1> QED BY <1>1, InvHolds, PTL

(* Every call of __guest_enter comes back on the caller's stack with the
   caller's callee-saved registers, whichever vCPUs ran in between. *)
THEOREM EnterReturns == WsSpec => []ReturnsToCaller
<1>1. Inv => ReturnsToCaller
  BY DEF Inv, Stack, ReturnsToCaller
<1> QED BY <1>1, InvHolds, PTL
=============================================================================
