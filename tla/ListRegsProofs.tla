--------------------------- MODULE ListRegsProofs ---------------------------
(***************************************************************************)
(* Proofs about module ListRegs, for any number of vCPUs, list registers   *)
(* and INTIDs: the list registers stay well formed and free of duplicates, *)
(* vgic_inject loses an interrupt only for lack of list registers, and     *)
(* they implement the sets of module IrqLine.                              *)
(***************************************************************************)
EXTENDS ListRegs, FiniteSetTheorems, TLAPS

\* The contents of one vCPU's list registers, and those without duplicates.
Files == [Slots -> ListReg]

Distinct(file) ==
  \A s, t \in Slots :
    Busy(file, s) /\ Busy(file, t) /\ file[s].intid = file[t].intid => s = t

All == {"pending", "active"}

-----------------------------------------------------------------------------
(* A nonempty set of naturals has a least element: what CHOOSE in FirstFree
   rests on. *)
LEMMA LeastElement ==
  ASSUME NEW S \in SUBSET Nat, S # {}
  PROVE  \E x \in S : \A y \in S : x <= y
<1> DEFINE R == OpToRel(<, Nat)
<1>1. IsWellFoundedOn(R, Nat)
  BY NatLessThanWellFounded
<1>2. PICK x \in S : \A y \in S : ~(<<y, x>> \in R)
  <2> HIDE DEF R
  <2> QED BY <1>1, WFMin
<1>3. \A y \in S : ~(y < x)
  BY <1>2 DEF OpToRel
<1> QED BY <1>3

(* The slot vgic_inject picks is a free one. *)
LEMMA FirstFreeIsFree ==
  ASSUME NEW file, FreeSlots(file) # {}
  PROVE  FirstFree(file) \in FreeSlots(file)
<1>1. FreeSlots(file) \in SUBSET Nat
  BY ListRegsAssumption DEF FreeSlots, Slots
<1>2. \E s \in FreeSlots(file) : \A t \in FreeSlots(file) : s <= t
  BY <1>1, LeastElement
<1> QED BY <1>2 DEF FirstFree

(* What vgic_inject does to list registers that have room for a new INTID. *)
LEMMA InjectNew ==
  ASSUME NEW file \in Files, NEW i \in Intids,
         ~Queued(file, i), FreeSlots(file) # {}
  PROVE  \E f \in Slots :
           /\ ~Busy(file, f)
           /\ vgic_inject(file, i) = [file EXCEPT ![f] = [state |-> "pending", intid |-> i]]
<1>1. FirstFree(file) \in FreeSlots(file)
  BY FirstFreeIsFree
<1>2. FirstFree(file) \in Slots /\ ~Busy(file, FirstFree(file))
  BY <1>1 DEF FreeSlots
<1> QED BY <1>2 DEF vgic_inject

(* vgic_inject keeps the list registers well formed. *)
LEMMA InjectType ==
  ASSUME NEW file \in Files, NEW i \in Intids
  PROVE  vgic_inject(file, i) \in Files
<1>1. CASE Queued(file, i) \/ FreeSlots(file) = {}
  BY <1>1 DEF vgic_inject
<1>2. CASE ~Queued(file, i) /\ FreeSlots(file) # {}
  BY <1>2, InjectNew DEF Files, ListReg
<1> QED BY <1>1, <1>2

(* vgic_inject introduces no duplicate. *)
LEMMA InjectDistinct ==
  ASSUME NEW file \in Files, NEW i \in Intids, Distinct(file)
  PROVE  Distinct(vgic_inject(file, i))
<1>1. CASE Queued(file, i) \/ FreeSlots(file) = {}
  BY <1>1 DEF vgic_inject
<1>2. CASE ~Queued(file, i) /\ FreeSlots(file) # {}
  <2>1. PICK f \in Slots :
          /\ ~Busy(file, f)
          /\ vgic_inject(file, i) = [file EXCEPT ![f] = [state |-> "pending", intid |-> i]]
    BY <1>2, InjectNew
  <2> QED BY <1>2, <2>1 DEF Distinct, Busy, Queued, Files, ListReg
<1> QED BY <1>1, <1>2

(* An acknowledge keeps them well formed and without duplicates. *)
LEMMA AckWellFormed ==
  ASSUME NEW file \in Files, Distinct(file), NEW s \in Slots, CanAck(file, s)
  PROVE  AckSlot(file, s) \in Files /\ Distinct(AckSlot(file, s))
BY DEF CanAck, AckSlot, Files, Distinct, ListReg, Busy

(* So does an end of interrupt. *)
LEMMA EoiWellFormed ==
  ASSUME NEW file \in Files, Distinct(file), NEW s \in Slots
  PROVE  EoiSlot(file, s) \in Files /\ Distinct(EoiSlot(file, s))
BY ListRegsAssumption DEF EoiSlot, Files, Distinct, ListReg, Busy, Empty

(* And vcpu_init, which zeroes them. *)
LEMMA ZeroWellFormed == [s \in Slots |-> Empty] \in Files /\ Distinct([s \in Slots |-> Empty])
BY ListRegsAssumption DEF Files, Distinct, ListReg, Busy, Empty

-----------------------------------------------------------------------------
\* The inductive invariant: types and NoDuplicate, which needs nothing else.
LrInv == LrTypeOK /\ NoDuplicate

(* The list registers of every vCPU start well formed and without duplicates. *)
LEMMA LrInitInv == LrInit => LrInv
BY ListRegsAssumption DEF LrInit, LrInv, LrTypeOK, NoDuplicate, Empty, ListReg, Busy

(* Every step, of the hypervisor or of the guest, keeps them so. *)
LEMMA LrNextInv == LrInv /\ [LrNext]_lr => LrInv'
<1> SUFFICES ASSUME LrInv, [LrNext]_lr PROVE LrInv'
  OBVIOUS
<1>0. \A v \in VCpus : lr[v] \in Files /\ Distinct(lr[v])
  BY DEF LrInv, LrTypeOK, NoDuplicate, Files, Distinct
<1>a. ASSUME NEW v \in VCpus, NEW file \in Files, Distinct(file), lr' = [lr EXCEPT ![v] = file]
      PROVE  LrInv'
  <2>1. lr' \in [VCpus -> Files]
    BY <1>a DEF LrInv, LrTypeOK, Files
  <2>2. \A w \in VCpus : Distinct(lr'[w])
    BY <1>0, <1>a DEF LrInv, LrTypeOK
  <2> QED BY <2>1, <2>2 DEF LrInv, LrTypeOK, NoDuplicate, Files, Distinct
<1>1. ASSUME NEW v \in VCpus, LrReset(v) PROVE LrInv'
  BY <1>1, <1>a, ZeroWellFormed DEF LrReset
<1>2. ASSUME NEW v \in VCpus, NEW i \in Intids, LrInject(v, i) PROVE LrInv'
  <2>1. vgic_inject(lr[v], i) \in Files /\ Distinct(vgic_inject(lr[v], i))
    BY <1>0, InjectType, InjectDistinct
  <2>2. lr' = [lr EXCEPT ![v] = vgic_inject(lr[v], i)]
    BY <1>2 DEF LrInject
  <2> HIDE DEF Files
  <2> QED BY <1>a, <2>1, <2>2
<1>3. ASSUME NEW v \in VCpus, NEW s \in Slots, LrAck(v, s) PROVE LrInv'
  <2>1. AckSlot(lr[v], s) \in Files /\ Distinct(AckSlot(lr[v], s))
    BY <1>0, <1>3, AckWellFormed DEF LrAck
  <2>2. lr' = [lr EXCEPT ![v] = AckSlot(lr[v], s)]
    BY <1>3 DEF LrAck
  <2> QED BY <1>a, <2>1, <2>2
<1>4. ASSUME NEW v \in VCpus, NEW s \in Slots, LrEoi(v, s) PROVE LrInv'
  <2>1. EoiSlot(lr[v], s) \in Files /\ Distinct(EoiSlot(lr[v], s))
    BY <1>0, EoiWellFormed
  <2>2. lr' = [lr EXCEPT ![v] = EoiSlot(lr[v], s)]
    BY <1>4 DEF LrEoi
  <2> QED BY <1>a, <2>1, <2>2
<1>5. CASE UNCHANGED lr
  BY <1>5 DEF LrInv, LrTypeOK, NoDuplicate
<1> QED BY <1>1, <1>2, <1>3, <1>4, <1>5 DEF LrNext

(* The list registers always hold register values, and no INTID twice: the state
   the architecture leaves UNPREDICTABLE is never loaded into the hardware. *)
THEOREM ListRegsSafe == LrSpec => [](LrTypeOK /\ NoDuplicate)
<1>1. LrSpec => []LrInv
  BY LrInitInv, LrNextInv, PTL DEF LrSpec
<1> QED BY <1>1, PTL DEF LrInv

-----------------------------------------------------------------------------
\* Counting the outstanding INTIDs.

BusySlots(file) == {s \in Slots : Busy(file, s)}

(* The outstanding INTIDs of a vCPU are those of its busy list registers. *)
LEMMA HeldAll ==
  ASSUME NEW file \in Files
  PROVE  Held(file, All) = {file[s].intid : s \in BusySlots(file)}
BY DEF Held, All, BusySlots, Busy, Files, ListReg

(* There are NLR slots. *)
LEMMA SlotsFinite == IsFiniteSet(Slots) /\ Cardinality(Slots) = NLR
<1>1. NLR - 1 \in Int /\ ~(0 > NLR - 1) /\ NLR - 1 - 0 + 1 = NLR
  BY ListRegsAssumption
<1> QED BY <1>1, FS_Interval DEF Slots

(* The number of outstanding INTIDs is at most that of the busy registers, and
   equal to it when there are no duplicates. *)
LEMMA HeldCardinality ==
  ASSUME NEW file \in Files
  PROVE  /\ IsFiniteSet(BusySlots(file)) /\ IsFiniteSet(Held(file, All))
         /\ Cardinality(Held(file, All)) <= Cardinality(BusySlots(file))
         /\ Distinct(file) => Cardinality(Held(file, All)) = Cardinality(BusySlots(file))
<1> DEFINE B == BusySlots(file)
           H == Held(file, All)
           f == [s \in B |-> file[s].intid]
<1>1. IsFiniteSet(B)
  BY SlotsFinite, FS_Subset DEF BusySlots
<1>2. f \in Surjection(B, H)
  BY HeldAll DEF Surjection
<1>3. Distinct(file) => f \in Injection(B, H)
  BY <1>2 DEF Injection, IsInjective, Surjection, Distinct, BusySlots
<1> HIDE DEF f, B, H
<1>4. /\ IsFiniteSet(H)
      /\ Cardinality(H) <= Cardinality(B)
      /\ Cardinality(H) = Cardinality(B) <=> f \in Injection(B, H)
  BY <1>1, <1>2, FS_Surjection
<1> QED BY <1>1, <1>3, <1>4 DEF B, H

(* With a free list register fewer than NLR INTIDs are outstanding. *)
LEMMA RoomBelowCapacity ==
  ASSUME NEW file \in Files, NEW f \in Slots, ~Busy(file, f)
  PROVE  Cardinality(Held(file, All)) < NLR
<1>1. BusySlots(file) \in SUBSET (Slots \ {f})
  BY DEF BusySlots
<1>2. IsFiniteSet(Slots \ {f}) /\ Cardinality(Slots \ {f}) = NLR - 1
  BY SlotsFinite, FS_RemoveElement
<1>3. Cardinality(BusySlots(file)) <= NLR - 1
  BY <1>1, <1>2, FS_Subset
<1>4. /\ IsFiniteSet(BusySlots(file)) /\ IsFiniteSet(Held(file, All))
      /\ Cardinality(Held(file, All)) <= Cardinality(BusySlots(file))
  BY HeldCardinality
<1>5. Cardinality(BusySlots(file)) \in Nat /\ Cardinality(Held(file, All)) \in Nat
  BY <1>4, FS_CardinalityType
<1> QED BY <1>3, <1>4, <1>5, ListRegsAssumption

(* The effect of vgic_inject on the outstanding INTIDs. *)
LEMMA InjectHeld ==
  ASSUME NEW file \in Files, NEW i \in Intids,
         ~Queued(file, i), FreeSlots(file) # {}
  PROVE  /\ Held(vgic_inject(file, i), {"pending"}) = Held(file, {"pending"}) \union {i}
         /\ Held(vgic_inject(file, i), {"active"}) = Held(file, {"active"})
         /\ i \notin Held(file, All)
         /\ Cardinality(Held(file, All)) < NLR
<1>1. PICK f \in Slots :
        /\ ~Busy(file, f)
        /\ vgic_inject(file, i) = [file EXCEPT ![f] = [state |-> "pending", intid |-> i]]
  BY InjectNew
<1>2. Held(vgic_inject(file, i), {"pending"}) = Held(file, {"pending"}) \union {i}
  BY <1>1 DEF Held, Busy, Files, ListReg
<1>3. Held(vgic_inject(file, i), {"active"}) = Held(file, {"active"})
  BY <1>1 DEF Held, Busy, Files, ListReg
<1>4. i \notin Held(file, All)
  BY DEF Queued, Held, All, Busy
<1>5. Cardinality(Held(file, All)) < NLR
  BY <1>1, RoomBelowCapacity
<1> QED BY <1>2, <1>3, <1>4, <1>5

(* Outstanding is pending or active. *)
LEMMA HeldSplit ==
  ASSUME NEW file
  PROVE  Held(file, All) = Held(file, {"pending"}) \union Held(file, {"active"})
BY DEF Held, All

(* What can come of an injection: nothing but the INTID is added, nothing is
   lost, and only full list registers turn the INTID away. *)
LEMMA InjectOutcome ==
  ASSUME NEW file \in Files, Distinct(file), NEW i \in Intids
  PROVE  /\ Held(vgic_inject(file, i), All) \subseteq Held(file, All) \union {i}
         /\ Held(vgic_inject(file, i), {"pending"}) \subseteq Held(file, {"pending"}) \union {i}
         /\ Held(file, All) \subseteq Held(vgic_inject(file, i), All)
         /\ \/ i \in Held(vgic_inject(file, i), All)
            \/ vgic_inject(file, i) = file /\ Cardinality(Held(file, All)) = NLR
<1>1. CASE Queued(file, i)
  <2>1. vgic_inject(file, i) = file
    BY <1>1 DEF vgic_inject
  <2>2. i \in Held(file, All)
    BY <1>1 DEF Queued, Held, All, Busy, Files, ListReg
  <2> QED BY <2>1, <2>2
<1>2. CASE ~Queued(file, i) /\ FreeSlots(file) = {}
  <2>1. vgic_inject(file, i) = file
    BY <1>2 DEF vgic_inject
  <2>2. BusySlots(file) = Slots
    BY <1>2 DEF FreeSlots, BusySlots
  <2>3. Cardinality(Held(file, All)) = NLR
    BY <2>2, HeldCardinality, SlotsFinite
  <2> QED BY <2>1, <2>3
<1>3. CASE ~Queued(file, i) /\ FreeSlots(file) # {}
  <2>1. /\ Held(vgic_inject(file, i), {"pending"}) = Held(file, {"pending"}) \union {i}
        /\ Held(vgic_inject(file, i), {"active"}) = Held(file, {"active"})
    BY <1>3, InjectHeld
  <2> QED BY <2>1, HeldSplit
<1> QED BY <1>1, <1>2, <1>3

(* vgic_inject loses an interrupt only when NLR different INTIDs are outstanding,
   and never disturbs another one: for every number of list registers. *)
THEOREM InjectLossless == LrSpec => []InjectLosesOnlyWhenFull
<1>1. LrInv => InjectLosesOnlyWhenFull
  <2> SUFFICES ASSUME LrInv, NEW v \in VCpus, NEW i \in Intids
               PROVE  /\ Held(vgic_inject(lr[v], i), All) \subseteq Held(lr[v], All) \union {i}
                      /\ Held(lr[v], All) \subseteq Held(vgic_inject(lr[v], i), All)
                      /\ \/ i \in Held(vgic_inject(lr[v], i), All)
                         \/ Cardinality(Held(lr[v], All)) = NLR
    BY DEF All, InjectLosesOnlyWhenFull
  <2>1. lr[v] \in Files /\ Distinct(lr[v])
    BY DEF LrInv, LrTypeOK, NoDuplicate, Files, Distinct
  <2> QED BY <2>1, InjectOutcome
<1>2. LrSpec => []LrInv
  BY LrInitInv, LrNextInv, PTL DEF LrSpec
<1> QED BY <1>1, <1>2, PTL

-----------------------------------------------------------------------------
\* Refinement of IrqLine.

(* What an acknowledge does to the sets of pending and active INTIDs. *)
LEMMA AckHeld ==
  ASSUME NEW file \in Files, Distinct(file), NEW s \in Slots, CanAck(file, s)
  PROVE  /\ Held(file, {"active"}) = {}
         /\ file[s].intid \in Held(file, {"pending"})
         /\ Held(AckSlot(file, s), {"pending"}) = Held(file, {"pending"}) \ {file[s].intid}
         /\ Held(AckSlot(file, s), {"active"}) = {file[s].intid}
<1> DEFINE new == AckSlot(file, s)
<1>1. \A t \in Slots \ {s} : new[t] = file[t]
  BY DEF AckSlot, Files
<1>2. new[s].state = "active" /\ new[s].intid = file[s].intid
  BY DEF AckSlot, Files, ListReg
<1>3. \A t \in Slots : file[t].state = "pending" /\ t # s => file[t].intid # file[s].intid
  BY DEF Distinct, Busy, CanAck
<1>4. \A t \in Slots : file[t].state # "active"
  BY DEF CanAck
<1>5. file[s].state = "pending"
  BY DEF CanAck
<1> HIDE DEF new
<1>6. Held(new, {"pending"}) = Held(file, {"pending"}) \ {file[s].intid}
  BY <1>1, <1>2, <1>3, <1>5 DEF Held
<1>7. Held(new, {"active"}) = {file[s].intid}
  BY <1>1, <1>2, <1>4 DEF Held
<1>8. Held(file, {"active"}) = {} /\ file[s].intid \in Held(file, {"pending"})
  BY <1>4, <1>5 DEF Held
<1> QED BY <1>6, <1>7, <1>8 DEF new

(* What an end of interrupt does to them. *)
LEMMA EoiHeld ==
  ASSUME NEW file \in Files, Distinct(file), NEW s \in Slots, file[s].state = "active"
  PROVE  /\ file[s].intid \in Held(file, {"active"})
         /\ Held(EoiSlot(file, s), {"pending"}) = Held(file, {"pending"})
         /\ Held(EoiSlot(file, s), {"active"}) = Held(file, {"active"}) \ {file[s].intid}
<1> DEFINE new == EoiSlot(file, s)
<1>1. new[s].state = "invalid" /\ \A t \in Slots \ {s} : new[t] = file[t]
  BY DEF EoiSlot, Empty, Files
<1>2. \A t \in Slots : file[t].state = "active" /\ t # s => file[t].intid # file[s].intid
  BY DEF Distinct, Busy
<1> HIDE DEF new
<1>3. Held(new, {"pending"}) = Held(file, {"pending"})
  BY <1>1 DEF Held
<1>4. Held(new, {"active"}) = Held(file, {"active"}) \ {file[s].intid}
  BY <1>1, <1>2 DEF Held
<1>5. file[s].intid \in Held(file, {"active"})
  BY DEF Held
<1> QED BY <1>3, <1>4, <1>5 DEF new

(* The guest's side makes nothing pending or outstanding that was not. *)
LEMMA GuestAddsNothing ==
  ASSUME NEW file \in Files, Distinct(file), NEW s \in Slots,
         NEW new, \/ CanAck(file, s) /\ new = AckSlot(file, s)
                  \/ file[s].state = "active" /\ new = EoiSlot(file, s)
  PROVE  /\ Held(new, All) \subseteq Held(file, All)
         /\ Held(new, {"pending"}) \subseteq Held(file, {"pending"})
<1>1. CASE CanAck(file, s) /\ new = AckSlot(file, s)
  BY <1>1, AckHeld, HeldSplit
<1>2. CASE file[s].state = "active" /\ new = EoiSlot(file, s)
  BY <1>2, EoiHeld, HeldSplit
<1> QED BY <1>1, <1>2

(* The list registers implement the sets of pending and active INTIDs, with
   room for NLR of them: every operation on the registers is the operation of
   IrqLine on the sets, or changes neither set. *)
THEOREM ListRegsRefineIrqLine == LrSpec => ImplementsIrqLine
<1> DEFINE P == [v \in VCpus |-> Held(lr[v], {"pending"})]
           Q == [v \in VCpus |-> Held(lr[v], {"active"})]
<1>1. LrInit => Line!Init
  BY DEF LrInit, Line!Init, Held, Empty
<1>2. LrInv /\ [LrNext]_lr => [Line!Next]_(Line!vars)
  <2> SUFFICES ASSUME LrInv, [LrNext]_lr
               PROVE  Line!Next \/ (P' = P /\ Q' = Q)
    BY DEF Line!vars
  <2>0. lr \in [VCpus -> Files] /\ \A v \in VCpus : Distinct(lr[v])
    BY DEF LrInv, LrTypeOK, NoDuplicate, Files, Distinct
  <2>1. ASSUME NEW v \in VCpus, LrReset(v) PROVE Line!Next
    <3> DEFINE new == [s \in Slots |-> Empty]
    <3>1. Held(new, {"pending"}) = {} /\ Held(new, {"active"}) = {}
      BY DEF Held, Empty
    <3>2. lr' = [lr EXCEPT ![v] = new]
      BY <2>1 DEF LrReset
    <3> HIDE DEF new
    <3>3. /\ P' = [P EXCEPT ![v] = {}]
          /\ Q' = [Q EXCEPT ![v] = {}]
      BY <2>0, <3>1, <3>2
    <3>4. Line!Reset(v)
      BY <3>3 DEF Line!Reset
    <3> QED BY <3>4 DEF Line!Next
  <2>2. ASSUME NEW v \in VCpus, NEW i \in Intids, LrInject(v, i)
        PROVE  Line!Next \/ (P' = P /\ Q' = Q)
    <3>1. lr' = [lr EXCEPT ![v] = vgic_inject(lr[v], i)]
      BY <2>2 DEF LrInject
    <3>2. CASE Queued(lr[v], i) \/ FreeSlots(lr[v]) = {}
      <4>1. lr' = lr
        BY <2>0, <3>1, <3>2 DEF vgic_inject
      <4> QED BY <4>1
    <3>3. CASE ~Queued(lr[v], i) /\ FreeSlots(lr[v]) # {}
      <4> DEFINE new == vgic_inject(lr[v], i)
      <4>1. /\ Held(new, {"pending"}) = Held(lr[v], {"pending"}) \union {i}
            /\ Held(new, {"active"}) = Held(lr[v], {"active"})
            /\ i \notin Held(lr[v], All)
            /\ Cardinality(Held(lr[v], All)) < NLR
        BY <2>0, <3>3, InjectHeld
      <4> HIDE DEF new
      <4>2. /\ P' = [P EXCEPT ![v] = @ \union {i}]
            /\ Q' = Q
        BY <2>0, <3>1, <4>1 DEF new
      <4>3. Held(lr[v], All) = Line!Outstanding(v)
        BY HeldSplit DEF Line!Outstanding
      <4>4. Line!Raise(v, i)
        BY <4>1, <4>2, <4>3 DEF Line!Raise, Cardinality, Line!Cardinality
      <4> QED BY <4>4 DEF Line!Next
    <3> QED BY <3>2, <3>3
  <2>3. ASSUME NEW v \in VCpus, NEW s \in Slots, LrAck(v, s) PROVE Line!Next
    <3> DEFINE i   == lr[v][s].intid
               new == AckSlot(lr[v], s)
    <3>1. /\ Held(lr[v], {"active"}) = {} /\ i \in Held(lr[v], {"pending"})
          /\ Held(new, {"pending"}) = Held(lr[v], {"pending"}) \ {i}
          /\ Held(new, {"active"}) = {i}
      BY <2>0, <2>3, AckHeld DEF LrAck
    <3>2. lr' = [lr EXCEPT ![v] = new]
      BY <2>3 DEF LrAck
    <3>3. i \in Intids
      BY <2>0 DEF Files, ListReg
    <3> HIDE DEF new, i
    <3>4. /\ P' = [P EXCEPT ![v] = @ \ {i}]
          /\ Q' = [Q EXCEPT ![v] = {i}]
      BY <2>0, <3>1, <3>2
    <3>5. Line!Ack(v, i)
      BY <3>1, <3>4 DEF Line!Ack
    <3> QED BY <3>3, <3>5 DEF Line!Next
  <2>4. ASSUME NEW v \in VCpus, NEW s \in Slots, LrEoi(v, s) PROVE Line!Next
    <3> DEFINE i   == lr[v][s].intid
               new == EoiSlot(lr[v], s)
    <3>1. /\ i \in Held(lr[v], {"active"})
          /\ Held(new, {"pending"}) = Held(lr[v], {"pending"})
          /\ Held(new, {"active"}) = Held(lr[v], {"active"}) \ {i}
      BY <2>0, <2>4, EoiHeld DEF LrEoi
    <3>2. lr' = [lr EXCEPT ![v] = new]
      BY <2>4 DEF LrEoi
    <3>3. i \in Intids
      BY <2>0 DEF Files, ListReg
    <3> HIDE DEF new, i
    <3>4. P' = P /\ Q' = [Q EXCEPT ![v] = @ \ {i}]
      BY <2>0, <3>1, <3>2
    <3>5. Line!Eoi(v, i)
      BY <3>1, <3>4 DEF Line!Eoi
    <3> QED BY <3>3, <3>5 DEF Line!Next
  <2>5. CASE UNCHANGED lr
    BY <2>5
  <2> QED BY <2>1, <2>2, <2>3, <2>4, <2>5 DEF LrNext
<1>3. LrSpec => []LrInv
  BY LrInitInv, LrNextInv, PTL DEF LrSpec
<1> QED BY <1>1, <1>2, <1>3, PTL DEF LrSpec, ImplementsIrqLine, Line!Spec
=============================================================================
