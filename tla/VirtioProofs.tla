---------------------------- MODULE VirtioProofs ----------------------------
(***************************************************************************)
(* Proofs about the loops that run guests with a virtio console            *)
(* (VirtioLoops).                                                          *)
(***************************************************************************)
EXTENDS VirtioLoops, VirtqueueProofs, ListRegsProofs

-----------------------------------------------------------------------------
\* The loops.

LoopTypes ==
  /\ demo \in {"M23", "M24", "M27"} /\ at \in {"guest", "tail", "done"}
  /\ cur \in VMs /\ enabled \in BOOLEAN
  /\ hand \in {"main", "status", "ack", "drain", "eoi"}

(* A step of the loops is a step of one console or its driver, or leaves the
   consoles alone. *)
LEMMA LoopsStep ==
  ASSUME LoopTypes, [IrqNext]_irqvars
  PROVE  /\ LoopTypes'
         /\ \/ Notify(cur) \/ InterruptAck(cur) \/ virtio_take_irq(cur) \/ Reclaim(cur)
            \/ \E g \in GuestBlocks : SetUpQueue(cur, g)
            \/ \E d \in Ring : Queue(cur, d)
            \/ UNCHANGED consoleVars
<1>1. VMs = {0, 1}
  BY VirtioLoopsAssumption
<1>2. CASE ConsoleNotify \/ ConsoleSetUp \/ PollerAck
  BY <1>2 DEF ConsoleNotify, ConsoleSetUp, PollerAck, Exit, LoopTypes
<1>3. CASE HandlerStatus \/ HandlerAck \/ OtherExit
  BY <1>3 DEF HandlerStatus, HandlerAck, OtherExit, Exit, LoopTypes
<1>4. CASE Tail
  BY <1>4 DEF Tail, LoopTypes
<1>5. CASE Stop
  BY <1>1, <1>5 DEF Stop, LoopTypes
<1>6. CASE GuestPolls \/ GuestIrq \/ HandlerDrain
  BY <1>6 DEF GuestPolls, GuestIrq, HandlerDrain, Inside, LoopTypes
<1>7. CASE HandlerDrained \/ HandlerEoi
  BY <1>7 DEF HandlerDrained, HandlerEoi, Inside, LoopTypes
<1>8. CASE \E en \in BOOLEAN : GicWrite(en)
  BY <1>8 DEF GicWrite, Exit, LoopTypes
<1>9. CASE \E d \in Ring : GuestQueue(d)
  BY <1>9 DEF GuestQueue, Inside, LoopTypes
<1>10. CASE UNCHANGED irqvars
  BY <1>10 DEF irqvars, LoopTypes
<1> QED BY <1>2, <1>3, <1>4, <1>5, <1>6, <1>7, <1>8, <1>9, <1>10 DEF IrqNext

(* The consoles keep their invariant in all loops. *)
LEMMA ConsoleInvariant == IrqSpec => [](LoopTypes /\ ConsoleInv)
<1>1. IrqInit => LoopTypes /\ ConsoleInv
  BY ConsoleInit, VirtioLoopsAssumption, Zenon DEF IrqInit, LoopTypes
<1>2. LoopTypes /\ ConsoleInv /\ [IrqNext]_irqvars => LoopTypes' /\ ConsoleInv'
  <2> SUFFICES ASSUME LoopTypes, ConsoleInv, [IrqNext]_irqvars PROVE LoopTypes' /\ ConsoleInv'
    OBVIOUS
  <2>1. LoopTypes' /\ cur \in VMs
    BY LoopsStep DEF LoopTypes
  <2>2. CASE UNCHANGED consoleVars
    <3>1. ConsoleTypes'
      BY <2>2 DEF consoleVars, ConsoleInv, ConsoleTypes, QueueBlock
    <3>2. \A w \in VMs : KeptApart(w)' => OwnQueueOK(w)'
      BY <2>2, ApartBefore, SameQueue DEF consoleVars, ConsoleInv
    <3> QED BY <2>1, <3>1, <3>2 DEF ConsoleInv
  <2> QED BY <2>1, <2>2, LoopsStep, NotifyStep, RegisterStep, DriverQueues, DriverReclaims
<1> QED BY <1>1, <1>2, PTL DEF IrqSpec

(* Every buffer is printed once and in order, for any queue size and index
   width, across the wrap of the indices and whatever the other VMs do with their
   devices, for a VM in whose block its own device works and no other
   (virtio_process_tx). *)
THEOREM BuffersPrintInOrder == IrqSpec => []PrintsInOrder
<1>1. ConsoleInv => PrintsInOrder
  <2> SUFFICES ASSUME ConsoleInv, NEW vm \in VMs, KeptApart(vm)
               PROVE  LET q == ram[PA[vm]]
                          n == NewBuffers(vm, q)
                      IN  /\ (last[vm] + n) % BufMod = drv[vm].queued
                          /\ \A k \in 0 .. n - 1 :
                               q.desc[TxDesc(vm, q, k)] = (last[vm] + 1 + k) % BufMod
    BY DEF PrintsInOrder
  <2>1. PICK n \in Nat, m \in Nat :
          QueueOK(ram[PA[vm]], vc[vm].last_avail, drv[vm], last[vm], n, m)
    BY DEF ConsoleInv, OwnQueueOK
  <2>2. NewBuffers(vm, ram[PA[vm]]) = n
    BY <2>1, NewBuffersCounted DEF NewBuffers
  <2>3. \A k : TxDesc(vm, ram[PA[vm]], k) = ToPrint(ram[PA[vm]], vc[vm].last_avail, k)
    BY DEF TxDesc, TxSlot, ToPrint, Slot
  <2> QED BY <2>1, <2>2, <2>3 DEF QueueOK, Numbered
<1> QED BY <1>1, ConsoleInvariant, PTL

(* The used ring gives back every descriptor the driver has in flight, and each
   once, under the same condition. *)
THEOREM BuffersCompleteOnce == IrqSpec => []CompletesOnce
<1>1. ConsoleInv => CompletesOnce
  <2> SUFFICES ASSUME ConsoleInv, NEW vm \in VMs, KeptApart(vm)
               PROVE  LET c == Completed(vm)
                      IN  /\ \A k \in DOMAIN c : c[k] \in drv[vm].inflight
                          /\ \A k, m \in DOMAIN c : c[k] = c[m] => k = m
                          /\ Cardinality(drv[vm].inflight) =
                               Cardinality(DOMAIN c) + NewBuffers(vm, ram[PA[vm]])
    BY DEF CompletesOnce
  <2> DEFINE q == ram[PA[vm]]
             d == drv[vm]
             c == Completed(vm)
  <2>1. PICK n \in Nat, m \in Nat : QueueOK(q, vc[vm].last_avail, d, last[vm], n, m)
    BY DEF ConsoleInv, OwnQueueOK
  <2>2. NewBuffers(vm, q) = n /\ Ahead(q.used_idx, d.last_used) = m
    BY <2>1, NewBuffersCounted DEF NewBuffers
  <2>3. c = [k \in 0 .. m - 1 |-> ToReclaim(q, d, k)]
    BY <2>2 DEF Completed, ToReclaim, Slot
  <2>4. DOMAIN c = 0 .. m - 1 /\ \A k \in 0 .. m - 1 : c[k] = ToReclaim(q, d, k)
    BY <2>3
  <2>5. Cardinality(DOMAIN c) = m
    <3>1. 0 \in Int /\ m - 1 \in Int
      OBVIOUS
    <3>2. Cardinality(0 .. m - 1) = IF 0 > m - 1 THEN 0 ELSE (m - 1) - 0 + 1
      BY ONLY <3>1, FS_Interval
    <3>3. Cardinality(0 .. m - 1) = m
      BY <3>2
    <3> QED BY <2>4, <3>3
  <2> HIDE DEF c
  <2>6. /\ \A k \in DOMAIN c : c[k] \in d.inflight
        /\ \A j, k \in DOMAIN c : c[j] = c[k] => j = k
    BY <2>1, <2>4 DEF QueueOK, InFlightOnce
  <2>7. Cardinality(d.inflight) = Cardinality(DOMAIN c) + NewBuffers(vm, q)
    BY <2>1, <2>2, <2>5 DEF QueueOK, Counted
  <2> QED BY <2>6, <2>7 DEF c
<1> QED BY <1>1, ConsoleInvariant, PTL

-----------------------------------------------------------------------------
\* The interrupt of M24.

Unseen == drv[0].last_used # ram[PA[0]].used_idx

IrqFiles == [Slots -> [state : {"invalid", "pending", "active"}, intid : Nat]]

\* The list registers of VM 0 while its guest is at h: at most one is busy, it
\* holds INTID 20, and it is active exactly in the handler.
FileAt(file, h) ==
  /\ file \in IrqFiles
  /\ \A s \in Slots : Busy(file, s) => file[s].intid = VIRTIO_INTID
  /\ \A s, t \in Slots : Busy(file, s) /\ Busy(file, t) => s = t
  /\ h = "main" => \A s \in Slots : file[s].state # "active"
  /\ h # "main" => \A s \in Slots : file[s].state # "pending"

Signalled ==
  \/ at = "tail" /\ vc[0].irq
  \/ hand = "main" /\ VIRTIO_INTID \in Held(lr[0], {"pending"})
  \/ hand \in {"status", "ack", "drain"}

\* What carries a completion to the driver: the flag lives only until the tail
\* of the exit that raised it, and InterruptStatus until the handler drains.
SignalKept ==
  /\ cur = 0 /\ lr \in [VCpus -> IrqFiles] /\ FileAt(lr[0], hand)
  /\ vc[0].irq => at = "tail" /\ enabled /\ hand = "main"
  /\ Unseen => Signalled /\ (vc[0].int_status \/ hand = "drain")

SignalInv == demo = "M24" => SignalKept

(* vgic_inject leaves INTID 20 pending, whether it was or not. *)
LEMMA InjectPending ==
  ASSUME NEW file, FileAt(file, "main")
  PROVE  LET f2 == vgic_inject(file, VIRTIO_INTID)
         IN  FileAt(f2, "main") /\ VIRTIO_INTID \in Held(f2, {"pending"})
<1>0. file \in IrqFiles /\ VIRTIO_INTID \in Nat
  BY DEF FileAt, VIRTIO_INTID
<1>1. CASE \E s \in Slots : Busy(file, s)
  <2>1. PICK s \in Slots : Busy(file, s)
    BY <1>1
  <2>2. file[s].intid = VIRTIO_INTID /\ file[s].state = "pending"
    BY <1>0, <2>1 DEF FileAt, Busy, IrqFiles
  <2>3. vgic_inject(file, VIRTIO_INTID) = file
    BY <2>1, <2>2 DEF vgic_inject, Queued
  <2> QED BY <2>2, <2>3 DEF Held
<1>2. CASE \A s \in Slots : ~Busy(file, s)
  <2> DEFINE f == FirstFree(file)
             r == [state |-> "pending", intid |-> VIRTIO_INTID]
             f2 == [file EXCEPT ![f] = r]
  <2>1. 0 \in FreeSlots(file)
    BY <1>2, ListRegsAssumption DEF FreeSlots, Slots
  <2>2. f \in Slots
    BY <2>1, FirstFreeIsFree DEF FreeSlots
  <2>3. vgic_inject(file, VIRTIO_INTID) = f2
    BY <1>2, <2>1 DEF vgic_inject, Queued
  <2>4. /\ f2 \in IrqFiles /\ f2[f] = r
        /\ \A s \in Slots \ {f} : f2[s] = file[s]
    BY <1>0, <2>2 DEF IrqFiles
  <2> HIDE DEF f, f2
  <2>5. r.state = "pending" /\ r.intid = VIRTIO_INTID
    OBVIOUS
  <2>6. \A s \in Slots \ {f} : f2[s].state = "invalid"
    BY <1>2, <2>4 DEF Busy
  <2>7. FileAt(f2, "main")
    BY <2>2, <2>4, <2>5, <2>6 DEF FileAt, Busy
  <2>8. VIRTIO_INTID \in Held(f2, {"pending"})
    BY <2>2, <2>4, <2>5 DEF Held
  <2> QED BY <2>3, <2>7, <2>8
<1> QED BY <1>1, <1>2

(* An acknowledge leaves nothing pending; an end of interrupt leaves nothing. *)
LEMMA AckEoiFile ==
  ASSUME NEW file, NEW h, FileAt(file, h), NEW s \in Slots
  PROVE  /\ h = "main" /\ CanAck(file, s) =>
              \A g : g # "main" => FileAt(AckSlot(file, s), g)
         /\ h # "main" /\ file[s].state = "active" => FileAt(EoiSlot(file, s), "main")
<1>0. file \in IrqFiles
  BY DEF FileAt
<1>1. ASSUME h = "main", CanAck(file, s), NEW g, g # "main"
      PROVE  FileAt(AckSlot(file, s), g)
  <2> DEFINE f2 == AckSlot(file, s)
  <2>1. /\ f2 \in IrqFiles /\ f2[s].state = "active" /\ f2[s].intid = file[s].intid
        /\ \A t \in Slots \ {s} : f2[t] = file[t]
    BY <1>0 DEF IrqFiles, AckSlot
  <2>2. Busy(file, s)
    BY <1>1 DEF CanAck, Busy
  <2>3. \A t \in Slots \ {s} : ~Busy(file, t)
    BY <2>2 DEF FileAt
  <2> HIDE DEF f2
  <2>4. \A t \in Slots \ {s} : f2[t].state = "invalid"
    BY <2>1, <2>3 DEF Busy
  <2>5. f2[s].intid = VIRTIO_INTID
    BY <2>1, <2>2 DEF FileAt
  <2>6. FileAt(f2, g)
    BY <1>1, <2>1, <2>4, <2>5 DEF FileAt, Busy
  <2> QED BY <2>6 DEF f2
<1>2. ASSUME h # "main", file[s].state = "active"
      PROVE  FileAt(EoiSlot(file, s), "main")
  <2> DEFINE f2 == EoiSlot(file, s)
  <2>1. /\ f2 \in IrqFiles /\ f2[s].state = "invalid"
        /\ \A t \in Slots \ {s} : f2[t] = file[t]
    BY <1>0 DEF IrqFiles, EoiSlot, Empty
  <2>2. \A t \in Slots \ {s} : ~Busy(file, t)
    BY <1>2 DEF FileAt, Busy
  <2> HIDE DEF f2
  <2>3. \A t \in Slots : f2[t].state = "invalid"
    BY <2>1, <2>2 DEF Busy
  <2>4. FileAt(f2, "main")
    BY <2>1, <2>3 DEF FileAt, Busy
  <2> QED BY <2>4 DEF f2
<1> QED BY <1>1, <1>2

(* A notification that completes a buffer raises the flag and InterruptStatus;
   another leaves the used index alone. *)
LEMMA NotifySignals ==
  ASSUME ConsoleInv, 0 \in VMs, Notify(0)
  PROVE  /\ drv' = drv /\ (vc[0].int_status => vc'[0].int_status)
         /\ \/ vc'[0].irq /\ vc'[0].int_status
            \/ (vc'[0].irq => vc[0].irq) /\ ram'[PA[0]].used_idx = ram[PA[0]].used_idx
<1>1. CASE ~vc[0].ready
  BY <1>1 DEF Notify
<1>2. CASE vc[0].ready
  <2> DEFINE b == QueueBlock(0)
             n == NewBuffers(0, ram[b])
  <2>1. virtio_process_tx(0) /\ drv' = drv
    BY <1>2 DEF Notify
  <2>2. TxEffect(0, b, n)
    BY <1>2, <2>1, ProcessFrame DEF ConsoleInv
  <2>3. /\ vc[0] \in Devices /\ ram \in [Blocks -> Queues] /\ PA[0] \in Blocks
        /\ vc[0].irq \in BOOLEAN /\ vc[0].int_status \in BOOLEAN
        /\ vc[0].last_avail \in Index /\ b \in Blocks /\ ram[b] \in Queues
        /\ ram[b].used_idx \in Index
    BY <2>2, VirtqueueAssumption DEF ConsoleInv, ConsoleTypes, Devices, Queues, TxEffect
  <2>4. AfterTx(0, ram[b]).used_idx = Adv(ram[b].used_idx, n)
    BY ONLY <2>3, AfterTxQueue
  <2>5. /\ n \in Nat /\ ram'[b] = AfterTx(0, ram[b])
        /\ (b # PA[0] => ram'[PA[0]] = ram[PA[0]])
        /\ vc'[0].int_status = (vc[0].int_status \/ n > 0)
        /\ vc'[0].irq = (vc[0].irq \/ n > 0)
    BY <2>2, <2>3 DEF TxEffect
  <2> HIDE DEF b, n
  <2>6. CASE n = 0
    <3>1. Adv(ram[b].used_idx, 0) = ram[b].used_idx
      BY ONLY <2>3, 0 \in Nat, AdvFacts
    <3>2. ram'[PA[0]].used_idx = ram[PA[0]].used_idx
      BY <2>4, <2>5, <2>6, <3>1
    <3> QED BY <2>1, <2>3, <2>5, <2>6, <3>2
  <2>7. CASE n > 0
    <3>1. vc'[0].int_status /\ vc'[0].irq
      BY <2>5, <2>7, Zenon
    <3> QED BY <2>1, <3>1
  <2> QED BY <2>5, <2>6, <2>7
<1> QED BY <1>1, <1>2

\* Of VM 0, in M24.
SignalTypes ==
  /\ 0 \in VMs /\ 0 \in VCpus /\ PA[0] \in Blocks
  /\ vc \in [VMs -> Devices] /\ vc[0] \in Devices
  /\ drv \in [VMs -> Drivers] /\ drv[0] \in Drivers
  /\ ram \in [Blocks -> Queues] /\ ram[PA[0]] \in Queues
  /\ demo = "M24" /\ cur = 0

(* A notification and what follows it. *)
LEMMA SignalNotify ==
  ASSUME ConsoleInv, SignalTypes, SignalKept, ConsoleNotify
  PROVE  SignalKept'
<1>1. SUFFICES /\ cur' = 0 /\ lr' \in [VCpus -> IrqFiles] /\ FileAt(lr'[0], hand')
               /\ vc'[0].irq => at' = "tail" /\ enabled' /\ hand' = "main"
               /\ Unseen' => Signalled' /\ (vc'[0].int_status \/ hand' = "drain")
  BY DEF SignalKept, FileAt
<1>2. /\ cur = 0 /\ lr \in [VCpus -> IrqFiles] /\ FileAt(lr[0], hand)
      /\ vc[0].irq => at = "tail" /\ enabled /\ hand = "main"
      /\ Unseen => Signalled /\ (vc[0].int_status \/ hand = "drain")
      /\ 0 \in VMs /\ 0 \in VCpus /\ demo = "M24"
  BY DEF SignalTypes, SignalKept
<1>3. /\ vc \in [VMs -> Devices] /\ vc[0] \in Devices /\ drv \in [VMs -> Drivers]
      /\ drv[0] \in Drivers /\ ram \in [Blocks -> Queues] /\ PA[0] \in Blocks
      /\ ram[PA[0]] \in Queues
  BY DEF SignalTypes
<1>4. CASE ConsoleNotify
  <2>1. /\ Notify(0) /\ at' = "tail" /\ cur' = 0 /\ lr' = lr /\ hand = "main" /\ hand' = "main"
        /\ at = "guest" /\ enabled /\ enabled' = enabled
    BY <1>2, <1>4 DEF ConsoleNotify, Exit, Polling
  <2>2. /\ drv' = drv /\ (vc[0].int_status => vc'[0].int_status)
        /\ \/ vc'[0].irq /\ vc'[0].int_status
           \/ (vc'[0].irq => vc[0].irq) /\ ram'[PA[0]].used_idx = ram[PA[0]].used_idx
    BY <1>2, <2>1, NotifySignals
  <2>3. Unseen' => Signalled' /\ vc'[0].int_status
    <3>1. CASE vc'[0].irq /\ vc'[0].int_status
      BY <2>1, <3>1, Zenon DEF Signalled
    <3>2. CASE ram'[PA[0]].used_idx = ram[PA[0]].used_idx
      <4>1. Unseen' => Unseen
        BY <2>2, <3>2 DEF Unseen
      <4>2. Unseen => VIRTIO_INTID \in Held(lr[0], {"pending"}) /\ vc[0].int_status
        BY <1>2, <2>1 DEF Signalled
      <4>3. hand' = "main" /\ VIRTIO_INTID \in Held(lr'[0], {"pending"}) => Signalled'
        BY DEF Signalled
      <4> QED BY <2>1, <2>2, <4>1, <4>2, <4>3, Zenon
    <3> QED BY <2>2, <3>1, <3>2
  <2>4. vc'[0].irq => at' = "tail" /\ enabled' /\ hand' = "main"
    BY <2>1
  <2>5. cur' = 0 /\ lr' \in [VCpus -> IrqFiles] /\ FileAt(lr'[0], hand')
    BY <1>2, <2>1
  <2> QED BY <2>3, <2>4, <2>5, Zenon
<1> QED BY <1>4

(* The other exits. *)
LEMMA SignalExit ==
  ASSUME ConsoleInv, SignalTypes, SignalKept, \/ ConsoleSetUp \/ OtherExit \/ HandlerStatus \/ HandlerAck
         \/ \E en \in BOOLEAN : GicWrite(en)
  PROVE  SignalKept'
<1>1. SUFFICES /\ cur' = 0 /\ lr' \in [VCpus -> IrqFiles] /\ FileAt(lr'[0], hand')
               /\ vc'[0].irq => at' = "tail" /\ enabled' /\ hand' = "main"
               /\ Unseen' => Signalled' /\ (vc'[0].int_status \/ hand' = "drain")
  BY DEF SignalKept, FileAt
<1>2. /\ cur = 0 /\ lr \in [VCpus -> IrqFiles] /\ FileAt(lr[0], hand)
      /\ vc[0].irq => at = "tail" /\ enabled /\ hand = "main"
      /\ Unseen => Signalled /\ (vc[0].int_status \/ hand = "drain")
      /\ 0 \in VMs /\ 0 \in VCpus /\ demo = "M24"
  BY DEF SignalTypes, SignalKept
<1>3. /\ vc \in [VMs -> Devices] /\ vc[0] \in Devices /\ drv \in [VMs -> Drivers]
      /\ drv[0] \in Drivers /\ ram \in [Blocks -> Queues] /\ PA[0] \in Blocks
      /\ ram[PA[0]] \in Queues
  BY DEF SignalTypes
<1>5. CASE ConsoleSetUp
  <2>1. /\ vc'[0].irq = vc[0].irq /\ vc'[0].int_status = vc[0].int_status /\ drv' = drv
        /\ ram' = ram
    <3>1. PICK g \in GuestBlocks : SetUpQueue(0, g)
      BY <1>2, <1>5 DEF ConsoleSetUp
    <3> QED BY <1>2, <1>3, <3>1 DEF SetUpQueue, Devices
  <2>2. /\ at = "guest" /\ at' = "tail" /\ cur' = 0 /\ lr' = lr /\ hand' = hand
        /\ enabled' = enabled
    BY <1>2, <1>5 DEF ConsoleSetUp, Exit
  <2> QED BY <1>2, <2>1, <2>2 DEF Unseen, Signalled
<1>7. CASE OtherExit \/ \E en \in BOOLEAN : GicWrite(en)
  <2>1. /\ vc' = vc /\ drv' = drv /\ ram' = ram /\ at = "guest" /\ cur' = 0 /\ lr' = lr
        /\ hand' = hand
    BY <1>2, <1>7 DEF OtherExit, GicWrite, Exit, consoleVars
  <2> QED BY <1>2, <2>1 DEF Unseen, Signalled
<1>8. CASE HandlerStatus
  <2>1. /\ vc' = vc /\ drv' = drv /\ ram' = ram /\ at = "guest" /\ cur' = 0 /\ lr' = lr
        /\ hand = "status" /\ hand' = IF vc[0].int_status THEN "ack" ELSE "eoi"
    BY <1>2, <1>8 DEF HandlerStatus, Exit, consoleVars
  <2>2. FileAt(lr'[0], hand')
    BY <1>2, <2>1 DEF FileAt
  <2> QED BY <1>2, <2>1, <2>2 DEF Unseen, Signalled
<1>9. CASE HandlerAck
  <2>1. /\ vc'[0].irq = vc[0].irq /\ at = "guest" /\ cur' = 0 /\ lr' = lr
        /\ hand = "ack" /\ hand' = "drain"
    BY <1>2, <1>3, <1>9 DEF HandlerAck, InterruptAck, Exit, Devices
  <2>2. FileAt(lr'[0], hand')
    BY <1>2, <2>1 DEF FileAt
  <2> QED BY <1>2, <2>1, <2>2 DEF Signalled
<1> QED BY <1>5, <1>7, <1>8, <1>9

(* The tail of the loop: the flag becomes INTID 20 pending. *)
LEMMA SignalTail ==
  ASSUME ConsoleInv, SignalTypes, SignalKept, Tail
  PROVE  SignalKept'
<1>1. SUFFICES /\ cur' = 0 /\ lr' \in [VCpus -> IrqFiles] /\ FileAt(lr'[0], hand')
               /\ vc'[0].irq => at' = "tail" /\ enabled' /\ hand' = "main"
               /\ Unseen' => Signalled' /\ (vc'[0].int_status \/ hand' = "drain")
  BY DEF SignalKept, FileAt
<1>2. /\ cur = 0 /\ lr \in [VCpus -> IrqFiles] /\ FileAt(lr[0], hand)
      /\ vc[0].irq => at = "tail" /\ enabled /\ hand = "main"
      /\ Unseen => Signalled /\ (vc[0].int_status \/ hand = "drain")
      /\ 0 \in VMs /\ 0 \in VCpus /\ demo = "M24"
  BY DEF SignalTypes, SignalKept
<1>3. /\ vc \in [VMs -> Devices] /\ vc[0] \in Devices /\ drv \in [VMs -> Drivers]
      /\ drv[0] \in Drivers /\ ram \in [Blocks -> Queues] /\ PA[0] \in Blocks
      /\ ram[PA[0]] \in Queues
  BY DEF SignalTypes
<1>10. CASE Tail
  <2>1. /\ at = "tail" /\ at' = "guest" /\ cur' = 0 /\ hand' = hand /\ drv' = drv /\ ram' = ram
    BY <1>2, <1>10 DEF Tail, virtio_take_irq, consoleVars
  <2>2. CASE ~vc[0].irq
    <3>1. vc' = vc /\ lr' = lr
      BY <1>2, <1>10, <2>2 DEF Tail, consoleVars
    <3> QED BY <1>2, <2>1, <2>2, <3>1 DEF Unseen, Signalled
  <2>3. CASE vc[0].irq
    <3>1. /\ lr' = [lr EXCEPT ![0] = vgic_inject(lr[0], VIRTIO_INTID)] /\ hand = "main"
          /\ virtio_take_irq(0)
      BY <1>2, <1>10, <2>3 DEF Tail, LrInject
    <3>2. /\ FileAt(lr'[0], "main") /\ VIRTIO_INTID \in Held(lr'[0], {"pending"})
          /\ lr' \in [VCpus -> IrqFiles]
      <4>1. /\ FileAt(vgic_inject(lr[0], VIRTIO_INTID), "main")
            /\ VIRTIO_INTID \in Held(vgic_inject(lr[0], VIRTIO_INTID), {"pending"})
        BY <1>2, <3>1, InjectPending
      <4>2. lr'[0] = vgic_inject(lr[0], VIRTIO_INTID)
        BY <1>2, <3>1
      <4>3. lr' \in [VCpus -> IrqFiles]
        BY <1>2, <3>1, <4>1 DEF FileAt
      <4> QED BY <4>1, <4>2, <4>3
    <3>3. vc'[0].irq = FALSE /\ vc'[0].int_status = vc[0].int_status
      BY <1>3, <1>2, <3>1 DEF virtio_take_irq, Devices
    <3> QED BY <1>2, <2>1, <3>1, <3>2, <3>3 DEF Unseen, Signalled
  <2> QED BY <2>2, <2>3
<1> QED BY <1>10

(* The guest between exits, up to its acknowledge. *)
LEMMA SignalGuest ==
  ASSUME ConsoleInv, SignalTypes, SignalKept, \/ Stop \/ GuestIrq \/ \E d \in Ring : GuestQueue(d)
  PROVE  SignalKept'
<1>1. SUFFICES /\ cur' = 0 /\ lr' \in [VCpus -> IrqFiles] /\ FileAt(lr'[0], hand')
               /\ vc'[0].irq => at' = "tail" /\ enabled' /\ hand' = "main"
               /\ Unseen' => Signalled' /\ (vc'[0].int_status \/ hand' = "drain")
  BY DEF SignalKept, FileAt
<1>2. /\ cur = 0 /\ lr \in [VCpus -> IrqFiles] /\ FileAt(lr[0], hand)
      /\ vc[0].irq => at = "tail" /\ enabled /\ hand = "main"
      /\ Unseen => Signalled /\ (vc[0].int_status \/ hand = "drain")
      /\ 0 \in VMs /\ 0 \in VCpus /\ demo = "M24"
  BY DEF SignalTypes, SignalKept
<1>3. /\ vc \in [VMs -> Devices] /\ vc[0] \in Devices /\ drv \in [VMs -> Drivers]
      /\ drv[0] \in Drivers /\ ram \in [Blocks -> Queues] /\ PA[0] \in Blocks
      /\ ram[PA[0]] \in Queues
  BY DEF SignalTypes
<1>11. CASE Stop
  <2>1. /\ vc' = vc /\ drv' = drv /\ ram' = ram /\ at = "guest" /\ cur' = 0 /\ lr' = lr
        /\ hand' = hand
    BY <1>2, <1>11, Zenon DEF Stop, consoleVars
  <2> QED BY <1>2, <2>1 DEF Unseen, Signalled
<1>12. CASE \E d \in Ring : GuestQueue(d)
  <2>1. PICK d \in Ring : GuestQueue(d)
    BY <1>12
  <2>2. /\ vc' = vc /\ at = "guest" /\ at' = at /\ cur' = 0 /\ lr' = lr /\ hand' = hand
        /\ Queue(0, d)
    <3>1. /\ at = "guest" /\ at' = at /\ cur' = 0 /\ lr' = lr /\ hand' = hand /\ Queue(0, d)
      BY <1>2, <2>1 DEF GuestQueue, Inside
    <3> QED BY <3>1 DEF Queue
  <2>3. drv'[0].last_used = drv[0].last_used
    BY <1>2, <1>3, <2>2 DEF Queue, Drivers
  <2>4. ram'[PA[0]].used_idx = ram[PA[0]].used_idx
    BY <1>3, <2>2 DEF Queue, Queues
  <2> QED BY <1>2, <2>2, <2>3, <2>4 DEF Unseen, Signalled
<1>13. CASE GuestIrq
  <2>0. PICK s \in Slots : LrAck(0, s)
    BY <1>2, <1>13 DEF GuestIrq
  <2>1. CanAck(lr[0], s) /\ lr' = [lr EXCEPT ![0] = AckSlot(lr[0], s)]
    BY <2>0 DEF LrAck
  <2>2. /\ vc' = vc /\ drv' = drv /\ ram' = ram /\ at = "guest" /\ cur' = 0 /\ hand = "main"
        /\ hand' = "status"
    BY <1>2, <1>13 DEF GuestIrq, Inside, consoleVars
  <2>3. FileAt(AckSlot(lr[0], s), "status")
    <3>1. FileAt(lr[0], "main") /\ CanAck(lr[0], s) /\ "status" # "main"
      BY <1>2, <2>1, <2>2
    <3> QED BY ONLY <3>1, s \in Slots, AckEoiFile, Zenon
  <2>4. lr' \in [VCpus -> IrqFiles] /\ lr'[0] = AckSlot(lr[0], s)
    BY <1>2, <2>1, <2>3 DEF FileAt
  <2> QED BY <1>2, <2>2, <2>3, <2>4 DEF Unseen, Signalled
<1> QED BY <1>11, <1>12, <1>13

(* The rest of the handler. *)
LEMMA SignalHandler ==
  ASSUME ConsoleInv, SignalTypes, SignalKept, HandlerDrain \/ HandlerDrained \/ HandlerEoi
  PROVE  SignalKept'
<1>1. SUFFICES /\ cur' = 0 /\ lr' \in [VCpus -> IrqFiles] /\ FileAt(lr'[0], hand')
               /\ vc'[0].irq => at' = "tail" /\ enabled' /\ hand' = "main"
               /\ Unseen' => Signalled' /\ (vc'[0].int_status \/ hand' = "drain")
  BY DEF SignalKept, FileAt
<1>2. /\ cur = 0 /\ lr \in [VCpus -> IrqFiles] /\ FileAt(lr[0], hand)
      /\ vc[0].irq => at = "tail" /\ enabled /\ hand = "main"
      /\ Unseen => Signalled /\ (vc[0].int_status \/ hand = "drain")
      /\ 0 \in VMs /\ 0 \in VCpus /\ demo = "M24"
  BY DEF SignalTypes, SignalKept
<1>3. /\ vc \in [VMs -> Devices] /\ vc[0] \in Devices /\ drv \in [VMs -> Drivers]
      /\ drv[0] \in Drivers /\ ram \in [Blocks -> Queues] /\ PA[0] \in Blocks
      /\ ram[PA[0]] \in Queues
  BY DEF SignalTypes
<1>14. CASE HandlerDrain \/ HandlerDrained
  <2>1. /\ vc' = vc /\ ram' = ram /\ at = "guest" /\ cur' = 0 /\ lr' = lr /\ hand = "drain"
        /\ hand' \in {"drain", "eoi"} /\ (hand' = "eoi" => ~Unseen /\ drv' = drv)
    <3>1. CASE HandlerDrain
      BY <1>2, <3>1 DEF HandlerDrain, Inside, Reclaim
    <3>2. CASE HandlerDrained
      BY <1>2, <3>2 DEF HandlerDrained, Inside, consoleVars, Unseen
    <3> QED BY <1>14, <3>1, <3>2, Zenon
  <2>2. FileAt(lr'[0], hand')
    BY <1>2, <2>1 DEF FileAt
  <2> QED BY <1>2, <2>1, <2>2 DEF Unseen, Signalled
<1>15. CASE HandlerEoi
  <2>0. PICK s \in Slots : LrEoi(0, s)
    BY <1>2, <1>15 DEF HandlerEoi
  <2>1. lr[0][s].state = "active" /\ lr' = [lr EXCEPT ![0] = EoiSlot(lr[0], s)]
    BY <2>0 DEF LrEoi
  <2>2. /\ vc' = vc /\ drv' = drv /\ ram' = ram /\ at = "guest" /\ cur' = 0 /\ hand = "eoi"
        /\ hand' = "main"
    BY <1>2, <1>15 DEF HandlerEoi, Inside, consoleVars
  <2>3. FileAt(EoiSlot(lr[0], s), "main")
    BY <1>2, <2>1, <2>2, AckEoiFile
  <2>4. lr' \in [VCpus -> IrqFiles] /\ lr'[0] = EoiSlot(lr[0], s)
    BY <1>2, <2>1, <2>3 DEF FileAt
  <2> QED BY <1>2, <2>2, <2>3, <2>4 DEF Unseen, Signalled
<1> QED BY <1>14, <1>15

(* Each step keeps the completion on its way. *)
LEMMA SignalStep ==
  ASSUME LoopTypes, ConsoleInv, SignalInv, [IrqNext]_irqvars
  PROVE  SignalInv'
<1>1. demo' = demo
  BY DEF IrqNext, irqvars, ConsoleNotify, ConsoleSetUp, PollerAck, HandlerStatus, HandlerAck,
         OtherExit, Exit, Tail, Stop, GuestPolls, GuestIrq, HandlerDrain, HandlerDrained,
         HandlerEoi, GicWrite, GuestQueue, Inside
<1> SUFFICES ASSUME demo = "M24" PROVE SignalKept'
  BY <1>1 DEF SignalInv
<1>2. SignalTypes /\ SignalKept
  <2>1. SignalKept /\ cur = 0 /\ 0 \in VMs /\ 0 \in VCpus /\ PA[0] \in Blocks
    BY VirtioLoopsAssumption, VirtqueueAssumption DEF SignalInv, SignalKept
  <2> QED BY <2>1 DEF SignalTypes, ConsoleInv, ConsoleTypes
<1>3. ~(PollerAck \/ GuestPolls)
  BY DEF PollerAck, GuestPolls, Polling
<1>4. CASE UNCHANGED irqvars
  BY <1>2, <1>4 DEF irqvars, consoleVars, SignalKept, FileAt, Unseen, Signalled
<1>5. CASE IrqNext
  BY <1>2, <1>3, <1>5, SignalNotify, SignalExit, SignalTail, SignalGuest, SignalHandler
     DEF IrqNext
<1> QED BY <1>4, <1>5, Zenon

(* A completion the interrupt-driven driver has not seen has its interrupt on
   the way, for any queue size and number of list registers: no exit drops the
   flag that virtio_take_irq clears. *)
THEOREM CompletionsAreSignalled == IrqSpec => []CompletionSignalled
<1>1. IrqInit => SignalInv
  <2> SUFFICES ASSUME IrqInit PROVE SignalInv
    OBVIOUS
  <2>1. 0 \in VMs /\ 0 \in VCpus /\ PA[0] \in Blocks
    BY VirtioLoopsAssumption, VirtqueueAssumption
  <2>2. /\ lr \in [VCpus -> IrqFiles] /\ \A s \in Slots : ~Busy(lr[0], s)
        /\ \A s \in Slots : lr[0][s].state = "invalid"
    BY <2>1 DEF IrqInit, LrInit, IrqFiles, Empty, Busy
  <2>3. FileAt(lr[0], "main")
    BY <2>1, <2>2 DEF FileAt
  <2>4. ~vc[0].irq /\ ~Unseen
    BY <2>1 DEF IrqInit, Init, ResetState, EmptyQueue, Unseen
  <2> QED BY <2>2, <2>3, <2>4 DEF IrqInit, SignalInv, SignalKept
<1>2. SignalInv => CompletionSignalled
  BY DEF SignalInv, SignalKept, CompletionSignalled, Unseen, Signalled
<1> QED BY <1>1, <1>2, ConsoleInvariant, SignalStep, PTL DEF IrqSpec
=============================================================================
