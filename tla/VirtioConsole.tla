---------------------------- MODULE VirtioConsole ----------------------------
(***************************************************************************)
(* The emulated virtio console of vvirtio.c, one device per VM, with the   *)
(* split virtqueue it shares with the guest's driver.  Only one vCPU runs  *)
(* at a time, so processing a notification is one step.                    *)
(*                                                                         *)
(* The driver (external: guest code) queues only free descriptors, in its  *)
(* own RAM, and sets the device's queue up once, before the first          *)
(* notification; but the address it gives the device may be any.  Where    *)
(* it leads to another VM's block, the device works on that VM's queue.    *)
(* Buffers are only read, so it does not matter where they are.            *)
(***************************************************************************)
EXTENDS Virtqueue

CONSTANTS
  GuestBlocks,   \* bound: the guest blocks a guest may give for its queue
  BufMod         \* bound: buffers are numbered modulo BufMod

\* All descriptors may be in flight, which indices must tell from none.
ASSUME VirtioConsoleAssumption ==
  /\ BufMod \in Nat /\ QueueNum < IdxMod /\ QueueNum < BufMod
  /\ GuestBlocks \subseteq Int

VARIABLES
  vc,      \* vc[vm]: struct vcon
  ram,     \* ram[b]: the queue in host RAM block b
  drv,     \* drv[vm]: the driver's own state
  last     \* history: number of the last buffer of vm the console printed

vars == <<vc, ram, drv, last>>

ResetState == [ready |-> FALSE, queue_pfn |-> 0, last_avail |-> 0, int_status |-> FALSE,
               irq |-> FALSE, host_off |-> 0]

EmptyQueue == [avail_idx |-> 0, avail |-> [s \in Ring |-> 0], desc |-> [d \in Ring |-> 0],
               used_idx |-> 0, used |-> [s \in Ring |-> 0]]

\* virtio_reset, then virtio_set_offset for every VM.
Init ==
  /\ vc = [vm \in VMs |-> [ResetState EXCEPT !.host_off = PA[vm]]]
  /\ ram = [b \in Blocks |-> EmptyQueue]
  /\ drv = [vm \in VMs |-> [inflight |-> {}, last_used |-> 0, queued |-> 0]]
  /\ last = [vm \in VMs |-> 0]

-----------------------------------------------------------------------------
\* The host block the device finds its queue in: base, in blocks.
QueueBlock(vm) == vc[vm].queue_pfn + vc[vm].host_off

\* virtio_process_tx.  n buffers are new; the k-th is found and completed at
\* the k-th next index of its ring.  On a queue that is not the driver's own, n
\* may exceed QueueNum: the last entry written to a slot stays.

NewBuffers(vm, q) == Ahead(q.avail_idx, vc[vm].last_avail)

\* Mutant of TxSlot: the entry after the one to look at.
MutTxSlotNext(vm, k) == Adv(vc[vm].last_avail, k + 1) % QueueNum

TxSlot(vm, k) == Adv(vc[vm].last_avail, k) % QueueNum

TxDesc(vm, q, k) == q.avail[TxSlot(vm, k)]

UsedSlot(q, k) == Adv(q.used_idx, k) % QueueNum

\* The last of n buffers completed in slot s.
LastIn(q, n, s) ==
  CHOOSE k \in 0 .. n - 1 :
    UsedSlot(q, k) = s /\ \A m \in 0 .. n - 1 : UsedSlot(q, m) = s => m <= k

\* Mutant of AfterTx: the used index advances by one for the whole batch.
MutAfterTxOneUsed(vm, q) ==
  LET n == NewBuffers(vm, q)
  IN  [q EXCEPT
         !.used = [s \in Ring |->
           IF \E k \in 0 .. n - 1 : UsedSlot(q, k) = s
           THEN TxDesc(vm, q, LastIn(q, n, s))
           ELSE q.used[s]],
         !.used_idx = Adv(q.used_idx, IF n = 0 THEN 0 ELSE 1)]

AfterTx(vm, q) ==
  LET n == NewBuffers(vm, q)
  IN  [q EXCEPT
         !.used = [s \in Ring |->
           IF \E k \in 0 .. n - 1 : UsedSlot(q, k) = s
           THEN TxDesc(vm, q, LastIn(q, n, s))
           ELSE q.used[s]],
         !.used_idx = Adv(q.used_idx, n)]

virtio_process_tx(vm) ==
  LET b == QueueBlock(vm)
      q == ram[b]
      n == NewBuffers(vm, q)
  IN  /\ ram' = [ram EXCEPT ![b] = AfterTx(vm, q)]
      /\ vc' = [vc EXCEPT ![vm].last_avail = Adv(@, n),
                          ![vm].int_status = @ \/ n > 0,
                          ![vm].irq = @ \/ n > 0]
      /\ last' = [last EXCEPT ![vm] = IF n = 0 THEN @ ELSE q.desc[TxDesc(vm, q, n - 1)]]

\* Writes to QueueNotify, InterruptACK, and the registers that set the queue
\* up; without a queue a notification is ignored.  A queue outside host RAM,
\* where the hypervisor itself faults, is left out.
Notify(vm) ==
  /\ IF vc[vm].ready THEN virtio_process_tx(vm) ELSE UNCHANGED <<vc, ram, last>>
  /\ UNCHANGED drv

InterruptAck(vm) ==
  /\ vc[vm].int_status
  /\ vc' = [vc EXCEPT ![vm].int_status = FALSE]
  /\ UNCHANGED <<ram, drv, last>>

SetUpQueue(vm, g) ==
  /\ ~vc[vm].ready
  /\ g + vc[vm].host_off \in Blocks
  /\ vc' = [vc EXCEPT ![vm].ready = TRUE, ![vm].queue_pfn = g]
  /\ UNCHANGED <<ram, drv, last>>

\* Called by the exit loop after every exit.
virtio_take_irq(vm) ==
  /\ vc[vm].irq
  /\ vc' = [vc EXCEPT ![vm].irq = FALSE]
  /\ UNCHANGED <<ram, drv, last>>

-----------------------------------------------------------------------------
\* The driver, in its own RAM.

Queue(vm, d) ==
  LET q == ram[PA[vm]]
      n == (drv[vm].queued + 1) % BufMod
  IN  /\ d \notin drv[vm].inflight
      /\ ram' = [ram EXCEPT ![PA[vm]] =
           [q EXCEPT !.desc[d] = n,
                     !.avail[q.avail_idx % QueueNum] = d,
                     !.avail_idx = Adv(@, 1)]]
      /\ drv' = [drv EXCEPT ![vm].inflight = @ \union {d}, ![vm].queued = n]
      /\ UNCHANGED <<vc, last>>

Reclaim(vm) ==
  LET q == ram[PA[vm]]
  IN  /\ drv[vm].last_used # q.used_idx
      /\ drv' = [drv EXCEPT ![vm].inflight = @ \ {q.used[drv[vm].last_used % QueueNum]},
                            ![vm].last_used = Adv(@, 1)]
      /\ UNCHANGED <<vc, ram, last>>

-----------------------------------------------------------------------------
\* The descriptors completed and not yet reclaimed, in ring order.
Completed(vm) ==
  LET q == ram[PA[vm]]
  IN  [k \in 0 .. Ahead(q.used_idx, drv[vm].last_used) - 1 |->
         q.used[Adv(drv[vm].last_used, k) % QueueNum]]

\* In the block of vm's RAM works the device of vm, and no other.
KeptApart(vm) == \A wm \in VMs : vc[wm].ready => (QueueBlock(wm) = PA[vm] <=> wm = vm)

(* The console prints every buffer once, in the order queued, across the wrap
   of the 16-bit indices and whatever else the other VM does with its device, as
   long as each queue address leads to the right block: the buffers it would
   print next are, in order, those from the one after the last it printed to
   the last the driver queued. *)
PrintsInOrder ==
  \A vm \in VMs : KeptApart(vm) =>
    LET q == ram[PA[vm]]
        n == NewBuffers(vm, q)
    IN  /\ (last[vm] + n) % BufMod = drv[vm].queued
        /\ \A k \in 0 .. n - 1 : q.desc[TxDesc(vm, q, k)] = (last[vm] + 1 + k) % BufMod

(* The used ring returns each descriptor once, and only one the driver has in
   flight, so that the driver never reuses a buffer still to be printed and never
   frees one twice; and one in flight is printed and waits there to be reclaimed,
   or is still to be printed: none is forgotten.  Again as long as no other
   device works in this block: virtio_process_tx checks no address. *)
CompletesOnce ==
  \A vm \in VMs : KeptApart(vm) =>
    LET c == Completed(vm)
    IN  /\ \A k \in DOMAIN c : c[k] \in drv[vm].inflight
        /\ \A k, m \in DOMAIN c : c[k] = c[m] => k = m
        /\ Cardinality(drv[vm].inflight) = Cardinality(DOMAIN c) + NewBuffers(vm, ram[PA[vm]])
=============================================================================
