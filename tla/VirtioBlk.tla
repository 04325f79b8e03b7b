------------------------------ MODULE VirtioBlk ------------------------------
(***************************************************************************)
(* The emulated virtio block device of vvirtio.c: per VM a queue of        *)
(* requests and a RAM disk.  A request is a chain of three descriptors     *)
(* (header, data, status), named here by its head; the driver (external)   *)
(* has a fixed set of chains and does not touch one while it is in flight. *)
(* The addresses it gives the device (queue, header, data, status) are in  *)
(* its own RAM: the device adds host_off to each and checks none.          *)
(*                                                                         *)
(* The reference is a disk that serves the requests one at a time in the   *)
(* order they are queued: it answers when a request is queued, and the     *)
(* device must give the driver that answer when the request completes.     *)
(* It has the device's 64-bit byte addresses, so that sector numbers       *)
(* repeat every 2^64 / VBLK_SECSZ.                                         *)
(***************************************************************************)
EXTENDS Virtqueue

CONSTANTS
  NChains,       \* chains of the driver
  VBLK_SECTORS, VBLK_SECSZ,
  WordMod,       \* 2^64: sector, doff and doff + dlen are uint64_t
  MaxSector, MaxLen,   \* bounds on the driver's requests
  Bytes                \* the values of a byte, 0 among them

ASSUME VirtioBlkAssumption ==
  /\ {NChains, VBLK_SECTORS, VBLK_SECSZ, MaxLen} \subseteq Nat \ {0}
  /\ MaxSector \in Nat /\ WordMod \in Nat /\ MaxSector < WordMod /\ MaxLen < WordMod
  /\ 3 * NChains <= QueueNum
  /\ QueueNum % NChains = 0
  /\ 0 \in Bytes

VARIABLES
  vb,      \* vb[vm]: struct vblk
  bram,    \* bram[b]: rings and chains in host RAM block b
  bdrv,    \* bdrv[vm]: the driver's own state
  ref      \* ref[vm]: the reference disk and its answer to each chain in flight

blkvars == <<vb, bram, bdrv, ref>>

Chains == 0 .. NChains - 1
Cells == 0 .. VBLK_SECTORS * VBLK_SECSZ - 1
Buffer == [0 .. MaxLen - 1 -> Bytes]

Zeroes == [i \in 0 .. MaxLen - 1 |-> 0]
IdleChain == [write |-> FALSE, sector |-> 0, len |-> 1, data |-> Zeroes, st |-> 0]

\* vblk_reset, then vblk_set_offset for every VM.
BlkInit ==
  /\ vb = [vm \in VMs |-> [ready |-> FALSE, last_avail |-> 0, int_status |-> FALSE,
                           irq |-> FALSE, host_off |-> PA[vm], disk |-> [c \in Cells |-> 0]]]
  /\ bram = [b \in Blocks |->
              [avail_idx |-> 0, avail |-> [s \in Ring |-> 0], used_idx |-> 0,
               used |-> [s \in Ring |-> 0], chain |-> [h \in Chains |-> IdleChain]]]
  /\ bdrv = [vm \in VMs |-> [inflight |-> {}, last_used |-> 0]]
  /\ ref = [vm \in VMs |-> [disk |-> [c \in Cells |-> 0], answer |-> [h \in Chains |-> IdleChain]]]

-----------------------------------------------------------------------------
\* vblk_process.

\* The first byte of the request in r, as the device computes it.
doff(r) == (r.sector * VBLK_SECSZ) % WordMod

\* Mutant of InRange: the last sector is refused.
MutInRangeStrict(r) == (doff(r) + r.len) % WordMod < Cardinality(Cells)

InRange(r) == (doff(r) + r.len) % WordMod <= Cardinality(Cells)

\* The disk and the chain after the request in r is served on disk.
ServedDisk(disk, r) ==
  IF InRange(r) /\ r.write
  THEN [c \in DOMAIN disk |-> IF c >= doff(r) /\ c < doff(r) + r.len
                              THEN r.data[c - doff(r)] ELSE disk[c]]
  ELSE disk

ServedChain(disk, r) ==
  [r EXCEPT !.st = IF InRange(r) THEN 0 ELSE 1,
            !.data = IF InRange(r) /\ ~r.write
                     THEN [i \in DOMAIN r.data |->
                             IF i < r.len /\ doff(r) + i \in DOMAIN disk
                             THEN disk[doff(r) + i] ELSE r.data[i]]
                     ELSE r.data]

\* Mutant of Step: every completion names chain 0.
MutStepUsedHead(s) ==
  LET h == s.q.avail[s.last_avail % QueueNum]
      r == s.q.chain[h]
  IN  [last_avail |-> Adv(s.last_avail, 1),
       disk |-> ServedDisk(s.disk, r),
       q |-> [s.q EXCEPT !.chain[h] = ServedChain(s.disk, r),
                         !.used[s.q.used_idx % QueueNum] = 0,
                         !.used_idx = Adv(@, 1)]]

\* One turn of the while loop.
Step(s) ==
  LET h == s.q.avail[s.last_avail % QueueNum]
      r == s.q.chain[h]
  IN  [last_avail |-> Adv(s.last_avail, 1),
       disk |-> ServedDisk(s.disk, r),
       q |-> [s.q EXCEPT !.chain[h] = ServedChain(s.disk, r),
                         !.used[s.q.used_idx % QueueNum] = h,
                         !.used_idx = Adv(@, 1)]]

\* The loop, which goes round n times.
AfterTurns(s, n) ==
  LET turn[k \in 0 .. n] == IF k = 0 THEN s ELSE Step(turn[k - 1])
  IN  turn[n]

\* The queue is in the driver's RAM, guest block 0, which host_off takes to its block.
vblk_process(vm) ==
  LET b == vb[vm].host_off
      n == Ahead(bram[b].avail_idx, vb[vm].last_avail)
      s == AfterTurns([last_avail |-> vb[vm].last_avail, disk |-> vb[vm].disk, q |-> bram[b]], n)
  IN  /\ bram' = [bram EXCEPT ![b] = s.q]
      /\ vb' = [vb EXCEPT ![vm].disk = s.disk,
                          ![vm].last_avail = s.last_avail,
                          ![vm].int_status = @ \/ n > 0,
                          ![vm].irq = @ \/ n > 0]

\* The register writes of vblk_mmio that change state.
BlkNotify(vm) ==
  /\ IF vb[vm].ready THEN vblk_process(vm) ELSE UNCHANGED <<vb, bram>>
  /\ UNCHANGED <<bdrv, ref>>

BlkInterruptAck(vm) ==
  /\ vb[vm].int_status
  /\ vb' = [vb EXCEPT ![vm].int_status = FALSE]
  /\ UNCHANGED <<bram, bdrv, ref>>

BlkSetUpQueue(vm) ==
  /\ ~vb[vm].ready
  /\ vb' = [vb EXCEPT ![vm].ready = TRUE]
  /\ UNCHANGED <<bram, bdrv, ref>>

\* Called by the exit loop after every exit.
vblk_take_irq(vm) ==
  /\ vb[vm].irq
  /\ vb' = [vb EXCEPT ![vm].irq = FALSE]
  /\ UNCHANGED <<bram, bdrv, ref>>

-----------------------------------------------------------------------------
\* The reference disk: every byte of a request is on the disk, or the request
\* is refused and changes nothing.

\* The i-th byte of the request in r.
ByteOf(r, i) == (r.sector * VBLK_SECSZ + i) % WordMod

OnDisk(r) == \A i \in 0 .. r.len - 1 : ByteOf(r, i) \in Cells

RefDisk(disk, r) ==
  [c \in Cells |-> IF OnDisk(r) /\ r.write /\ \E i \in 0 .. r.len - 1 : c = ByteOf(r, i)
                   THEN r.data[CHOOSE i \in 0 .. r.len - 1 : c = ByteOf(r, i)] ELSE disk[c]]

RefAnswer(disk, r) ==
  IF ~OnDisk(r) THEN [r EXCEPT !.st = 1]
  ELSE IF r.write THEN [r EXCEPT !.st = 0]
  ELSE [r EXCEPT !.st = 0,
                 !.data = [i \in DOMAIN r.data |->
                   IF i < r.len THEN disk[ByteOf(r, i)] ELSE r.data[i]]]

\* The request does not run across the end of the 64-bit byte addresses.  For one
\* that does, doff + dlen wraps, the check accepts it and the copy indexes disk
\* outside the array, which C leaves undefined.
Defined(r) == doff(r) + r.len < WordMod

\* The driver fills a free chain and queues it; the chains take turns.
Requests ==
  {r \in [write : BOOLEAN, sector : 0 .. MaxSector, len : 1 .. MaxLen, data : Buffer, st : {0}] :
     /\ Defined(r)
     /\ \A i \in 0 .. MaxLen - 1 : (~r.write \/ i >= r.len) => r.data[i] = 0}

BlkQueue(vm, r) ==
  LET q == bram[PA[vm]]
      h == q.avail_idx % NChains
  IN  /\ h \notin bdrv[vm].inflight
      /\ bram' = [bram EXCEPT ![PA[vm]] =
           [q EXCEPT !.chain[h] = r,
                     !.avail[q.avail_idx % QueueNum] = h,
                     !.avail_idx = Adv(@, 1)]]
      /\ bdrv' = [bdrv EXCEPT ![vm].inflight = @ \union {h}]
      /\ ref' = [ref EXCEPT ![vm].disk = RefDisk(@, r),
                            ![vm].answer[h] = RefAnswer(ref[vm].disk, r)]
      /\ UNCHANGED vb

\* The driver takes a completed chain back (and, to keep the model small,
\* forgets what was in it).
BlkReclaim(vm) ==
  LET q == bram[PA[vm]]
      h == q.used[bdrv[vm].last_used % QueueNum]
  IN  /\ bdrv[vm].last_used # q.used_idx
      /\ bdrv' = [bdrv EXCEPT ![vm].inflight = @ \ {h}, ![vm].last_used = Adv(@, 1)]
      /\ bram' = [bram EXCEPT ![PA[vm]].chain[h] = IdleChain]
      /\ ref' = [ref EXCEPT ![vm].answer[h] = IdleChain]
      /\ UNCHANGED vb

BlkNext ==
  \E vm \in VMs :
    \/ BlkNotify(vm)
    \/ BlkInterruptAck(vm)
    \/ BlkSetUpQueue(vm)
    \/ vblk_take_irq(vm)
    \/ BlkReclaim(vm)
    \/ \E r \in Requests : BlkQueue(vm, r)

BlkSpec == BlkInit /\ [][BlkNext]_blkvars

-----------------------------------------------------------------------------
(* What the driver finds in a completed chain (the status byte, the data of a
   read) is what a disk serving the requests one by one in queue order would
   have answered, for batches, at the last sector and beyond it, up to where the
   64-bit byte address wraps and again after it; requests across the wrap are
   left out (Defined). *)
AnswersAsDisk ==
  [][\A vm \in VMs : BlkReclaim(vm) =>
       LET h == bram[PA[vm]].used[bdrv[vm].last_used % QueueNum]
       IN  h \in bdrv[vm].inflight /\ bram[PA[vm]].chain[h] = ref[vm].answer[h]]_blkvars

(* Once every queued request has been served, the RAM disk of each VM holds what
   that VM's own accepted writes left there: the device keeps the sectors apart,
   and the VMs, for all requests the C code defines (Defined). *)
DiskIsOwnWrites ==
  \A vm \in VMs :
    vb[vm].last_avail = bram[PA[vm]].avail_idx => vb[vm].disk = ref[vm].disk
=============================================================================
