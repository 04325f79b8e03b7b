-------------------------- MODULE VirtioBlkProofs ---------------------------
(***************************************************************************)
(* Proofs about the block device (VirtioBlk): the device answers every     *)
(* request as a disk would, and the disk holds what its VM wrote to it.    *)
(***************************************************************************)
EXTENDS VirtioBlk, VirtqueueProofs

-----------------------------------------------------------------------------
\* The block device: serving one request.

Disks == [Cells -> Bytes]
ChainFields == [write : BOOLEAN, sector : Nat, len : 1 .. MaxLen, data : Buffer, st : {0, 1}]
ChainRecs == {r \in ChainFields : Defined(r)}

(* The bound check of vblk_process accepts exactly the requests of which every
   byte is on the disk; the i-th byte is the i-th after the first. *)
LEMMA InRangeOnDisk ==
  ASSUME NEW r \in ChainRecs
  PROVE  /\ InRange(r) <=> OnDisk(r)
         /\ doff(r) \in Nat
         /\ OnDisk(r) => doff(r) + r.len <= VBLK_SECTORS * VBLK_SECSZ
         /\ VBLK_SECTORS * VBLK_SECSZ \in Nat
         /\ \A i \in 0 .. r.len - 1 : ByteOf(r, i) = doff(r) + i
<1> DEFINE y == r.sector * VBLK_SECSZ
           x == doff(r)
           N == VBLK_SECTORS * VBLK_SECSZ
<1>0. r.sector \in Nat /\ r.len \in Nat /\ r.len > 0
  BY VirtioBlkAssumption DEF ChainRecs, ChainFields
<1>w. WordMod \in Nat \ {0}
  BY VirtioBlkAssumption
<1>y. y \in Nat /\ N \in Nat
  <2>1. VBLK_SECSZ \in Nat /\ VBLK_SECTORS \in Nat
    BY VirtioBlkAssumption
  <2> QED BY <1>0, <2>1
<1>x. x = y % WordMod
  BY DEF doff
<1> HIDE DEF y
<1>1. x \in Nat /\ N \in Nat
  BY <1>w, <1>x, <1>y, DivMod
<1>d. x + r.len < WordMod
  BY DEF ChainRecs, Defined
<1>b. \A i \in 0 .. r.len - 1 : ByteOf(r, i) = x + i
  <2> SUFFICES ASSUME NEW i \in 0 .. r.len - 1 PROVE (y + i) % WordMod = x + i
    BY DEF ByteOf, y
  <2>1. i \in Nat /\ x + i \in 0 .. WordMod - 1
    BY <1>0, <1>1, <1>d, <1>w
  <2>2. ((y % WordMod) + i) % WordMod = (y + i) % WordMod
    BY ONLY <1>w, <1>y, <2>1, ModAdd
  <2>3. (x + i) % WordMod = x + i
    BY ONLY <1>w, <2>1, ModSmall
  <2> QED BY <1>x, <2>2, <2>3
<1>r. (x + r.len) % WordMod = x + r.len
  <2>1. x + r.len \in 0 .. WordMod - 1
    BY <1>0, <1>1, <1>d, <1>w
  <2> QED BY ONLY <1>w, <2>1, ModSmall
<1>2. Cells = 0 .. N - 1
  BY DEF Cells
<1> HIDE DEF x, N
<1>3. Cardinality(Cells) = N
  <2>1. 0 \in Int /\ N - 1 \in Int
    BY <1>1
  <2>2. Cardinality(0 .. N - 1) = IF 0 > N - 1 THEN 0 ELSE (N - 1) - 0 + 1
    BY ONLY <2>1, FS_Interval
  <2> QED BY <1>1, <1>2, <2>2
<1>4. OnDisk(r) <=> \A i \in 0 .. r.len - 1 : x + i \in 0 .. N - 1
  BY <1>2, <1>b DEF OnDisk
<1>5. OnDisk(r) <=> x + r.len <= N
  <2>1. OnDisk(r) => x + r.len <= N
    <3>1. r.len - 1 \in 0 .. r.len - 1
      BY <1>0
    <3> QED BY <1>0, <1>1, <1>4, <3>1
  <2>2. x + r.len <= N => OnDisk(r)
    BY <1>0, <1>1, <1>4
  <2> QED BY <2>1, <2>2
<1>6. InRange(r) <=> x + r.len <= N
  BY <1>3, <1>r DEF InRange, x
<1> QED BY <1>1, <1>5, <1>6, <1>b DEF x, N

(* Chains with equal fields are equal. *)
LEMMA SameChain ==
  ASSUME NEW r \in ChainRecs, NEW t \in ChainRecs, r.write = t.write, r.sector = t.sector,
         r.len = t.len, r.data = t.data, r.st = t.st
  PROVE  r = t
BY DEF ChainRecs, ChainFields

(* What a request may change in its chain. *)
LEMMA ChangedChain ==
  ASSUME NEW r \in ChainRecs, NEW s \in {0, 1}, NEW e \in Buffer
  PROVE  /\ [r EXCEPT !.st = s, !.data = e] \in ChainRecs
         /\ [r EXCEPT !.st = s, !.data = r.data] = [r EXCEPT !.st = s]
<1>0. r \in ChainFields /\ Defined(r) /\ r.data \in Buffer
  BY DEF ChainRecs, ChainFields
<1>1. ASSUME NEW f \in Buffer PROVE [r EXCEPT !.st = s, !.data = f] \in ChainRecs
  <2> DEFINE u == [r EXCEPT !.st = s, !.data = f]
  <2>1. u \in ChainFields
    BY <1>0, Zenon DEF ChainFields
  <2>2. u.sector = r.sector /\ u.len = r.len
    BY <1>0 DEF ChainFields
  <2> HIDE DEF u
  <2>3. Defined(u)
    BY <1>0, <2>2 DEF Defined, doff
  <2>4. u \in ChainRecs
    BY <2>1, <2>3 DEF ChainRecs
  <2> QED BY <2>4 DEF u
<1>2. [r EXCEPT !.st = s, !.data = r.data] = [r EXCEPT !.st = s]
  <2> DEFINE t == [r EXCEPT !.st = s]
             u == [r EXCEPT !.st = s, !.data = r.data]
  <2>1. u \in ChainRecs /\ t \in ChainFields
    BY <1>0, <1>1, Zenon DEF ChainFields
  <2>2. t.write = r.write /\ t.sector = r.sector /\ t.len = r.len
    BY <1>0 DEF ChainFields
  <2>3. t.data = r.data /\ t.st = s
    BY <1>0 DEF ChainFields
  <2>4. u.write = r.write /\ u.sector = r.sector /\ u.len = r.len
    BY <1>0 DEF ChainFields
  <2>5. u.data = r.data /\ u.st = s
    BY <1>0 DEF ChainFields
  <2> HIDE DEF t, u
  <2>6. t \in ChainRecs
    BY <1>0, <2>1, <2>2 DEF ChainRecs, Defined, doff
  <2>7. t = u
    BY <2>1, <2>2, <2>3, <2>4, <2>5, <2>6, SameChain
  <2> QED BY <2>7 DEF t, u
<1> QED BY <1>1, <1>2

(* A chain the driver has taken back. *)
LEMMA IdleIsChain == IdleChain \in ChainRecs
<1>1. 1 \in 1 .. MaxLen /\ Zeroes \in Buffer
  BY VirtioBlkAssumption DEF Zeroes, Buffer
<1>2. IdleChain \in ChainFields /\ IdleChain.sector = 0 /\ IdleChain.len = 1
  BY <1>1 DEF IdleChain, ChainFields
<1>3. WordMod \in Nat \ {0} /\ 1 < WordMod /\ 0 * VBLK_SECSZ = 0
  BY VirtioBlkAssumption
<1>4. 0 % WordMod = 0
  BY <1>3, ModSmall
<1>5. Defined(IdleChain)
  BY <1>2, <1>3, <1>4 DEF Defined, doff
<1> QED BY <1>2, <1>5 DEF ChainRecs

(* A turn of the loop serves a request as the reference disk does. *)
LEMMA ServedAsRef ==
  ASSUME NEW disk \in Disks, NEW r \in ChainRecs
  PROVE  /\ RefDisk(disk, r) \in Disks /\ RefAnswer(disk, r) \in ChainRecs
         /\ ServedDisk(disk, r) = RefDisk(disk, r)
         /\ ServedChain(disk, r) = RefAnswer(disk, r)
<1> DEFINE x == doff(r)
           N == VBLK_SECTORS * VBLK_SECSZ
           W == 0 .. MaxLen - 1
           read == [i \in W |-> IF i < r.len THEN disk[x + i] ELSE r.data[i]]
<1>1. /\ InRange(r) <=> OnDisk(r)
      /\ x \in Nat /\ N \in Nat
      /\ OnDisk(r) => x + r.len <= N
      /\ \A i \in 0 .. r.len - 1 : ByteOf(r, i) = x + i
  BY InRangeOnDisk
<1>2. Cells = 0 .. N - 1 /\ DOMAIN disk = Cells
  BY DEF Cells, Disks
<1> HIDE DEF x, N
<1>3. /\ r.sector \in Nat /\ r.len \in 1 .. MaxLen /\ MaxLen \in Nat
      /\ r.data \in [W -> Bytes] /\ DOMAIN r.data = W /\ r.write \in BOOLEAN
  BY VirtioBlkAssumption DEF ChainRecs, ChainFields, Buffer
<1>4. ASSUME NEW c \in Cells
      PROVE  /\ (\E i \in 0 .. r.len - 1 : c = ByteOf(r, i)) <=> c >= x /\ c < x + r.len
             /\ c >= x /\ c < x + r.len =>
                  (CHOOSE i \in 0 .. r.len - 1 : c = ByteOf(r, i)) = c - x
  <2>1. c \in Nat
    BY <1>1, <1>2
  <2>2. c >= x /\ c < x + r.len => c - x \in 0 .. r.len - 1 /\ c = x + (c - x)
    BY <1>1, <1>3, <2>1
  <2>3. (\E i \in 0 .. r.len - 1 : c = ByteOf(r, i)) <=> c >= x /\ c < x + r.len
    BY <1>1, <1>3, <2>1, <2>2
  <2>4. \A i \in 0 .. r.len - 1 : c = ByteOf(r, i) <=> i = c - x
    BY <1>1, <1>3, <2>1
  <2>5. c >= x /\ c < x + r.len => (CHOOSE i \in 0 .. r.len - 1 : c = ByteOf(r, i)) = c - x
    BY <2>2, <2>4
  <2> QED BY <2>3, <2>5
<1>5. RefDisk(disk, r) =
        [c \in Cells |-> IF OnDisk(r) /\ r.write /\ c >= x /\ c < x + r.len
                         THEN r.data[c - x] ELSE disk[c]]
  BY <1>4 DEF RefDisk
<1>6. RefDisk(disk, r) \in Disks
  <2>1. ASSUME NEW c \in Cells, c >= x, c < x + r.len PROVE r.data[c - x] \in Bytes
    <3>1. c - x \in W
      BY <1>1, <1>2, <1>3, <2>1
    <3> QED BY <1>3, <3>1
  <2>2. \A c \in Cells : disk[c] \in Bytes
    BY DEF Disks
  <2> QED BY <1>5, <2>1, <2>2 DEF Disks
<1>7. ServedDisk(disk, r) = RefDisk(disk, r)
  <2>1. CASE OnDisk(r) /\ r.write
    BY <1>1, <1>2, <1>5, <2>1 DEF ServedDisk, x
  <2>2. CASE ~(OnDisk(r) /\ r.write)
    <3>1. RefDisk(disk, r) = [c \in Cells |-> disk[c]]
      BY <1>5, <2>2
    <3>2. ServedDisk(disk, r) = disk
      BY <1>1, <2>2 DEF ServedDisk
    <3> QED BY <1>2, <3>1, <3>2 DEF Disks
  <2> QED BY <2>1, <2>2
<1>8. OnDisk(r) => read \in [W -> Bytes]
  <2> SUFFICES ASSUME OnDisk(r), NEW i \in W, i < r.len PROVE disk[x + i] \in Bytes
    BY <1>3
  <2>1. x + i \in Cells
    BY <1>1, <1>2, <1>3
  <2> QED BY <2>1 DEF Disks
<1>9. r.data \in Buffer /\ (OnDisk(r) => read \in Buffer)
  BY <1>3, <1>8 DEF Buffer
<1> DEFINE sv == IF InRange(r) THEN 0 ELSE 1
           dv == IF InRange(r) /\ ~r.write
                 THEN [i \in DOMAIN r.data |->
                         IF i < r.len /\ x + i \in DOMAIN disk THEN disk[x + i] ELSE r.data[i]]
                 ELSE r.data
<1>a. ServedChain(disk, r) = [r EXCEPT !.st = sv, !.data = dv]
  BY Zenon DEF ServedChain, x
<1>b. /\ OnDisk(r) => sv = 0
      /\ ~OnDisk(r) => sv = 1 /\ dv = r.data
      /\ r.write => dv = r.data
  BY <1>1
<1>c. OnDisk(r) /\ ~r.write => dv = read
  <2> SUFFICES ASSUME OnDisk(r), ~r.write PROVE dv = read
    OBVIOUS
  <2>1. \A i \in W : i < r.len => x + i \in Cells
    BY <1>1, <1>2, <1>3
  <2>2. dv = [i \in W |-> IF i < r.len /\ x + i \in Cells THEN disk[x + i] ELSE r.data[i]]
    BY <1>1, <1>2, <1>3
  <2> QED BY <2>1, <2>2, Zenon
<1> HIDE DEF sv, dv, read
<1>10. 0 \in {0, 1} /\ 1 \in {0, 1}
  OBVIOUS
<1>11. CASE ~OnDisk(r)
  <2>1. ServedChain(disk, r) = [r EXCEPT !.st = 1, !.data = r.data]
    BY <1>a, <1>b, <1>11, Zenon
  <2>2. RefAnswer(disk, r) = [r EXCEPT !.st = 1]
    BY <1>11 DEF RefAnswer
  <2>3. /\ [r EXCEPT !.st = 1, !.data = r.data] \in ChainRecs
        /\ [r EXCEPT !.st = 1, !.data = r.data] = [r EXCEPT !.st = 1]
    BY ONLY <1>9, <1>10, r \in ChainRecs, ChangedChain, Zenon
  <2> QED BY <1>6, <1>7, <2>1, <2>2, <2>3, Zenon
<1>12. CASE OnDisk(r) /\ r.write
  <2>1. ServedChain(disk, r) = [r EXCEPT !.st = 0, !.data = r.data]
    BY <1>a, <1>b, <1>12, Zenon
  <2>2. RefAnswer(disk, r) = [r EXCEPT !.st = 0]
    BY <1>12 DEF RefAnswer
  <2>3. /\ [r EXCEPT !.st = 0, !.data = r.data] \in ChainRecs
        /\ [r EXCEPT !.st = 0, !.data = r.data] = [r EXCEPT !.st = 0]
    BY ONLY <1>9, <1>10, r \in ChainRecs, ChangedChain, Zenon
  <2> QED BY <1>6, <1>7, <2>1, <2>2, <2>3, Zenon
<1>13. CASE OnDisk(r) /\ ~r.write
  <2>1. ServedChain(disk, r) = [r EXCEPT !.st = 0, !.data = read]
    BY <1>a, <1>b, <1>c, <1>13, Zenon
  <2>2. read = [i \in DOMAIN r.data |->
                 IF i < r.len THEN disk[ByteOf(r, i)] ELSE r.data[i]]
    <3>1. \A i \in W : i < r.len => ByteOf(r, i) = x + i
      BY <1>1, <1>3
    <3> QED BY <1>3, <3>1 DEF read
  <2>3. RefAnswer(disk, r) = [r EXCEPT !.st = 0, !.data = read]
    BY <1>13, <2>2, Zenon DEF RefAnswer
  <2>4. [r EXCEPT !.st = 0, !.data = read] \in ChainRecs
    BY ONLY <1>9, <1>10, <1>13, r \in ChainRecs, ChangedChain, Zenon
  <2> QED BY <1>6, <1>7, <2>1, <2>3, <2>4, Zenon
<1> QED BY <1>11, <1>12, <1>13

-----------------------------------------------------------------------------
\* The block device: its queue.

\* The chain of the k-th index after i: the chains take turns.
Head(i, k) == Adv(i, k) % NChains

(* The chains of a window of at most NChains indices are different, and the next
   one is the first again; the entry of the ring tells the chain. *)
LEMMA HeadFacts ==
  ASSUME NEW i \in Index, NEW a \in Nat, NEW b \in Nat
  PROVE  /\ Head(i, a) \in Chains
         /\ Head(Adv(i, a), b) = Head(i, a + b)
         /\ Adv(i, a) % NChains = Head(i, a)
         /\ a < b /\ b - a < NChains => Head(i, a) # Head(i, b)
         /\ Head(i, NChains) = Head(i, 0)
         /\ Slot(i, a) % NChains = Head(i, a)
<1>0. /\ NChains \in Nat \ {0} /\ QueueNum \in Nat \ {0} /\ IdxMod \in Nat \ {0}
      /\ IdxMod % QueueNum = 0 /\ QueueNum % NChains = 0
  BY VirtqueueAssumption, VirtioBlkAssumption
<1>1. IdxMod % NChains = 0
  <2>1. (IdxMod % QueueNum) % NChains = IdxMod % NChains
    BY ONLY <1>0, IdxMod \in Nat, ModMod, Zenon
  <2>2. 0 % NChains = 0
    BY ONLY <1>0, 0 \in 0 .. NChains - 1, ModSmall
  <2> QED BY <1>0, <2>1, <2>2
<1>2. i \in Nat /\ i + a \in Nat /\ i + b \in Nat /\ i + NChains \in Nat /\ i + 0 \in Nat
  BY <1>0 DEF Index
<1>3. /\ Head(i, a) = (i + a) % NChains /\ Head(i, b) = (i + b) % NChains
      /\ Head(i, NChains) = (i + NChains) % NChains /\ Head(i, 0) = (i + 0) % NChains
  BY <1>0, <1>1, <1>2, ModMod, Zenon DEF Head, Adv
<1>4. Head(i, a) \in Chains
  BY <1>0, <1>2, <1>3, DivMod DEF Chains
<1>5. a < b /\ b - a < NChains => (i + a) % NChains # (i + b) % NChains
  <2> SUFFICES ASSUME a < b, b - a < NChains PROVE (i + a) % NChains # (i + b) % NChains
    OBVIOUS
  <2>1. b - a \in 1 .. NChains - 1 /\ i + b = (i + a) + (b - a)
    BY <1>0, <1>2
  <2> QED BY <1>0, <1>2, <2>1, ModApart, Zenon
<1>6. Adv(Adv(i, a), b) = Adv(i, a + b)
  BY AdvFacts
<1>7. (i + NChains) % NChains = (i + 0) % NChains
  <2>1. (i % NChains) \in 0 .. NChains - 1 /\ (i \div NChains) \in Nat
        /\ i = NChains * (i \div NChains) + (i % NChains)
    BY ONLY <1>0, <1>2, DivMod, Zenon
  <2> DEFINE p == i \div NChains
             c == i % NChains
  <2>2. c \in 0 .. NChains - 1 /\ p \in Nat /\ i = NChains * p + c
    BY <2>1
  <2> HIDE DEF p, c
  <2>3. i + NChains = NChains * (p + 1) + c /\ p + 1 \in Nat
    BY <1>0, <2>2
  <2>4. (NChains * (p + 1) + c) % NChains = c
    BY ONLY <1>0, <2>2, <2>3, ModUnique, Zenon
  <2>5. i + 0 = i
    BY <1>2
  <2> QED BY <2>3, <2>4, <2>5 DEF c
<1>8. Slot(i, a) % NChains = Head(i, a)
  <2>1. Slot(i, a) = (i + a) % QueueNum
    BY ONLY VirtqueueAssumption, <1>0, <1>2, ModMod, Zenon DEF Slot, Adv
  <2>2. ((i + a) % QueueNum) % NChains = (i + a) % NChains
    BY ONLY <1>0, <1>2, ModMod, Zenon
  <2> QED BY <1>3, <2>1, <2>2
<1>9. Head(Adv(i, a), b) = Head(i, a + b)
  BY <1>6 DEF Head
<1>10. Adv(i, a) % NChains = Head(i, a)
  BY DEF Head
<1> QED BY <1>3, <1>4, <1>5, <1>7, <1>8, <1>9, <1>10

BlkQueues == [avail_idx : Index, avail : [Ring -> Chains], used_idx : Index,
              used : [Ring -> Chains], chain : [Chains -> ChainRecs]]
BlkDrivers == [inflight : SUBSET Chains, last_used : Index]
Refs == [disk : Disks, answer : [Chains -> ChainRecs]]

\* The k-th request still to be served, and how the reference disk gets through
\* them: D[k] is its contents before the k-th.
Pending(q, la, k) == q.chain[Head(la, k)]

Serves(q, la, disk, R, n, D) ==
  /\ D[0] = disk /\ D[n] = R.disk
  /\ \A k \in 0 .. n - 1 :
       /\ D[k + 1] = RefDisk(D[k], Pending(q, la, k))
       /\ R.answer[Head(la, k)] = RefAnswer(D[k], Pending(q, la, k))

\* n requests are to be served and m served ones to be reclaimed.
BlkRings(q, la, d, n, m) ==
  /\ n + m <= NChains
  /\ la = Adv(d.last_used, m) /\ q.used_idx = la /\ q.avail_idx = Adv(la, n)
  /\ \A k \in 0 .. n + m - 1 : Head(d.last_used, k) \in d.inflight
  /\ \A k \in 0 .. n - 1 : q.avail[Slot(la, k)] = Head(la, k)
  /\ \A k \in 0 .. m - 1 : q.used[Slot(d.last_used, k)] = Head(d.last_used, k)

Answered(q, d, R, m) ==
  \A k \in 0 .. m - 1 : q.chain[Head(d.last_used, k)] = R.answer[Head(d.last_used, k)]

BlkOK(q, la, disk, d, R, n, m) ==
  /\ q \in BlkQueues /\ la \in Index /\ disk \in Disks /\ d \in BlkDrivers /\ R \in Refs
  /\ BlkRings(q, la, d, n, m) /\ Answered(q, d, R, m)
  /\ \E D \in [0 .. n -> Disks] : Serves(q, la, disk, R, n, D)

\* The indices from the driver's last_used on: m served ones, then n to serve.
Window(lu, la, n, m) ==
  /\ lu \in Index
  /\ \A k \in 0 .. n : Head(la, k) = Head(lu, m + k)
  /\ \A j, k \in 0 .. NChains - 1 : Head(lu, j) = Head(lu, k) => j = k
  /\ \A j, k \in 0 .. NChains - 1 : Slot(lu, j) = Slot(lu, k) => j = k
  /\ \A k \in 0 .. n : Slot(la, k) = Slot(lu, m + k)
  /\ \A k \in Nat : Head(lu, k) \in Chains /\ Slot(lu, k) \in Ring

(* The indices and heads of a device's window. *)
LEMMA BlkWindow ==
  ASSUME NEW q, NEW la, NEW disk, NEW d, NEW R, NEW n \in Nat, NEW m \in Nat,
         BlkOK(q, la, disk, d, R, n, m)
  PROVE  Window(d.last_used, la, n, m)
<1> DEFINE lu == d.last_used
<1>1. /\ lu \in Index /\ la \in Index /\ la = Adv(lu, m)
      /\ NChains \in Nat \ {0} /\ QueueNum \in Nat /\ NChains <= QueueNum
  BY VirtqueueAssumption, VirtioBlkAssumption DEF BlkOK, BlkRings, BlkDrivers
<1> HIDE DEF lu
<1>2. \A k \in Nat : Head(la, k) = Head(lu, m + k) /\ Slot(la, k) = Slot(lu, m + k)
  <2> SUFFICES ASSUME NEW k \in Nat
               PROVE  Head(Adv(lu, m), k) = Head(lu, m + k) /\ Slot(Adv(lu, m), k) = Slot(lu, m + k)
    BY <1>1
  <2>1. Head(Adv(lu, m), k) = Head(lu, m + k)
    BY ONLY <1>1, m \in Nat, k \in Nat, HeadFacts
  <2>2. Slot(Adv(lu, m), k) = Slot(lu, m + k)
    BY ONLY <1>1, m \in Nat, k \in Nat, SlotFacts
  <2> QED BY <2>1, <2>2
<1>3. \A k \in Nat : Head(lu, k) \in Chains /\ Slot(lu, k) \in Ring
  BY ONLY <1>1, HeadFacts, SlotFacts, Zenon
<1>4. ASSUME NEW j \in 0 .. NChains - 1, NEW k \in 0 .. NChains - 1, j < k
      PROVE  Head(lu, j) # Head(lu, k) /\ Slot(lu, j) # Slot(lu, k)
  <2>1. j \in Nat /\ k \in Nat /\ k - j < NChains /\ k - j < QueueNum
    BY <1>1
  <2>2. Head(lu, j) # Head(lu, k)
    BY ONLY <1>1, <1>4, <2>1, HeadFacts
  <2>3. Slot(lu, j) # Slot(lu, k)
    BY ONLY <1>1, <1>4, <2>1, SlotFacts
  <2> QED BY <2>2, <2>3
<1>5. \A j, k \in 0 .. NChains - 1 :
        (Head(lu, j) = Head(lu, k) \/ Slot(lu, j) = Slot(lu, k)) => j = k
  <2> SUFFICES ASSUME NEW j \in 0 .. NChains - 1, NEW k \in 0 .. NChains - 1, j # k
               PROVE  Head(lu, j) # Head(lu, k) /\ Slot(lu, j) # Slot(lu, k)
    OBVIOUS
  <2>1. j < k \/ k < j
    BY <1>1
  <2> QED BY <1>4, <2>1
<1>6. \A k \in 0 .. n : k \in Nat
  OBVIOUS
<1> QED BY <1>1, <1>2, <1>3, <1>5, <1>6 DEF lu, Window

(* The driver queues a request. *)
LEMMA BlkQueueStep ==
  ASSUME NEW q, NEW la, NEW disk, NEW d, NEW R, NEW n \in Nat, NEW m \in Nat,
         BlkOK(q, la, disk, d, R, n, m),
         NEW r \in ChainRecs, NEW h, h = q.avail_idx % NChains, h \notin d.inflight,
         NEW q2, q2 = [q EXCEPT !.chain[h] = r, !.avail[q.avail_idx % QueueNum] = h,
                                !.avail_idx = Adv(@, 1)],
         NEW d2, d2 = [d EXCEPT !.inflight = @ \union {h}],
         NEW R2, R2 = [R EXCEPT !.disk = RefDisk(@, r), !.answer[h] = RefAnswer(R.disk, r)]
  PROVE  BlkOK(q2, la, disk, d2, R2, n + 1, m)
<1> DEFINE lu == d.last_used
<1>1. /\ q \in BlkQueues /\ la \in Index /\ disk \in Disks /\ d \in BlkDrivers /\ R \in Refs
      /\ n + m <= NChains /\ la = Adv(lu, m) /\ q.used_idx = la /\ q.avail_idx = Adv(la, n)
      /\ \A k \in 0 .. n + m - 1 : Head(lu, k) \in d.inflight
      /\ \A k \in 0 .. n - 1 : q.avail[Slot(la, k)] = Head(la, k)
      /\ \A k \in 0 .. m - 1 : q.used[Slot(lu, k)] = Head(lu, k)
      /\ \A k \in 0 .. m - 1 : q.chain[Head(lu, k)] = R.answer[Head(lu, k)]
      /\ NChains \in Nat \ {0}
  BY VirtioBlkAssumption DEF BlkOK, BlkRings, Answered
<1>2. /\ lu \in Index
      /\ \A k \in 0 .. n : Head(la, k) = Head(lu, m + k)
      /\ \A j, k \in 0 .. NChains - 1 : Head(lu, j) = Head(lu, k) => j = k
      /\ \A j, k \in 0 .. NChains - 1 : Slot(lu, j) = Slot(lu, k) => j = k
      /\ \A k \in 0 .. n : Slot(la, k) = Slot(lu, m + k)
      /\ \A k \in Nat : Head(lu, k) \in Chains /\ Slot(lu, k) \in Ring
  <2>1. Window(lu, la, n, m)
    BY BlkWindow
  <2> QED BY <2>1 DEF Window
<1> HIDE DEF lu
<1>3. n \in 0 .. n /\ m + n \in Nat /\ 0 \in Nat
  OBVIOUS
<1>4. /\ h = Head(la, n) /\ h = Head(lu, m + n) /\ h \in Chains
      /\ q.avail_idx % QueueNum = Slot(la, n) /\ Slot(la, n) = Slot(lu, m + n)
      /\ Slot(la, n) \in Ring
  BY <1>1, <1>2, <1>3 DEF Head, Slot
<1>5. n + m < NChains
  <2> SUFFICES ASSUME m + n = NChains PROVE FALSE
    BY <1>1
  <2>1. Head(lu, NChains) = Head(lu, 0)
    BY ONLY <1>2, <1>3, HeadFacts
  <2>2. 0 \in 0 .. n + m - 1
    BY <1>1
  <2> QED BY <1>1, <1>4, <2>1, <2>2
<1> DEFINE s == Slot(la, n)
<1>6. /\ q2.chain = [q.chain EXCEPT ![h] = r] /\ q2.avail = [q.avail EXCEPT ![s] = h]
      /\ q2.used = q.used /\ q2.used_idx = q.used_idx /\ q2.avail_idx = Adv(q.avail_idx, 1)
  <2>1. q2 = [q EXCEPT !.chain[h] = r, !.avail[s] = h, !.avail_idx = Adv(@, 1)]
    BY <1>4, Zenon
  <2> HIDE DEF s
  <2>2. q2.chain = [q.chain EXCEPT ![h] = r]
    BY <1>1, <2>1 DEF BlkQueues
  <2>3. q2.avail = [q.avail EXCEPT ![s] = h]
    BY <1>1, <2>1, Zenon DEF BlkQueues
  <2>4. q2.used = q.used /\ q2.used_idx = q.used_idx
    BY <1>1, <2>1 DEF BlkQueues
  <2>5. q2.avail_idx = Adv(q.avail_idx, 1)
    BY <1>1, <2>1 DEF BlkQueues
  <2> QED BY <2>2, <2>3, <2>4, <2>5
<1>7. /\ q.avail_idx \in Index /\ q.avail \in [Ring -> Chains] /\ q.chain \in [Chains -> ChainRecs]
      /\ q.used_idx \in Index /\ q.used \in [Ring -> Chains]
  BY <1>1 DEF BlkQueues
<1>8. /\ Adv(q.avail_idx, 1) \in Index /\ Adv(q.avail_idx, 1) = Adv(la, n + 1)
  <2>1. Adv(q.avail_idx, 1) \in Index
    BY ONLY <1>7, 1 \in Nat, AdvFacts
  <2>2. Adv(Adv(la, n), 1) = Adv(la, n + 1)
    BY ONLY <1>1, n \in Nat, 1 \in Nat, AdvFacts
  <2> QED BY <1>1, <2>1, <2>2
<1>7a. q2.chain[h] = r /\ q2.avail[s] = h
  <2>1. DOMAIN q.chain = Chains /\ DOMAIN q.avail = Ring /\ h \in Chains /\ s \in Ring
    BY <1>4, <1>7
  <2> HIDE DEF s
  <2> QED BY ONLY <1>6, <2>1, Zenon
<1>9. q2 \in BlkQueues
  <2>1. q2 = [q EXCEPT !.chain = [q.chain EXCEPT ![h] = r], !.avail = [q.avail EXCEPT ![s] = h],
                       !.avail_idx = Adv(q.avail_idx, 1)]
    BY <1>1, <1>4, Zenon DEF BlkQueues
  <2>2. /\ [q.chain EXCEPT ![h] = r] \in [Chains -> ChainRecs]
        /\ [q.avail EXCEPT ![s] = h] \in [Ring -> Chains]
    BY <1>4, <1>7
  <2> HIDE DEF s
  <2> QED BY <1>1, <1>8, <2>1, <2>2, Zenon DEF BlkQueues
<1>10. d2.inflight = d.inflight \union {h} /\ d2.last_used = lu /\ d2 \in BlkDrivers
  BY <1>1, <1>4 DEF BlkDrivers, lu
<1>11. /\ R2.disk = RefDisk(R.disk, r) /\ R2.answer = [R.answer EXCEPT ![h] = RefAnswer(R.disk, r)]
       /\ R2.disk \in Disks /\ R2 \in Refs /\ R.answer \in [Chains -> ChainRecs] /\ R.disk \in Disks
  <2>1. R.disk \in Disks /\ R.answer \in [Chains -> ChainRecs]
    BY <1>1 DEF Refs
  <2>2. RefDisk(R.disk, r) \in Disks /\ RefAnswer(R.disk, r) \in ChainRecs
    BY <2>1, ServedAsRef
  <2>3. R2.disk = RefDisk(R.disk, r)
    BY <1>1 DEF Refs
  <2>4. R2.answer = [R.answer EXCEPT ![h] = RefAnswer(R.disk, r)]
    BY <1>1 DEF Refs
  <2>5. R2 \in Refs
    <3>1. [R.answer EXCEPT ![h] = RefAnswer(R.disk, r)] \in [Chains -> ChainRecs]
      BY <1>4, <2>1, <2>2
    <3>2. R2 = [R EXCEPT !.disk = RefDisk(R.disk, r),
                         !.answer = [R.answer EXCEPT ![h] = RefAnswer(R.disk, r)]]
      BY <1>1 DEF Refs
    <3> QED BY <1>1, <2>2, <3>1, <3>2, Zenon DEF Refs
  <2> QED BY <2>1, <2>2, <2>3, <2>4, <2>5
<1>12. BlkRings(q2, la, d2, n + 1, m)
  <2>1. \A k \in 0 .. (n + 1) + m - 1 : Head(lu, k) \in d2.inflight
    <3> SUFFICES ASSUME NEW k \in 0 .. (n + 1) + m - 1 PROVE Head(lu, k) \in d2.inflight
      OBVIOUS
    <3>1. k \in 0 .. n + m - 1 \/ k = m + n
      OBVIOUS
    <3> QED BY <1>1, <1>4, <1>10, <3>1
  <2>2. \A k \in 0 .. (n + 1) - 1 : q2.avail[Slot(la, k)] = Head(la, k)
    <3> SUFFICES ASSUME NEW k \in 0 .. n PROVE q2.avail[Slot(la, k)] = Head(la, k)
      OBVIOUS
    <3>1. CASE k = n
      BY ONLY <1>4, <1>7a, <3>1, Zenon
    <3>2. CASE k # n
      <4>1. k \in 0 .. n - 1 /\ m + k \in 0 .. NChains - 1 /\ m + n \in 0 .. NChains - 1
            /\ m + k # m + n /\ m + k \in Nat
        BY <1>1, <1>5, <3>2
      <4>2. Slot(la, k) # s /\ Slot(la, k) \in Ring
        BY <1>2, <1>4, <4>1
      <4> QED BY <1>1, <1>6, <1>7, <4>1, <4>2
    <3> QED BY <3>1, <3>2
  <2>3. (n + 1) + m <= NChains
    BY <1>1, <1>5
  <2> HIDE DEF s
  <2> QED BY <1>1, <1>6, <1>8, <1>10, <2>1, <2>2, <2>3 DEF BlkRings
<1>13. \A j \in 0 .. (m + n) - 1 : Head(lu, j) \in Chains /\ Head(lu, j) # h
  <2> SUFFICES ASSUME NEW j \in 0 .. (m + n) - 1 PROVE Head(lu, j) \in Chains /\ Head(lu, j) # h
    OBVIOUS
  <2>1. j \in 0 .. NChains - 1 /\ m + n \in 0 .. NChains - 1 /\ j # m + n /\ j \in Nat
    BY <1>1, <1>5
  <2> QED BY <1>2, <1>4, <2>1
<1>14. Answered(q2, d2, R2, m)
  <2> SUFFICES ASSUME NEW k \in 0 .. m - 1
               PROVE  q2.chain[Head(lu, k)] = R2.answer[Head(lu, k)]
    BY <1>10 DEF Answered
  <2>1. k \in 0 .. (m + n) - 1
    OBVIOUS
  <2> QED BY <1>1, <1>6, <1>7, <1>11, <1>13, <2>1
<1>15. PICK D \in [0 .. n -> Disks] : Serves(q, la, disk, R, n, D)
  BY DEF BlkOK
<1> DEFINE E == [k \in 0 .. n + 1 |-> IF k = n + 1 THEN RefDisk(R.disk, r) ELSE D[k]]
<1>16. /\ E \in [0 .. n + 1 -> Disks] /\ E[n + 1] = RefDisk(R.disk, r)
       /\ \A k \in 0 .. n : E[k] = D[k]
  <2>1. \A k \in 0 .. n : D[k] \in Disks /\ k \in 0 .. n + 1 /\ k # n + 1
    OBVIOUS
  <2>2. \A k \in 0 .. n + 1 : k = n + 1 \/ k \in 0 .. n
    OBVIOUS
  <2>3. n + 1 \in 0 .. n + 1
    OBVIOUS
  <2> QED BY <1>11, <2>1, <2>2, <2>3
<1> HIDE DEF E, s
<1>17. ASSUME NEW k \in 0 .. n
       PROVE  /\ E[k + 1] = RefDisk(E[k], Pending(q2, la, k))
              /\ R2.answer[Head(la, k)] = RefAnswer(E[k], Pending(q2, la, k))
  <2>1. CASE k = n
    <3>1. Pending(q2, la, k) = r
      <4>1. q2.chain[h] = r /\ Head(la, k) = h
        BY ONLY <1>4, <1>7a, <2>1, Zenon
      <4> QED BY <4>1 DEF Pending
    <3>2. E[k] = R.disk
      BY <1>15, <1>16, <2>1 DEF Serves
    <3> QED BY <1>4, <1>11, <1>16, <2>1, <3>1, <3>2, Zenon
  <2>2. CASE k # n
    <3>1. k \in 0 .. n - 1 /\ k + 1 \in 0 .. n /\ m + k \in 0 .. (m + n) - 1
      BY <2>2
    <3>2. Head(la, k) \in Chains /\ Head(la, k) # h
      BY <1>2, <1>13, <3>1
    <3>3. Pending(q2, la, k) = Pending(q, la, k)
      BY <1>6, <1>7, <3>2 DEF Pending
    <3>4. R2.answer[Head(la, k)] = R.answer[Head(la, k)]
      BY <1>11, <3>2
    <3>5. E[k + 1] = D[k + 1] /\ E[k] = D[k]
      BY <1>16, <3>1
    <3> QED BY <1>15, <3>1, <3>3, <3>4, <3>5 DEF Serves
  <2> QED BY <2>1, <2>2
<1>18. Serves(q2, la, disk, R2, n + 1, E)
  <2>1. E[0] = disk
    BY <1>15, <1>16 DEF Serves
  <2>2. \A k \in 0 .. (n + 1) - 1 : k \in 0 .. n
    OBVIOUS
  <2> QED BY <1>11, <1>16, <1>17, <2>1, <2>2 DEF Serves
<1> QED BY <1>1, <1>9, <1>10, <1>11, <1>12, <1>14, <1>16, <1>18 DEF BlkOK

(* The driver takes a served chain back, and finds the reference's answer. *)
LEMMA BlkReclaimStep ==
  ASSUME NEW q, NEW la, NEW disk, NEW d, NEW R, NEW n \in Nat, NEW m \in Nat,
         BlkOK(q, la, disk, d, R, n, m),
         NEW h, h = q.used[d.last_used % QueueNum], d.last_used # q.used_idx,
         NEW q2, q2 = [q EXCEPT !.chain[h] = IdleChain],
         NEW d2, d2 = [d EXCEPT !.inflight = @ \ {h}, !.last_used = Adv(@, 1)],
         NEW R2, R2 = [R EXCEPT !.answer[h] = IdleChain]
  PROVE  /\ h \in d.inflight /\ q.chain[h] = R.answer[h]
         /\ \E p \in Nat : BlkOK(q2, la, disk, d2, R2, n, p)
<1> DEFINE lu == d.last_used
<1>1. /\ q \in BlkQueues /\ la \in Index /\ disk \in Disks /\ d \in BlkDrivers /\ R \in Refs
      /\ n + m <= NChains /\ la = Adv(lu, m) /\ q.used_idx = la /\ q.avail_idx = Adv(la, n)
      /\ \A k \in 0 .. n + m - 1 : Head(lu, k) \in d.inflight
      /\ \A k \in 0 .. n - 1 : q.avail[Slot(la, k)] = Head(la, k)
      /\ \A k \in 0 .. m - 1 : q.used[Slot(lu, k)] = Head(lu, k)
      /\ \A k \in 0 .. m - 1 : q.chain[Head(lu, k)] = R.answer[Head(lu, k)]
      /\ NChains \in Nat \ {0}
  BY VirtioBlkAssumption DEF BlkOK, BlkRings, Answered
<1>2. /\ lu \in Index
      /\ \A k \in 0 .. n : Head(la, k) = Head(lu, m + k)
      /\ \A j, k \in 0 .. NChains - 1 : Head(lu, j) = Head(lu, k) => j = k
      /\ \A k \in Nat : Head(lu, k) \in Chains /\ Slot(lu, k) \in Ring
  <2>1. Window(lu, la, n, m)
    BY BlkWindow
  <2> QED BY <2>1 DEF Window
<1>3. lu % QueueNum = Slot(lu, 0) /\ lu # la
  <2>1. Slot(lu, 0) = lu % QueueNum
    BY ONLY <1>2, 0 \in Nat, SlotFacts
  <2> QED BY <1>1, <2>1
<1>4. d.last_used = lu
  OBVIOUS
<1> HIDE DEF lu
<1>5. m > 0
  <2>1. Adv(lu, 0) = lu
    BY ONLY <1>2, 0 \in Nat, AdvFacts
  <2> QED BY <1>1, <1>3, <2>1
<1>6. /\ 0 \in 0 .. m - 1 /\ 0 \in 0 .. n + m - 1 /\ 0 \in 0 .. NChains - 1
      /\ m - 1 \in Nat /\ 0 \in Nat
  BY <1>1, <1>5
<1>7. /\ h = Head(lu, 0) /\ h \in Chains /\ h \in d.inflight /\ q.chain[h] = R.answer[h]
  BY <1>1, <1>2, <1>3, <1>4, <1>6
<1>8. /\ q.chain \in [Chains -> ChainRecs] /\ R.answer \in [Chains -> ChainRecs]
      /\ IdleChain \in ChainRecs
  <2>1. IdleChain \in ChainRecs
    BY IdleIsChain
  <2> QED BY <1>1, <2>1 DEF BlkQueues, Refs
<1>9. /\ q2.chain = [q.chain EXCEPT ![h] = IdleChain] /\ q2.avail = q.avail
      /\ q2.used = q.used /\ q2.used_idx = q.used_idx /\ q2.avail_idx = q.avail_idx
      /\ q2 \in BlkQueues
  <2>1. [q.chain EXCEPT ![h] = IdleChain] \in [Chains -> ChainRecs]
    BY <1>7, <1>8
  <2>2. q2 = [q EXCEPT !.chain = [q.chain EXCEPT ![h] = IdleChain]]
    BY <1>1 DEF BlkQueues
  <2> QED BY <1>1, <2>1, <2>2, Zenon DEF BlkQueues
<1>10. /\ R2.answer = [R.answer EXCEPT ![h] = IdleChain] /\ R2.disk = R.disk /\ R2 \in Refs
  <2>1. [R.answer EXCEPT ![h] = IdleChain] \in [Chains -> ChainRecs]
    BY <1>7, <1>8
  <2>2. R2 = [R EXCEPT !.answer = [R.answer EXCEPT ![h] = IdleChain]]
    BY <1>1 DEF Refs
  <2> QED BY <1>1, <2>1, <2>2 DEF Refs
<1>11. d2.inflight = d.inflight \ {h} /\ d2.last_used = Adv(lu, 1) /\ d2 \in BlkDrivers
  <2>1. Adv(lu, 1) \in Index
    BY ONLY <1>2, 1 \in Nat, AdvFacts
  <2> QED BY <1>1, <1>4, <2>1, Zenon DEF BlkDrivers
<1>12. \A k \in Nat : Head(Adv(lu, 1), k) = Head(lu, k + 1) /\ Slot(Adv(lu, 1), k) = Slot(lu, k + 1)
  <2> SUFFICES ASSUME NEW k \in Nat
               PROVE  Head(Adv(lu, 1), k) = Head(lu, k + 1) /\ Slot(Adv(lu, 1), k) = Slot(lu, k + 1)
    OBVIOUS
  <2>1. Head(Adv(lu, 1), k) = Head(lu, 1 + k)
    BY ONLY <1>2, 1 \in Nat, k \in Nat, HeadFacts
  <2>2. Slot(Adv(lu, 1), k) = Slot(lu, 1 + k)
    BY ONLY <1>2, 1 \in Nat, k \in Nat, SlotFacts
  <2>3. 1 + k = k + 1
    OBVIOUS
  <2> QED BY <2>1, <2>2, <2>3
<1>13. \A j \in 1 .. n + m - 1 : Head(lu, j) \in Chains /\ Head(lu, j) # h
  <2> SUFFICES ASSUME NEW j \in 1 .. n + m - 1 PROVE Head(lu, j) \in Chains /\ Head(lu, j) # h
    OBVIOUS
  <2>1. j \in 0 .. NChains - 1 /\ j # 0 /\ j \in Nat
    BY <1>1
  <2> QED BY <1>2, <1>6, <1>7, <2>1
<1>14. BlkRings(q2, la, d2, n, m - 1)
  <2>1. n + (m - 1) <= NChains
    BY <1>1
  <2>2. la = Adv(Adv(lu, 1), m - 1)
    <3>1. Adv(Adv(lu, 1), m - 1) = Adv(lu, 1 + (m - 1))
      BY ONLY <1>2, <1>6, 1 \in Nat, AdvFacts
    <3>2. 1 + (m - 1) = m
      OBVIOUS
    <3> QED BY <1>1, <3>1, <3>2
  <2>3. \A k \in 0 .. n + (m - 1) - 1 : Head(Adv(lu, 1), k) \in d2.inflight
    <3> SUFFICES ASSUME NEW k \in 0 .. n + (m - 1) - 1 PROVE Head(lu, k + 1) \in d2.inflight
      BY <1>12
    <3>1. k + 1 \in 1 .. n + m - 1 /\ k + 1 \in 0 .. n + m - 1
      OBVIOUS
    <3> QED BY <1>1, <1>11, <1>13, <3>1
  <2>4. \A k \in 0 .. (m - 1) - 1 : q2.used[Slot(Adv(lu, 1), k)] = Head(Adv(lu, 1), k)
    <3> SUFFICES ASSUME NEW k \in 0 .. (m - 1) - 1 PROVE q.used[Slot(lu, k + 1)] = Head(lu, k + 1)
      BY <1>9, <1>12
    <3>1. k + 1 \in 0 .. m - 1
      OBVIOUS
    <3> QED BY <1>1, <3>1
  <2> QED BY <1>1, <1>9, <1>11, <2>1, <2>2, <2>3, <2>4 DEF BlkRings
<1>15. Answered(q2, d2, R2, m - 1)
  <2> SUFFICES ASSUME NEW k \in 0 .. (m - 1) - 1
               PROVE  q2.chain[Head(lu, k + 1)] = R2.answer[Head(lu, k + 1)]
    BY <1>11, <1>12 DEF Answered
  <2>1. k + 1 \in 1 .. n + m - 1 /\ k + 1 \in 0 .. m - 1
    OBVIOUS
  <2> QED BY <1>1, <1>8, <1>9, <1>10, <1>13, <2>1
<1>16. \A k \in 0 .. n - 1 : /\ Pending(q2, la, k) = Pending(q, la, k)
                             /\ R2.answer[Head(la, k)] = R.answer[Head(la, k)]
  <2> SUFFICES ASSUME NEW k \in 0 .. n - 1
               PROVE  /\ q2.chain[Head(la, k)] = q.chain[Head(la, k)]
                      /\ R2.answer[Head(la, k)] = R.answer[Head(la, k)]
    BY DEF Pending
  <2>1. m + k \in 1 .. n + m - 1 /\ k \in 0 .. n
    BY <1>5
  <2>2. Head(la, k) \in Chains /\ Head(la, k) # h
    BY <1>2, <1>13, <2>1
  <2> QED BY <1>8, <1>9, <1>10, <2>2
<1>17. PICK D \in [0 .. n -> Disks] : Serves(q, la, disk, R, n, D)
  BY DEF BlkOK
<1>18. Serves(q2, la, disk, R2, n, D)
  BY <1>10, <1>16, <1>17 DEF Serves
<1>19. BlkOK(q2, la, disk, d2, R2, n, m - 1)
  BY <1>1, <1>9, <1>10, <1>11, <1>14, <1>15, <1>18, Zenon DEF BlkOK
<1> QED BY <1>6, <1>7, <1>19

-----------------------------------------------------------------------------
\* The block device: the loop of vblk_process.

(* The loop ends where any sequence of states that follows it ends. *)
LEMMA TurnsUnique ==
  ASSUME NEW n \in Nat, NEW s, NEW T,
         T = [k \in 0 .. n |-> IF k = 0 THEN s ELSE Step(T[k - 1])]
  PROVE  AfterTurns(s, n) = T[n]
<1> DEFINE turn[k \in 0 .. n] == IF k = 0 THEN s ELSE Step(turn[k - 1])
<1>1. AfterTurns(s, n) = turn[n]
  BY DEF AfterTurns
<1>2. turn = [k \in 0 .. n |-> IF k = 0 THEN s ELSE Step(turn[k - 1])]
  BY Zenon
<1> HIDE DEF turn
<1> DEFINE Differ == {k \in 0 .. n : turn[k] # T[k]}
<1>3. ASSUME Differ # {} PROVE FALSE
  <2>1. Differ \in SUBSET Nat
    OBVIOUS
  <2>2. PICK k \in Differ : \A j \in Differ : k <= j
    <3> DEFINE Before == OpToRel(<, Nat)
    <3>1. IsWellFoundedOn(Before, Nat)
      BY NatLessThanWellFounded
    <3>2. PICK k \in Differ : \A j \in Differ : ~(<<j, k>> \in Before)
      <4> HIDE DEF Differ, Before
      <4> QED BY <1>3, <2>1, <3>1, WFMin, Zenon
    <3>3. \A j \in Differ : ~(j < k)
      BY <2>1, <3>2, Zenon DEF OpToRel
    <3> QED BY <2>1, <3>3
  <2>3. k # 0
    BY <1>2, <2>2
  <2>4. k - 1 \in 0 .. n /\ k - 1 \notin Differ
    BY <2>2, <2>3
  <2>5. turn[k] = Step(turn[k - 1]) /\ T[k] = Step(T[k - 1])
    BY <1>2, <2>2, <2>3
  <2> QED BY <2>2, <2>4, <2>5
<1> QED BY <1>1, <1>3

\* The state of the loop after k turns.
ServedUsed(q, la, k) ==
  [s \in Ring |-> IF \E j \in 0 .. k - 1 : Slot(la, j) = s THEN s % NChains ELSE q.used[s]]
ServedChains(q, la, R, k) ==
  [h \in Chains |-> IF \E j \in 0 .. k - 1 : Head(la, j) = h THEN R.answer[h] ELSE q.chain[h]]
ServedQueue(q, la, R, k) ==
  [avail_idx |-> q.avail_idx, avail |-> q.avail, used_idx |-> Adv(la, k),
   used |-> ServedUsed(q, la, k), chain |-> ServedChains(q, la, R, k)]
Turn(q, la, R, D, k) ==
  [last_avail |-> Adv(la, k), disk |-> D[k], q |-> ServedQueue(q, la, R, k)]

(* Queues with equal fields are equal. *)
LEMMA SameBlkQueue ==
  ASSUME NEW q \in BlkQueues, NEW p \in BlkQueues, q.avail_idx = p.avail_idx, q.avail = p.avail,
         q.used_idx = p.used_idx, q.used = p.used, q.chain = p.chain
  PROVE  q = p
BY DEF BlkQueues

(* Their types. *)
LEMMA ServedTypes ==
  ASSUME NEW q \in BlkQueues, NEW la \in Index, NEW R \in Refs, NEW k \in Nat
  PROVE  /\ ServedUsed(q, la, k) \in [Ring -> Chains]
         /\ ServedChains(q, la, R, k) \in [Chains -> ChainRecs]
         /\ ServedQueue(q, la, R, k) \in BlkQueues
<1>1. /\ q.avail_idx \in Index /\ q.avail \in [Ring -> Chains] /\ q.used \in [Ring -> Chains]
      /\ q.chain \in [Chains -> ChainRecs] /\ R.answer \in [Chains -> ChainRecs]
  BY DEF BlkQueues, Refs
<1>2. \A s \in Ring : s % NChains \in Chains
  BY VirtioBlkAssumption, VirtqueueAssumption DEF Ring, Chains
<1>3. ServedUsed(q, la, k) \in [Ring -> Chains]
  BY <1>1, <1>2 DEF ServedUsed
<1>4. ServedChains(q, la, R, k) \in [Chains -> ChainRecs]
  BY <1>1 DEF ServedChains
<1>5. Adv(la, k) \in Index
  BY ONLY la \in Index, k \in Nat, AdvFacts
<1>6. ServedQueue(q, la, R, k) \in BlkQueues
  BY <1>1, <1>3, <1>4, <1>5 DEF ServedQueue, BlkQueues
<1> QED BY <1>3, <1>4, <1>6

(* One turn of the loop. *)
LEMMA BlkTurn ==
  ASSUME NEW q, NEW la, NEW disk, NEW d, NEW R, NEW n \in Nat, NEW m \in Nat,
         BlkOK(q, la, disk, d, R, n, m),
         NEW D \in [0 .. n -> Disks], Serves(q, la, disk, R, n, D), NEW k \in 0 .. n - 1
  PROVE  Step(Turn(q, la, R, D, k)) = Turn(q, la, R, D, k + 1)
<1> DEFINE h == Head(la, k)
           e == Slot(la, k)
           Q == ServedQueue(q, la, R, k)
           P == ServedQueue(q, la, R, k + 1)
<1>1. /\ q \in BlkQueues /\ la \in Index /\ R \in Refs /\ n + m <= NChains
      /\ q.avail[e] = h /\ k \in Nat /\ k + 1 \in Nat /\ 1 \in Nat
      /\ k \in 0 .. n /\ k + 1 \in 0 .. n /\ NChains \in Nat \ {0}
  BY VirtioBlkAssumption DEF BlkOK, BlkRings
<1>2. /\ h \in Chains /\ e \in Ring /\ e % NChains = h /\ Adv(la, k) % QueueNum = e
      /\ Adv(Adv(la, k), 1) = Adv(la, k + 1)
  <2>1. h \in Chains /\ e % NChains = h
    BY ONLY <1>1, HeadFacts, Zenon
  <2>2. e \in Ring
    BY ONLY <1>1, SlotFacts
  <2>3. Adv(Adv(la, k), 1) = Adv(la, k + 1)
    BY ONLY <1>1, AdvFacts
  <2> QED BY <2>1, <2>2, <2>3 DEF Slot
<1>3. \A j \in 0 .. k - 1 : Head(la, j) # h /\ Slot(la, j) # e
  <2>1. Window(d.last_used, la, n, m)
    BY BlkWindow
  <2> SUFFICES ASSUME NEW j \in 0 .. k - 1 PROVE Head(la, j) # h /\ Slot(la, j) # e
    OBVIOUS
  <2>2. /\ m + j \in 0 .. NChains - 1 /\ m + k \in 0 .. NChains - 1 /\ m + j # m + k
        /\ j \in 0 .. n
    BY <1>1
  <2> QED BY <1>1, <2>1, <2>2 DEF Window
<1>4. /\ Q \in BlkQueues /\ P \in BlkQueues
      /\ ServedUsed(q, la, k) \in [Ring -> Chains]
      /\ ServedChains(q, la, R, k) \in [Chains -> ChainRecs]
  BY ONLY <1>1, ServedTypes
<1>5. /\ Q.avail_idx = q.avail_idx /\ Q.avail = q.avail /\ Q.used_idx = Adv(la, k)
      /\ Q.used = ServedUsed(q, la, k) /\ Q.chain = ServedChains(q, la, R, k)
  BY DEF ServedQueue
<1>6. /\ P.avail_idx = q.avail_idx /\ P.avail = q.avail /\ P.used_idx = Adv(la, k + 1)
      /\ P.used = ServedUsed(q, la, k + 1) /\ P.chain = ServedChains(q, la, R, k + 1)
  BY DEF ServedQueue
<1>7. \A j \in 0 .. (k + 1) - 1 : j \in 0 .. k - 1 \/ j = k
  BY <1>1
<1>8. \A j \in 0 .. k - 1 : j \in 0 .. (k + 1) - 1
  BY <1>1
<1>9. k \in 0 .. (k + 1) - 1
  BY <1>1
<1>10. ServedUsed(q, la, k + 1) = [ServedUsed(q, la, k) EXCEPT ![e] = h]
  <2>1. ASSUME NEW s \in Ring
        PROVE  (\E j \in 0 .. (k + 1) - 1 : Slot(la, j) = s) <=>
               s = e \/ \E j \in 0 .. k - 1 : Slot(la, j) = s
    BY <1>7, <1>8, <1>9
  <2> HIDE DEF e, h
  <2> QED BY <1>2, <2>1, Zenon DEF ServedUsed
<1>11. ServedChains(q, la, R, k + 1) = [ServedChains(q, la, R, k) EXCEPT ![h] = R.answer[h]]
  <2>1. ASSUME NEW g \in Chains
        PROVE  (\E j \in 0 .. (k + 1) - 1 : Head(la, j) = g) <=>
               g = h \/ \E j \in 0 .. k - 1 : Head(la, j) = g
    BY <1>7, <1>8, <1>9
  <2> HIDE DEF e, h
  <2> QED BY <1>2, <2>1, Zenon DEF ServedChains
<1>12. Q.chain[h] = q.chain[h] /\ q.chain[h] = Pending(q, la, k) /\ q.chain[h] \in ChainRecs
  <2>1. ServedChains(q, la, R, k)[h] = q.chain[h]
    BY <1>2, <1>3 DEF ServedChains
  <2> QED BY <1>1, <1>2, <1>5, <2>1, Zenon DEF Pending, BlkQueues
<1>13. /\ D[k] \in Disks /\ ServedDisk(D[k], q.chain[h]) = D[k + 1]
       /\ ServedChain(D[k], q.chain[h]) = R.answer[h]
  <2>1. D[k] \in Disks
    BY <1>1
  <2>2. /\ D[k + 1] = RefDisk(D[k], q.chain[h]) /\ R.answer[h] = RefAnswer(D[k], q.chain[h])
    BY <1>12 DEF Serves
  <2> QED BY <1>12, <2>1, <2>2, ServedAsRef, Zenon
<1> HIDE DEF h, e, Q, P
<1> DEFINE s == Turn(q, la, R, D, k)
<1>14. s.last_avail = Adv(la, k) /\ s.disk = D[k] /\ s.q = Q
  BY DEF Turn, Q
<1> HIDE DEF s
<1> DEFINE S == [Q EXCEPT !.chain[h] = R.answer[h], !.used[e] = h, !.used_idx = Adv(@, 1)]
<1>15. Step(s) = [last_avail |-> Adv(la, k + 1), disk |-> D[k + 1], q |-> S]
  <2>1. s.q.avail[s.last_avail % QueueNum] = h /\ s.q.chain[h] = q.chain[h]
    BY <1>1, <1>2, <1>5, <1>12, <1>14, Zenon
  <2>2. s.q.used_idx % QueueNum = e
    BY <1>2, <1>5, <1>14, Zenon
  <2> QED BY <1>2, <1>13, <1>14, <2>1, <2>2, Zenon DEF Step
<1>16. S = P
  <2>1. S.avail_idx = Q.avail_idx /\ S.avail = Q.avail
    BY <1>4 DEF BlkQueues
  <2>2. S.chain = [Q.chain EXCEPT ![h] = R.answer[h]]
    BY <1>4 DEF BlkQueues
  <2>3. S.used = [Q.used EXCEPT ![e] = h]
    BY <1>4 DEF BlkQueues
  <2>4. S.used_idx = Adv(Q.used_idx, 1)
    BY <1>4 DEF BlkQueues
  <2>5. S \in BlkQueues
    <3>1. /\ [Q.chain EXCEPT ![h] = R.answer[h]] \in [Chains -> ChainRecs]
          /\ [Q.used EXCEPT ![e] = h] \in [Ring -> Chains] /\ Adv(Q.used_idx, 1) \in Index
      <4>1. /\ P.chain \in [Chains -> ChainRecs] /\ P.used \in [Ring -> Chains]
            /\ P.used_idx \in Index
        BY <1>4 DEF BlkQueues
      <4>2. P.chain = [Q.chain EXCEPT ![h] = R.answer[h]]
        BY <1>5, <1>6, <1>11, Zenon
      <4>3. P.used = [Q.used EXCEPT ![e] = h]
        BY <1>5, <1>6, <1>10, Zenon
      <4>4. P.used_idx = Adv(Q.used_idx, 1)
        BY <1>2, <1>5, <1>6
      <4> QED BY <4>1, <4>2, <4>3, <4>4, Zenon
    <3>2. S = [Q EXCEPT !.chain = [Q.chain EXCEPT ![h] = R.answer[h]],
                        !.used = [Q.used EXCEPT ![e] = h], !.used_idx = Adv(Q.used_idx, 1)]
      BY <1>4 DEF BlkQueues
    <3> HIDE DEF S
    <3> QED BY <1>4, <3>1, <3>2, Zenon DEF BlkQueues
  <2> HIDE DEF S
  <2>6. /\ S.avail_idx = P.avail_idx /\ S.avail = P.avail /\ S.used_idx = P.used_idx
        /\ S.used = P.used /\ S.chain = P.chain
    BY <1>2, <1>5, <1>6, <1>10, <1>11, <2>1, <2>2, <2>3, <2>4, Zenon
  <2> QED BY ONLY <1>4, <2>5, <2>6, SameBlkQueue
<1>17. Turn(q, la, R, D, k + 1) = [last_avail |-> Adv(la, k + 1), disk |-> D[k + 1], q |-> P]
  BY DEF Turn, P
<1> HIDE DEF S
<1> QED BY <1>15, <1>16, <1>17 DEF s

(* The loop serves the n requests and completes them. *)
LEMMA BlkServeStep ==
  ASSUME NEW q, NEW la, NEW disk, NEW d, NEW R, NEW n \in Nat, NEW m \in Nat,
         BlkOK(q, la, disk, d, R, n, m),
         NEW s, s = AfterTurns([last_avail |-> la, disk |-> disk, q |-> q], n)
  PROVE  BlkOK(s.q, s.last_avail, s.disk, d, R, 0, n + m)
<1> DEFINE lu == d.last_used
<1>1. /\ q \in BlkQueues /\ la \in Index /\ disk \in Disks /\ d \in BlkDrivers /\ R \in Refs
      /\ n + m <= NChains /\ la = Adv(lu, m) /\ q.used_idx = la /\ q.avail_idx = Adv(la, n)
      /\ \A k \in 0 .. n + m - 1 : Head(lu, k) \in d.inflight
      /\ \A k \in 0 .. m - 1 : q.used[Slot(lu, k)] = Head(lu, k)
      /\ \A k \in 0 .. m - 1 : q.chain[Head(lu, k)] = R.answer[Head(lu, k)]
      /\ NChains \in Nat \ {0} /\ 0 \in Nat
  BY VirtioBlkAssumption, Zenon DEF BlkOK, BlkRings, Answered
<1>2. /\ lu \in Index
      /\ \A k \in 0 .. n : Head(la, k) = Head(lu, m + k)
      /\ \A j, k \in 0 .. NChains - 1 : Head(lu, j) = Head(lu, k) => j = k
      /\ \A j, k \in 0 .. NChains - 1 : Slot(lu, j) = Slot(lu, k) => j = k
      /\ \A k \in 0 .. n : Slot(la, k) = Slot(lu, m + k)
      /\ \A k \in Nat : Head(lu, k) \in Chains /\ Slot(lu, k) \in Ring
  <2>1. Window(lu, la, n, m)
    BY BlkWindow
  <2> QED BY <2>1 DEF Window
<1>3. PICK D \in [0 .. n -> Disks] : Serves(q, la, disk, R, n, D)
  BY DEF BlkOK
<1> DEFINE T == [k \in 0 .. n |-> Turn(q, la, R, D, k)]
           s0 == [last_avail |-> la, disk |-> disk, q |-> q]
           q2 == ServedQueue(q, la, R, n)
           la2 == Adv(la, n)
<1>4. ServedQueue(q, la, R, 0) = q /\ Adv(la, 0) = la
  <2> DEFINE p == ServedQueue(q, la, R, 0)
  <2>1. Adv(la, 0) = la
    BY ONLY <1>1, AdvFacts
  <2>2. 0 .. 0 - 1 = {}
    OBVIOUS
  <2>3. ServedUsed(q, la, 0) = q.used
    BY <1>1, <2>2 DEF ServedUsed, BlkQueues
  <2>4. ServedChains(q, la, R, 0) = q.chain
    BY <1>1, <2>2 DEF ServedChains, BlkQueues
  <2>5. /\ p.avail_idx = q.avail_idx /\ p.avail = q.avail /\ p.used_idx = q.used_idx
        /\ p.used = q.used /\ p.chain = q.chain
    BY <1>1, <2>1, <2>3, <2>4, Zenon DEF ServedQueue
  <2>6. p \in BlkQueues
    BY ONLY <1>1, ServedTypes, Zenon
  <2> HIDE DEF p
  <2>7. p = q
    BY ONLY <1>1, <2>5, <2>6, SameBlkQueue
  <2> QED BY <2>1, <2>7 DEF p
<1>5. Turn(q, la, R, D, 0) = s0
  BY <1>3, <1>4 DEF Turn, Serves
<1> HIDE DEF s0, q2, la2
<1>6. T = [k \in 0 .. n |-> IF k = 0 THEN s0 ELSE Step(T[k - 1])]
  <2> SUFFICES ASSUME NEW k \in 0 .. n
               PROVE  Turn(q, la, R, D, k) = IF k = 0 THEN s0 ELSE Step(T[k - 1])
    BY Zenon
  <2>1. CASE k = 0
    BY <1>5, <2>1
  <2>2. CASE k # 0
    <3>1. k - 1 \in 0 .. n - 1 /\ k - 1 \in 0 .. n /\ (k - 1) + 1 = k
      BY <2>2
    <3>2. T[k - 1] = Turn(q, la, R, D, k - 1)
      BY <3>1
    <3>3. Step(Turn(q, la, R, D, k - 1)) = Turn(q, la, R, D, (k - 1) + 1)
      BY <1>3, <3>1, BlkTurn
    <3> QED BY <2>2, <3>1, <3>2, <3>3
  <2> QED BY <2>1, <2>2
<1>7. s = Turn(q, la, R, D, n)
  <2>1. T[n] = Turn(q, la, R, D, n)
    OBVIOUS
  <2> HIDE DEF T
  <2>2. AfterTurns(s0, n) = T[n]
    BY ONLY <1>6, n \in Nat, TurnsUnique
  <2> QED BY <2>1, <2>2 DEF s0
<1> HIDE DEF T
<1>8. s.q = q2 /\ s.last_avail = la2 /\ s.disk = D[n]
  BY <1>7 DEF Turn, q2, la2
<1>9. /\ q2.avail_idx = q.avail_idx /\ q2.used_idx = la2
      /\ q2.used = ServedUsed(q, la, n) /\ q2.chain = ServedChains(q, la, R, n)
  BY DEF ServedQueue, q2, la2
<1>10. q2 \in BlkQueues
  BY ONLY <1>1, n \in Nat, ServedTypes DEF q2
<1>11. la2 \in Index /\ la2 = Adv(lu, n + m) /\ Adv(la2, 0) = la2
  <2>1. Adv(Adv(lu, m), n) = Adv(lu, m + n)
    BY ONLY <1>2, m \in Nat, n \in Nat, AdvFacts
  <2>2. m + n = n + m
    OBVIOUS
  <2>3. Adv(la, n) \in Index
    BY ONLY <1>1, n \in Nat, AdvFacts
  <2>4. la2 \in Index
    BY <2>3 DEF la2
  <2>5. Adv(la2, 0) = la2
    BY ONLY <1>1, <2>4, AdvFacts
  <2> QED BY <1>1, <2>1, <2>2, <2>4, <2>5, Zenon DEF la2
<1> HIDE DEF lu
<1>12. ASSUME NEW k \in 0 .. n + m - 1
       PROVE  /\ q2.used[Slot(lu, k)] = Head(lu, k)
              /\ q2.chain[Head(lu, k)] = R.answer[Head(lu, k)]
  <2>1. k \in Nat /\ k \in 0 .. NChains - 1 /\ Head(lu, k) \in Chains /\ Slot(lu, k) \in Ring
    BY <1>1, <1>2
  <2>2. CASE k < m
    <3>1. k \in 0 .. m - 1
      BY <2>1, <2>2
    <3>2. ASSUME NEW j \in 0 .. n - 1
          PROVE  Slot(la, j) # Slot(lu, k) /\ Head(la, j) # Head(lu, k)
      <4>1. m + j \in 0 .. NChains - 1 /\ m + j # k /\ j \in 0 .. n
        BY <1>1, <2>1, <2>2
      <4> QED BY <1>2, <2>1, <4>1
    <3>3. ServedUsed(q, la, n)[Slot(lu, k)] = q.used[Slot(lu, k)]
      BY <2>1, <3>2, Zenon DEF ServedUsed
    <3>4. ServedChains(q, la, R, n)[Head(lu, k)] = q.chain[Head(lu, k)]
      BY <2>1, <3>2 DEF ServedChains
    <3> QED BY <1>1, <1>9, <3>1, <3>3, <3>4, Zenon
  <2>3. CASE k >= m
    <3>1. k - m \in 0 .. n - 1 /\ k - m \in 0 .. n /\ m + (k - m) = k
      BY <2>1, <2>3
    <3>2. Slot(la, k - m) = Slot(lu, k) /\ Head(la, k - m) = Head(lu, k)
      BY <1>2, <3>1
    <3>3. ServedUsed(q, la, n)[Slot(lu, k)] = Slot(lu, k) % NChains
      BY <2>1, <3>1, <3>2, Zenon DEF ServedUsed
    <3>4. ServedChains(q, la, R, n)[Head(lu, k)] = R.answer[Head(lu, k)]
      BY <2>1, <3>1, <3>2, Zenon DEF ServedChains
    <3>5. Slot(lu, k) % NChains = Head(lu, k)
      BY ONLY <1>2, <2>1, HeadFacts
    <3> QED BY <1>9, <3>3, <3>4, <3>5, Zenon
  <2> QED BY <2>1, <2>2, <2>3
<1>13. 0 + (n + m) = n + m /\ n + m \in Nat /\ 0 .. 0 - 1 = {}
  BY ONLY n \in Nat, m \in Nat
<1>14. BlkRings(q2, la2, d, 0, n + m)
  <2>1. \A k \in 0 .. n + m - 1 : q2.used[Slot(lu, k)] = Head(lu, k)
    BY ONLY <1>12, Zenon
  <2>2. /\ n + m <= NChains /\ q2.used_idx = la2 /\ q2.avail_idx = Adv(la, n)
        /\ \A k \in 0 .. n + m - 1 : Head(lu, k) \in d.inflight
    BY ONLY <1>1, <1>9, Zenon DEF lu
  <2>3. q2.avail_idx = Adv(la2, 0)
    <3>1. la2 = Adv(la, n)
      BY DEF la2
    <3> QED BY ONLY <1>11, <2>2, <3>1
  <2> QED BY <1>11, <1>13, <2>1, <2>2, <2>3 DEF BlkRings, lu
<1>15. Answered(q2, d, R, n + m)
  <2>1. \A k \in 0 .. n + m - 1 : q2.chain[Head(lu, k)] = R.answer[Head(lu, k)]
    BY ONLY <1>12, Zenon
  <2> QED BY <2>1 DEF Answered, lu
<1>16. D[n] \in Disks /\ D[n] = R.disk
  BY <1>3 DEF Serves
<1> DEFINE E == [k \in 0 .. 0 |-> D[n]]
<1>17. E \in [0 .. 0 -> Disks] /\ E[0] = D[n]
  BY <1>16
<1> HIDE DEF E
<1>18. Serves(q2, la2, D[n], R, 0, E)
  BY <1>13, <1>16, <1>17 DEF Serves
<1>19. BlkOK(q2, la2, D[n], d, R, 0, n + m)
  BY <1>1, <1>10, <1>11, <1>14, <1>15, <1>16, <1>17, <1>18, Zenon DEF BlkOK
<1> QED BY <1>8, <1>19

-----------------------------------------------------------------------------
\* The block devices of all VMs.

BlkDevices == [ready : BOOLEAN, last_avail : Index, int_status : BOOLEAN, irq : BOOLEAN,
               host_off : Blocks, disk : Disks]

BlkTypes ==
  /\ vb \in [VMs -> BlkDevices] /\ \A vm \in VMs : vb[vm].host_off = PA[vm]
  /\ bram \in [Blocks -> BlkQueues]
  /\ bdrv \in [VMs -> BlkDrivers]
  /\ ref \in [VMs -> Refs]

OwnBlkOK(vm) ==
  \E n, m \in Nat :
    BlkOK(bram[PA[vm]], vb[vm].last_avail, vb[vm].disk, bdrv[vm], ref[vm], n, m)

BlkInv == BlkTypes /\ \A vm \in VMs : OwnBlkOK(vm)

(* Zeroed disks and empty queues. *)
LEMMA BlkInitInv == BlkInit => BlkInv
<1> SUFFICES ASSUME BlkInit PROVE BlkInv
  OBVIOUS
<1> DEFINE z == [c \in Cells |-> 0]
           a0 == [h \in Chains |-> IdleChain]
           q0 == [avail_idx |-> 0, avail |-> [s \in Ring |-> 0], used_idx |-> 0,
                  used |-> [s \in Ring |-> 0], chain |-> a0]
           d0 == [inflight |-> {}, last_used |-> 0]
           R0 == [disk |-> z, answer |-> a0]
           E == [k \in 0 .. 0 |-> z]
<1>1. /\ 0 \in Chains /\ 0 \in Index /\ 0 \in Bytes /\ \A vm \in VMs : PA[vm] \in Blocks
      /\ NChains \in Nat
  BY VirtqueueAssumption, VirtioBlkAssumption DEF Chains, Index
<1>2. IdleChain \in ChainRecs
  BY IdleIsChain
<1>3. z \in Disks /\ a0 \in [Chains -> ChainRecs]
  BY <1>1, <1>2 DEF Disks
<1> HIDE DEF z, a0
<1>4. /\ q0 \in BlkQueues /\ q0.used_idx = 0 /\ q0.avail_idx = 0
  BY <1>1, <1>3 DEF BlkQueues
<1>5. d0 \in BlkDrivers /\ d0.last_used = 0
  BY <1>1 DEF BlkDrivers
<1>6. R0 \in Refs /\ R0.disk = z
  BY <1>3 DEF Refs
<1>7. E \in [0 .. 0 -> Disks] /\ E[0] = z
  BY <1>3
<1>8. \A vm \in VMs : /\ vb[vm].last_avail = 0 /\ vb[vm].disk = z /\ vb[vm].host_off = PA[vm]
                      /\ vb[vm] \in BlkDevices
  BY <1>1, <1>3 DEF BlkInit, BlkDevices, z
<1>9. \A vm \in VMs : bram[PA[vm]] = q0 /\ bdrv[vm] = d0 /\ ref[vm] = R0
  BY <1>1, Zenon DEF BlkInit, z, a0
<1>10. BlkTypes
  <2>1. vb \in [VMs -> BlkDevices]
    BY <1>8 DEF BlkInit
  <2>2. bram \in [Blocks -> BlkQueues]
    BY <1>4 DEF BlkInit, a0
  <2>3. bdrv \in [VMs -> BlkDrivers]
    BY <1>5, Zenon DEF BlkInit
  <2>4. ref \in [VMs -> Refs]
    BY <1>6 DEF BlkInit, z, a0
  <2> QED BY <1>8, <2>1, <2>2, <2>3, <2>4 DEF BlkTypes
<1> HIDE DEF q0, d0, R0, E
<1>11. 0 .. 0 - 1 = {} /\ 0 + 0 = 0 /\ 0 \in Nat /\ 0 + 0 <= NChains
  BY <1>1
<1>12. Adv(0, 0) = 0
  BY ONLY <1>1, 0 \in Nat, AdvFacts
<1>13. BlkRings(q0, 0, d0, 0, 0)
  BY <1>4, <1>5, <1>11, <1>12 DEF BlkRings
<1>14. Answered(q0, d0, R0, 0) /\ Serves(q0, 0, z, R0, 0, E)
  BY <1>6, <1>7, <1>11 DEF Answered, Serves
<1>15. BlkOK(q0, 0, z, d0, R0, 0, 0)
  BY <1>1, <1>3, <1>4, <1>5, <1>6, <1>7, <1>13, <1>14 DEF BlkOK
<1> QED BY <1>8, <1>9, <1>10, <1>11, <1>15, Zenon DEF BlkInv, OwnBlkOK

(* A step of one VM's device or driver, in that VM's RAM. *)
LEMMA BlkOneVM ==
  ASSUME BlkInv, NEW vm \in VMs, NEW b2 \in BlkDevices, b2.host_off = PA[vm],
         NEW q2, NEW d2, NEW R2, NEW n \in Nat, NEW m \in Nat,
         BlkOK(q2, b2.last_avail, b2.disk, d2, R2, n, m),
         vb' = [vb EXCEPT ![vm] = b2], bram' = [bram EXCEPT ![PA[vm]] = q2],
         bdrv' = [bdrv EXCEPT ![vm] = d2], ref' = [ref EXCEPT ![vm] = R2]
  PROVE  BlkInv'
<1>1. q2 \in BlkQueues /\ d2 \in BlkDrivers /\ R2 \in Refs
  BY DEF BlkOK
<1>2. PA[vm] \in Blocks /\ \A w \in VMs \ {vm} : PA[w] # PA[vm]
  BY VirtqueueAssumption
<1>3. BlkTypes
  BY DEF BlkInv
<1>4. /\ vb'[vm] = b2 /\ bram'[PA[vm]] = q2 /\ bdrv'[vm] = d2 /\ ref'[vm] = R2
  BY <1>2, <1>3, Zenon DEF BlkTypes
<1>5. \A w \in VMs \ {vm} : /\ vb'[w] = vb[w] /\ bram'[PA[w]] = bram[PA[w]]
                            /\ bdrv'[w] = bdrv[w] /\ ref'[w] = ref[w]
  BY <1>2, <1>3, VirtqueueAssumption DEF BlkTypes
<1>6. BlkTypes'
  <2>1. vb' \in [VMs -> BlkDevices]
    BY <1>3 DEF BlkTypes
  <2>2. bram' \in [Blocks -> BlkQueues] /\ bdrv' \in [VMs -> BlkDrivers] /\ ref' \in [VMs -> Refs]
    BY <1>1, <1>3, Zenon DEF BlkTypes
  <2>3. \A w \in VMs : vb'[w].host_off = PA[w]
    BY <1>3, <1>4, <1>5, Zenon DEF BlkTypes
  <2> QED BY <2>1, <2>2, <2>3 DEF BlkTypes
<1>7. OwnBlkOK(vm)'
  BY <1>4 DEF OwnBlkOK
<1>8. \A w \in VMs \ {vm} : OwnBlkOK(w)'
  BY <1>5 DEF BlkInv, OwnBlkOK
<1> QED BY <1>6, <1>7, <1>8, Zenon DEF BlkInv

(* How far an index is ahead is the number of requests it is ahead by. *)
LEMMA BlkCounted ==
  ASSUME NEW q, NEW la, NEW disk, NEW d, NEW R, NEW n \in Nat, NEW m \in Nat,
         BlkOK(q, la, disk, d, R, n, m)
  PROVE  Ahead(q.avail_idx, la) = n /\ (q.avail_idx = la => n = 0)
<1>1. la \in Index /\ n + m <= NChains /\ q.avail_idx = Adv(la, n)
  BY Zenon DEF BlkOK, BlkRings
<1>2. n \in Index /\ 0 \in Index
  BY <1>1, VirtqueueAssumption, VirtioBlkAssumption DEF Index
<1>3. Ahead(Adv(la, n), la) = n
  BY ONLY <1>1, <1>2, AheadAdv
<1>4. Ahead(Adv(la, 0), la) = 0
  BY ONLY <1>1, <1>2, AheadAdv
<1>5. Adv(la, 0) = la
  BY ONLY <1>1, 0 \in Nat, AdvFacts
<1> QED BY <1>1, <1>3, <1>4, <1>5

(* A notification. *)
LEMMA BlkNotifyStep ==
  ASSUME BlkInv, NEW vm \in VMs, BlkNotify(vm)
  PROVE  BlkInv'
<1>1. CASE ~vb[vm].ready
  BY <1>1, Zenon DEF BlkNotify, BlkInv, BlkTypes, OwnBlkOK
<1>2. CASE vb[vm].ready
  <2> DEFINE q == bram[PA[vm]]
             c == vb[vm]
             d == bdrv[vm]
             R == ref[vm]
  <2>1. PICK n \in Nat, m \in Nat : BlkOK(q, c.last_avail, c.disk, d, R, n, m)
    BY Zenon DEF BlkInv, OwnBlkOK
  <2>2. /\ vb \in [VMs -> BlkDevices] /\ c \in BlkDevices /\ c.host_off = PA[vm]
        /\ bdrv \in [VMs -> BlkDrivers] /\ ref \in [VMs -> Refs]
    BY Zenon DEF BlkInv, BlkTypes
  <2>3. Ahead(q.avail_idx, c.last_avail) = n
    BY <2>1, BlkCounted
  <2> DEFINE s == AfterTurns([last_avail |-> c.last_avail, disk |-> c.disk, q |-> q], n)
             is == c.int_status \/ n > 0
             iq == c.irq \/ n > 0
             c2 == [c EXCEPT !.disk = s.disk, !.last_avail = s.last_avail, !.int_status = is,
                             !.irq = iq]
  <2>4. vblk_process(vm) /\ bdrv' = bdrv /\ ref' = ref
    BY <1>2 DEF BlkNotify
  <2>5. bram' = [bram EXCEPT ![PA[vm]] = s.q]
    BY <2>2, <2>3, <2>4, Zenon DEF vblk_process
  <2>6. vb' = [vb EXCEPT ![vm].disk = s.disk, ![vm].last_avail = s.last_avail,
                         ![vm].int_status = @ \/ n > 0, ![vm].irq = @ \/ n > 0]
    BY <2>2, <2>3, <2>4, Zenon DEF vblk_process
  <2>7. vb' = [vb EXCEPT ![vm] = [@ EXCEPT !.disk = s.disk, !.last_avail = s.last_avail,
                                           !.int_status = is, !.irq = iq]]
    BY <2>2, <2>6, Zenon
  <2>8. BlkOK(s.q, s.last_avail, s.disk, d, R, 0, n + m) /\ 0 \in Nat /\ n + m \in Nat
    <3> HIDE DEF q, c, d, R
    <3>1. BlkOK(s.q, s.last_avail, s.disk, d, R, 0, n + m)
      BY <2>1, BlkServeStep, Zenon
    <3> QED BY <3>1
  <2>9. is \in BOOLEAN /\ iq \in BOOLEAN
    OBVIOUS
  <2>10. s.last_avail \in Index /\ s.disk \in Disks
    BY <2>8, Zenon DEF BlkOK
  <2> HIDE DEF s, is, iq
  <2>11. c2 \in BlkDevices
    BY <2>2, <2>9, <2>10, Zenon DEF BlkDevices
  <2>12. c2.host_off = PA[vm] /\ c2.last_avail = s.last_avail /\ c2.disk = s.disk
    BY <2>2 DEF BlkDevices
  <2>13. vb' = [vb EXCEPT ![vm] = c2]
    BY <2>7
  <2>14. bdrv' = [bdrv EXCEPT ![vm] = d] /\ ref' = [ref EXCEPT ![vm] = R]
    BY <2>2, <2>4
  <2> HIDE DEF q, c, c2, d, R
  <2>15. BlkOK(s.q, c2.last_avail, c2.disk, d, R, 0, n + m)
    BY <2>8, <2>12, Zenon
  <2> QED BY <2>5, <2>8, <2>11, <2>12, <2>13, <2>14, <2>15, BlkOneVM, Zenon
<1> QED BY <1>1, <1>2

(* The other registers, and the loop's vblk_take_irq. *)
LEMMA BlkRegisterStep ==
  ASSUME BlkInv, NEW vm \in VMs,
         BlkInterruptAck(vm) \/ BlkSetUpQueue(vm) \/ vblk_take_irq(vm)
  PROVE  BlkInv'
<1>1. UNCHANGED <<bram, bdrv, ref>>
  BY DEF BlkInterruptAck, BlkSetUpQueue, vblk_take_irq
<1>2. \/ vb' = [vb EXCEPT ![vm].int_status = FALSE]
      \/ vb' = [vb EXCEPT ![vm].ready = TRUE]
      \/ vb' = [vb EXCEPT ![vm].irq = FALSE]
  BY DEF BlkInterruptAck, BlkSetUpQueue, vblk_take_irq
<1>3. vb \in [VMs -> BlkDevices] /\ vb[vm] \in BlkDevices
  BY DEF BlkInv, BlkTypes
<1>4. vb' \in [VMs -> BlkDevices]
  <2>1. /\ [vb[vm] EXCEPT !.int_status = FALSE] \in BlkDevices
        /\ [vb[vm] EXCEPT !.ready = TRUE] \in BlkDevices
        /\ [vb[vm] EXCEPT !.irq = FALSE] \in BlkDevices
    BY <1>3, Zenon DEF BlkDevices
  <2>2. \E c \in BlkDevices : vb' = [vb EXCEPT ![vm] = c]
    BY <1>2, <2>1, Zenon
  <2> QED BY <1>3, <2>2
<1>5. \A w \in VMs : /\ vb'[w].host_off = vb[w].host_off /\ vb'[w].last_avail = vb[w].last_avail
                     /\ vb'[w].disk = vb[w].disk
  BY <1>2, <1>3 DEF BlkDevices
<1>6. BlkTypes'
  BY <1>1, <1>4, <1>5, Zenon DEF BlkInv, BlkTypes
<1>7. \A w \in VMs : OwnBlkOK(w)'
  BY <1>1, <1>5, Zenon DEF BlkInv, OwnBlkOK
<1> QED BY <1>6, <1>7 DEF BlkInv

(* The driver. *)
LEMMA BlkDriverQueues ==
  ASSUME BlkInv, NEW vm \in VMs, NEW r \in Requests, BlkQueue(vm, r)
  PROVE  BlkInv'
<1> DEFINE q == bram[PA[vm]]
           c == vb[vm]
           d == bdrv[vm]
           R == ref[vm]
           h == q.avail_idx % NChains
           q2 == [q EXCEPT !.chain[h] = r, !.avail[q.avail_idx % QueueNum] = h,
                           !.avail_idx = Adv(@, 1)]
           d2 == [d EXCEPT !.inflight = @ \union {h}]
           R2 == [R EXCEPT !.disk = RefDisk(@, r), !.answer[h] = RefAnswer(R.disk, r)]
<1>1. PICK n \in Nat, m \in Nat : BlkOK(q, c.last_avail, c.disk, d, R, n, m)
  BY Zenon DEF BlkInv, OwnBlkOK
<1>2. /\ vb \in [VMs -> BlkDevices] /\ c \in BlkDevices /\ c.host_off = PA[vm]
      /\ bdrv \in [VMs -> BlkDrivers] /\ ref \in [VMs -> Refs]
  BY DEF BlkInv, BlkTypes
<1>3. r \in ChainRecs
  BY VirtioBlkAssumption DEF Requests, ChainRecs, ChainFields
<1>4. h \notin d.inflight /\ bram' = [bram EXCEPT ![PA[vm]] = q2]
  BY Zenon DEF BlkQueue
<1>5. bdrv' = [bdrv EXCEPT ![vm] = d2]
  BY <1>2, Zenon DEF BlkQueue
<1>6. ref' = [ref EXCEPT ![vm] = R2]
  BY <1>2, Zenon DEF BlkQueue
<1>7. vb' = [vb EXCEPT ![vm] = c]
  BY <1>2 DEF BlkQueue
<1>8. BlkOK(q2, c.last_avail, c.disk, d2, R2, n + 1, m) /\ n + 1 \in Nat
  <2> HIDE DEF q, c, d, R
  <2>1. BlkOK(q2, c.last_avail, c.disk, d2, R2, n + 1, m)
    BY <1>1, <1>3, <1>4, BlkQueueStep, Zenon
  <2> QED BY <2>1
<1> HIDE DEF q, c, d, R, h, q2, d2, R2
<1> QED BY <1>2, <1>4, <1>5, <1>6, <1>7, <1>8, BlkOneVM, Zenon

(* The driver takes a chain back, and what it finds. *)
LEMMA BlkDriverReclaims ==
  ASSUME BlkInv, NEW vm \in VMs, BlkReclaim(vm)
  PROVE  /\ BlkInv'
         /\ LET h == bram[PA[vm]].used[bdrv[vm].last_used % QueueNum]
            IN  h \in bdrv[vm].inflight /\ bram[PA[vm]].chain[h] = ref[vm].answer[h]
<1> DEFINE q == bram[PA[vm]]
           c == vb[vm]
           d == bdrv[vm]
           R == ref[vm]
           h == q.used[d.last_used % QueueNum]
           q2 == [q EXCEPT !.chain[h] = IdleChain]
           d2 == [d EXCEPT !.inflight = @ \ {h}, !.last_used = Adv(@, 1)]
           R2 == [R EXCEPT !.answer[h] = IdleChain]
<1>1. PICK n \in Nat, m \in Nat : BlkOK(q, c.last_avail, c.disk, d, R, n, m)
  BY DEF BlkInv, OwnBlkOK
<1>2. /\ vb \in [VMs -> BlkDevices] /\ c \in BlkDevices /\ c.host_off = PA[vm]
      /\ bdrv \in [VMs -> BlkDrivers] /\ ref \in [VMs -> Refs] /\ bram \in [Blocks -> BlkQueues]
      /\ PA[vm] \in Blocks
  BY VirtqueueAssumption DEF BlkInv, BlkTypes
<1>3. d.last_used # q.used_idx
  BY Zenon DEF BlkReclaim
<1>4. bram' = [bram EXCEPT ![PA[vm]] = q2]
  BY <1>2, Zenon DEF BlkReclaim
<1>5. bdrv' = [bdrv EXCEPT ![vm] = d2]
  BY <1>2, Zenon DEF BlkReclaim
<1>6. ref' = [ref EXCEPT ![vm] = R2]
  BY <1>2, Zenon DEF BlkReclaim
<1>7. vb' = [vb EXCEPT ![vm] = c]
  BY <1>2, Zenon DEF BlkReclaim
<1>8. /\ h \in d.inflight /\ q.chain[h] = R.answer[h]
      /\ \E p \in Nat : BlkOK(q2, c.last_avail, c.disk, d2, R2, n, p)
  <2> HIDE DEF q, c, d, R
  <2> QED BY <1>1, <1>3, BlkReclaimStep, Zenon
<1>9. PICK p \in Nat : BlkOK(q2, c.last_avail, c.disk, d2, R2, n, p)
  BY <1>8, Zenon
<1>10. BlkInv'
  <2> HIDE DEF q, c, d, R, h, q2, d2, R2
  <2> QED BY <1>2, <1>4, <1>5, <1>6, <1>7, <1>9, BlkOneVM, Zenon
<1> QED BY <1>8, <1>10, Zenon

(* The block devices and their drivers keep the invariant. *)
LEMMA BlkInvariant == BlkSpec => []BlkInv
<1>1. BlkInv /\ [BlkNext]_blkvars => BlkInv'
  <2> SUFFICES ASSUME BlkInv, [BlkNext]_blkvars PROVE BlkInv'
    OBVIOUS
  <2>1. CASE UNCHANGED blkvars
    BY <2>1, Zenon DEF blkvars, BlkInv, BlkTypes, OwnBlkOK
  <2>2. CASE BlkNext
    BY <2>2, BlkNotifyStep, BlkRegisterStep, BlkDriverQueues, BlkDriverReclaims, Zenon DEF BlkNext
  <2> QED BY <2>1, <2>2
<1> QED BY <1>1, BlkInitInv, PTL DEF BlkSpec

(* The driver finds in every completed chain what a disk that serves the requests
   one by one would have answered, for any disk, queue, batch and word size and
   every request whose bytes do not run across the end of the 64-bit addresses
   (Defined): vvirtio.c:221 compares the wrapped sum, and takes such a one as in
   range. *)
THEOREM BlkAnswersAsDisk == BlkSpec => AnswersAsDisk
<1>1. BlkInv => \A vm \in VMs : BlkReclaim(vm) =>
        LET h == bram[PA[vm]].used[bdrv[vm].last_used % QueueNum]
        IN  h \in bdrv[vm].inflight /\ bram[PA[vm]].chain[h] = ref[vm].answer[h]
  BY BlkDriverReclaims, Zenon
<1> QED BY <1>1, BlkInvariant, PTL DEF AnswersAsDisk

(* With every request served, each VM's disk holds that VM's own accepted writes
   and nothing else, under the same restriction to requests that do not run
   across the end of the 64-bit addresses (Defined). *)
THEOREM BlkDiskIsOwnWrites == BlkSpec => []DiskIsOwnWrites
<1>1. BlkInv => DiskIsOwnWrites
  <2> SUFFICES ASSUME BlkInv, NEW vm \in VMs, vb[vm].last_avail = bram[PA[vm]].avail_idx
               PROVE  vb[vm].disk = ref[vm].disk
    BY Zenon DEF DiskIsOwnWrites
  <2>1. PICK n \in Nat, m \in Nat :
          BlkOK(bram[PA[vm]], vb[vm].last_avail, vb[vm].disk, bdrv[vm], ref[vm], n, m)
    BY DEF BlkInv, OwnBlkOK
  <2>2. n = 0
    BY <2>1, BlkCounted
  <2> QED BY <2>1, <2>2, Zenon DEF BlkOK, Serves
<1> QED BY <1>1, BlkInvariant, PTL
=============================================================================
