-------------------------- MODULE VirtqueueProofs ---------------------------
(***************************************************************************)
(* Proofs about the queues of the virtio devices: the arithmetic of ring   *)
(* indices (Virtqueue), and the invariant of one console's queue, which    *)
(* every step of the device and of the driver preserves (VirtioConsole).   *)
(***************************************************************************)
EXTENDS VirtioConsole, FiniteSetTheorems, TLAPS

-----------------------------------------------------------------------------
\* Remainders.

(* A remainder is smaller than the modulus, and with the quotient gives the
   number back. *)
LEMMA DivMod ==
  ASSUME NEW M \in Nat \ {0}, NEW a \in Nat
  PROVE  a % M \in 0 .. M - 1 /\ (a \div M) \in Nat /\ a = M * (a \div M) + (a % M)
<1>1. a % M \in 0 .. M - 1
  OBVIOUS
<1>2. (a \div M) \in Nat
  OBVIOUS
<1>3. a = M * (a \div M) + (a % M)
  OBVIOUS
<1> QED BY <1>1, <1>2, <1>3

(* A small enough rest is the remainder. *)
LEMMA ModUnique ==
  ASSUME NEW M \in Nat \ {0}, NEW q \in Nat, NEW r \in 0 .. M - 1
  PROVE  (M * q + r) % M = r
OBVIOUS

(* A small number is its own remainder. *)
LEMMA ModSmall ==
  ASSUME NEW M \in Nat \ {0}, NEW r \in 0 .. M - 1
  PROVE  r % M = r
OBVIOUS

(* Taking the remainder early does not change a sum's. *)
LEMMA ModAdd ==
  ASSUME NEW M \in Nat \ {0}, NEW a \in Nat, NEW b \in Nat
  PROVE  ((a % M) + b) % M = (a + b) % M
<1> DEFINE qa == a \div M
           ra == a % M
           qb == (ra + b) \div M
           rb == (ra + b) % M
<1>1. ra \in Nat /\ qa \in Nat /\ a = M * qa + ra
  BY DivMod
<1> HIDE DEF qa, ra
<1>2. ra + b \in Nat
  BY <1>1
<1>3. rb \in 0 .. M - 1 /\ qb \in Nat /\ ra + b = M * qb + rb
  BY <1>2, DivMod, Zenon
<1> HIDE DEF qb, rb
<1>4. a + b = M * (qa + qb) + rb /\ qa + qb \in Nat
  BY <1>1, <1>3
<1>5. (M * (qa + qb) + rb) % M = rb
  BY <1>3, <1>4, ModUnique, Zenon
<1>6. (a + b) % M = rb
  BY <1>4, <1>5
<1> QED BY <1>6 DEF ra, rb

(* Remainders of a multiple of the modulus. *)
LEMMA ModMod ==
  ASSUME NEW M \in Nat \ {0}, NEW Q \in Nat \ {0}, M % Q = 0, NEW a \in Nat
  PROVE  (a % M) % Q = a % Q
<1> DEFINE p == M \div Q
           qa == a \div M
           ra == a % M
           qb == ra \div Q
           rb == ra % Q
<1>1. p \in Nat /\ M = Q * p
  BY DivMod
<1>2. ra \in Nat /\ qa \in Nat /\ a = M * qa + ra
  BY DivMod
<1> HIDE DEF p, qa, ra
<1>3. rb \in 0 .. Q - 1 /\ qb \in Nat /\ ra = Q * qb + rb
  BY <1>2, DivMod, Zenon
<1> HIDE DEF qb, rb
<1>4. p * qa \in Nat /\ p * qa + qb \in Nat
  BY <1>1, <1>2, <1>3
<1>5. M * qa = Q * (p * qa)
  BY <1>1, <1>2
<1>6. a = Q * (p * qa) + Q * qb + rb
  BY <1>2, <1>3, <1>5
<1>7. Q * (p * qa) + Q * qb = Q * (p * qa + qb)
  BY <1>3, <1>4
<1>8. a = Q * (p * qa + qb) + rb
  BY <1>6, <1>7
<1>9. (Q * (p * qa + qb) + rb) % Q = rb
  BY <1>3, <1>4, ModUnique, Zenon
<1> QED BY <1>8, <1>9 DEF rb, ra

(* Numbers less than the modulus apart have different remainders. *)
LEMMA ModApart ==
  ASSUME NEW M \in Nat \ {0}, NEW a \in Nat, NEW d \in 1 .. M - 1
  PROVE  (a + d) % M # a % M
<1> DEFINE r == a % M
<1>0. d \in Nat
  OBVIOUS
<1>1. r \in 0 .. M - 1 /\ (r + d) % M = (a + d) % M
  BY <1>0, DivMod, ModAdd, Zenon
<1> HIDE DEF r
<1>2. CASE r + d < M
  <2>1. (r + d) % M = r + d
    BY <1>1, <1>2, ModSmall
  <2> QED BY <1>1, <2>1 DEF r
<1>3. CASE r + d >= M
  <2>1. r + d = M * 1 + (r + d - M) /\ r + d - M \in 0 .. M - 1
    BY <1>1, <1>3
  <2>2. (r + d) % M = r + d - M
    BY <2>1, ModUnique
  <2> QED BY <1>1, <2>2 DEF r
<1> QED BY <1>1, <1>2, <1>3

-----------------------------------------------------------------------------
\* Ring indices.

Index == 0 .. IdxMod - 1

\* The slot of the k-th index after i.
Slot(i, k) == Adv(i, k) % QueueNum

(* Indices stay in range, and advance one by one or at once. *)
LEMMA AdvFacts ==
  ASSUME NEW i \in Index, NEW a \in Nat, NEW b \in Nat
  PROVE  /\ Adv(i, a) \in Index
         /\ Adv(Adv(i, a), b) = Adv(i, a + b)
         /\ Adv(i, 0) = i
<1> USE VirtqueueAssumption
<1>1. i \in Nat /\ i + a \in Nat
  BY DEF Index
<1>2. (i + a) % IdxMod \in Index
  BY <1>1, DivMod DEF Index
<1>3. (((i + a) % IdxMod) + b) % IdxMod = ((i + a) + b) % IdxMod
  BY <1>1, ModAdd, Zenon
<1>4. (i + 0) % IdxMod = i
  BY ModSmall DEF Index
<1> QED BY <1>1, <1>2, <1>3, <1>4 DEF Adv

(* An index advanced n times is n ahead. *)
LEMMA AheadAdv ==
  ASSUME NEW i \in Index, NEW n \in Index
  PROVE  Ahead(Adv(i, n), i) = n
<1> USE VirtqueueAssumption
<1>1. CASE i + n < IdxMod
  <2>1. (i + n) % IdxMod = i + n
    BY <1>1, ModSmall DEF Index
  <2>2. i + n + IdxMod - i = IdxMod * 1 + n
    BY DEF Index
  <2>3. (IdxMod * 1 + n) % IdxMod = n
    BY ModUnique DEF Index
  <2> QED BY <2>1, <2>2, <2>3 DEF Ahead, Adv
<1>2. CASE i + n >= IdxMod
  <2>1. i + n = IdxMod * 1 + (i + n - IdxMod) /\ i + n - IdxMod \in 0 .. IdxMod - 1
    BY <1>2 DEF Index
  <2>2. (i + n) % IdxMod = i + n - IdxMod
    BY <2>1, ModUnique
  <2>3. (i + n - IdxMod) + IdxMod - i = n
    BY DEF Index
  <2>4. n % IdxMod = n
    BY ModSmall DEF Index
  <2> QED BY <2>2, <2>3, <2>4 DEF Ahead, Adv
<1> QED BY <1>1, <1>2 DEF Index

(* Slots are entries of the ring; those of a window of at most QueueNum
   indices are different, also where the index wraps. *)
LEMMA SlotFacts ==
  ASSUME NEW i \in Index, NEW a \in Nat, NEW b \in Nat
  PROVE  /\ Slot(i, a) \in Ring
         /\ Slot(Adv(i, a), b) = Slot(i, a + b)
         /\ Slot(i, 0) = i % QueueNum
         /\ Adv(i, a) % QueueNum = Slot(i, a)
         /\ a < b /\ b - a < QueueNum => Slot(i, a) # Slot(i, b)
<1> USE VirtqueueAssumption
<1>1. i \in Nat /\ i + a \in Nat /\ i + b \in Nat
  BY DEF Index
<1>2. Slot(i, a) = (i + a) % QueueNum /\ Slot(i, b) = (i + b) % QueueNum
  BY <1>1, ModMod, Zenon DEF Slot, Adv
<1>3. Slot(i, a) \in Ring
  BY <1>1, <1>2, DivMod DEF Ring
<1>4. a < b /\ b - a < QueueNum => (i + a) % QueueNum # (i + b) % QueueNum
  <2> SUFFICES ASSUME a < b, b - a < QueueNum PROVE (i + a) % QueueNum # (i + b) % QueueNum
    OBVIOUS
  <2>1. b - a \in 1 .. QueueNum - 1 /\ i + b = (i + a) + (b - a)
    BY <1>1
  <2> QED BY <1>1, <2>1, ModApart, Zenon
<1>5. Adv(Adv(i, a), b) = Adv(i, a + b) /\ Adv(i, 0) = i
  BY AdvFacts
<1> QED BY <1>2, <1>3, <1>4, <1>5 DEF Slot

-----------------------------------------------------------------------------
\* The console's queue of one VM: the queue q, the device's last_avail la and
\* last buffer printed p, the driver's state d.  n buffers are to be printed and
\* m completed ones to be reclaimed; these n + m are the descriptors in flight.

Queues == [avail_idx : Index, avail : [Ring -> Ring], desc : [Ring -> 0 .. BufMod - 1],
           used_idx : Index, used : [Ring -> Ring]]
Drivers == [inflight : SUBSET Ring, last_used : Index, queued : 0 .. BufMod - 1]

ToPrint(q, la, k) == q.avail[Slot(la, k)]
ToReclaim(q, d, k) == q.used[Slot(d.last_used, k)]

Counted(q, la, d, n, m) ==
  /\ n \in 0 .. QueueNum /\ m \in 0 .. QueueNum
  /\ q.avail_idx = Adv(la, n)
  /\ q.used_idx = Adv(d.last_used, m)
  /\ Cardinality(d.inflight) = n + m

InFlightOnce(q, la, d, n, m) ==
  /\ \A k \in 0 .. n - 1 : ToPrint(q, la, k) \in d.inflight
  /\ \A k \in 0 .. m - 1 : ToReclaim(q, d, k) \in d.inflight
  /\ \A j, k \in 0 .. n - 1 : ToPrint(q, la, j) = ToPrint(q, la, k) => j = k
  /\ \A j, k \in 0 .. m - 1 : ToReclaim(q, d, j) = ToReclaim(q, d, k) => j = k
  /\ \A j \in 0 .. n - 1, k \in 0 .. m - 1 : ToPrint(q, la, j) # ToReclaim(q, d, k)

Numbered(q, la, d, p, n) ==
  /\ (p + n) % BufMod = d.queued
  /\ \A k \in 0 .. n - 1 : q.desc[ToPrint(q, la, k)] = (p + 1 + k) % BufMod

QueueOK(q, la, d, p, n, m) ==
  /\ q \in Queues /\ la \in Index /\ d \in Drivers /\ p \in 0 .. BufMod - 1
  /\ Counted(q, la, d, n, m)
  /\ InFlightOnce(q, la, d, n, m)
  /\ Numbered(q, la, d, p, n)

(* At most QueueNum descriptors are in flight, fewer if one is free. *)
LEMMA InFlightBound ==
  ASSUME NEW S \in SUBSET Ring
  PROVE  /\ IsFiniteSet(S) /\ Cardinality(S) \in 0 .. QueueNum
         /\ \A x \in Ring \ S : Cardinality(S \union {x}) = Cardinality(S) + 1
         /\ \A x \in Ring \ S : Cardinality(S) < QueueNum
         /\ \A x \in S : Cardinality(S \ {x}) = Cardinality(S) - 1
<1> USE VirtqueueAssumption
<1>1. IsFiniteSet(Ring) /\ Cardinality(Ring) = QueueNum
  BY FS_Interval DEF Ring
<1>2. IsFiniteSet(S) /\ Cardinality(S) <= QueueNum /\ Cardinality(S) \in Nat
  BY <1>1, FS_Subset, FS_CardinalityType
<1>3. \A x \in Ring \ S : Cardinality(S \union {x}) = Cardinality(S) + 1
  BY <1>2, FS_AddElement, Zenon
<1>4. \A x \in Ring \ S : Cardinality(S) < QueueNum
  BY <1>1, <1>2, FS_Subset
<1>5. \A x \in S : Cardinality(S \ {x}) = Cardinality(S) - 1
  BY <1>2, FS_RemoveElement, Zenon
<1> QED BY <1>2, <1>3, <1>4, <1>5

(* The driver queues a free descriptor: one more to print, with the next
   number. *)
LEMMA QueueStep ==
  ASSUME NEW q, NEW la, NEW d, NEW p, NEW n, NEW m, QueueOK(q, la, d, p, n, m),
         NEW x \in Ring, x \notin d.inflight, NEW b, b = (d.queued + 1) % BufMod,
         NEW q2, q2 = [q EXCEPT !.desc[x] = b,
                                !.avail[q.avail_idx % QueueNum] = x,
                                !.avail_idx = Adv(@, 1)],
         NEW d2, d2 = [d EXCEPT !.inflight = @ \union {x}, !.queued = b]
  PROVE  QueueOK(q2, la, d2, p, n + 1, m)
<1> USE VirtqueueAssumption, VirtioConsoleAssumption
<1>1. /\ q \in Queues /\ la \in Index /\ d \in Drivers /\ p \in 0 .. BufMod - 1
      /\ Counted(q, la, d, n, m) /\ InFlightOnce(q, la, d, n, m) /\ Numbered(q, la, d, p, n)
  BY DEF QueueOK
<1>2. n \in Nat /\ m \in Nat /\ n + m < QueueNum /\ q.avail_idx = Adv(la, n)
  BY <1>1, InFlightBound DEF Counted, Drivers
<1>0. BufMod \in Nat \ {0} /\ d.queued + 1 \in Nat /\ 1 \in Nat /\ p + n \in Nat
  BY <1>1, <1>2 DEF Drivers
<1>3. b \in 0 .. BufMod - 1
  BY <1>0, DivMod, Zenon
<1>4. /\ q.avail_idx % QueueNum = Slot(la, n)
      /\ Adv(q.avail_idx, 1) = Adv(la, n + 1) /\ Adv(la, n + 1) \in Index
      /\ Slot(la, n) \in Ring
  <2>1. q.avail_idx % QueueNum = Slot(la, n) /\ Slot(la, n) \in Ring
    BY <1>1, <1>2, SlotFacts
  <2>2. Adv(Adv(la, n), 1) = Adv(la, n + 1)
    <3>1. la \in Index /\ n \in Nat /\ 1 \in Nat
      BY <1>1, <1>2
    <3> QED BY ONLY <3>1, AdvFacts
  <2>3. n + 1 \in Nat
    BY <1>2
  <2>4. Adv(la, n + 1) \in Index
    BY <1>1, <2>3, AdvFacts
  <2> QED BY <1>2, <2>1, <2>2, <2>4
<1>5. /\ q2 \in Queues
      /\ q2.avail_idx = Adv(la, n + 1) /\ q2.used_idx = q.used_idx /\ q2.used = q.used
      /\ q2.avail = [q.avail EXCEPT ![Slot(la, n)] = x] /\ q2.desc = [q.desc EXCEPT ![x] = b]
  BY <1>1, <1>3, <1>4, Zenon DEF Queues
<1>6. /\ d2 \in Drivers
      /\ d2.inflight = d.inflight \union {x} /\ d2.last_used = d.last_used /\ d2.queued = b
  BY <1>1, <1>3, Zenon DEF Drivers
<1>7. \A k \in 0 .. n - 1 : Slot(la, k) \in Ring /\ Slot(la, k) # Slot(la, n)
  <2> SUFFICES ASSUME NEW k \in 0 .. n - 1
               PROVE  Slot(la, k) \in Ring /\ Slot(la, k) # Slot(la, n)
    OBVIOUS
  <2>1. la \in Index /\ k \in Nat /\ n \in Nat /\ k < n /\ n - k < QueueNum
    BY <1>1, <1>2
  <2> QED BY ONLY <2>1, SlotFacts
<1>8. /\ \A k \in 0 .. n - 1 : ToPrint(q2, la, k) = ToPrint(q, la, k)
      /\ ToPrint(q2, la, n) = x
  BY <1>1, <1>4, <1>5, <1>7 DEF ToPrint, Queues
<1>9. \A k \in 0 .. m - 1 : ToReclaim(q2, d2, k) = ToReclaim(q, d, k)
  BY <1>5, <1>6 DEF ToReclaim
<1>10. Counted(q2, la, d2, n + 1, m)
  <2>1. Cardinality(d2.inflight) = Cardinality(d.inflight) + 1
    BY <1>1, <1>6, InFlightBound DEF Drivers
  <2> QED BY <1>1, <1>2, <1>5, <1>6, <2>1 DEF Counted
<1>11. InFlightOnce(q2, la, d2, n + 1, m)
  <2> DEFINE P(k) == ToPrint(q, la, k)
             P2(k) == ToPrint(q2, la, k)
             C(k) == ToReclaim(q, d, k)
             C2(k) == ToReclaim(q2, d2, k)
  <2>1. /\ \A k \in 0 .. n - 1 : P(k) \in d.inflight
        /\ \A k \in 0 .. m - 1 : C(k) \in d.inflight
        /\ \A j, k \in 0 .. n - 1 : P(j) = P(k) => j = k
        /\ \A j, k \in 0 .. m - 1 : C(j) = C(k) => j = k
        /\ \A j \in 0 .. n - 1, k \in 0 .. m - 1 : P(j) # C(k)
    BY <1>1 DEF InFlightOnce
  <2>2. /\ \A k \in 0 .. n - 1 : P2(k) = P(k)
        /\ P2(n) = x
        /\ \A k \in 0 .. m - 1 : C2(k) = C(k)
    BY <1>8, <1>9
  <2> HIDE DEF P, P2, C, C2
  <2>3. \A k \in 0 .. (n + 1) - 1 : k \in 0 .. n - 1 \/ k = n
    BY <1>2
  <2>4. /\ \A k \in 0 .. (n + 1) - 1 : P2(k) \in d2.inflight
        /\ \A k \in 0 .. m - 1 : C2(k) \in d2.inflight
        /\ \A j, k \in 0 .. (n + 1) - 1 : P2(j) = P2(k) => j = k
        /\ \A j, k \in 0 .. m - 1 : C2(j) = C2(k) => j = k
        /\ \A j \in 0 .. (n + 1) - 1, k \in 0 .. m - 1 : P2(j) # C2(k)
    BY <1>6, <2>1, <2>2, <2>3
  <2> QED BY <2>4 DEF P2, C2, InFlightOnce
<1>12. Numbered(q2, la, d2, p, n + 1)
  <2>1. (((p + n) % BufMod) + 1) % BufMod = (p + n + 1) % BufMod
    BY <1>0, ModAdd, Zenon
  <2>2. b = (p + n + 1) % BufMod
    BY <1>1, <2>1 DEF Numbered
  <2>3. \A k \in 0 .. n - 1 : ToPrint(q, la, k) \in Ring /\ ToPrint(q, la, k) # x
    BY <1>1 DEF InFlightOnce, Drivers
  <2>4. \A k \in 0 .. n - 1 : q2.desc[ToPrint(q2, la, k)] = (p + 1 + k) % BufMod
    BY <1>1, <1>5, <1>8, <2>3 DEF Numbered, Queues
  <2>5. q2.desc[ToPrint(q2, la, n)] = b
    BY <1>1, <1>5, <1>8 DEF Queues
  <2>6. p + n + 1 = p + (n + 1) /\ p + n + 1 = p + 1 + n
    BY <1>1, <1>2
  <2>7. \A k \in 0 .. (n + 1) - 1 : k \in 0 .. n - 1 \/ k = n
    BY <1>2
  <2> QED BY <1>6, <2>2, <2>4, <2>5, <2>6, <2>7 DEF Numbered
<1> QED BY <1>1, <1>5, <1>6, <1>10, <1>11, <1>12 DEF QueueOK

(* The driver takes a completed descriptor back: the first to reclaim. *)
LEMMA ReclaimStep ==
  ASSUME NEW q, NEW la, NEW d, NEW p, NEW n, NEW m, QueueOK(q, la, d, p, n, m),
         d.last_used # q.used_idx,
         NEW d2, d2 = [d EXCEPT !.inflight = @ \ {q.used[d.last_used % QueueNum]},
                                !.last_used = Adv(@, 1)]
  PROVE  m - 1 \in Nat /\ QueueOK(q, la, d2, p, n, m - 1)
<1>1. /\ q \in Queues /\ la \in Index /\ d \in Drivers /\ p \in 0 .. BufMod - 1
      /\ Counted(q, la, d, n, m) /\ InFlightOnce(q, la, d, n, m) /\ Numbered(q, la, d, p, n)
  BY DEF QueueOK
<1>2. n \in 0 .. QueueNum /\ m \in 0 .. QueueNum /\ QueueNum \in Nat /\ n \in Nat /\ m \in Nat
  BY <1>1, VirtqueueAssumption DEF Counted
<1> DEFINE lu == d.last_used
           x == ToReclaim(q, d, 0)
<1>3. lu \in Index /\ 0 \in Nat /\ 1 \in Nat
  BY <1>1 DEF Drivers
<1>4. Adv(lu, 0) = lu /\ Adv(lu, 1) \in Index /\ Slot(lu, 0) = lu % QueueNum
  BY ONLY <1>3, AdvFacts, SlotFacts
<1>5. m # 0
  BY <1>1, <1>4 DEF Counted
<1>6. m - 1 \in Nat /\ m - 1 \in 0 .. QueueNum
  BY <1>2, <1>5
<1>7. Adv(Adv(lu, 1), m - 1) = Adv(lu, m)
  <2>1. Adv(Adv(lu, 1), m - 1) = Adv(lu, 1 + (m - 1))
    BY ONLY <1>3, <1>6, AdvFacts
  <2>2. 1 + (m - 1) = m
    BY <1>2
  <2> QED BY <2>1, <2>2
<1>8. \A k \in 0 .. (m - 1) - 1 : Slot(Adv(lu, 1), k) = Slot(lu, k + 1)
  <2> SUFFICES ASSUME NEW k \in Nat PROVE Slot(Adv(lu, 1), k) = Slot(lu, k + 1)
    BY <1>6
  <2>1. Slot(Adv(lu, 1), k) = Slot(lu, 1 + k)
    BY ONLY <1>3, SlotFacts, k \in Nat
  <2>2. 1 + k = k + 1
    OBVIOUS
  <2> QED BY <2>1, <2>2
<1>9. x \in d.inflight /\ q.used[lu % QueueNum] = x
  BY <1>1, <1>4, <1>5, <1>2 DEF InFlightOnce, ToReclaim
<1>10. d2 \in Drivers /\ d2.inflight = d.inflight \ {x} /\ d2.last_used = Adv(lu, 1)
       /\ d2.queued = d.queued
  BY <1>1, <1>4, <1>9, Zenon DEF Drivers
<1>11. \A k \in 0 .. (m - 1) - 1 : ToReclaim(q, d2, k) = ToReclaim(q, d, k + 1)
  BY <1>8, <1>10 DEF ToReclaim
<1>12. Counted(q, la, d2, n, m - 1)
  <2>1. Cardinality(d2.inflight) = Cardinality(d.inflight) - 1
    BY <1>1, <1>9, <1>10, InFlightBound DEF Drivers
  <2> QED BY <1>1, <1>2, <1>6, <1>7, <1>10, <2>1 DEF Counted
<1>13. InFlightOnce(q, la, d2, n, m - 1)
  <2> DEFINE P(k) == ToPrint(q, la, k)
             C(k) == ToReclaim(q, d, k)
             C2(k) == ToReclaim(q, d2, k)
  <2>1. /\ \A k \in 0 .. n - 1 : P(k) \in d.inflight
        /\ \A k \in 0 .. m - 1 : C(k) \in d.inflight
        /\ \A j, k \in 0 .. n - 1 : P(j) = P(k) => j = k
        /\ \A j, k \in 0 .. m - 1 : C(j) = C(k) => j = k
        /\ \A j \in 0 .. n - 1, k \in 0 .. m - 1 : P(j) # C(k)
    BY <1>1 DEF InFlightOnce
  <2>2. x = C(0) /\ \A k \in 0 .. (m - 1) - 1 : C2(k) = C(k + 1)
    BY <1>11
  <2> HIDE DEF P, C, C2, x
  <2>3. 0 \in 0 .. m - 1 /\ \A k \in 0 .. (m - 1) - 1 : k + 1 \in 0 .. m - 1 /\ k + 1 # 0
    BY <1>2, <1>5
  <2>4. /\ \A k \in 0 .. n - 1 : P(k) \in d2.inflight
        /\ \A k \in 0 .. (m - 1) - 1 : C2(k) \in d2.inflight
    BY <1>10, <2>1, <2>2, <2>3
  <2>5. \A j, k \in 0 .. (m - 1) - 1 : C2(j) = C2(k) => j = k
    <3> SUFFICES ASSUME NEW j \in 0 .. (m - 1) - 1, NEW k \in 0 .. (m - 1) - 1, C2(j) = C2(k)
                 PROVE  j = k
      OBVIOUS
    <3>1. j + 1 = k + 1
      BY <2>1, <2>2, <2>3
    <3> QED BY <3>1
  <2>6. \A j \in 0 .. n - 1, k \in 0 .. (m - 1) - 1 : P(j) # C2(k)
    BY <2>1, <2>2, <2>3
  <2> QED BY <2>1, <2>4, <2>5, <2>6 DEF P, C2, InFlightOnce
<1>14. Numbered(q, la, d2, p, n)
  BY <1>1, <1>10 DEF Numbered
<1> QED BY <1>1, <1>6, <1>10, <1>12, <1>13, <1>14 DEF QueueOK

(* A set of numbers below n has a greatest one. *)
LEMMA GreatestBelow ==
  ASSUME NEW n \in Nat, NEW S \in SUBSET (0 .. n - 1), S # {}
  PROVE  \E k \in S : \A m \in S : m <= k
<1> DEFINE T == {j \in Nat : n - 1 - j \in S}
<1>1. T \in SUBSET Nat /\ T # {}
  <2>1. PICK k \in S : TRUE
    OBVIOUS
  <2>2. n - 1 - k \in Nat /\ n - 1 - (n - 1 - k) = k
    OBVIOUS
  <2> QED BY <2>2
<1>2. PICK j \in T : \A i \in T : j <= i
  <2> DEFINE Before == OpToRel(<, Nat)
  <2>1. IsWellFoundedOn(Before, Nat)
    BY NatLessThanWellFounded
  <2>2. PICK j \in T : \A i \in T : ~(<<i, j>> \in Before)
    <3> HIDE DEF T, Before
    <3> QED BY <1>1, <2>1, WFMin, Zenon
  <2>3. \A i \in T : ~(i < j)
    BY <1>1, <2>2, Zenon DEF OpToRel
  <2> QED BY <1>1, <2>3
<1>3. \A m \in S : n - 1 - m \in T
  <2> SUFFICES ASSUME NEW m \in S PROVE n - 1 - m \in T
    OBVIOUS
  <2>1. n - 1 - m \in Nat /\ n - 1 - (n - 1 - m) = m
    OBVIOUS
  <2> QED BY <2>1
<1>4. n - 1 - j \in S /\ j \in Nat
  OBVIOUS
<1>5. \A m \in S : j <= n - 1 - m
  BY <1>2, <1>3
<1> HIDE DEF T
<1>6. \A m \in S : m <= n - 1 - j
  BY <1>4, <1>5
<1> QED BY <1>4, <1>6

(* The entry that stays in a used slot is one of those written to it. *)
LEMMA LastInFacts ==
  ASSUME NEW q, NEW n \in Nat, NEW s, \E j \in 0 .. n - 1 : Slot(q.used_idx, j) = s
  PROVE  LastIn(q, n, s) \in 0 .. n - 1 /\ Slot(q.used_idx, LastIn(q, n, s)) = s
<1> DEFINE S == {k \in 0 .. n - 1 : UsedSlot(q, k) = s}
<1>1. \A k : UsedSlot(q, k) = Slot(q.used_idx, k)
  BY DEF UsedSlot, Slot
<1>2. S \in SUBSET (0 .. n - 1) /\ S # {}
  BY <1>1
<1>3. \E k \in S : \A m \in S : m <= k
  <2> HIDE DEF S
  <2> QED BY <1>2, GreatestBelow
<1>4. \E k \in 0 .. n - 1 :
        UsedSlot(q, k) = s /\ \A m \in 0 .. n - 1 : UsedSlot(q, m) = s => m <= k
  BY <1>3
<1>5. LastIn(q, n, s) \in 0 .. n - 1 /\ UsedSlot(q, LastIn(q, n, s)) = s
  BY <1>4, Zenon DEF LastIn
<1> QED BY <1>1, <1>5

(* virtio_process_tx: all n buffers are printed in order and are to be
   reclaimed after the m that were. *)
LEMMA ProcessStep ==
  ASSUME NEW q, NEW la, NEW d, NEW p, NEW n, NEW m, QueueOK(q, la, d, p, n, m),
         NEW q2, q2 = [q EXCEPT
           !.used = [s \in Ring |->
              IF \E k \in 0 .. n - 1 : Slot(q.used_idx, k) = s
              THEN ToPrint(q, la, LastIn(q, n, s)) ELSE q.used[s]],
           !.used_idx = Adv(q.used_idx, n)],
         NEW p2, p2 = IF n = 0 THEN p ELSE q.desc[ToPrint(q, la, n - 1)]
  PROVE  QueueOK(q2, Adv(la, n), d, p2, 0, n + m)
<1>1. /\ q \in Queues /\ la \in Index /\ d \in Drivers /\ p \in 0 .. BufMod - 1
      /\ Counted(q, la, d, n, m) /\ InFlightOnce(q, la, d, n, m) /\ Numbered(q, la, d, p, n)
  BY DEF QueueOK
<1> DEFINE lu == d.last_used
           U(s) == IF \E k \in 0 .. n - 1 : Slot(q.used_idx, k) = s
                   THEN ToPrint(q, la, LastIn(q, n, s)) ELSE q.used[s]
<1>2. /\ QueueNum \in Nat \ {0} /\ n \in Nat /\ m \in Nat /\ n + m \in 0 .. QueueNum
      /\ q.used_idx = Adv(lu, m) /\ q.avail_idx = Adv(la, n) /\ lu \in Index
      /\ BufMod \in Nat \ {0} /\ 0 \in Nat
  BY <1>1, InFlightBound, VirtqueueAssumption, VirtioConsoleAssumption DEF Counted, Drivers
<1>3. /\ Adv(q.used_idx, n) = Adv(lu, n + m) /\ Adv(lu, n + m) \in Index
      /\ Adv(la, n) \in Index /\ Adv(Adv(la, n), 0) = Adv(la, n)
  <2>0. la \in Index /\ lu \in Index /\ n \in Nat /\ m \in Nat /\ 0 \in Nat
    BY ONLY <1>1, <1>2
  <2>1. Adv(Adv(lu, m), n) = Adv(lu, m + n) /\ Adv(la, n) \in Index
        /\ Adv(Adv(la, n), 0) = Adv(la, n)
    <3>1. Adv(Adv(lu, m), n) = Adv(lu, m + n)
      BY ONLY <2>0, AdvFacts, Zenon
    <3>2. Adv(la, n) \in Index
      BY ONLY <2>0, AdvFacts
    <3>3. Adv(Adv(la, n), 0) = Adv(la, n)
      BY ONLY <2>0, <3>2, AdvFacts
    <3> QED BY <3>1, <3>2, <3>3
  <2>2. m + n = n + m /\ m + n \in Nat
    BY <1>2
  <2>3. Adv(lu, m + n) \in Index
    BY ONLY <1>2, <2>2, AdvFacts
  <2> QED BY <1>2, <2>1, <2>2, <2>3
<1>4. \A k \in 0 .. n - 1 : Slot(q.used_idx, k) = Slot(lu, m + k)
  <2> SUFFICES ASSUME NEW k \in Nat PROVE Slot(Adv(lu, m), k) = Slot(lu, m + k)
    BY <1>2
  <2> QED BY ONLY <1>2, SlotFacts, k \in Nat
<1>5. \A j, k \in 0 .. (n + m) - 1 :
         Slot(lu, j) \in Ring /\ (Slot(lu, j) = Slot(lu, k) => j = k)
  <2> SUFFICES ASSUME NEW j \in 0 .. (n + m) - 1, NEW k \in 0 .. (n + m) - 1
               PROVE  Slot(lu, j) \in Ring /\ (Slot(lu, j) = Slot(lu, k) => j = k)
    OBVIOUS
  <2>1. j \in Nat /\ k \in Nat
    BY <1>2
  <2>2. Slot(lu, j) \in Ring
    BY ONLY <1>2, <2>1, SlotFacts
  <2>3. j < k => Slot(lu, j) # Slot(lu, k)
    <3>1. j < k => k - j < QueueNum
      BY <1>2
    <3> QED BY ONLY <1>2, <2>1, <3>1, SlotFacts
  <2>4. k < j => Slot(lu, j) # Slot(lu, k)
    <3>1. k < j => j - k < QueueNum
      BY <1>2
    <3> QED BY ONLY <1>2, <2>1, <3>1, SlotFacts
  <2> QED BY <2>1, <2>2, <2>3, <2>4
<1>6. \A j \in 0 .. m - 1 : U(Slot(lu, j)) = q.used[Slot(lu, j)]
  <2> SUFFICES ASSUME NEW j \in 0 .. m - 1
               PROVE  ~ \E k \in 0 .. n - 1 : Slot(q.used_idx, k) = Slot(lu, j)
    OBVIOUS
  <2> SUFFICES ASSUME NEW k \in 0 .. n - 1, Slot(lu, m + k) = Slot(lu, j) PROVE FALSE
    BY <1>4
  <2>1. m + k \in 0 .. (n + m) - 1 /\ j \in 0 .. (n + m) - 1 /\ m + k # j
    BY <1>2
  <2> QED BY <1>5, <2>1
<1>7. \A k \in 0 .. n - 1 : U(Slot(lu, m + k)) = ToPrint(q, la, k)
  <2> SUFFICES ASSUME NEW k \in 0 .. n - 1 PROVE U(Slot(lu, m + k)) = ToPrint(q, la, k)
    OBVIOUS
  <2>1. \A h \in 0 .. n - 1 : Slot(q.used_idx, h) = Slot(lu, m + k) => h = k
    <3> SUFFICES ASSUME NEW h \in 0 .. n - 1, Slot(lu, m + h) = Slot(lu, m + k) PROVE h = k
      BY <1>4
    <3>1. m + k \in 0 .. (n + m) - 1 /\ m + h \in 0 .. (n + m) - 1
      BY <1>2
    <3>2. m + h = m + k
      BY <1>5, <3>1
    <3> QED BY <1>2, <3>2
  <2>2. Slot(q.used_idx, k) = Slot(lu, m + k)
    BY <1>4
  <2>3. LastIn(q, n, Slot(lu, m + k)) = k
    <3>1. /\ LastIn(q, n, Slot(lu, m + k)) \in 0 .. n - 1
          /\ Slot(q.used_idx, LastIn(q, n, Slot(lu, m + k))) = Slot(lu, m + k)
      BY <1>2, <2>2, LastInFacts
    <3> QED BY <2>1, <3>1
  <2> QED BY <2>2, <2>3, Zenon
<1>8. \A s \in Ring : U(s) \in Ring
  <2> SUFFICES ASSUME NEW s \in Ring PROVE U(s) \in Ring
    OBVIOUS
  <2>1. \A k \in 0 .. n - 1 : ToPrint(q, la, k) \in Ring
    BY <1>1 DEF InFlightOnce, Drivers
  <2>2. q.used[s] \in Ring
    BY <1>1 DEF Queues
  <2>3. (\E k \in 0 .. n - 1 : Slot(q.used_idx, k) = s) => LastIn(q, n, s) \in 0 .. n - 1
    BY <1>2, LastInFacts
  <2> QED BY <2>1, <2>2, <2>3
<1> HIDE DEF U
<1>9. q2 = [q EXCEPT !.used = [s \in Ring |-> U(s)], !.used_idx = Adv(q.used_idx, n)]
  BY DEF U
<1>10. /\ q2 \in Queues /\ q2.used = [s \in Ring |-> U(s)] /\ q2.used_idx = Adv(lu, n + m)
       /\ q2.avail_idx = q.avail_idx
  <2> DEFINE u == [s \in Ring |-> U(s)]
  <2>1. u \in [Ring -> Ring]
    BY <1>8
  <2>2. q2 = [q EXCEPT !.used = u, !.used_idx = Adv(lu, n + m)]
    BY <1>3, <1>9
  <2> HIDE DEF u
  <2>3. /\ q2 \in Queues /\ q2.used = u /\ q2.used_idx = Adv(lu, n + m)
        /\ q2.avail_idx = q.avail_idx
    BY <1>1, <1>3, <2>1, <2>2, Zenon DEF Queues
  <2> QED BY <2>3 DEF u
<1>11. p2 \in 0 .. BufMod - 1 /\ (p2 + 0) % BufMod = d.queued
  <2>1. d.queued \in 0 .. BufMod - 1 /\ (p + n) % BufMod = d.queued
    BY <1>1 DEF Drivers, Numbered
  <2>2. CASE n = 0
    BY <1>1, <2>1, <2>2
  <2>3. CASE n # 0
    <3>1. n - 1 \in 0 .. n - 1 /\ p + 1 + (n - 1) = p + n
      BY <1>1, <1>2, <2>3
    <3>2. p2 = d.queued
      BY <1>1, <2>1, <2>3, <3>1 DEF Numbered
    <3>3. d.queued % BufMod = d.queued
      BY ONLY <1>2, <2>1, ModSmall
    <3> QED BY <2>1, <3>2, <3>3
  <2> QED BY <2>2, <2>3
<1>12. Counted(q2, Adv(la, n), d, 0, n + m)
  BY <1>1, <1>2, <1>3, <1>10 DEF Counted
<1>13. InFlightOnce(q2, Adv(la, n), d, 0, n + m)
  <2> DEFINE P(k) == ToPrint(q, la, k)
             C(k) == ToReclaim(q, d, k)
             C2(k) == ToReclaim(q2, d, k)
  <2>1. /\ \A k \in 0 .. n - 1 : P(k) \in d.inflight
        /\ \A k \in 0 .. m - 1 : C(k) \in d.inflight
        /\ \A j, k \in 0 .. n - 1 : P(j) = P(k) => j = k
        /\ \A j, k \in 0 .. m - 1 : C(j) = C(k) => j = k
        /\ \A j \in 0 .. n - 1, k \in 0 .. m - 1 : P(j) # C(k)
    BY <1>1 DEF InFlightOnce
  <2>2. \A k \in 0 .. (n + m) - 1 : C2(k) = U(Slot(lu, k))
    BY <1>5, <1>10 DEF ToReclaim
  <2>3. \A k \in 0 .. m - 1 : C2(k) = C(k)
    <3> SUFFICES ASSUME NEW k \in 0 .. m - 1 PROVE C2(k) = C(k)
      BY Zenon
    <3>1. k \in 0 .. (n + m) - 1
      BY <1>2
    <3> QED BY <1>6, <2>2, <3>1, Zenon DEF ToReclaim
  <2>4. \A k \in 0 .. n - 1 : C2(m + k) = P(k)
    <3> SUFFICES ASSUME NEW k \in 0 .. n - 1 PROVE C2(m + k) = P(k)
      BY Zenon
    <3>1. m + k \in 0 .. (n + m) - 1
      BY <1>2
    <3> QED BY <1>7, <2>2, <3>1, Zenon
  <2> HIDE DEF P, C, C2
  <2>5. \A k \in 0 .. (n + m) - 1 :
           k \in 0 .. m - 1 \/ (k - m \in 0 .. n - 1 /\ k = m + (k - m))
    BY <1>2
  <2>6. \A k \in 0 .. (n + m) - 1 : \/ k \in 0 .. m - 1 /\ C2(k) = C(k)
                                    \/ k - m \in 0 .. n - 1 /\ C2(k) = P(k - m)
    BY <2>3, <2>4, <2>5
  <2>7. \A k \in 0 .. (n + m) - 1 : C2(k) \in d.inflight
    BY <2>1, <2>6
  <2>8. \A j, k \in 0 .. (n + m) - 1 : C2(j) = C2(k) => j = k
    <3> SUFFICES ASSUME NEW j \in 0 .. (n + m) - 1, NEW k \in 0 .. (n + m) - 1, C2(j) = C2(k)
                 PROVE  j = k
      OBVIOUS
    <3>1. \/ j \in 0 .. m - 1 /\ k \in 0 .. m - 1 /\ j = k
          \/ j - m \in 0 .. n - 1 /\ k - m \in 0 .. n - 1 /\ j - m = k - m
      BY <2>1, <2>6
    <3> QED BY <1>2, <3>1
  <2>9. 0 .. 0 - 1 = {}
    OBVIOUS
  <2> QED BY <2>7, <2>8, <2>9, Zenon DEF C2, InFlightOnce
<1>14. Numbered(q2, Adv(la, n), d, p2, 0)
  BY <1>11 DEF Numbered
<1> QED BY <1>1, <1>3, <1>10, <1>11, <1>12, <1>13, <1>14 DEF QueueOK


-----------------------------------------------------------------------------
\* The console.  Every device works in some block, and the queue of a VM in whose
\* block no other device works is as QueueOK says.

Devices == [ready : BOOLEAN, queue_pfn : Int, last_avail : Index, int_status : BOOLEAN,
            irq : BOOLEAN, host_off : Int]

ConsoleTypes ==
  /\ vc \in [VMs -> Devices]
  /\ \A vm \in VMs : vc[vm].host_off = PA[vm] /\ (vc[vm].ready => QueueBlock(vm) \in Blocks)
  /\ ram \in [Blocks -> Queues]
  /\ drv \in [VMs -> Drivers]
  /\ last \in [VMs -> 0 .. BufMod - 1]

OwnQueueOK(vm) ==
  \E n, m \in Nat : QueueOK(ram[PA[vm]], vc[vm].last_avail, drv[vm], last[vm], n, m)

ConsoleInv == ConsoleTypes /\ \A vm \in VMs : KeptApart(vm) => OwnQueueOK(vm)

(* Empty queues. *)
LEMMA ConsoleInit == Init => ConsoleInv
<1> SUFFICES ASSUME Init PROVE ConsoleInv
  OBVIOUS
<1> DEFINE d0 == [inflight |-> {}, last_used |-> 0, queued |-> 0]
<1>1. /\ BufMod \in Nat \ {0} /\ QueueNum \in Nat \ {0} /\ IdxMod \in Nat \ {0}
      /\ \A vm \in VMs : PA[vm] \in Blocks /\ PA[vm] \in Int
  <2>1. BufMod \in Nat \ {0} /\ QueueNum \in Nat \ {0} /\ IdxMod \in Nat \ {0}
    BY VirtqueueAssumption, VirtioConsoleAssumption
  <2>2. \A vm \in VMs : PA[vm] \in Blocks /\ PA[vm] \in Int
    BY VirtqueueAssumption, Zenon
  <2> QED BY <2>1, <2>2
<1>2. 0 \in Index /\ 0 \in Ring /\ 0 \in 0 .. BufMod - 1 /\ 0 \in Nat
  BY <1>1 DEF Index, Ring
<1>3. EmptyQueue \in Queues /\ EmptyQueue.avail_idx = 0 /\ EmptyQueue.used_idx = 0
  BY <1>2 DEF EmptyQueue, Queues
<1>4. d0 \in Drivers
  BY <1>2 DEF Drivers
<1>5. QueueOK(EmptyQueue, 0, d0, 0, 0, 0)
  <2>1. Adv(0, 0) = 0
    BY ONLY <1>2, AdvFacts
  <2>2. Counted(EmptyQueue, 0, d0, 0, 0)
    BY <1>1, <1>3, <2>1, FS_EmptySet DEF Counted
  <2>3. 0 .. 0 - 1 = {} /\ (0 + 0) % BufMod = 0
    BY <1>1
  <2>4. InFlightOnce(EmptyQueue, 0, d0, 0, 0) /\ Numbered(EmptyQueue, 0, d0, 0, 0)
    BY <2>3 DEF InFlightOnce, Numbered
  <2> QED BY <1>2, <1>3, <1>4, <2>2, <2>4 DEF QueueOK
<1>6. \A vm \in VMs : /\ [ResetState EXCEPT !.host_off = PA[vm]] \in Devices
                      /\ [ResetState EXCEPT !.host_off = PA[vm]].host_off = PA[vm]
                      /\ [ResetState EXCEPT !.host_off = PA[vm]].last_avail = 0
                      /\ ~[ResetState EXCEPT !.host_off = PA[vm]].ready
  <2>1. ResetState \in Devices /\ ResetState.last_avail = 0 /\ ~ResetState.ready
    BY <1>2 DEF ResetState, Devices
  <2> QED BY <1>1, <2>1 DEF Devices
<1>7. \A vm \in VMs : /\ vc[vm] \in Devices /\ vc[vm].host_off = PA[vm] /\ vc[vm].last_avail = 0
                      /\ ~vc[vm].ready
                      /\ drv[vm] = d0 /\ last[vm] = 0 /\ ram[PA[vm]] = EmptyQueue
  BY <1>1, <1>2, <1>6 DEF Init, Devices
<1>8. ConsoleTypes
  BY <1>2, <1>3, <1>4, <1>7 DEF Init, ConsoleTypes
<1> QED BY <1>2, <1>5, <1>7, <1>8 DEF ConsoleInv, OwnQueueOK

(* A step that leaves a VM's queue, index, driver and last buffer alone. *)
LEMMA SameQueue ==
  ASSUME NEW vm, OwnQueueOK(vm), ram'[PA[vm]] = ram[PA[vm]], drv'[vm] = drv[vm],
         vc'[vm].last_avail = vc[vm].last_avail, last'[vm] = last[vm]
  PROVE  OwnQueueOK(vm)'
BY DEF OwnQueueOK

(* A queue address is given once, so devices kept apart have always been. *)
LEMMA ApartBefore ==
  ASSUME NEW w, KeptApart(w)',
         \A v \in VMs : vc[v].ready => /\ vc'[v].ready /\ vc'[v].queue_pfn = vc[v].queue_pfn
                                       /\ vc'[v].host_off = vc[v].host_off
  PROVE  KeptApart(w)
BY DEF KeptApart, QueueBlock

(* A register write that changes no index, for any VM. *)
LEMMA RegisterStep ==
  ASSUME ConsoleInv, NEW vm \in VMs,
         \/ InterruptAck(vm) \/ virtio_take_irq(vm)
         \/ \E g \in GuestBlocks : SetUpQueue(vm, g)
  PROVE  ConsoleInv'
<1>0. vc \in [VMs -> Devices] /\ vc[vm] \in Devices
  BY DEF ConsoleInv, ConsoleTypes
<1>1. UNCHANGED <<ram, drv, last>>
  BY DEF InterruptAck, SetUpQueue, virtio_take_irq
<1>2. \E c \in Devices :
        /\ vc' = [vc EXCEPT ![vm] = c]
        /\ c.host_off = vc[vm].host_off /\ c.last_avail = vc[vm].last_avail
        /\ vc[vm].ready => c.ready /\ c.queue_pfn = vc[vm].queue_pfn
        /\ c.ready /\ ~vc[vm].ready => c.queue_pfn + c.host_off \in Blocks
  <2>1. CASE InterruptAck(vm) \/ virtio_take_irq(vm)
    <3> DEFINE c1 == [vc[vm] EXCEPT !.int_status = FALSE]
               c2 == [vc[vm] EXCEPT !.irq = FALSE]
    <3>1. c1 \in Devices /\ c2 \in Devices
      BY <1>0, Zenon DEF Devices
    <3>2. /\ c1.host_off = vc[vm].host_off /\ c1.last_avail = vc[vm].last_avail
          /\ c1.ready = vc[vm].ready /\ c1.queue_pfn = vc[vm].queue_pfn
          /\ c2.host_off = vc[vm].host_off /\ c2.last_avail = vc[vm].last_avail
          /\ c2.ready = vc[vm].ready /\ c2.queue_pfn = vc[vm].queue_pfn
      BY <1>0 DEF Devices
    <3>3. vc' = [vc EXCEPT ![vm] = c1] \/ vc' = [vc EXCEPT ![vm] = c2]
      BY <2>1, Zenon DEF InterruptAck, virtio_take_irq
    <3> HIDE DEF c1, c2
    <3> QED BY <3>1, <3>2, <3>3
  <2>2. CASE \E g \in GuestBlocks : SetUpQueue(vm, g)
    <3>1. PICK g \in GuestBlocks : SetUpQueue(vm, g)
      BY <2>2
    <3> DEFINE c == [vc[vm] EXCEPT !.ready = TRUE, !.queue_pfn = g]
    <3>2. g \in Int
      BY VirtioConsoleAssumption
    <3>3. c \in Devices
      BY <1>0, <3>2, Zenon DEF Devices
    <3>4. c.host_off = vc[vm].host_off /\ c.last_avail = vc[vm].last_avail /\ c.queue_pfn = g
      BY <1>0 DEF Devices
    <3>5. vc' = [vc EXCEPT ![vm] = c] /\ ~vc[vm].ready /\ g + vc[vm].host_off \in Blocks
      BY <1>0, <3>1 DEF SetUpQueue
    <3> HIDE DEF c
    <3> QED BY <3>3, <3>4, <3>5
  <2> QED BY <2>1, <2>2
<1>3. PICK c \in Devices :
        /\ vc' = [vc EXCEPT ![vm] = c]
        /\ c.host_off = vc[vm].host_off /\ c.last_avail = vc[vm].last_avail
        /\ vc[vm].ready => c.ready /\ c.queue_pfn = vc[vm].queue_pfn
        /\ c.ready /\ ~vc[vm].ready => c.queue_pfn + c.host_off \in Blocks
  BY <1>2
<1>4. /\ vc' \in [VMs -> Devices] /\ vc'[vm] = c
      /\ \A w \in VMs \ {vm} : vc'[w] = vc[w]
  BY <1>0, <1>3
<1>5. \A w \in VMs : /\ vc'[w].host_off = vc[w].host_off /\ vc'[w].last_avail = vc[w].last_avail
                     /\ vc[w].ready => vc'[w].ready /\ vc'[w].queue_pfn = vc[w].queue_pfn
  BY <1>3, <1>4
<1>6. ConsoleTypes'
  <2>1. \A w \in VMs : vc'[w].host_off = PA[w]
    BY <1>5 DEF ConsoleInv, ConsoleTypes
  <2>2. \A w \in VMs : vc'[w].ready => vc'[w].queue_pfn + vc'[w].host_off \in Blocks
    BY <1>3, <1>4 DEF ConsoleInv, ConsoleTypes, QueueBlock
  <2> QED BY <1>1, <1>4, <2>1, <2>2 DEF ConsoleInv, ConsoleTypes, QueueBlock
<1>7. \A w \in VMs : KeptApart(w)' => OwnQueueOK(w)'
  BY <1>1, <1>5, ApartBefore, SameQueue DEF ConsoleInv
<1> QED BY <1>6, <1>7 DEF ConsoleInv

(* The buffers the device finds new are those to be printed. *)
LEMMA NewBuffersCounted ==
  ASSUME NEW q, NEW la, NEW d, NEW p, NEW n, NEW m, QueueOK(q, la, d, p, n, m)
  PROVE  Ahead(q.avail_idx, la) = n /\ Ahead(q.used_idx, d.last_used) = m
<1>1. la \in Index /\ d.last_used \in Index /\ n \in Index /\ m \in Index
  BY VirtqueueAssumption, VirtioConsoleAssumption DEF QueueOK, Counted, Drivers, Index
<1>2. q.avail_idx = Adv(la, n) /\ q.used_idx = Adv(d.last_used, m)
  BY DEF QueueOK, Counted
<1> QED BY <1>1, <1>2, AheadAdv

(* Whatever queue the device works on, its own or not, it stays a queue. *)
LEMMA AfterTxQueue ==
  ASSUME NEW vm, vc[vm].last_avail \in Index, NEW q \in Queues
  PROVE  /\ NewBuffers(vm, q) \in Nat
         /\ \A k \in Nat : TxDesc(vm, q, k) \in Ring
         /\ AfterTx(vm, q) \in Queues
         /\ AfterTx(vm, q).used_idx = Adv(q.used_idx, NewBuffers(vm, q))
<1> DEFINE la == vc[vm].last_avail
           n == NewBuffers(vm, q)
           u == [s \in Ring |->
                   IF \E k \in 0 .. n - 1 : UsedSlot(q, k) = s
                   THEN TxDesc(vm, q, LastIn(q, n, s)) ELSE q.used[s]]
<1>1. /\ q.avail_idx \in Index /\ q.used_idx \in Index /\ q.avail \in [Ring -> Ring]
      /\ q.used \in [Ring -> Ring]
  BY DEF Queues
<1>2. n \in Nat
  <2>1. q.avail_idx + IdxMod - la \in Nat /\ IdxMod \in Nat \ {0}
    BY <1>1, VirtqueueAssumption DEF Index
  <2> QED BY <2>1, DivMod DEF NewBuffers, Ahead
<1>3. \A k \in Nat : TxDesc(vm, q, k) \in Ring
  <2> SUFFICES ASSUME NEW k \in Nat PROVE TxDesc(vm, q, k) \in Ring
    OBVIOUS
  <2>1. Slot(la, k) \in Ring
    BY SlotFacts
  <2>2. TxDesc(vm, q, k) = q.avail[Slot(la, k)]
    BY DEF TxDesc, TxSlot, Slot
  <2> QED BY <1>1, <2>1, <2>2
<1>4. AfterTx(vm, q) = [q EXCEPT !.used = u, !.used_idx = Adv(q.used_idx, n)]
  BY Zenon DEF AfterTx
<1> HIDE DEF n
<1>5. u \in [Ring -> Ring]
  <2> SUFFICES ASSUME NEW s \in Ring, \E k \in 0 .. n - 1 : UsedSlot(q, k) = s
               PROVE  TxDesc(vm, q, LastIn(q, n, s)) \in Ring
    BY <1>1
  <2>1. \E k \in 0 .. n - 1 : Slot(q.used_idx, k) = s
    BY DEF UsedSlot, Slot
  <2>2. LastIn(q, n, s) \in 0 .. n - 1
    BY <1>2, <2>1, LastInFacts
  <2>3. LastIn(q, n, s) \in Nat
    BY <1>2, <2>2
  <2> QED BY <1>3, <2>3
<1>6. Adv(q.used_idx, n) \in Index
  BY <1>1, <1>2, AdvFacts
<1> HIDE DEF u
<1>7. AfterTx(vm, q) \in Queues
  BY <1>4, <1>5, <1>6, Zenon DEF Queues
<1>8. AfterTx(vm, q).used_idx = Adv(q.used_idx, n)
  BY <1>4 DEF Queues
<1> QED BY <1>2, <1>3, <1>7, <1>8 DEF n

\* What a notification of vm's device changes, with the queue in block b.
TxEffect(vm, b, n) ==
  /\ b \in Blocks /\ n \in Nat /\ n = NewBuffers(vm, ram[b])
  /\ ram'[b] = AfterTx(vm, ram[b]) /\ \A a \in Blocks \ {b} : ram'[a] = ram[a]
  /\ vc'[vm].last_avail = Adv(vc[vm].last_avail, n)
  /\ vc'[vm].int_status = (vc[vm].int_status \/ n > 0)
  /\ vc'[vm].irq = (vc[vm].irq \/ n > 0)
  /\ last'[vm] = IF n = 0 THEN last[vm] ELSE ram[b].desc[TxDesc(vm, ram[b], n - 1)]
  /\ \A w \in VMs : /\ vc'[w].ready = vc[w].ready /\ vc'[w].queue_pfn = vc[w].queue_pfn
                    /\ vc'[w].host_off = vc[w].host_off
  /\ \A w \in VMs \ {vm} : vc'[w] = vc[w] /\ last'[w] = last[w]

(* virtio_process_tx, wherever the queue is. *)
LEMMA ProcessFrame ==
  ASSUME ConsoleTypes, NEW vm \in VMs, vc[vm].ready, virtio_process_tx(vm), drv' = drv
  PROVE  ConsoleTypes' /\ TxEffect(vm, QueueBlock(vm), NewBuffers(vm, ram[QueueBlock(vm)]))
<1> DEFINE b == QueueBlock(vm)
           q == ram[b]
           n == NewBuffers(vm, q)
           la2 == Adv(vc[vm].last_avail, n)
           is == vc[vm].int_status \/ n > 0
           iq == vc[vm].irq \/ n > 0
           p2 == IF n = 0 THEN last[vm] ELSE q.desc[TxDesc(vm, q, n - 1)]
           c2 == [vc[vm] EXCEPT !.last_avail = la2, !.int_status = is, !.irq = iq]
<1>1. /\ vc \in [VMs -> Devices] /\ vc[vm] \in Devices /\ b \in Blocks
      /\ ram \in [Blocks -> Queues] /\ q \in Queues /\ last \in [VMs -> 0 .. BufMod - 1]
      /\ vc[vm].last_avail \in Index
  BY DEF ConsoleTypes, Devices
<1>2. /\ ram' = [ram EXCEPT ![b] = AfterTx(vm, q)] /\ last' = [last EXCEPT ![vm] = p2]
  BY Zenon DEF virtio_process_tx
<1>3. vc' = [vc EXCEPT ![vm] = [@ EXCEPT !.last_avail = la2, !.int_status = is, !.irq = iq]]
  BY <1>1, Zenon DEF virtio_process_tx
<1>4. vc' = [vc EXCEPT ![vm] = c2]
  BY <1>3
<1>5. n \in Nat /\ (\A k \in Nat : TxDesc(vm, q, k) \in Ring) /\ AfterTx(vm, q) \in Queues
  <2> HIDE DEF q
  <2> QED BY <1>1, AfterTxQueue
<1> HIDE DEF n
<1>6. la2 \in Index
  BY ONLY <1>1, <1>5, AdvFacts DEF la2
<1>7. is \in BOOLEAN /\ iq \in BOOLEAN
  OBVIOUS
<1>8. p2 \in 0 .. BufMod - 1
  <2>1. CASE n = 0
    BY <1>1, <2>1
  <2>2. CASE n # 0
    <3>1. n - 1 \in Nat
      BY <1>5, <2>2
    <3>2. TxDesc(vm, q, n - 1) \in Ring
      BY <1>5, <3>1
    <3>3. q.desc \in [Ring -> 0 .. BufMod - 1]
      BY <1>1 DEF Queues
    <3> QED BY <2>2, <3>2, <3>3
  <2> QED BY <2>1, <2>2
<1> HIDE DEF la2, is, iq, p2
<1>9. c2 \in Devices
  BY <1>1, <1>6, <1>7, Zenon DEF Devices
<1>10. /\ c2.last_avail = la2 /\ c2.int_status = is /\ c2.irq = iq
       /\ c2.ready = vc[vm].ready /\ c2.queue_pfn = vc[vm].queue_pfn
       /\ c2.host_off = vc[vm].host_off
  BY <1>1 DEF Devices
<1> HIDE DEF c2
<1>11. vc' \in [VMs -> Devices] /\ vc'[vm] = c2 /\ \A w \in VMs \ {vm} : vc'[w] = vc[w]
  BY <1>1, <1>4, <1>9
<1>12. \A w \in VMs : /\ vc'[w].ready = vc[w].ready /\ vc'[w].queue_pfn = vc[w].queue_pfn
                      /\ vc'[w].host_off = vc[w].host_off
  BY <1>10, <1>11
<1> HIDE DEF b, q
<1>13. /\ ram' \in [Blocks -> Queues] /\ ram'[b] = AfterTx(vm, q)
       /\ \A a \in Blocks \ {b} : ram'[a] = ram[a]
  BY <1>1, <1>2, <1>5
<1>14. /\ last' \in [VMs -> 0 .. BufMod - 1] /\ last'[vm] = p2
       /\ \A w \in VMs \ {vm} : last'[w] = last[w]
  BY <1>1, <1>2, <1>8
<1>15. ConsoleTypes'
  <2>1. \A w \in VMs : vc'[w].host_off = PA[w] /\ (vc'[w].ready => QueueBlock(w)' \in Blocks)
    BY <1>12 DEF ConsoleTypes, QueueBlock
  <2>2. drv' \in [VMs -> Drivers]
    BY DEF ConsoleTypes
  <2> QED BY <1>11, <1>13, <1>14, <2>1, <2>2 DEF ConsoleTypes
<1>16. TxEffect(vm, b, n)
  BY <1>1, <1>5, <1>10, <1>11, <1>12, <1>13, <1>14, Zenon DEF TxEffect, n, q, la2, is, iq, p2
<1> QED BY <1>15, <1>16 DEF b, n, q

(* A notification. *)
LEMMA NotifyStep ==
  ASSUME ConsoleInv, NEW vm \in VMs, Notify(vm)
  PROVE  ConsoleInv'
<1> USE DEF ConsoleInv
<1>1. CASE ~vc[vm].ready
  <2>1. UNCHANGED <<vc, ram, last, drv>>
    BY <1>1 DEF Notify
  <2>2. ConsoleTypes'
    BY <2>1 DEF ConsoleTypes, QueueBlock
  <2>3. \A w \in VMs : KeptApart(w)' => OwnQueueOK(w)'
    BY <2>1, ApartBefore, SameQueue
  <2> QED BY <2>2, <2>3
<1>2. CASE vc[vm].ready
  <2> DEFINE b == QueueBlock(vm)
             n == NewBuffers(vm, ram[b])
  <2>1. virtio_process_tx(vm) /\ drv' = drv
    BY <1>2 DEF Notify
  <2>2. ConsoleTypes' /\ TxEffect(vm, b, n)
    BY <1>2, <2>1, ProcessFrame
  <2>3. ASSUME NEW w \in VMs, KeptApart(w)' PROVE KeptApart(w)
    BY <2>2, <2>3, ApartBefore DEF TxEffect
  <2>4. ASSUME NEW w \in VMs \ {vm}, KeptApart(w) PROVE OwnQueueOK(w)'
    <3>1. b # PA[w] /\ PA[w] \in Blocks
      BY <1>2, <2>4, VirtqueueAssumption DEF KeptApart
    <3>2. ram'[PA[w]] = ram[PA[w]] /\ vc'[w] = vc[w] /\ last'[w] = last[w]
      BY <2>2, <3>1 DEF TxEffect
    <3> QED BY <2>1, <2>4, <3>2, SameQueue
  <2>5. ASSUME KeptApart(vm) PROVE OwnQueueOK(vm)'
    <3> DEFINE q == ram[PA[vm]]
               la == vc[vm].last_avail
               d == drv[vm]
               p == last[vm]
    <3>1. b = PA[vm]
      BY <1>2, <2>5 DEF KeptApart
    <3>2. PICK k \in Nat, m \in Nat : QueueOK(q, la, d, p, k, m)
      BY <2>5 DEF OwnQueueOK
    <3>3. n = k
      BY <3>1, <3>2, NewBuffersCounted DEF NewBuffers
    <3> DEFINE q2 == [q EXCEPT
                 !.used = [s \in Ring |->
                    IF \E j \in 0 .. k - 1 : Slot(q.used_idx, j) = s
                    THEN ToPrint(q, la, LastIn(q, k, s)) ELSE q.used[s]],
                 !.used_idx = Adv(q.used_idx, k)]
               p2 == IF k = 0 THEN p ELSE q.desc[ToPrint(q, la, k - 1)]
    <3>4. QueueOK(q2, Adv(la, k), d, p2, 0, k + m)
      BY <3>2, ProcessStep, Zenon
    <3>5. AfterTx(vm, q) = q2 /\ TxDesc(vm, q, k - 1) = ToPrint(q, la, k - 1)
      BY <3>1, <3>3 DEF AfterTx, UsedSlot, TxDesc, TxSlot, Slot, ToPrint
    <3> HIDE DEF q2
    <3>6. /\ ram'[PA[vm]] = q2 /\ vc'[vm].last_avail = Adv(la, k) /\ drv'[vm] = d
          /\ last'[vm] = p2 /\ 0 \in Nat /\ k + m \in Nat
      BY <2>1, <2>2, <3>1, <3>3, <3>5 DEF TxEffect
    <3> HIDE DEF p2
    <3>7. QueueOK(ram'[PA[vm]], vc'[vm].last_avail, drv'[vm], last'[vm], 0, k + m)
      BY <3>4, <3>6
    <3> QED BY <3>6, <3>7 DEF OwnQueueOK
  <2>6. \A w \in VMs : KeptApart(w)' => OwnQueueOK(w)'
    BY <2>3, <2>4, <2>5
  <2> QED BY <2>2, <2>6
<1> QED BY <1>1, <1>2

(* What the driver writes to its queue and its own state are of their types,
   whatever another device did to the queue. *)
LEMMA DriverTypes ==
  ASSUME NEW q \in Queues, NEW d \in Drivers, NEW x \in Ring
  PROVE  /\ [q EXCEPT !.desc[x] = (d.queued + 1) % BufMod,
                      !.avail[q.avail_idx % QueueNum] = x,
                      !.avail_idx = Adv(@, 1)] \in Queues
         /\ [d EXCEPT !.inflight = @ \union {x}, !.queued = (d.queued + 1) % BufMod] \in Drivers
         /\ [d EXCEPT !.inflight = @ \ {q.used[d.last_used % QueueNum]},
                      !.last_used = Adv(@, 1)] \in Drivers
<1> DEFINE b == (d.queued + 1) % BufMod
           e == q.avail_idx % QueueNum
<1>0. /\ QueueNum \in Nat \ {0} /\ BufMod \in Nat \ {0} /\ 1 \in Nat
      /\ q.avail_idx \in Index /\ d.last_used \in Index /\ d.queued + 1 \in Nat
  BY VirtqueueAssumption, VirtioConsoleAssumption DEF Queues, Drivers
<1>1. b \in 0 .. BufMod - 1
  BY <1>0, DivMod, Zenon
<1>2. e \in Ring
  <2>1. q.avail_idx \in Nat
    BY <1>0, VirtqueueAssumption DEF Index
  <2> QED BY ONLY <1>0, <2>1, DivMod DEF e, Ring
<1>3. Adv(q.avail_idx, 1) \in Index /\ Adv(d.last_used, 1) \in Index
  BY ONLY <1>0, AdvFacts
<1> HIDE DEF b, e
<1>4. [q EXCEPT !.desc[x] = b, !.avail[e] = x, !.avail_idx = Adv(@, 1)] \in Queues
  BY <1>1, <1>2, <1>3, Zenon DEF Queues
<1>5. [d EXCEPT !.inflight = @ \union {x}, !.queued = b] \in Drivers
  BY <1>1, Zenon DEF Drivers
<1>6. [d EXCEPT !.inflight = @ \ {q.used[d.last_used % QueueNum]},
                !.last_used = Adv(@, 1)] \in Drivers
  BY <1>3, Zenon DEF Drivers
<1> QED BY <1>4, <1>5, <1>6 DEF b, e

(* The driver queues a buffer, in its own RAM. *)
LEMMA DriverQueues ==
  ASSUME ConsoleInv, NEW vm \in VMs, NEW x \in Ring, Queue(vm, x)
  PROVE  ConsoleInv'
<1> USE DEF ConsoleInv
<1> DEFINE q == ram[PA[vm]]
           la == vc[vm].last_avail
           d == drv[vm]
           p == last[vm]
           b == (d.queued + 1) % BufMod
           q2 == [q EXCEPT !.desc[x] = b, !.avail[q.avail_idx % QueueNum] = x,
                           !.avail_idx = Adv(@, 1)]
           d2 == [d EXCEPT !.inflight = @ \union {x}, !.queued = b]
<1>1. PA[vm] \in Blocks /\ \A w \in VMs \ {vm} : PA[w] # PA[vm]
  BY VirtqueueAssumption
<1>2. x \notin d.inflight /\ ram' = [ram EXCEPT ![PA[vm]] = q2] /\ UNCHANGED <<vc, last>>
  BY DEF Queue
<1>3. drv' = [drv EXCEPT ![vm] = d2]
  BY Zenon DEF Queue, ConsoleTypes
<1>4. q2 \in Queues /\ d2 \in Drivers
  <2>1. q \in Queues /\ d \in Drivers
    BY <1>1 DEF ConsoleTypes
  <2> HIDE DEF q, d
  <2> QED BY <2>1, DriverTypes
<1>5. ASSUME KeptApart(vm) PROVE OwnQueueOK(vm)'
  <2>1. PICK n \in Nat, m \in Nat : QueueOK(q, la, d, p, n, m)
    BY <1>5 DEF OwnQueueOK
  <2>2. QueueOK(q2, la, d2, p, n + 1, m)
    BY <1>2, <2>1, QueueStep, Zenon
  <2> HIDE DEF q2, d2
  <2>3. /\ ram'[PA[vm]] = q2 /\ vc'[vm].last_avail = la /\ drv'[vm] = d2 /\ last'[vm] = p
        /\ n + 1 \in Nat
    BY <1>1, <1>2, <1>3 DEF ConsoleTypes
  <2>4. QueueOK(ram'[PA[vm]], vc'[vm].last_avail, drv'[vm], last'[vm], n + 1, m)
    BY <2>2, <2>3
  <2> QED BY <2>3, <2>4 DEF OwnQueueOK
<1> HIDE DEF q2, d2
<1>6. ConsoleTypes'
  BY <1>2, <1>3, <1>4, Zenon DEF ConsoleTypes, QueueBlock
<1>7. \A w \in VMs \ {vm} : OwnQueueOK(w) => OwnQueueOK(w)'
  BY <1>1, <1>2, <1>3, SameQueue DEF ConsoleTypes
<1>8. \A w \in VMs : KeptApart(w)' => KeptApart(w)
  BY <1>2, ApartBefore
<1> QED BY <1>5, <1>6, <1>7, <1>8

(* The driver takes a buffer back. *)
LEMMA DriverReclaims ==
  ASSUME ConsoleInv, NEW vm \in VMs, Reclaim(vm)
  PROVE  ConsoleInv'
<1> USE DEF ConsoleInv
<1> DEFINE q == ram[PA[vm]]
           la == vc[vm].last_avail
           d == drv[vm]
           p == last[vm]
           d2 == [d EXCEPT !.inflight = @ \ {q.used[d.last_used % QueueNum]},
                           !.last_used = Adv(@, 1)]
<1>1. d.last_used # q.used_idx /\ UNCHANGED <<vc, ram, last>>
  BY DEF Reclaim
<1>2. drv' = [drv EXCEPT ![vm] = d2]
  BY Zenon DEF Reclaim, ConsoleTypes
<1>3. d2 \in Drivers
  <2>1. q \in Queues /\ d \in Drivers
    BY VirtqueueAssumption, Zenon DEF ConsoleTypes
  <2>2. 0 \in Ring
    BY VirtqueueAssumption DEF Ring
  <2> HIDE DEF q, d
  <2> QED BY <2>1, <2>2, DriverTypes
<1>4. ASSUME KeptApart(vm) PROVE OwnQueueOK(vm)'
  <2>1. PICK n \in Nat, m \in Nat : QueueOK(q, la, d, p, n, m)
    BY <1>4 DEF OwnQueueOK
  <2>2. m - 1 \in Nat /\ QueueOK(q, la, d2, p, n, m - 1)
    BY <1>1, <2>1, ReclaimStep, Zenon
  <2> HIDE DEF d2
  <2>3. ram'[PA[vm]] = q /\ vc'[vm].last_avail = la /\ drv'[vm] = d2 /\ last'[vm] = p
    BY <1>1, <1>2 DEF ConsoleTypes
  <2>4. QueueOK(ram'[PA[vm]], vc'[vm].last_avail, drv'[vm], last'[vm], n, m - 1)
    BY <2>2, <2>3
  <2> QED BY <2>2, <2>4 DEF OwnQueueOK
<1> HIDE DEF d2
<1>5. ConsoleTypes'
  BY <1>1, <1>2, <1>3 DEF ConsoleTypes, QueueBlock
<1>6. \A w \in VMs \ {vm} : OwnQueueOK(w) => OwnQueueOK(w)'
  BY <1>1, <1>2, SameQueue DEF ConsoleTypes
<1>7. \A w \in VMs : KeptApart(w)' => KeptApart(w)
  BY <1>1, ApartBefore
<1> QED BY <1>4, <1>5, <1>6, <1>7
=============================================================================
