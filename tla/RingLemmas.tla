----------------------------- MODULE RingLemmas -----------------------------
(***************************************************************************)
(* What the proofs about the ring of module PktBuf and about its two users *)
(* need: to replace a sequence number or an index of the ring by the       *)
(* unbounded counter it stands for (arithmetic of %), that reducing a      *)
(* counter does not change the slot it designates and the two counters     *)
(* tell how many slots are in use, and what each function of the ring does *)
(* to the slots at every place.                                            *)
(***************************************************************************)
EXTENDS PktBuf, TLAPS

(***************************************************************************)
(* Arithmetic of %                                                         *)
(***************************************************************************)

\* A residue is in range.
LEMMA ModRange ==
  ASSUME NEW a \in Int, NEW m \in Nat, m > 0
  PROVE  a % m \in 0 .. m - 1
OBVIOUS

\* Division with remainder.
LEMMA DivMod ==
  ASSUME NEW a \in Int, NEW m \in Nat, m > 0
  PROVE  a \div m \in Int /\ a = m * (a \div m) + (a % m)
OBVIOUS

\* The remainder is unique.
LEMMA ModUnique ==
  ASSUME NEW m \in Nat, NEW q \in Int, NEW r \in 0 .. m - 1
  PROVE  (m * q + r) % m = r
OBVIOUS

\* Multiples of the modulus do not change a residue.
LEMMA ModShift ==
  ASSUME NEW a \in Int, NEW q \in Int, NEW m \in Nat, m > 0
  PROVE  (m * q + a) % m = a % m
<1> DEFINE d == a \div m
           r == a % m
<1>1. d \in Int /\ a = m * d + r
  BY DivMod
<1>2. r \in 0 .. m - 1
  BY ModRange
<1> HIDE DEF d, r
<1>3. m * q + a = m * (q + d) + r
  BY <1>1, <1>2
<1>4. (m * (q + d) + r) % m = r
  BY <1>1, <1>2, ModUnique
<1> QED
  BY <1>3, <1>4 DEF r

\* A number that is in range is its own residue.
LEMMA ModSmall ==
  ASSUME NEW m \in Nat, NEW r \in 0 .. m - 1
  PROVE  r % m = r
OBVIOUS

\* Reducing a term of a sum first does not change the residue of the sum.
LEMMA ModAdd ==
  ASSUME NEW a \in Int, NEW b \in Int, NEW m \in Nat, m > 0
  PROVE  ((a % m) + b) % m = (a + b) % m
<1> DEFINE d == a \div m
           r == a % m
<1>1. d \in Int /\ r \in Int /\ a = m * d + r
  BY DivMod, ModRange
<1> HIDE DEF d, r
<1>2. a + b = m * d + (r + b)
  BY <1>1
<1>3. \A c \in Int : (m * d + c) % m = c % m
  BY <1>1, ModShift
<1>4. r + b \in Int
  BY <1>1
<1>5. (m * d + (r + b)) % m = (r + b) % m
  BY <1>3, <1>4
<1> QED
  BY <1>2, <1>5 DEF r

\* Reducing the subtrahend first does not change the residue of a difference.
LEMMA ModSub ==
  ASSUME NEW a \in Int, NEW b \in Int, NEW m \in Nat, m > 0
  PROVE  (a - (b % m)) % m = (a - b) % m
<1> DEFINE d == b \div m
           r == b % m
<1>1. d \in Int /\ r \in Int /\ b = m * d + r
  BY DivMod, ModRange
<1> HIDE DEF d, r
<1>2. a - r = m * d + (a - b)
  BY <1>1
<1>3. \A c \in Int : (m * d + c) % m = c % m
  BY <1>1, ModShift
<1>4. (m * d + (a - b)) % m = (a - b) % m
  BY <1>3
<1> QED
  BY <1>2, <1>4 DEF r

\* Two numbers that are less than the modulus apart and have the same residue
\* are equal.
LEMMA ModInjective ==
  ASSUME NEW a \in Int, NEW b \in Int, NEW m \in Nat,
         a - b < m, b - a < m, m > 0, a % m = b % m
  PROVE  a = b
<1>1. (a - b) % m = (a - (b % m)) % m
  BY ModSub
<1>2. (a - (b % m)) % m = (a - (a % m)) % m
  OBVIOUS
<1>3. (a - (a % m)) % m = (a - a) % m
  BY ModSub
<1>4. (a - b) % m = 0
  BY <1>1, <1>2, <1>3, ModSmall
<1>5. CASE a - b >= 0
  BY <1>4, <1>5, ModSmall
<1>6. CASE a - b < 0
  <2>1. (m * 1 + (a - b)) % m = (a - b) % m
    BY ModShift
  <2>2. m + (a - b) \in 0 .. m - 1
    BY <1>6
  <2>3. (m + (a - b)) % m = m + (a - b)
    BY <2>2, ModSmall
  <2> QED
    BY <2>1, <2>3, <1>4
<1> QED
  BY <1>5, <1>6

-----------------------------------------------------------------------------
(***************************************************************************)
(* Sequence numbers                                                        *)
(***************************************************************************)

\* Every reduced number is a sequence number.
LEMMA U8Type ==
  ASSUME NEW n \in Int
  PROVE  U8(n) \in SeqNums
BY SeqSpaceAssumption, ModRange DEF U8, SeqNums

\* Counting on from a reduced number.
LEMMA U8Add ==
  ASSUME NEW a \in Int, NEW b \in Int
  PROVE  U8(U8(a) + b) = U8(a + b)
<1>1. SeqSpace \in Nat /\ SeqSpace > 0
  BY SeqSpaceAssumption
<1>2. ((a % SeqSpace) + b) % SeqSpace = (a + b) % SeqSpace
  BY <1>1, ModAdd, Zenon
<1> QED
  BY <1>2 DEF U8

\* A sequence number is its own reduction.
LEMMA U8Small ==
  ASSUME NEW s \in SeqNums
  PROVE  U8(s) = s
BY SeqSpaceAssumption, ModSmall DEF U8, SeqNums

\* Advancing a sequence number by its distance to another one reaches it.
LEMMA SeqDiffReaches ==
  ASSUME NEW s \in SeqNums, NEW t \in SeqNums
  PROVE  U8(t + SeqDiff(s, t)) = s
<1>1. SeqDiff(s, t) \in Int /\ s \in Int /\ t \in Int /\ s - t \in Int
  BY U8Type DEF SeqDiff, SeqNums
<1>2. U8(U8(s - t) + t) = U8((s - t) + t)
  BY <1>1, U8Add
<1>3. (s - t) + t = s /\ U8(s - t) + t = t + U8(s - t)
  BY <1>1 DEF SeqDiff
<1> QED
  BY <1>2, <1>3, U8Small DEF SeqDiff

\* Reducing a natural number never makes it larger.
LEMMA U8AtMost ==
  ASSUME NEW k \in Nat
  PROVE  U8(k) \in 0 .. k
<1>1. U8(k) \in SeqNums
  BY U8Type
<1>2. CASE k \in SeqNums
  BY <1>2, U8Small
<1>3. CASE k \notin SeqNums
  BY <1>1, <1>3, SeqSpaceAssumption DEF SeqNums
<1> QED
  BY <1>2, <1>3

\* The distance between the reductions of two numbers, in three forms.
LEMMA SeqDiffReduce ==
  ASSUME NEW a \in Int, NEW b \in Int
  PROVE  /\ SeqDiff(a, b) = U8(a - b)
         /\ SeqDiff(U8(a), b) = U8(a - b)
         /\ SeqDiff(a, U8(b)) = U8(a - b)
<1>1. U8(a) \in Int /\ U8(b) \in Int
  BY U8Type, SeqSpaceAssumption DEF SeqNums
<1>2. U8(U8(a) + (-b)) = U8(a + (-b))
  BY U8Add
<1>3. U8(a) + (-b) = U8(a) - b /\ a + (-b) = a - b
  BY <1>1
<1>4. (a - (b % SeqSpace)) % SeqSpace = (a - b) % SeqSpace
  <2>1. SeqSpace \in Nat /\ SeqSpace > 0
    BY SeqSpaceAssumption
  <2> QED
    BY <2>1, ModSub, Zenon
<1> QED
  BY <1>2, <1>3, <1>4 DEF SeqDiff, U8

-----------------------------------------------------------------------------
(***************************************************************************)
(* The ring                                                                *)
(***************************************************************************)

\* The modulus of the counters is a positive multiple of the capacity.
LEMMA IdxSpaceFactor ==
  /\ Capacity \in Nat /\ Capacity > 0
  /\ IdxSpace \in Nat /\ IdxSpace > 0
  /\ Capacity < IdxSpace
  /\ IdxSpace \div Capacity \in Int
  /\ IdxSpace = Capacity * (IdxSpace \div Capacity)
<1>1. /\ Capacity \in Nat /\ Capacity > 0
      /\ IdxSpace \in Nat /\ IdxSpace > 0
      /\ Capacity < IdxSpace
      /\ IdxSpace % Capacity = 0
  BY CapacityAssumption
<1> QED
  BY <1>1, DivMod

\* Reducing an index does not change the slot it designates.
LEMMA MaskOfU32 ==
  ASSUME NEW a \in Int
  PROVE  mask_index(U32(a)) = mask_index(a)
<1> DEFINE d == a \div IdxSpace
           k == IdxSpace \div Capacity
           r == a % IdxSpace
<1>1. d \in Int /\ r \in Int /\ a = IdxSpace * d + r
  BY IdxSpaceFactor, DivMod, ModRange
<1>2. k \in Int /\ IdxSpace = Capacity * k
  BY IdxSpaceFactor
<1> HIDE DEF d, k, r
<1>3. a = Capacity * (k * d) + r
  BY <1>1, <1>2, IdxSpaceFactor
<1>4. k * d \in Int
  BY <1>1, <1>2
<1>5. (Capacity * (k * d) + r) % Capacity = r % Capacity
  BY <1>1, <1>4, IdxSpaceFactor, ModShift
<1>6. a % Capacity = r % Capacity
  BY <1>3, <1>5
<1> QED
  BY <1>6 DEF mask_index, U32, r

\* The same for an index some slots further.
LEMMA MaskOfSum ==
  ASSUME NEW a \in Int, NEW b \in Int
  PROVE  mask_index(U32(a) + b) = mask_index(a + b)
<1>1. U32(a) \in Int
  BY IdxSpaceFactor, ModRange DEF U32
<1>2. mask_index(U32(a) + b) = mask_index(U32(U32(a) + b))
  BY <1>1, MaskOfU32
<1>3. U32(U32(a) + b) = U32(a + b)
  <2>1. ((a % IdxSpace) + b) % IdxSpace = (a + b) % IdxSpace
    BY IdxSpaceFactor, ModAdd, Zenon
  <2> QED
    BY <2>1 DEF U32
<1>4. mask_index(U32(a + b)) = mask_index(a + b)
  BY MaskOfU32
<1> QED
  BY <1>2, <1>3, <1>4

\* Masked indices are slots of the ring.
LEMMA MaskType ==
  ASSUME NEW a \in Int
  PROVE  mask_index(a) \in SlotIds
BY IdxSpaceFactor, ModRange DEF mask_index, SlotIds

\* Reduced counters are in range.
LEMMA U32Type ==
  ASSUME NEW a \in Int
  PROVE  U32(a) \in 0 .. IdxSpace - 1
BY IdxSpaceFactor, ModRange DEF U32

\* Counting on from a reduced counter.
LEMMA U32Add ==
  ASSUME NEW a \in Int, NEW b \in Int
  PROVE  U32(U32(a) + b) = U32(a + b)
<1>1. ((a % IdxSpace) + b) % IdxSpace = (a + b) % IdxSpace
  BY IdxSpaceFactor, ModAdd, Zenon
<1> QED
  BY <1>1 DEF U32

\* The ring holds as many packets as its counters are apart.
LEMMA UsedOfCounters ==
  ASSUME NEW lo \in Int, NEW hi \in Int, lo <= hi, hi <= lo + Capacity
  PROVE  U32(U32(hi) - U32(lo)) = hi - lo
<1>1. /\ U32(lo) \in Int /\ -U32(lo) \in Int
      /\ U32(hi) \in Int /\ U32(hi) + (-U32(lo)) = U32(hi) - U32(lo)
  BY U32Type
<1>2. U32(U32(hi) + (-U32(lo))) = U32(hi + (-U32(lo)))
  BY <1>1, U32Add
<1>3. hi + (-U32(lo)) = hi - U32(lo)
  BY <1>1
<1>4. (hi - (lo % IdxSpace)) % IdxSpace = (hi - lo) % IdxSpace
  BY IdxSpaceFactor, ModSub, Zenon
<1>5. hi - lo \in 0 .. IdxSpace - 1
  BY IdxSpaceFactor
<1>6. (hi - lo) % IdxSpace = hi - lo
  BY <1>5, IdxSpaceFactor, ModSmall
<1>7. U32(hi - U32(lo)) = hi - lo
  BY <1>4, <1>6 DEF U32
<1> QED
  BY <1>1, <1>2, <1>3, <1>7

\* The first counter is as far behind the last one as packets are in use.
LEMMA FirstFromUsed ==
  ASSUME NEW hi \in Int, NEW first \in 0 .. IdxSpace - 1
  PROVE  first = U32(hi - U32(U32(hi) - first))
<1> DEFINE used == U32(U32(hi) - first)
<1>1. U32(hi) \in Int /\ first \in Int /\ U32(hi) - first \in Int
  BY U32Type, IdxSpaceFactor
<1>2. used \in Int /\ -used \in Int
  BY <1>1, U32Type
<1>3. U32(U32(hi) + (-used)) = U32(hi + (-used))
  BY <1>2, U32Add
<1>4. U32(U32(hi) - used) = U32(U32(hi) - (U32(hi) - first))
  <2>1. \A a, b \in Int : (a - (b % IdxSpace)) % IdxSpace = (a - b) % IdxSpace
    BY IdxSpaceFactor, ModSub, Zenon
  <2> QED
    BY <1>1, <2>1 DEF U32
<1>5. U32(hi) - (U32(hi) - first) = first
  BY <1>1
<1>6. U32(first) = first
  BY IdxSpaceFactor, ModSmall DEF U32
<1>7. U32(hi) + (-used) = U32(hi) - used /\ hi + (-used) = hi - used
  BY <1>1, <1>2
<1> QED
  BY <1>3, <1>4, <1>5, <1>6, <1>7

\* Indices that are less than a ring apart designate different slots.
LEMMA SlotsDiffer ==
  ASSUME NEW a \in Int, NEW b \in Int, a < b, b < a + Capacity
  PROVE  mask_index(a) # mask_index(b)
<1>1. a - b < Capacity /\ b - a < Capacity /\ a # b
  BY IdxSpaceFactor
<1> QED
  BY <1>1, IdxSpaceFactor, ModInjective DEF mask_index

-----------------------------------------------------------------------------
(***************************************************************************)
(* The operations of a ring, whatever its slots hold besides a sequence    *)
(* number                                                                  *)
(***************************************************************************)

\* The slots of a ring are a set of records whose sequence number can be set.
SlotSet(S) ==
  \A slot \in S, s \in SeqNums :
    /\ slot.seq \in SeqNums
    /\ [slot EXCEPT !.seq = s] \in S
    /\ [slot EXCEPT !.seq = s].seq = s

Rings(S) == [first : 0 .. IdxSpace - 1, last : 0 .. IdxSpace - 1, head : [SlotIds -> S]]

\* The slot i places behind the oldest one, and its sequence number.
SlotAt(b, i) == b.head[mask_index(b.first + i)]

SeqAt(b, i) == SlotAt(b, i).seq

\* What the ring holds are consecutive sequence numbers.
Consecutive(b) ==
  /\ pktbuf_used(b) <= Capacity
  /\ \A i \in 0 .. pktbuf_used(b) - 1 : SeqAt(b, i) = U8(SeqAt(b, 0) + i)

\* The counters of a ring, and what its macros compute from them.
LEMMA RingCounters ==
  ASSUME NEW S, NEW b \in Rings(S)
  PROVE  /\ b.first \in Int /\ b.last \in Int /\ b.first = U32(b.first)
         /\ pktbuf_used(b) \in 0 .. IdxSpace - 1
         /\ b.last = U32(b.first + pktbuf_used(b))
         /\ pktbuf_empty(b) <=> pktbuf_used(b) = 0
         /\ pktbuf_first(b) = SlotAt(b, 0)
PROOF
  <1>1. /\ b.first \in 0 .. IdxSpace - 1 /\ b.last \in 0 .. IdxSpace - 1
        /\ b.first \in Int /\ b.last \in Int
    BY IdxSpaceFactor DEF Rings
  <1>2. b.first = U32(b.first) /\ b.last = U32(b.last)
    BY <1>1, IdxSpaceFactor, ModSmall DEF U32
  <1>3. pktbuf_used(b) \in 0 .. IdxSpace - 1
    BY <1>1, U32Type DEF pktbuf_used
  <1>4. b.last = U32(b.first + pktbuf_used(b))
    <2>0. b.last - b.first \in Int
      BY <1>1
    <2>1. U32(U32(b.last - b.first) + b.first) = U32((b.last - b.first) + b.first)
      BY <1>1, <2>0, U32Add
    <2>2. /\ (b.last - b.first) + b.first = b.last
          /\ pktbuf_used(b) + b.first = b.first + pktbuf_used(b)
      BY <1>1, <1>3
    <2> QED
      BY <2>1, <2>2, <1>2 DEF pktbuf_used
  <1>5. ASSUME pktbuf_empty(b) PROVE pktbuf_used(b) = 0
    <2>1. b.last - b.first = 0
      BY <1>1, <1>5 DEF pktbuf_empty
    <2>2. U32(0) = 0
      BY IdxSpaceFactor, ModSmall DEF U32
    <2> QED
      BY <2>1, <2>2 DEF pktbuf_used
  <1>6. ASSUME pktbuf_used(b) = 0 PROVE pktbuf_empty(b)
    BY <1>1, <1>2, <1>4, <1>6 DEF pktbuf_empty
  <1>7. pktbuf_first(b) = SlotAt(b, 0)
    BY <1>1 DEF pktbuf_first, first_item, SlotAt
  <1> QED
    BY <1>1, <1>2, <1>3, <1>4, <1>5, <1>6, <1>7

\* Every place of a ring holds a slot with a sequence number.
LEMMA SlotAtType ==
  ASSUME NEW S, SlotSet(S), NEW b \in Rings(S), NEW i \in Int
  PROVE  SlotAt(b, i) \in S /\ SeqAt(b, i) \in SeqNums
PROOF
  <1>1. mask_index(b.first + i) \in SlotIds
    BY RingCounters, MaskType
  <1>2. SlotAt(b, i) \in S
    BY <1>1 DEF SlotAt, Rings
  <1>3. 0 \in SeqNums
    BY SeqSpaceAssumption DEF SeqNums
  <1> QED
    BY <1>2, <1>3 DEF SlotSet, SeqAt

\* How many slots a ring uses once its last counter has advanced by n.
LEMMA UsedAfterAdvance ==
  ASSUME NEW S, NEW b \in Rings(S), NEW n \in Nat, pktbuf_used(b) + n <= Capacity,
         NEW c, c.first = b.first, c.last = U32(b.last + n)
  PROVE  pktbuf_used(c) = pktbuf_used(b) + n /\ c.last \in 0 .. IdxSpace - 1
PROOF
  <1> DEFINE used == pktbuf_used(b)
  <1>1. /\ b.first \in Int /\ b.last \in Int /\ used \in Int /\ used >= 0
        /\ b.first = U32(b.first) /\ b.last = U32(b.first + used)
    BY RingCounters, IdxSpaceFactor
  <1> HIDE DEF used
  <1>2. U32(U32(b.first + used) + n) = U32((b.first + used) + n)
    <2>1. b.first + used \in Int /\ n \in Int
      BY <1>1
    <2> QED
      BY <2>1, U32Add
  <1>3. /\ (b.first + used) + n \in Int
        /\ b.first <= (b.first + used) + n
        /\ (b.first + used) + n <= b.first + Capacity
        /\ (b.first + used) + n - b.first = used + n
    BY <1>1, IdxSpaceFactor DEF used
  <1>4. U32(U32((b.first + used) + n) - U32(b.first)) = used + n
    BY <1>1, <1>3, UsedOfCounters
  <1>5. c.last = U32((b.first + used) + n)
    BY <1>1, <1>2
  <1>6. c.last \in 0 .. IdxSpace - 1
    BY <1>3, <1>5, U32Type
  <1>7. c.last - c.first = U32((b.first + used) + n) - U32(b.first)
    BY <1>1, <1>5
  <1>8. pktbuf_used(c) = used + n
    BY <1>4, <1>7 DEF pktbuf_used
  <1> QED
    BY <1>6, <1>8 DEF used

\* A packet enqueued is the newest; the others stay.
LEMMA EnqueueAppends ==
  ASSUME NEW S, NEW b \in Rings(S), NEW p \in S, pktbuf_used(b) < Capacity
  PROVE  LET c == pktbuf_enqueue(b, p) IN
         /\ c \in Rings(S)
         /\ c.first = b.first
         /\ pktbuf_used(c) = pktbuf_used(b) + 1
         /\ \A i \in 0 .. pktbuf_used(b) - 1 : SlotAt(c, i) = SlotAt(b, i)
         /\ SlotAt(c, pktbuf_used(b)) = p
PROOF
  <1> DEFINE c == pktbuf_enqueue(b, p)
             used == pktbuf_used(b)
  <1>1. /\ b.first \in Int /\ b.last \in Int
        /\ used \in Int /\ used >= 0 /\ b.last = U32(b.first + used)
    BY RingCounters, IdxSpaceFactor
  <1>2. mask_index(b.last) = mask_index(b.first + used) /\ mask_index(b.last) \in SlotIds
    BY <1>1, MaskOfU32, MaskType
  <1>3. /\ c.first = b.first /\ c.last = U32(b.last + 1)
        /\ c.head = [b.head EXCEPT ![mask_index(b.last)] = p]
        /\ b.head \in [SlotIds -> S]
    BY DEF pktbuf_enqueue, Rings
  <1>4. pktbuf_used(c) = used + 1 /\ c.last \in 0 .. IdxSpace - 1
    BY <1>1, <1>3, UsedAfterAdvance, IdxSpaceFactor
  <1>5. c \in Rings(S)
    BY <1>2, <1>3, <1>4 DEF pktbuf_enqueue, Rings
  <1>6. ASSUME NEW i \in 0 .. used - 1
        PROVE  SlotAt(c, i) = SlotAt(b, i)
    <2>1. mask_index(b.first + i) # mask_index(b.first + used)
      BY <1>1, SlotsDiffer, IdxSpaceFactor
    <2>2. mask_index(b.first + i) \in SlotIds
      BY <1>1, MaskType
    <2> QED
      BY <1>2, <1>3, <2>1, <2>2 DEF SlotAt
  <1>7. SlotAt(c, used) = p
    BY <1>2, <1>3 DEF SlotAt
  <1> QED
    BY <1>3, <1>4, <1>5, <1>6, <1>7

\* A packet dequeued was the oldest; the others move up.
LEMMA DequeueDrops ==
  ASSUME NEW S, NEW b \in Rings(S), ~pktbuf_empty(b)
  PROVE  LET c == pktbuf_dequeue(b, 1) IN
         /\ c \in Rings(S)
         /\ pktbuf_used(b) <= Capacity => pktbuf_used(c) = pktbuf_used(b) - 1
         /\ \A i \in Int : SlotAt(c, i) = SlotAt(b, i + 1)
PROOF
  <1> DEFINE c == pktbuf_dequeue(b, 1)
             used == pktbuf_used(b)
  <1>1. /\ b.first \in Int /\ b.last \in Int
        /\ used \in Int /\ used > 0 /\ b.last = U32(b.first + used)
    BY RingCounters, IdxSpaceFactor
  <1>2. /\ c.first = U32(b.first + 1) /\ c.last = b.last /\ c.head = b.head
        /\ c.first \in 0 .. IdxSpace - 1
    BY <1>1, U32Type DEF pktbuf_dequeue, Rings
  <1>3. c \in Rings(S)
    BY <1>2 DEF pktbuf_dequeue, Rings
  <1>4. ASSUME used <= Capacity
        PROVE  pktbuf_used(c) = used - 1
    <2> DEFINE lo == b.first + 1
               hi == b.first + used
    <2>1. lo \in Int /\ hi \in Int /\ lo <= hi /\ hi <= lo + Capacity /\ hi - lo = used - 1
      BY <1>1, <1>4, IdxSpaceFactor
    <2>2. c.first = U32(lo) /\ c.last = U32(hi)
      BY <1>1, <1>2
    <2> HIDE DEF lo, hi
    <2>3. U32(U32(hi) - U32(lo)) = hi - lo
      BY <2>1, UsedOfCounters
    <2> QED
      BY <2>1, <2>2, <2>3 DEF pktbuf_used
  <1>5. ASSUME NEW i \in Int
        PROVE  SlotAt(c, i) = SlotAt(b, i + 1)
    <2>0. b.first + 1 \in Int
      BY <1>1
    <2>1. mask_index(U32(b.first + 1) + i) = mask_index((b.first + 1) + i)
      BY <2>0, MaskOfSum
    <2>2. (b.first + 1) + i = b.first + (i + 1)
      BY <1>1
    <2>3. mask_index(c.first + i) = mask_index(b.first + (i + 1))
      BY <1>2, <2>1, <2>2
    <2> QED
      BY <1>2, <2>3 DEF SlotAt
  <1> QED
    BY <1>3, <1>4, <1>5

\* The position of a slot relative to the last counter.
LEMMA MaskOfDistance ==
  ASSUME NEW a \in Int, NEW b \in Int
  PROVE  mask_index(mask_index(a) - U32(b)) = mask_index(a - b)
PROOF
  <1>1. U32(b) \in Int /\ -U32(b) \in Int /\ a - U32(b) \in Int
    BY U32Type
  <1>2. mask_index(mask_index(a) + (-U32(b))) = mask_index(a + (-U32(b)))
    <2>1. ((a % Capacity) + (-U32(b))) % Capacity = (a + (-U32(b))) % Capacity
      BY <1>1, IdxSpaceFactor, ModAdd, Zenon
    <2> QED
      BY <2>1 DEF mask_index
  <1>3. \A x, y \in Int : mask_index(x - mask_index(y)) = mask_index(x - y)
    <2>1. \A x, y \in Int : (x - (y % Capacity)) % Capacity = (x - y) % Capacity
      BY IdxSpaceFactor, ModSub, Zenon
    <2> QED
      BY <2>1 DEF mask_index
  <1>4. mask_index(a - U32(b)) = mask_index(a - b)
    BY <1>1, <1>3, MaskOfU32
  <1>5. mask_index(a) \in Int
    BY MaskType, IdxSpaceFactor DEF SlotIds
  <1>6. /\ mask_index(a) + (-U32(b)) = mask_index(a) - U32(b)
        /\ a + (-U32(b)) = a - U32(b)
    BY <1>1, <1>5
  <1> QED
    BY <1>2, <1>4, <1>6

\* The place of an index that is less than a ring before or behind the last
\* counter.
LEMMA PlaceFromLast ==
  ASSUME NEW i \in Int
  PROVE  /\ i \in 0 .. Capacity - 1 => mask_index(i) = i
         /\ i \in -Capacity .. -1 => mask_index(i) = i + Capacity
PROOF
  <1>1. ASSUME i \in 0 .. Capacity - 1 PROVE mask_index(i) = i
    BY <1>1, IdxSpaceFactor, ModSmall DEF mask_index
  <1>2. ASSUME i \in -Capacity .. -1 PROVE mask_index(i) = i + Capacity
    <2>1. (Capacity * 1 + i) % Capacity = i % Capacity
      <3>1. Capacity \in Nat /\ Capacity > 0 /\ 1 \in Int
        BY IdxSpaceFactor
      <3> QED
        BY <3>1, ModShift, Zenon
    <2>2. Capacity * 1 + i = i + Capacity /\ i + Capacity \in 0 .. Capacity - 1
      BY <1>2, IdxSpaceFactor
    <2>3. (i + Capacity) % Capacity = i + Capacity
      BY <2>2, IdxSpaceFactor, ModSmall
    <2> QED
      BY <2>1, <2>2, <2>3 DEF mask_index
  <1> QED
    BY <1>1, <1>2

\* Reserving n slots leaves those in use as they are, and gives the others the
\* sequence numbers of their places.
LEMMA ReserveExtends ==
  ASSUME NEW S, SlotSet(S), NEW b \in Rings(S), NEW n \in Nat, n > 0,
         pktbuf_used(b) > 0, pktbuf_used(b) + n <= Capacity
  PROVE  LET c == Reserve(b, n) IN
         /\ c \in Rings(S)
         /\ c.first = b.first
         /\ pktbuf_used(c) = pktbuf_used(b) + n
         /\ \A i \in 0 .. pktbuf_used(b) - 1 : SlotAt(c, i) = SlotAt(b, i)
         /\ \A i \in pktbuf_used(b) .. pktbuf_used(b) + n - 1 : SeqAt(c, i) = U8(SeqAt(b, 0) + i)
PROOF
  <1> DEFINE used == pktbuf_used(b)
             nextSeq == pktbuf_first(b).seq + used
             Pos(j) == mask_index(j - b.last)
             head == [j \in SlotIds |->
                        IF Pos(j) < n
                        THEN [b.head[j] EXCEPT !.seq = U8(nextSeq + Pos(j))]
                        ELSE b.head[j]]
             c == Reserve(b, n)
  <1>1. /\ b.first \in Int /\ b.last \in Int
        /\ used \in Int /\ used > 0 /\ used + n <= Capacity /\ b.last = U32(b.first + used)
        /\ nextSeq = SeqAt(b, 0) + used
    BY RingCounters, IdxSpaceFactor DEF SeqAt
  <1>2. b.head \in [SlotIds -> S] /\ SlotIds \subseteq Int
    BY IdxSpaceFactor DEF Rings, SlotIds
  <1>3. SeqAt(b, 0) \in Int /\ nextSeq \in Int
    BY <1>1, SlotAtType, SeqSpaceAssumption DEF SeqNums
  <1> HIDE DEF used, nextSeq
  <1>4. c = [b EXCEPT !.last = U32(@ + n), !.head = head]
    BY DEF Reserve, nextSeq, used
  <1>5. c.first = b.first /\ c.last = U32(b.last + n) /\ c.head = head
    BY <1>4 DEF Rings
  <1> HIDE DEF c
  <1>6. pktbuf_used(c) = used + n /\ c.last \in 0 .. IdxSpace - 1
    BY <1>1, <1>5, UsedAfterAdvance DEF used
  <1>7. \A j \in SlotIds : Pos(j) \in Int /\ U8(nextSeq + Pos(j)) \in SeqNums
    <2> TAKE j \in SlotIds
    <2>1. Pos(j) \in Int
      BY <1>1, <1>2, MaskType DEF SlotIds
    <2> HIDE DEF Pos
    <2>2. nextSeq + Pos(j) \in Int
      BY <1>3, <2>1
    <2> QED
      BY <2>1, <2>2, U8Type
  <1>8. c \in Rings(S)
    <2>1. head \in [SlotIds -> S]
      BY <1>2, <1>7 DEF SlotSet
    <2> HIDE DEF head
    <2> QED
      BY <1>4, <1>6, <1>5, <2>1 DEF Rings
  <1>9. ASSUME NEW i \in 0 .. used + n - 1
        PROVE  /\ mask_index(b.first + i) \in SlotIds
               /\ Pos(mask_index(b.first + i)) = mask_index(i - used)
    <2>1. b.first + i \in Int /\ b.first + used \in Int /\ (b.first + i) - (b.first + used) = i - used
      BY <1>1
    <2>2. mask_index(mask_index(b.first + i) - U32(b.first + used))
            = mask_index((b.first + i) - (b.first + used))
      BY <2>1, MaskOfDistance
    <2> QED
      BY <1>1, <2>1, <2>2, MaskType
  <1>10. ASSUME NEW i \in 0 .. used - 1
         PROVE  SlotAt(c, i) = SlotAt(b, i)
    <2>1. i - used \in -Capacity .. -1 /\ i - used \in Int
      BY <1>1, IdxSpaceFactor
    <2>2. mask_index(i - used) = i - used + Capacity
      BY <2>1, PlaceFromLast
    <2>3. i \in 0 .. used + n - 1 /\ ~(mask_index(i - used) < n)
      BY <1>1, <2>2, IdxSpaceFactor
    <2>4. c.head[mask_index(b.first + i)] = b.head[mask_index(b.first + i)]
      BY <1>5, <1>9, <2>3
    <2> QED
      BY <1>5, <2>4 DEF SlotAt
  <1>11. ASSUME NEW i \in used .. used + n - 1
         PROVE  SeqAt(c, i) = U8(SeqAt(b, 0) + i)
    <2>1. i - used \in 0 .. Capacity - 1 /\ i - used \in Int /\ i \in 0 .. used + n - 1
      BY <1>1, IdxSpaceFactor
    <2>2. mask_index(i - used) = i - used /\ i - used < n
      BY <1>1, <2>1, PlaceFromLast
    <2>3. nextSeq + (i - used) = SeqAt(b, 0) + i
      BY <1>1, <1>3
    <2>4. /\ mask_index(b.first + i) \in SlotIds
          /\ Pos(mask_index(b.first + i)) = i - used
      BY <1>9, <2>1, <2>2
    <2> HIDE DEF Pos
    <2>5. head[mask_index(b.first + i)].seq = U8(nextSeq + (i - used))
      BY <1>2, <1>7, <2>2, <2>4 DEF SlotSet
    <2> QED
      BY <1>5, <2>3, <2>5 DEF SeqAt, SlotAt
  <1> QED
    BY <1>5, <1>6, <1>8, <1>10, <1>11 DEF used, c

\* An empty ring gets its first slot with the number that is asked for.
LEMMA SlotBaseStarts ==
  ASSUME NEW S, SlotSet(S), NEW b \in Rings(S), NEW s \in SeqNums, Consecutive(b)
  PROVE  LET base == SlotBase(b, s) IN
         /\ base \in Rings(S)
         /\ Consecutive(base)
         /\ pktbuf_used(base) > 0
         /\ pktbuf_empty(b) => pktbuf_used(base) = 1 /\ SeqAt(base, 0) = s
         /\ ~pktbuf_empty(b) => base = b
PROOF
  <1> DEFINE base == SlotBase(b, s)
  <1>1. pktbuf_used(b) \in Int /\ pktbuf_used(b) >= 0 /\ (pktbuf_empty(b) <=> pktbuf_used(b) = 0)
    BY RingCounters, IdxSpaceFactor
  <1>2. CASE pktbuf_empty(b)
    <2> DEFINE p == [b.head[mask_index(b.last)] EXCEPT !.seq = s]
    <2>1. p \in S /\ p.seq = s
      <3>1. b.head[mask_index(b.last)] \in S
        BY RingCounters, MaskType DEF Rings
      <3> QED
        BY <3>1 DEF SlotSet
    <2> HIDE DEF p
    <2>2. base = pktbuf_enqueue(b, p)
      BY <1>2 DEF SlotBase, p
    <2>3. /\ base \in Rings(S)
          /\ pktbuf_used(base) = 1
          /\ SeqAt(base, 0) = s
      BY <1>1, <1>2, <2>1, <2>2, EnqueueAppends, IdxSpaceFactor DEF SeqAt
    <2>4. Consecutive(base)
      <3>1. s + 0 = s /\ U8(s) = s
        BY U8Small, SeqSpaceAssumption DEF SeqNums
      <3> HIDE DEF base
      <3> QED
        BY <2>3, <3>1, IdxSpaceFactor DEF Consecutive
    <2> QED
      BY <1>2, <2>3, <2>4
  <1>3. CASE ~pktbuf_empty(b)
    BY <1>1, <1>3 DEF SlotBase
  <1> QED
    BY <1>2, <1>3

\* The slot of a sequence number exists, or is reserved together with those
\* before it; it has that number.
LEMMA SlotForExtends ==
  ASSUME NEW S, SlotSet(S), NEW b \in Rings(S), NEW s \in SeqNums, Consecutive(b),
         SlotOffset(b, s) < Capacity
  PROVE  LET base == SlotBase(b, s)
             offset == SlotOffset(b, s)
             c == SlotReserved(b, s)
         IN
         /\ c \in Rings(S)
         /\ offset \in Nat
         /\ offset = SeqDiff(s, SeqAt(base, 0))
         /\ pktbuf_used(c) = IF offset < pktbuf_used(base) THEN pktbuf_used(base) ELSE offset + 1
         /\ offset < pktbuf_used(base) => c = base
         /\ \A i \in 0 .. pktbuf_used(base) - 1 : SlotAt(c, i) = SlotAt(base, i)
         /\ Consecutive(c)
         /\ SlotIndex(b, s) = mask_index(c.first + offset)
         /\ c.head[SlotIndex(b, s)].seq = s
PROOF
  <1> DEFINE base == SlotBase(b, s)
             offset == SlotOffset(b, s)
             used == pktbuf_used(base)
             c == SlotReserved(b, s)
  <1>1. base \in Rings(S) /\ Consecutive(base) /\ used > 0
    BY SlotBaseStarts
  <1>2. used \in Int /\ base.first \in Int /\ pktbuf_first(base).seq = SeqAt(base, 0)
    BY <1>1, RingCounters, IdxSpaceFactor DEF SeqAt
  <1>3. SeqAt(base, 0) \in SeqNums
    BY <1>1, SlotAtType
  <1>4. offset = SeqDiff(s, SeqAt(base, 0))
    BY <1>2 DEF SlotOffset
  <1>5. offset \in Nat
    <2>1. s - SeqAt(base, 0) \in Int
      BY <1>3, SeqSpaceAssumption DEF SeqNums
    <2> QED
      BY <1>4, <2>1, U8Type, SeqSpaceAssumption DEF SeqDiff, SeqNums
  <1>6. c = IF offset < used THEN base ELSE Reserve(base, offset + 1 - used)
    BY DEF SlotReserved
  <1>7. SlotIndex(b, s) = mask_index(mask_index(base.first) + offset)
    BY DEF SlotIndex, first_item
  <1> HIDE DEF base, offset, used, c
  <1>8. /\ c \in Rings(S)
        /\ c.first = base.first
        /\ pktbuf_used(c) = IF offset < used THEN used ELSE offset + 1
        /\ \A i \in 0 .. used - 1 : SlotAt(c, i) = SlotAt(base, i)
        /\ SeqAt(c, 0) = SeqAt(base, 0)
        /\ Consecutive(c)
    <2>1. CASE offset < used
      BY <1>1, <1>6, <2>1 DEF used
    <2>2. CASE ~(offset < used)
      <3> DEFINE n == offset + 1 - used
      <3>1. /\ n \in Nat /\ n > 0 /\ used + n = offset + 1 /\ used + n <= Capacity
            /\ c = Reserve(base, n)
        BY <1>1, <1>2, <1>5, <1>6, <2>2, IdxSpaceFactor DEF offset
      <3> HIDE DEF n
      <3>2. /\ c \in Rings(S)
            /\ c.first = base.first
            /\ pktbuf_used(c) = used + n
            /\ \A i \in 0 .. used - 1 : SlotAt(c, i) = SlotAt(base, i)
            /\ \A i \in used .. used + n - 1 : SeqAt(c, i) = U8(SeqAt(base, 0) + i)
        BY <1>1, <3>1, ReserveExtends DEF used
      <3>3. SeqAt(c, 0) = SeqAt(base, 0)
        BY <1>1, <1>2, <3>2 DEF SeqAt
      <3>4. ASSUME NEW i \in 0 .. used + n - 1
            PROVE  SeqAt(c, i) = U8(SeqAt(c, 0) + i)
        <4>1. CASE i \in 0 .. used - 1
          BY <1>1, <3>2, <3>3, <4>1 DEF Consecutive, used, SeqAt
        <4>2. CASE i \in used .. used + n - 1
          BY <3>2, <3>3, <4>2
        <4> QED
          BY <1>2, <3>1, <4>1, <4>2
      <3>5. \A i \in 0 .. pktbuf_used(c) - 1 : SeqAt(c, i) = U8(SeqAt(c, 0) + i)
        <4> TAKE i \in 0 .. pktbuf_used(c) - 1
        <4>1. i \in 0 .. used + n - 1
          BY <1>2, <3>1, <3>2
        <4> QED
          BY <3>4, <4>1
      <3>6. Consecutive(c)
        BY <3>1, <3>2, <3>5 DEF Consecutive
      <3> QED
        BY <2>2, <3>1, <3>2, <3>3, <3>6
    <2> QED
      BY <2>1, <2>2
  <1>9. SlotIndex(b, s) = mask_index(c.first + offset) /\ c.head[SlotIndex(b, s)].seq = s
    <2>1. mask_index(mask_index(base.first) + offset) = mask_index(base.first + offset)
      <3>1. base.first \in Int /\ offset \in Int
        BY <1>2, <1>5
      <3>2. ((base.first % Capacity) + offset) % Capacity = (base.first + offset) % Capacity
        BY <3>1, IdxSpaceFactor, ModAdd, Zenon
      <3> QED
        BY <3>2 DEF mask_index
    <2>2. c.head[SlotIndex(b, s)].seq = SeqAt(c, offset)
      BY <1>7, <1>8, <2>1 DEF SeqAt, SlotAt
    <2>3. offset \in 0 .. pktbuf_used(c) - 1
      BY <1>2, <1>5, <1>8
    <2>4. SeqAt(c, offset) = U8(SeqAt(base, 0) + offset)
      BY <1>8, <2>3 DEF Consecutive
    <2>5. U8(SeqAt(base, 0) + offset) = s
      BY <1>3, <1>4, SeqDiffReaches
    <2> QED
      BY <1>7, <1>8, <2>1, <2>2, <2>4, <2>5
  <1>10. offset < used => c = base
    BY <1>6
  <1> QED
    BY <1>4, <1>5, <1>8, <1>9, <1>10 DEF base, offset, used, c

=============================================================================
