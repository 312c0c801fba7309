---------------------------- MODULE XpQueueProofs ----------------------------
(***************************************************************************)
(* For every size of queue, granularity of the read pointer and table of   *)
(* locks: the hardware overwrites neither what the client has locked nor   *)
(* what nobody has seen, and the bottom half hands over just that.         *)
(*                                                                         *)
(* Addresses are compared by how far they lie behind the read pointer:     *)
(* what is locked comes first, then what nobody has seen, then the unit    *)
(* the hardware is writing.                                                *)
(***************************************************************************)
EXTENDS XpQueue, SequenceTheorems, FiniteSetTheorems, WellFoundedInduction, TLAPS

\* The table holds one region at most.
OneAtATime(s) == s.locks = 1 \/ "Hold" \notin s.env

\* What the clients of xp_osd_drv.c do with a queue: sections are held and given up from their
\* end; of other data one region is out at a time.
InUse(s) ==
  /\ "UnitEndsAtReadPtr" \notin s.env
  /\ OneAtATime(s) \/ (s.type = "PSI" /\ s.env \cap {"Release", "UnlockFront"} = {})

QueuesInUse == \A s \in Setups : InUse(s)

-----------------------------------------------------------------------------
\* The inductive invariant.

\* How far x lies behind r, going round the ring.
Off(r, x) == IF x >= r THEN x - r ELSE x - r + QueueSize

\* The address the read pointer register stands for.
Base(c) == IF c.rptr = QueueSize THEN 0 ELSE c.rptr

Granular(x) == \E m \in 0 .. QueueSize : x = m * Gran

Pointers(c) ==
  /\ Granular(c.rptr)
  /\ Off(Base(c), c.ppProcessAddr) <= Off(Base(c), c.wstart)
  /\ ~c.full => Off(Base(c), c.wstart) <= Off(Base(c), c.wptr)
  /\ c.full => c.wptr = Base(c) /\ c.wstart # c.wptr

\* The table is sorted; its regions are behind the read pointer and apart from each other.
Table(l, r, p) ==
  /\ \A i, j \in 1 .. Len(l) : i < j => l[i].b < l[j].b
  /\ \A i \in 1 .. Len(l) : Off(r, l[i].b) < Off(r, l[i].e) /\ Off(r, l[i].e) <= Off(r, p)
  /\ \A i, j \in 1 .. Len(l) :
       Off(r, l[i].b) < Off(r, l[j].b) => Off(r, l[i].e) < Off(r, l[j].b)

\* The address locked last is where the region next to the read pointer begins.
First(l, r, a) ==
  \E k \in 1 .. Len(l) :
    /\ a = l[k].b
    /\ \A j \in 1 .. Len(l) : Off(r, a) <= Off(r, l[j].b)

Sound(c) ==
  /\ Pointers(c)
  /\ Table(c.pLockData, Base(c), c.ppProcessAddr)
  /\ c.pLockData # << >> => First(c.pLockData, Base(c), c.ppLockAddr)

\* process_data is where the driver has processed to.
Cursor ==
  /\ bh.pc # "records" => ch.ppReadAddr = ch.ppProcessAddr
  /\ bh.pc = "records" =>
       /\ bh.cur = ch.ppProcessAddr /\ bh.cur # bh.end
       /\ Off(Base(ch), bh.cur) <= Off(Base(ch), bh.end)
       /\ Off(Base(ch), bh.end) <= Off(Base(ch), ch.wstart)

FreshWhere == ch.State # "UNDEFINED" => fresh = Cells(ch.ppProcessAddr, ch.wstart)

Regions(l) == {l[i] : i \in 1 .. Len(l)}
HeldWhere == held = Regions(ch.pLockData)

Allotted ==
  /\ ch.wLockAlloc = 0 => ch.pLockData = << >>
  /\ OneAtATime(setup) => Len(ch.pLockData) <= 1
  /\ "Hold" \notin Env => ch.pLockData = << >>

\* A queue that is not defined is empty; one that is has its memory.
Life ==
  /\ ch.State = "UNDEFINED" => ~ch.enbl /\ ch.pLockData = << >> /\ held = {} /\ fresh = {}
  /\ ch.State # "UNDEFINED" => ch.hMem = "live"
  /\ ch.hMem # "twice"
  /\ bh.pc = "records" => ch.State = "ENABLED"

IInv ==
  /\ TypeOK /\ Life
  /\ NoLockFailed => Sound(ch) /\ Cursor /\ FreshWhere /\ HeldWhere /\ Allotted

-----------------------------------------------------------------------------
\* Distances round the ring.

LEMMA Sizes == QueueSize \in Nat \ {0} /\ Gran \in Nat \ {0} /\ QueueSize % Gran = 0
BY QueueAssumption

LEMMA OffRange ==
  ASSUME NEW r \in Addr, NEW x \in Addr
  PROVE  Off(r, x) \in 0 .. QueueSize - 1
BY Sizes DEF Addr, Off

LEMMA OffEqual ==
  ASSUME NEW r \in Addr, NEW x \in Addr, NEW y \in Addr, Off(r, x) = Off(r, y)
  PROVE  x = y
BY Sizes DEF Addr, Off

\* Distances from an address further on.
LEMMA OffShift ==
  ASSUME NEW r \in Addr, NEW s \in Addr, NEW x \in Addr
  PROVE  Off(s, x) = IF Off(r, s) <= Off(r, x) THEN Off(r, x) - Off(r, s)
                     ELSE Off(r, x) - Off(r, s) + QueueSize
BY Sizes DEF Addr, Off

LEMMA CellsByOff ==
  ASSUME NEW r \in Addr, NEW a \in Addr, NEW b \in Addr, Off(r, a) <= Off(r, b)
  PROVE  Cells(a, b) = {x \in Addr : Off(r, a) <= Off(r, x) /\ Off(r, x) < Off(r, b)}
BY Sizes DEF Addr, Off, Cells

LEMMA CellsOn == ASSUME NEW a \in Addr, NEW b \in Addr PROVE Cells(a, b) \subseteq Addr
BY Sizes DEF Addr, Cells

-----------------------------------------------------------------------------
\* The read pointer's granularity.
LEMMA Quotient ==
  ASSUME NEW a \in Nat
  PROVE  /\ a \div Gran \in Nat
         /\ (a \div Gran) * Gran <= a
         /\ a < (a \div Gran) * Gran + Gran
BY Sizes

LEMMA TimesMonotonic ==
  ASSUME NEW m \in Nat, NEW q \in Nat, m <= q
  PROVE  m * Gran <= q * Gran
BY Sizes

LEMMA SizeGranular == Granular(QueueSize)
BY Sizes DEF Granular

LEMMA ReadPointerValue ==
  ASSUME NEW a \in Addr
  PROVE  \E f \in Addr :
           /\ ReadPointer(a) = IF f = 0 THEN QueueSize ELSE f
           /\ \E m \in 0 .. QueueSize : f = m * Gran
           /\ f <= a /\ a - f < Gran
           /\ \A m \in Nat : m * Gran <= a => m * Gran <= f
<1> DEFINE q == a \div Gran
           f == q * Gran
<1>0. a \in Nat /\ a < QueueSize /\ Gran \in Nat /\ Gran > 0 /\ QueueSize \in Nat
  BY Sizes DEF Addr
<1>1. q \in Nat /\ f <= a /\ a < f + Gran
  BY <1>0, Quotient
<1>2. ReadPointer(a) = IF q = 0 THEN QueueSize ELSE f
  BY DEF ReadPointer
<1>3. \A m \in Nat : m * Gran <= a => m <= q
  <2> SUFFICES ASSUME NEW m \in Nat, m * Gran <= a, q + 1 <= m
               PROVE  FALSE
    BY <1>1
  <2> HIDE DEF q
  <2>1. (q + 1) * Gran <= m * Gran
    BY <1>1, TimesMonotonic
  <2>2. (q + 1) * Gran = q * Gran + Gran
    BY <1>0, <1>1
  <2> QED
    BY <1>0, <1>1, <2>1, <2>2
<1> HIDE DEF q
<1>4. f \in Nat /\ q <= f /\ (f = 0 <=> q = 0)
  BY <1>0, <1>1
<1>5. \A m \in Nat : m * Gran <= a => m * Gran <= f
  BY <1>1, <1>3, TimesMonotonic
<1>6. f \in Addr /\ q \in 0 .. QueueSize /\ a - f < Gran
  <2> HIDE DEF f
  <2> QED
    BY <1>0, <1>1, <1>4 DEF Addr
<1> QED
  BY <1>1, <1>2, <1>4, <1>5, <1>6

\* The register's new value for an address behind its old one: behind it as well, by less than
\* the granularity before the address.
LEMMA ReadPointerBehind ==
  ASSUME NEW r \in 1 .. QueueSize, Granular(r), NEW a \in Addr
  PROVE  LET s == ReadPointer(a)
             old == IF r = QueueSize THEN 0 ELSE r
             new == IF s = QueueSize THEN 0 ELSE s
         IN /\ s \in 1 .. QueueSize /\ Granular(s)
            /\ old \in Addr /\ new \in Addr
            /\ Off(old, new) <= Off(old, a)
            /\ Off(old, a) - Off(old, new) < Gran
<1> DEFINE s == ReadPointer(a)
           old == IF r = QueueSize THEN 0 ELSE r
           new == IF s = QueueSize THEN 0 ELSE s
<1>1. PICK f \in Addr :
         /\ s = IF f = 0 THEN QueueSize ELSE f
         /\ \E m \in 0 .. QueueSize : f = m * Gran
         /\ f <= a /\ a - f < Gran
         /\ \A m \in Nat : m * Gran <= a => m * Gran <= f
  BY ReadPointerValue
<1>2. Granular(s)
  BY <1>1, SizeGranular DEF Granular
<1>3. s \in 1 .. QueueSize /\ new = f
  BY <1>1, Sizes DEF Addr
<1>4. old \in Addr /\ (old <= a => old <= f)
  <2>1. CASE r = QueueSize
    BY <2>1, <1>1, Sizes DEF Addr
  <2>2. CASE r # QueueSize
    <3>1. PICK m \in 0 .. QueueSize : r = m * Gran
      BY DEF Granular
    <3>2. m \in Nat /\ old = r
      BY <2>2, Sizes
    <3>3. old <= a => old <= f
      BY <3>1, <3>2, <1>1, Zenon
    <3> QED
      BY <2>2, <3>2, <3>3, Sizes DEF Addr
  <2> QED
    BY <2>1, <2>2
<1> HIDE DEF s, old, new
<1>5. Off(old, f) <= Off(old, a) /\ Off(old, a) - Off(old, f) < Gran
  BY <1>1, <1>4, Sizes DEF Off, Addr
<1> QED
  BY <1>2, <1>3, <1>4, <1>5 DEF s, old, new

-----------------------------------------------------------------------------
\* Tables: what is left when a record is removed, what is there when one is inserted.
LEMMA LeastExists ==
  ASSUME NEW S \in SUBSET Nat, S # {}
  PROVE  \E m \in S : \A x \in S : m <= x
<1> DEFINE R == OpToRel(<, Nat)
<1>1. PICK m \in S : \A x \in S : <<x, m>> \notin R
  <2>1. IsWellFoundedOn(R, Nat)
    BY NatLessThanWellFounded
  <2> HIDE DEF R
  <2> QED
    BY <2>1, WFMin, Zenon
<1>2. \A x \in S : m <= x
  <2> SUFFICES ASSUME NEW x \in S, x < m PROVE FALSE
    OBVIOUS
  <2>1. <<x, m>> \in {ss \in Nat \X Nat : ss[1] < ss[2]}
    OBVIOUS
  <2> QED
    BY <1>1, <2>1 DEF OpToRel
<1> QED
  BY <1>2

LEMMA RemoveAtIs ==
  ASSUME NEW T, NEW l \in Seq(T), NEW i \in 1 .. Len(l)
  PROVE  /\ RemoveAt(l, i) \in Seq(T)
         /\ Len(RemoveAt(l, i)) = Len(l) - 1
         /\ \A j \in 1 .. Len(l) - 1 : RemoveAt(l, i)[j] = IF j < i THEN l[j] ELSE l[j + 1]
<1> DEFINE a == SubSeq(l, 1, i - 1)
           b == SubSeq(l, i + 1, Len(l))
<1>1. a \in Seq(T) /\ Len(a) = i - 1 /\ \A j \in 1 .. i - 1 : a[j] = l[j]
  OBVIOUS
<1>2. b \in Seq(T) /\ Len(b) = Len(l) - i /\ \A j \in 1 .. Len(l) - i : b[j] = l[i + j]
  OBVIOUS
<1> HIDE DEF a, b
<1>0. Len(l) \in Nat
  OBVIOUS
<1>3. /\ a \o b \in Seq(T) /\ Len(a \o b) = Len(a) + Len(b)
      /\ \A j \in 1 .. Len(a) + Len(b) : (a \o b)[j] = IF j <= Len(a) THEN a[j] ELSE b[j - Len(a)]
  BY <1>1, <1>2, ConcatProperties, Zenon
<1> DEFINE d == a \o b
<1> HIDE DEF d
<1>4. \A j \in 1 .. Len(l) - 1 : d[j] = IF j < i THEN l[j] ELSE l[j + 1]
  <2>1. \A j \in 1 .. Len(a) + Len(b) : d[j] = IF j <= Len(a) THEN a[j] ELSE b[j - Len(a)]
    BY <1>3 DEF d
  <2> SUFFICES ASSUME NEW j \in 1 .. Len(l) - 1
               PROVE  d[j] = IF j < i THEN l[j] ELSE l[j + 1]
    OBVIOUS
  <2>0. j \in 1 .. Len(a) + Len(b) /\ (j <= Len(a) <=> j < i)
    BY <1>0, <1>1, <1>2
  <2>2. CASE j < i
    <3>1. d[j] = a[j] /\ j \in 1 .. i - 1
      BY <2>0, <2>1, <2>2
    <3> QED
      BY <1>1, <2>2, <3>1
  <2>3. CASE j >= i
    <3>1. d[j] = b[j - Len(a)]
      BY <2>0, <2>1, <2>3
    <3> DEFINE k == j - Len(a)
    <3>2. k \in 1 .. Len(l) - i /\ i + k = j + 1
      BY <1>0, <1>1, <2>3
    <3> HIDE DEF k
    <3>3. b[k] = l[i + k]
      BY <1>2, <3>2, Zenon
    <3>4. d[j] = b[k]
      BY <3>1 DEF k
    <3> QED
      BY <2>3, <3>2, <3>3, <3>4
  <2> QED
    BY <2>2, <2>3
<1>5. d \in Seq(T) /\ Len(d) = Len(l) - 1
  BY <1>0, <1>1, <1>2, <1>3 DEF d
<1> QED
  BY <1>4, <1>5 DEF RemoveAt, a, b, d

LEMMA InsertAtIs ==
  ASSUME NEW T, NEW l \in Seq(T), NEW i \in 1 .. Len(l) + 1, NEW e \in T
  PROVE  /\ InsertAt(l, i, e) \in Seq(T)
         /\ Len(InsertAt(l, i, e)) = Len(l) + 1
         /\ \A j \in 1 .. Len(l) + 1 :
              InsertAt(l, i, e)[j] = IF j < i THEN l[j] ELSE IF j = i THEN e ELSE l[j - 1]
<1> DEFINE a == SubSeq(l, 1, i - 1)
           b == SubSeq(l, i, Len(l))
           c == a \o <<e>>
<1>1. a \in Seq(T) /\ Len(a) = i - 1 /\ \A j \in 1 .. i - 1 : a[j] = l[j]
  OBVIOUS
<1>2. b \in Seq(T) /\ Len(b) = Len(l) - i + 1 /\ \A j \in 1 .. Len(l) - i + 1 : b[j] = l[i + j - 1]
  OBVIOUS
<1> HIDE DEF a, b
<1>3. c \in Seq(T) /\ Len(c) = i /\ \A j \in 1 .. i : c[j] = IF j < i THEN l[j] ELSE e
  BY <1>1
<1> HIDE DEF c
<1>0. Len(l) \in Nat
  OBVIOUS
<1>4. /\ c \o b \in Seq(T) /\ Len(c \o b) = Len(c) + Len(b)
      /\ \A j \in 1 .. Len(c) + Len(b) : (c \o b)[j] = IF j <= Len(c) THEN c[j] ELSE b[j - Len(c)]
  BY <1>2, <1>3, ConcatProperties, Zenon
<1> DEFINE d == c \o b
<1> HIDE DEF d
<1>5. \A j \in 1 .. Len(l) + 1 :
        d[j] = IF j < i THEN l[j] ELSE IF j = i THEN e ELSE l[j - 1]
  <2>1. \A j \in 1 .. Len(c) + Len(b) : d[j] = IF j <= Len(c) THEN c[j] ELSE b[j - Len(c)]
    BY <1>4 DEF d
  <2> SUFFICES ASSUME NEW j \in 1 .. Len(l) + 1
               PROVE  d[j] = IF j < i THEN l[j] ELSE IF j = i THEN e ELSE l[j - 1]
    OBVIOUS
  <2>2. CASE j <= i
    BY <1>0, <1>2, <1>3, <2>1, <2>2
  <2>3. CASE j > i
    <3>1. j - Len(c) \in 1 .. Len(l) - i + 1 /\ i + (j - Len(c)) - 1 = j - 1
      BY <1>0, <1>3, <2>3
    <3> QED
      BY <1>0, <1>2, <1>3, <2>1, <2>3, <3>1
  <2> QED
    BY <2>2, <2>3
<1>6. d \in Seq(T) /\ Len(d) = Len(l) + 1
  BY <1>0, <1>2, <1>3, <1>4 DEF d
<1> QED
  BY <1>5, <1>6 DEF InsertAt, a, b, c, d

-----------------------------------------------------------------------------
\* Moving the read pointer.
Channel ==
  [State : {"UNDEFINED", "ENABLED", "DISABLED"},
   Status : {"ENABLED", "DISABLED"},
   hMem : {"none", "live", "stale", "twice"},
   ppReadAddr : Addr, ppProcessAddr : Addr,
   ppLockAddr : Addr \cup {NULL},
   pLockData : Seq(Region), wLockAlloc : {0, MaxLocks},
   wRpiStatus : BOOLEAN, uwInternal : BOOLEAN,
   wptr : Addr, wstart : Addr, rptr : 1 .. QueueSize,
   full : BOOLEAN, enbl : BOOLEAN, run : BOOLEAN,
   qstat : SUBSET Bits]

LEMMA ChannelTyped == TypeOK => ch \in Channel
BY DEF TypeOK, Channel

LEMMA BaseOn == ASSUME NEW c \in Channel PROVE Base(c) \in Addr
BY Sizes DEF Channel, Base, Addr

\* What the read pointer and a restart leave alone.
SameData(c, d) ==
  /\ d.State = c.State /\ d.Status = c.Status /\ d.hMem = c.hMem
  /\ d.ppReadAddr = c.ppReadAddr /\ d.ppProcessAddr = c.ppProcessAddr
  /\ d.ppLockAddr = c.ppLockAddr /\ d.pLockData = c.pLockData
  /\ d.wLockAlloc = c.wLockAlloc /\ d.uwInternal = c.uwInternal
  /\ d.wptr = c.wptr /\ d.wstart = c.wstart /\ d.enbl = c.enbl

LEMMA UpdateFields ==
  ASSUME NEW c \in Channel, NEW a \in Addr
  PROVE  LET d == update_read_pointer(c, a)
         IN /\ d \in Channel /\ SameData(c, d)
            /\ d.rptr = ReadPointer(a)
            /\ d.full = (c.full /\ ReadPointer(a) = c.rptr)
<1>1. ReadPointer(a) \in 1 .. QueueSize
  BY Sizes, ReadPointerValue DEF Addr
<1> DEFINE r == ReadPointer(a)
           w == write_rptr(c, r)
<1> HIDE DEF r
<1>2. w \in Channel /\ SameData(c, w) /\ w.rptr = r /\ w.full = (c.full /\ r = c.rptr)
  BY <1>1 DEF Channel, write_rptr, SameData, r
<1>3. CASE c.wRpiStatus
  <2> DEFINE v == [w EXCEPT !.wRpiStatus = FALSE]
  <2>1. v \in Channel /\ SameData(c, v) /\ v.rptr = r /\ v.full = (c.full /\ r = c.rptr)
    BY <1>2 DEF Channel, SameData
  <2> HIDE DEF v
  <2>2. channel_restart(v) \in Channel /\ SameData(c, channel_restart(v))
        /\ channel_restart(v).rptr = r /\ channel_restart(v).full = (c.full /\ r = c.rptr)
    BY <2>1 DEF Channel, channel_restart, SameData
  <2> QED
    BY <1>3, <2>2 DEF update_read_pointer, v, r
<1>4. CASE ~c.wRpiStatus
  BY <1>2, <1>4 DEF update_read_pointer, r
<1> QED
  BY <1>3, <1>4

\* The read pointer moves on no further than the data processed.
LEMMA UpdatePointers ==
  ASSUME NEW c \in Channel, Pointers(c), NEW a \in Addr,
         Off(Base(c), a) <= Off(Base(c), c.ppProcessAddr)
  PROVE  LET d == update_read_pointer(c, a)
         IN /\ Pointers(d) /\ Base(d) \in Addr
            /\ Off(Base(c), Base(d)) <= Off(Base(c), a)
            /\ Off(Base(c), a) - Off(Base(c), Base(d)) < Gran
<1> DEFINE d == update_read_pointer(c, a)
<1>1. c.rptr \in 1 .. QueueSize /\ Granular(c.rptr) /\ Base(c) \in Addr
      /\ c.ppProcessAddr \in Addr /\ c.wstart \in Addr /\ c.wptr \in Addr /\ c.full \in BOOLEAN
  BY BaseOn DEF Channel, Pointers
<1>2. /\ d \in Channel /\ SameData(c, d) /\ d.rptr = ReadPointer(a)
      /\ d.full = (c.full /\ ReadPointer(a) = c.rptr)
  BY <1>1, UpdateFields
<1>3. /\ Granular(d.rptr) /\ Base(d) \in Addr
      /\ Off(Base(c), Base(d)) <= Off(Base(c), a)
      /\ Off(Base(c), a) - Off(Base(c), Base(d)) < Gran
  BY <1>1, <1>2, ReadPointerBehind DEF Base
<1> HIDE DEF d
<1> DEFINE r == Base(c)
           s == Base(d)
<1>4. c.full /\ ~d.full => s # r
  BY <1>1, <1>2, Sizes DEF Base, Channel
<1>5. d.full => c.full /\ s = r
  BY <1>2 DEF Base
<1> HIDE DEF r, s
<1>6. \A x \in Addr : Off(s, x) = IF Off(r, s) <= Off(r, x) THEN Off(r, x) - Off(r, s)
                                  ELSE Off(r, x) - Off(r, s) + QueueSize
  BY <1>1, <1>3, OffShift DEF r, s
<1>7. \A x \in Addr : Off(r, x) \in 0 .. QueueSize - 1
  BY <1>1, OffRange DEF r
<1>8. s \in Addr /\ r \in Addr /\ Off(r, s) <= Off(r, a) /\ Off(r, r) = 0
  BY <1>1, <1>3, Sizes DEF r, s, Off, Addr
<1>9. /\ Off(r, a) <= Off(r, c.ppProcessAddr) /\ Off(r, c.ppProcessAddr) <= Off(r, c.wstart)
      /\ ~c.full => Off(r, c.wstart) <= Off(r, c.wptr)
      /\ c.full => c.wptr = r /\ c.wstart # c.wptr
  BY DEF Pointers, r
<1>10. Off(s, c.ppProcessAddr) <= Off(s, c.wstart)
  BY <1>1, <1>6, <1>7, <1>8, <1>9, Sizes
<1>11. ~d.full => Off(s, c.wstart) <= Off(s, c.wptr)
  <2>1. CASE ~c.full
    BY <2>1, <1>1, <1>6, <1>7, <1>8, <1>9, Sizes
  <2>2. CASE c.full /\ ~d.full
    <3>1. Off(r, s) # 0
      BY <2>2, <1>4, <1>8, OffEqual
    <3> QED
      BY <3>1, <2>2, <1>1, <1>6, <1>7, <1>8, <1>9, Sizes
  <2>3. d.full \in BOOLEAN
    BY <1>2 DEF Channel
  <2> QED
    BY <1>1, <2>1, <2>2
<1>12. d.full => c.wptr = s /\ c.wstart # c.wptr
  BY <1>5, <1>9
<1>13. Pointers(d)
  BY <1>2, <1>3, <1>10, <1>11, <1>12 DEF Pointers, SameData, s
<1> QED
  BY <1>3, <1>13 DEF d

LEMMA RegionsOn ==
  ASSUME NEW l \in Seq(Region), NEW i \in 1 .. Len(l)
  PROVE  l[i].b \in Addr /\ l[i].e \in Addr /\ l[i] = [b |-> l[i].b, e |-> l[i].e]
<1>1. l[i] \in Region
  BY ElementOfSeq
<1> QED
  BY <1>1 DEF Region

\* A table is one from any address at or before its regions.
LEMMA TableShift ==
  ASSUME NEW l \in Seq(Region), NEW r \in Addr, NEW s \in Addr, NEW p \in Addr,
         Table(l, r, p), Off(r, s) <= Off(r, p),
         \A j \in 1 .. Len(l) : Off(r, s) <= Off(r, l[j].b)
  PROVE  /\ Table(l, s, p)
         /\ \A i, j \in 1 .. Len(l) :
              Off(s, l[i].b) <= Off(s, l[j].b) <=> Off(r, l[i].b) <= Off(r, l[j].b)
<1>1. \A x \in Addr : Off(s, x) = IF Off(r, s) <= Off(r, x) THEN Off(r, x) - Off(r, s)
                                  ELSE Off(r, x) - Off(r, s) + QueueSize
  BY OffShift
<1>2. \A x \in Addr : Off(r, x) \in 0 .. QueueSize - 1
  BY OffRange
<1>3. \A i \in 1 .. Len(l) : l[i].b \in Addr /\ l[i].e \in Addr
  BY RegionsOn
<1>4. \A i \in 1 .. Len(l) : /\ Off(s, l[i].b) = Off(r, l[i].b) - Off(r, s)
                             /\ Off(s, l[i].e) = Off(r, l[i].e) - Off(r, s)
  <2> SUFFICES ASSUME NEW i \in 1 .. Len(l)
               PROVE  /\ Off(s, l[i].b) = Off(r, l[i].b) - Off(r, s)
                      /\ Off(s, l[i].e) = Off(r, l[i].e) - Off(r, s)
    OBVIOUS
  <2>1. Off(r, s) <= Off(r, l[i].b) /\ Off(r, l[i].b) < Off(r, l[i].e)
    BY DEF Table
  <2>2. Off(r, s) \in Int /\ Off(r, l[i].b) \in Int /\ Off(r, l[i].e) \in Int
    BY <1>2, <1>3
  <2>3. Off(r, s) <= Off(r, l[i].e)
    BY <2>1, <2>2
  <2> QED
    BY <1>1, <1>3, <2>1, <2>3
<1>5. Off(s, p) = Off(r, p) - Off(r, s)
  BY <1>1
<1>6. /\ Off(r, s) \in Int /\ Off(r, p) \in Int
      /\ \A i \in 1 .. Len(l) : Off(r, l[i].b) \in Int /\ Off(r, l[i].e) \in Int
  BY <1>2, <1>3
<1>7. \A i, j \in 1 .. Len(l) :
        /\ Off(s, l[i].b) <= Off(s, l[j].b) <=> Off(r, l[i].b) <= Off(r, l[j].b)
        /\ Off(s, l[i].b) < Off(s, l[j].b) <=> Off(r, l[i].b) < Off(r, l[j].b)
        /\ Off(s, l[i].e) < Off(s, l[j].b) <=> Off(r, l[i].e) < Off(r, l[j].b)
  BY <1>4, <1>6, SMTT(30)
<1>8. \A i \in 1 .. Len(l) :
        /\ Off(s, l[i].b) < Off(s, l[i].e) <=> Off(r, l[i].b) < Off(r, l[i].e)
        /\ Off(s, l[i].e) <= Off(s, p) <=> Off(r, l[i].e) <= Off(r, p)
  BY <1>4, <1>5, <1>6
<1> QED
  BY <1>7, <1>8 DEF Table

-----------------------------------------------------------------------------
\* Moving the write pointer into a gap.
GapEnds(l, p, q) ==
  /\ p \in 1 .. Len(l) /\ q \in 1 .. Len(l)
  /\ q = p + 1 \/ (q = 1 /\ p = Len(l))

LEMMA CyclicOrder ==
  ASSUME NEW r \in Addr, NEW x \in Addr, NEW y \in Addr, NEW z \in Addr
  PROVE  /\ x < y /\ (z <= x \/ y <= z) /\ Off(r, x) < Off(r, y)
              => Off(r, z) <= Off(r, x) \/ Off(r, y) <= Off(r, z)
         /\ x < y /\ (z <= x \/ y <= z) /\ ~(Off(r, x) < Off(r, y))
              => Off(r, y) <= Off(r, z) /\ Off(r, z) <= Off(r, x)
         /\ y <= z /\ z <= x /\ Off(r, x) < Off(r, y)
              => Off(r, z) <= Off(r, x) \/ Off(r, y) <= Off(r, z)
         /\ y <= z /\ z <= x /\ ~(Off(r, x) < Off(r, y))
              => Off(r, y) <= Off(r, z) /\ Off(r, z) <= Off(r, x)
BY Sizes DEF Off, Addr

\* In the order of distances a gap lies between two neighbours, or round the read pointer.
LEMMA GapPlace ==
  ASSUME NEW l \in Seq(Region), NEW r \in Addr, NEW a \in Addr, Table(l, r, a),
         NEW p, NEW q, GapEnds(l, p, q)
  PROVE  \/ /\ Off(r, l[p].b) < Off(r, l[q].b)
            /\ \A j \in 1 .. Len(l) : \/ Off(r, l[j].b) <= Off(r, l[p].b)
                                      \/ Off(r, l[q].b) <= Off(r, l[j].b)
         \/ \A j \in 1 .. Len(l) : /\ Off(r, l[q].b) <= Off(r, l[j].b)
                                   /\ Off(r, l[j].b) <= Off(r, l[p].b)
<1>1. \A j \in 1 .. Len(l) : l[j].b \in Addr
  BY RegionsOn
<1>2. \A i, j \in 1 .. Len(l) : i < j => l[i].b < l[j].b
  BY DEF Table
<1>3. p \in 1 .. Len(l) /\ q \in 1 .. Len(l) /\ Len(l) \in Nat
  BY DEF GapEnds
<1>4. CASE q = p + 1
  <2>1. l[p].b < l[q].b
    BY <1>2, <1>3, <1>4
  <2>2. \A j \in 1 .. Len(l) : l[j].b <= l[p].b \/ l[q].b <= l[j].b
    <3> SUFFICES ASSUME NEW j \in 1 .. Len(l) PROVE l[j].b <= l[p].b \/ l[q].b <= l[j].b
      OBVIOUS
    <3>1. j < p \/ j = p \/ j = q \/ q < j
      BY <1>3, <1>4
    <3> QED
      BY <3>1, <1>1, <1>2, <1>3 DEF Addr
  <2> QED
    BY <2>1, <2>2, <1>1, <1>3, CyclicOrder
<1>5. CASE q = 1 /\ p = Len(l)
  <2>1. \A j \in 1 .. Len(l) : l[q].b <= l[j].b /\ l[j].b <= l[p].b
    <3> SUFFICES ASSUME NEW j \in 1 .. Len(l) PROVE l[q].b <= l[j].b /\ l[j].b <= l[p].b
      OBVIOUS
    <3>1. (j = 1 \/ 1 < j) /\ (j = p \/ j < p)
      BY <1>3, <1>5
    <3> QED
      BY <3>1, <1>1, <1>2, <1>3, <1>5 DEF Addr
  <2> QED
    BY <2>1, <1>1, <1>3, CyclicOrder
<1> QED
  BY <1>4, <1>5 DEF GapEnds

LEMMA GapDistance ==
  ASSUME NEW r \in Addr, NEW x \in Addr, NEW y \in Addr, NEW g \in Int,
         (g = IF y <= x THEN QueueSize - (x - y) ELSE y - x) \/ (g = y - x /\ g > 0),
         Off(r, x) < Off(r, y)
  PROVE  g = Off(r, y) - Off(r, x)
BY Sizes DEF Off, Addr

\* The size the code computes is the distance from the gap's begin to its end.
LEMMA GapIs ==
  ASSUME NEW l \in Seq(Region), NEW r \in Addr, NEW a \in Addr, Table(l, r, a),
         NEW i \in 0 .. Len(l) - 1, GapSize(l, i) >= Gran
  PROVE  \E p \in 1 .. Len(l), q \in 1 .. Len(l) :
           /\ GapEnds(l, p, q)
           /\ GapBegin(l, i) = l[p].e /\ GapEnd(l, i) = l[q].b
           /\ Off(r, l[p].e) < Off(r, l[q].b)
                => GapSize(l, i) = Off(r, l[q].b) - Off(r, l[p].e)
<1> DEFINE p == IF i = 0 THEN Len(l) ELSE i
           q == i + 1
<1>1. Len(l) \in Nat /\ p \in 1 .. Len(l) /\ q \in 1 .. Len(l)
  OBVIOUS
<1>2. GapEnds(l, p, q) /\ GapBegin(l, i) = l[p].e /\ GapEnd(l, i) = l[q].b
  BY <1>1 DEF GapEnds, GapBegin, GapEnd
<1> HIDE DEF p, q
<1>3. l[p].e \in Addr /\ l[q].b \in Addr
  BY <1>1, RegionsOn
<1>4. GapSize(l, i) = IF i = 0 /\ l[q].b <= l[p].e THEN QueueSize - (l[p].e - l[q].b)
                      ELSE l[q].b - l[p].e
  BY <1>2 DEF GapSize
<1>5. GapSize(l, i) \in Int /\ GapSize(l, i) > 0
  <2>1. QueueSize - (l[p].e - l[q].b) \in Int /\ l[q].b - l[p].e \in Int
    BY <1>3, Sizes, SMTT(30) DEF Addr
  <2>2. GapSize(l, i) \in Int
    BY <1>4, <2>1
  <2> QED
    BY <2>2, Sizes
<1>6. Off(r, l[p].e) < Off(r, l[q].b) => GapSize(l, i) = Off(r, l[q].b) - Off(r, l[p].e)
  BY <1>3, <1>4, <1>5, GapDistance
<1> QED
  BY <1>1, <1>2, <1>6

\* Seen from the read pointer's new place in the gap the table is as it was.
LEMMA GapTable ==
  ASSUME NEW l \in Seq(Region), NEW r \in Addr, NEW a \in Addr, Table(l, r, a),
         NEW p \in 1 .. Len(l), NEW q \in 1 .. Len(l), GapEnds(l, p, q),
         NEW s \in Addr, Off(r, s) <= Off(r, l[q].b),
         Off(r, l[p].e) < Off(r, l[q].b) => Off(r, l[p].e) < Off(r, s)
  PROVE  Table(l, s, l[p].e) /\ First(l, s, l[q].b)
<1> DEFINE B(j) == Off(r, l[j].b)
           E(j) == Off(r, l[j].e)
           S == Off(r, s)
           BB(j) == Off(s, l[j].b)
           EE(j) == Off(s, l[j].e)
<1>1. /\ S \in 0 .. QueueSize - 1
      /\ \A j \in 1 .. Len(l) : /\ B(j) \in 0 .. QueueSize - 1 /\ E(j) \in 0 .. QueueSize - 1
  BY OffRange, RegionsOn
<1>2. \A j \in 1 .. Len(l) :
        /\ BB(j) = IF S <= B(j) THEN B(j) - S ELSE B(j) - S + QueueSize
        /\ EE(j) = IF S <= E(j) THEN E(j) - S ELSE E(j) - S + QueueSize
  BY OffShift, RegionsOn
<1>3. /\ \A j \in 1 .. Len(l) : B(j) < E(j)
      /\ \A j, k \in 1 .. Len(l) : B(j) < B(k) => E(j) < B(k)
      /\ \A j, k \in 1 .. Len(l) : B(j) = B(k) => j = k
  <2>1. /\ \A j \in 1 .. Len(l) : B(j) < E(j)
        /\ \A j, k \in 1 .. Len(l) : B(j) < B(k) => E(j) < B(k)
    BY DEF Table
  <2>2. ASSUME NEW j \in 1 .. Len(l), NEW k \in 1 .. Len(l), B(j) = B(k) PROVE j = k
    <3>0. l[j].b \in Addr /\ l[k].b \in Addr
      BY RegionsOn
    <3>1. l[j].b = l[k].b /\ l[j].b \in Addr
      BY <2>2, <3>0, OffEqual
    <3>2. ~(j < k) /\ ~(k < j)
      BY <3>1 DEF Table, Addr
    <3> QED
      BY <3>2
  <2> QED
    BY <2>1, <2>2
<1>4. \/ /\ B(p) < B(q)
         /\ \A j \in 1 .. Len(l) : B(j) <= B(p) \/ B(q) <= B(j)
      \/ \A j \in 1 .. Len(l) : B(q) <= B(j) /\ B(j) <= B(p)
  BY GapPlace
<1>5. S <= B(q) /\ (E(p) < B(q) => E(p) < S)
  OBVIOUS
<1>7. \A j, k \in 1 .. Len(l) : j < k => l[j].b < l[k].b
  BY DEF Table
<1> HIDE DEF B, E, S, BB, EE
<1>6. CASE /\ B(p) < B(q)
           /\ \A j \in 1 .. Len(l) : B(j) <= B(p) \/ B(q) <= B(j)
  <2>1. E(p) < S
    BY <1>6, <1>3, <1>5
  <2>2. ASSUME NEW j \in 1 .. Len(l) PROVE S <= B(j) \/ (E(j) < S /\ E(j) <= E(p))
    <3>1. CASE B(q) <= B(j)
      BY <3>1, <1>1, <1>5
    <3>2. CASE B(j) = B(p)
      BY <3>2, <2>1, <1>1, <1>3
    <3>3. CASE B(j) < B(p)
      BY <3>3, <2>1, <1>1, <1>3
    <3> QED
      BY <1>6, <3>1, <3>2, <3>3, <1>1
  <2>6. QueueSize \in Int /\ S \in Int /\ \A j \in 1 .. Len(l) : B(j) \in Int /\ E(j) \in Int
    BY <1>1, Sizes
  <2>7. \A j \in 1 .. Len(l) :
          /\ S <= B(j) => BB(j) = B(j) - S /\ EE(j) = E(j) - S
          /\ E(j) < S => BB(j) = B(j) - S + QueueSize /\ EE(j) = E(j) - S + QueueSize
    <3> SUFFICES ASSUME NEW j \in 1 .. Len(l)
                 PROVE  /\ S <= B(j) => BB(j) = B(j) - S /\ EE(j) = E(j) - S
                        /\ E(j) < S => BB(j) = B(j) - S + QueueSize /\ EE(j) = E(j) - S + QueueSize
      OBVIOUS
    <3>1. B(j) < E(j)
      BY <1>3
    <3> QED
      BY <3>1, <2>6, <1>2
  <2>3. ASSUME NEW j \in 1 .. Len(l) PROVE BB(j) < EE(j) /\ EE(j) <= EE(p)
    <3>1. B(j) < E(j) /\ 0 <= B(j) /\ E(j) < QueueSize /\ 0 <= E(p)
      BY <1>1, <1>3, <2>6
    <3>2. EE(p) = E(p) - S + QueueSize
      BY <2>1, <2>7
    <3>3. CASE S <= B(j)
      BY <3>1, <3>2, <3>3, <2>6, <2>7
    <3>4. CASE E(j) < S /\ E(j) <= E(p)
      BY <3>1, <3>2, <3>4, <2>6, <2>7, SMTT(30)
    <3> QED
      BY <2>2, <3>3, <3>4
  <2>4. ASSUME NEW j \in 1 .. Len(l), NEW k \in 1 .. Len(l), BB(j) < BB(k) PROVE EE(j) < BB(k)
    <3>1. /\ B(j) < E(j) /\ 0 <= B(j) /\ E(j) < QueueSize
          /\ B(k) < E(k) /\ 0 <= B(k) /\ E(k) < QueueSize
          /\ B(j) < B(k) => E(j) < B(k)
      BY <1>1, <1>3, <2>6
    <3>6. /\ S <= B(j) => BB(j) = B(j) - S /\ EE(j) = E(j) - S
          /\ S <= B(k) => BB(k) = B(k) - S
          /\ E(j) < S => BB(j) = B(j) - S + QueueSize /\ EE(j) = E(j) - S + QueueSize
          /\ E(k) < S => BB(k) = B(k) - S + QueueSize
      BY <2>7
    <3>7. /\ QueueSize \in Int /\ S \in Int /\ B(j) \in Int /\ B(k) \in Int
          /\ E(j) \in Int /\ E(k) \in Int
      BY <2>6
    <3>2. CASE S <= B(j) /\ S <= B(k)
      BY <3>1, <3>2, <2>4, <3>6, <3>7
    <3>3. CASE S <= B(j) /\ E(k) < S
      BY <3>1, <3>3, <3>6, <3>7
    <3>4. CASE E(j) < S /\ S <= B(k)
      BY <3>1, <3>4, <2>4, <3>6, <3>7
    <3>5. CASE E(j) < S /\ E(k) < S
      BY <3>1, <3>5, <2>4, <3>6, <3>7
    <3> QED
      BY <2>2, <3>2, <3>3, <3>4, <3>5
  <2>5. ASSUME NEW j \in 1 .. Len(l) PROVE BB(q) <= BB(j)
    <3>1. B(j) < E(j) /\ 0 <= B(j) /\ B(q) < QueueSize /\ S <= B(q) /\ BB(q) = B(q) - S
      BY <1>1, <1>3, <1>5, <2>6, <2>7
    <3>2. CASE S <= B(j)
      <4>1. B(q) <= B(j)
        <5>1. B(p) < S
          BY <2>1, <1>3, <2>6
        <5> QED
          BY <5>1, <1>6, <3>2, <2>6
      <4> QED
        BY <4>1, <3>1, <3>2, <2>6, <2>7
    <3>3. CASE E(j) < S
      BY <3>1, <3>3, <2>6, <2>7
    <3> QED
      BY <2>2, <3>2, <3>3
  <2> QED
    BY <2>3, <2>4, <2>5, <1>7 DEF Table, First, BB, EE
<1>8. CASE \A j \in 1 .. Len(l) : B(q) <= B(j) /\ B(j) <= B(p)
  <2>1. \A j \in 1 .. Len(l) : S <= B(j) /\ S <= E(j)
    BY <1>8, <1>1, <1>3, <1>5
  <2>2. \A j \in 1 .. Len(l) : E(j) <= E(p)
    <3> SUFFICES ASSUME NEW j \in 1 .. Len(l) PROVE E(j) <= E(p)
      OBVIOUS
    <3>1. CASE B(j) = B(p)
      BY <3>1, <1>1, <1>3
    <3>2. CASE B(j) < B(p)
      BY <3>2, <1>1, <1>3
    <3> QED
      BY <1>8, <3>1, <3>2, <1>1
  <2>3. \A j \in 1 .. Len(l) : BB(j) = B(j) - S /\ EE(j) = E(j) - S
    BY <1>2, <2>1
  <2>4. \A j \in 1 .. Len(l) : BB(j) < EE(j) /\ EE(j) <= EE(p)
    BY <2>2, <2>3, <1>1, <1>3, SMTT(30)
  <2>5. ASSUME NEW j \in 1 .. Len(l), NEW k \in 1 .. Len(l), BB(j) < BB(k) PROVE EE(j) < BB(k)
    <3>1. BB(j) = B(j) - S /\ BB(k) = B(k) - S /\ EE(j) = E(j) - S
      BY <2>3
    <3>2. B(j) < B(k) => E(j) < B(k)
      BY <1>3
    <3>3. B(j) \in Int /\ B(k) \in Int /\ E(j) \in Int /\ S \in Int
      BY <1>1
    <3> QED
      BY <2>5, <3>1, <3>2, <3>3
  <2>6. \A j \in 1 .. Len(l) : BB(q) <= BB(j)
    BY <1>8, <2>3, <1>1
  <2> QED
    BY <2>4, <2>5, <2>6, <1>7 DEF Table, First, BB, EE
<1> QED
  BY <1>4, <1>6, <1>8

LEMMA LargestGapOn ==
  ASSUME NEW l \in Seq(Region), l # << >>
  PROVE  LargestGap(l) \in 0 .. Len(l) - 1
<1> DEFINE I == 0 .. Len(l) - 1
           N(i) == 2 * QueueSize - GapSize(l, i)
<1>1. Len(l) \in Nat /\ 0 \in I /\ I \subseteq Nat
  <2>1. Len(l) \in Nat /\ Len(l) # 0
    OBVIOUS
  <2> QED
    BY <2>1
<1>2. \A i \in I : GapSize(l, i) \in Int /\ N(i) \in Nat
  <2> SUFFICES ASSUME NEW i \in I PROVE GapSize(l, i) \in Int /\ N(i) \in Nat
    OBVIOUS
  <2>1. GapBegin(l, i) \in Addr /\ GapEnd(l, i) \in Addr
    <3>1. Len(l) \in 1 .. Len(l) /\ i + 1 \in 1 .. Len(l) /\ (i # 0 => i \in 1 .. Len(l))
      BY <1>1
    <3> QED
      BY <3>1, RegionsOn DEF GapBegin, GapEnd
  <2>2. GapSize(l, i) = IF i = 0 /\ GapEnd(l, i) <= GapBegin(l, i)
                        THEN QueueSize - (GapBegin(l, i) - GapEnd(l, i))
                        ELSE GapEnd(l, i) - GapBegin(l, i)
    BY DEF GapSize
  <2> QED
    BY <2>1, <2>2, Sizes DEF Addr
<1> HIDE DEF N
<1>3. PICK m \in {N(i) : i \in I} : \A x \in {N(i) : i \in I} : m <= x
  <2>1. {N(i) : i \in I} \in SUBSET Nat /\ {N(i) : i \in I} # {}
    BY <1>1, <1>2
  <2> QED
    BY <2>1, LeastExists
<1>4. PICK k \in {i \in I : N(i) = m} : \A x \in {i \in I : N(i) = m} : k <= x
  <2>1. {i \in I : N(i) = m} \in SUBSET Nat /\ {i \in I : N(i) = m} # {}
    BY <1>1, <1>3
  <2> QED
    BY <2>1, LeastExists
<1>5. \A j \in I : GapSize(l, j) < GapSize(l, k) \/ (GapSize(l, j) = GapSize(l, k) /\ k <= j)
  <2> SUFFICES ASSUME NEW j \in I
               PROVE  GapSize(l, j) < GapSize(l, k) \/ (GapSize(l, j) = GapSize(l, k) /\ k <= j)
    OBVIOUS
  <2>1. N(k) <= N(j) /\ (N(j) = N(k) => k <= j) /\ k \in I
    BY <1>3, <1>4
  <2>2. /\ GapSize(l, j) \in Int /\ GapSize(l, k) \in Int
        /\ N(j) = 2 * QueueSize - GapSize(l, j) /\ N(k) = 2 * QueueSize - GapSize(l, k)
    BY <1>2, <2>1 DEF N
  <2> QED
    BY <2>1, <2>2, Sizes
<1> QED
  BY <1>4, <1>5 DEF LargestGap

LEMMA MoveSound ==
  ASSUME NEW c \in Channel, Sound(c), NEW i \in 0 .. Len(c.pLockData) - 1,
         GapSize(c.pLockData, i) >= Gran
  PROVE  LET b == GapBegin(c.pLockData, i)
             d == move_write_pointer(c, b, GapEnd(c.pLockData, i))
         IN /\ d \in Channel /\ Sound(d)
            /\ d.State = c.State /\ d.hMem = c.hMem /\ d.pLockData = c.pLockData
            /\ d.wLockAlloc = c.wLockAlloc /\ d.uwInternal = c.uwInternal /\ d.enbl = c.enbl
            /\ d.ppReadAddr = b /\ d.ppProcessAddr = b /\ d.wstart = b
            /\ \E p \in 1 .. Len(c.pLockData) : b = c.pLockData[p].e
<1> DEFINE l == c.pLockData
           r == Base(c)
           b == GapBegin(l, i)
           e == GapEnd(l, i)
           w == [c EXCEPT !.run = FALSE, !.wstart = b, !.wptr = b, !.full = FALSE]
           u == update_read_pointer(w, e)
           d == move_write_pointer(c, b, e)
           s == Base(d)
<1>1. /\ l \in Seq(Region) /\ r \in Addr /\ c.ppProcessAddr \in Addr
      /\ Granular(c.rptr) /\ c.rptr \in 1 .. QueueSize
      /\ Table(l, r, c.ppProcessAddr)
  BY BaseOn DEF Channel, Sound, Pointers
<1>2. PICK p \in 1 .. Len(l), q \in 1 .. Len(l) :
        /\ GapEnds(l, p, q) /\ b = l[p].e /\ e = l[q].b
        /\ Off(r, l[p].e) < Off(r, l[q].b)
             => GapSize(l, i) = Off(r, l[q].b) - Off(r, l[p].e)
  BY <1>1, GapIs
<1>3. b \in Addr /\ e \in Addr
  BY <1>1, <1>2, RegionsOn
<1> HIDE DEF b, e
<1>4. w \in Channel /\ Granular(w.rptr) /\ w.full = FALSE /\ w.wptr = b /\ w.wstart = b
      /\ w.State = c.State /\ w.hMem = c.hMem /\ w.pLockData = l /\ w.rptr = c.rptr
      /\ w.wLockAlloc = c.wLockAlloc /\ w.uwInternal = c.uwInternal /\ w.enbl = c.enbl
  BY <1>1, <1>3 DEF Channel
<1> HIDE DEF w
<1>5. u \in Channel /\ SameData(w, u) /\ u.rptr = ReadPointer(e) /\ u.full = FALSE
  BY <1>3, <1>4, UpdateFields
<1>6. d = [u EXCEPT !.ppProcessAddr = b, !.ppReadAddr = b, !.ppLockAddr = e]
  BY DEF move_write_pointer, u, w
<1> HIDE DEF u, d
<1>7. /\ d \in Channel /\ d.full = FALSE /\ d.wptr = b /\ d.wstart = b /\ d.rptr = ReadPointer(e)
      /\ d.State = c.State /\ d.hMem = c.hMem /\ d.pLockData = l
      /\ d.wLockAlloc = c.wLockAlloc /\ d.uwInternal = c.uwInternal /\ d.enbl = c.enbl
      /\ d.ppReadAddr = b /\ d.ppProcessAddr = b /\ d.ppLockAddr = e
  BY <1>3, <1>4, <1>5, <1>6, ZenonT(30) DEF Channel, SameData
<1>8. /\ Granular(d.rptr) /\ s \in Addr
      /\ Off(r, s) <= Off(r, e) /\ Off(r, e) - Off(r, s) < Gran
  BY <1>1, <1>3, <1>7, ReadPointerBehind DEF Base
<1>9. Off(r, l[p].e) < Off(r, l[q].b) => Off(r, l[p].e) < Off(r, s)
  <2>1. Off(r, b) \in Int /\ Off(r, e) \in Int /\ Off(r, s) \in Int
    BY <1>1, <1>3, <1>8, OffRange
  <2> QED
    BY <1>2, <1>8, <2>1, Sizes
<1>10. Table(l, s, b) /\ First(l, s, e)
  <2>1. Off(r, s) <= Off(r, l[q].b)
    BY <1>2, <1>8
  <2> QED
    BY <1>1, <1>2, <1>8, <1>9, <2>1, GapTable
<1>11. Off(s, b) \in Int
  BY <1>3, <1>8, OffRange
<1>12. Pointers(d)
  BY <1>7, <1>8, <1>11 DEF Pointers
<1>13. Sound(d)
  BY <1>7, <1>10, <1>12 DEF Sound
<1> QED
  BY <1>2, <1>7, <1>13 DEF d, b, e

-----------------------------------------------------------------------------
\* The read pointer moves on over what is free.
LEMMA UpdateSound ==
  ASSUME NEW c \in Channel, Sound(c), NEW a \in Addr,
         Off(Base(c), a) <= Off(Base(c), c.ppProcessAddr),
         \A j \in 1 .. Len(c.pLockData) : Off(Base(c), a) <= Off(Base(c), c.pLockData[j].b)
  PROVE  LET d == update_read_pointer(c, a)
         IN /\ d \in Channel /\ Sound(d) /\ SameData(c, d) /\ Base(d) \in Addr
            /\ Off(Base(c), Base(d)) <= Off(Base(c), a)
<1> DEFINE d == update_read_pointer(c, a)
           l == c.pLockData
           r == Base(c)
           s == Base(d)
<1>1. /\ l \in Seq(Region) /\ r \in Addr /\ c.ppProcessAddr \in Addr
      /\ Pointers(c) /\ Granular(c.rptr) /\ Table(l, r, c.ppProcessAddr)
      /\ l # << >> => First(l, r, c.ppLockAddr)
  BY BaseOn DEF Channel, Sound, Pointers
<1>2. d \in Channel /\ SameData(c, d)
  BY <1>1, UpdateFields
<1>3. /\ Pointers(d) /\ s \in Addr /\ Off(r, s) <= Off(r, a)
  BY <1>1, UpdatePointers
<1>4. d.pLockData = l /\ d.ppProcessAddr = c.ppProcessAddr /\ d.ppLockAddr = c.ppLockAddr
  BY <1>2 DEF SameData
<1> HIDE DEF d
<1>5. /\ Off(r, s) \in Int /\ Off(r, a) \in Int /\ Off(r, c.ppProcessAddr) \in Int
      /\ \A j \in 1 .. Len(l) : Off(r, l[j].b) \in Int
  <2>1. \A x \in Addr : Off(r, x) \in Int
    BY <1>1, OffRange
  <2>2. \A j \in 1 .. Len(l) : l[j].b \in Addr
    BY <1>1, RegionsOn
  <2> QED
    BY <1>1, <1>3, <2>1, <2>2
<1>6. Off(r, s) <= Off(r, c.ppProcessAddr) /\ \A j \in 1 .. Len(l) : Off(r, s) <= Off(r, l[j].b)
  BY <1>3, <1>5
<1>7. /\ Table(l, s, c.ppProcessAddr)
      /\ \A j, k \in 1 .. Len(l) :
           Off(s, l[j].b) <= Off(s, l[k].b) <=> Off(r, l[j].b) <= Off(r, l[k].b)
  BY <1>1, <1>3, <1>6, TableShift
<1>8. l # << >> => First(l, s, c.ppLockAddr)
  <2> SUFFICES ASSUME l # << >> PROVE First(l, s, c.ppLockAddr)
    OBVIOUS
  <2>1. PICK k \in 1 .. Len(l) : /\ c.ppLockAddr = l[k].b
                                 /\ \A j \in 1 .. Len(l) : Off(r, l[k].b) <= Off(r, l[j].b)
    BY <1>1 DEF First
  <2>2. \A j \in 1 .. Len(l) : Off(s, l[k].b) <= Off(s, l[j].b)
    BY <2>1, <1>7
  <2> QED
    BY <2>1, <2>2 DEF First
<1>9. Sound(d)
  BY <1>3, <1>4, <1>7, <1>8 DEF Sound
<1> QED
  BY <1>2, <1>3, <1>9 DEF d

\* With an empty table the read pointer moves up to the data processed.
LEMMA UpdateToProcessed ==
  ASSUME NEW c \in Channel, Sound(c), c.pLockData = << >>
  PROVE  LET d == update_read_pointer(c, c.ppProcessAddr)
         IN /\ d \in Channel /\ Sound(d) /\ SameData(c, d) /\ Base(d) \in Addr
            /\ Off(Base(c), Base(d)) <= Off(Base(c), c.ppProcessAddr)
<1>1. c.ppProcessAddr \in Addr /\ Base(c) \in Addr
  BY BaseOn DEF Channel
<1>2. Off(Base(c), c.ppProcessAddr) <= Off(Base(c), c.ppProcessAddr)
  BY <1>1, OffRange
<1>3. \A j \in 1 .. Len(c.pLockData) :
        Off(Base(c), c.ppProcessAddr) <= Off(Base(c), c.pLockData[j].b)
  OBVIOUS
<1> QED
  BY <1>1, <1>2, <1>3, UpdateSound

SameQueue(c, d) ==
  /\ d.State = c.State /\ d.hMem = c.hMem /\ d.pLockData = c.pLockData
  /\ d.wLockAlloc = c.wLockAlloc /\ d.uwInternal = c.uwInternal /\ d.enbl = c.enbl

\* The read pointer has moved on at most, up to the data processed.
SamePointers(c, d) ==
  /\ d.ppReadAddr = c.ppReadAddr /\ d.ppProcessAddr = c.ppProcessAddr /\ d.wstart = c.wstart
  /\ Off(Base(c), Base(d)) <= Off(Base(c), c.ppProcessAddr)

LEMMA BaseBehind ==
  ASSUME NEW r \in Addr, NEW x \in Addr PROVE Off(r, r) <= Off(r, x)
BY Sizes DEF Addr, Off

\* The write pointer was moved behind a region of table l.
Moved(l, d) ==
  \E p \in 1 .. Len(l) :
    d.ppReadAddr = l[p].e /\ d.ppProcessAddr = l[p].e /\ d.wstart = l[p].e

LEMMA ProcessSound ==
  ASSUME NEW c \in Channel, Sound(c)
  PROVE  LET d == process_read_pointer(c)
         IN /\ d \in Channel /\ Sound(d) /\ SameQueue(c, d)
            /\ SamePointers(c, d) \/ Moved(c.pLockData, d)
<1> DEFINE l == c.pLockData
           d == process_read_pointer(c)
           i == LargestGap(l)
<1>1. CASE l = << >>
  <2>1. d = update_read_pointer(c, c.ppProcessAddr)
    BY <1>1 DEF process_read_pointer
  <2> HIDE DEF d
  <2>2. /\ d \in Channel /\ Sound(d) /\ SameData(c, d)
        /\ Off(Base(c), Base(d)) <= Off(Base(c), c.ppProcessAddr)
    BY <1>1, <2>1, UpdateToProcessed
  <2>3. SameQueue(c, d) /\ SamePointers(c, d)
    BY <2>2 DEF SameData, SameQueue, SamePointers
  <2> QED
    BY <2>2, <2>3 DEF d
<1>2. CASE l # << >> /\ GapSize(l, i) >= Gran
  <2>1. i \in 0 .. Len(l) - 1
    BY <1>2, LargestGapOn DEF Channel
  <2>2. d = move_write_pointer(c, GapBegin(l, i), GapEnd(l, i))
    BY <1>2 DEF process_read_pointer
  <2> HIDE DEF d, i
  <2>3. /\ d \in Channel /\ Sound(d)
        /\ d.State = c.State /\ d.hMem = c.hMem /\ d.pLockData = l
        /\ d.wLockAlloc = c.wLockAlloc /\ d.uwInternal = c.uwInternal /\ d.enbl = c.enbl
        /\ \E p \in 1 .. Len(l) :
             d.ppReadAddr = l[p].e /\ d.ppProcessAddr = l[p].e /\ d.wstart = l[p].e
    BY <1>2, <2>1, <2>2, MoveSound
  <2> QED
    BY <2>3 DEF SameQueue, Moved, d
<1>3. CASE l # << >> /\ ~(GapSize(l, i) >= Gran)
  <2>1. d = c
    BY <1>3 DEF process_read_pointer
  <2> HIDE DEF d
  <2>2. Off(Base(c), Base(c)) <= Off(Base(c), c.ppProcessAddr)
    BY BaseOn, BaseBehind DEF Channel
  <2> QED
    BY <2>1, <2>2 DEF SameQueue, SamePointers, d
<1> QED
  BY <1>1, <1>2, <1>3

-----------------------------------------------------------------------------
\* Giving regions back.
LEMMA TableFacts ==
  ASSUME NEW l \in Seq(Region), NEW r \in Addr, NEW a \in Addr, Table(l, r, a)
  PROVE  /\ \A i \in 1 .. Len(l) :
              /\ l[i].b \in Addr /\ l[i].e \in Addr /\ l[i] \in Region
              /\ Off(r, l[i].b) \in Int /\ Off(r, l[i].e) \in Int
              /\ Off(r, l[i].b) < Off(r, l[i].e)
         /\ \A i, j \in 1 .. Len(l) : l[i].b = l[j].b => i = j
         /\ \A i, j \in 1 .. Len(l) : i # j => \/ Off(r, l[i].e) < Off(r, l[j].b)
                                               \/ Off(r, l[j].e) < Off(r, l[i].b)
<1>1. \A i \in 1 .. Len(l) : l[i].b \in Addr /\ l[i].e \in Addr /\ l[i] \in Region
  BY RegionsOn, ElementOfSeq
<1>2. \A x \in Addr : Off(r, x) \in Int
  BY OffRange
<1>3. \A i, j \in 1 .. Len(l) : l[i].b = l[j].b => i = j
  <2> SUFFICES ASSUME NEW i \in 1 .. Len(l), NEW j \in 1 .. Len(l), l[i].b = l[j].b
               PROVE  i = j
    OBVIOUS
  <2>1. ~(i < j) /\ ~(j < i)
    BY <1>1 DEF Table, Addr
  <2> QED
    BY <2>1
<1>4. ASSUME NEW i \in 1 .. Len(l), NEW j \in 1 .. Len(l), i # j
      PROVE  Off(r, l[i].e) < Off(r, l[j].b) \/ Off(r, l[j].e) < Off(r, l[i].b)
  <2>1. l[i].b # l[j].b
    BY <1>3, <1>4
  <2>2. Off(r, l[i].b) # Off(r, l[j].b)
    BY <1>1, <2>1, OffEqual
  <2>3. /\ Off(r, l[i].b) < Off(r, l[j].b) => Off(r, l[i].e) < Off(r, l[j].b)
        /\ Off(r, l[j].b) < Off(r, l[i].b) => Off(r, l[j].e) < Off(r, l[i].b)
    BY DEF Table
  <2>4. Off(r, l[i].b) \in Int /\ Off(r, l[j].b) \in Int
    BY <1>1, <1>2
  <2> QED
    BY <2>2, <2>3, <2>4
<1>5. \A i \in 1 .. Len(l) : Off(r, l[i].b) < Off(r, l[i].e)
  BY DEF Table
<1> QED
  BY <1>1, <1>2, <1>3, <1>4, <1>5

LEMMA NextRound ==
  ASSUME NEW r \in Addr, NEW x \in Addr, NEW y \in Addr, NEW z \in Addr,
         Off(r, x) <= Off(r, y), Off(r, x) <= Off(r, z),
         (x < y /\ (z < x \/ y <= z)) \/ (y <= z /\ z < x)
  PROVE  Off(r, y) <= Off(r, z)
BY Sizes DEF Off, Addr

LEMMA Successor ==
  ASSUME NEW l \in Seq(Region), NEW r \in Addr, NEW a \in Addr, Table(l, r, a),
         NEW i \in 1 .. Len(l), \A j \in 1 .. Len(l) : Off(r, l[i].b) <= Off(r, l[j].b),
         NEW j \in 1 .. Len(l), j # i
  PROVE  Off(r, l[IF i < Len(l) THEN i + 1 ELSE 1].b) <= Off(r, l[j].b)
<1> DEFINE q == IF i < Len(l) THEN i + 1 ELSE 1
<1>1. Len(l) \in Nat /\ i \in Nat /\ j \in Nat /\ q \in 1 .. Len(l)
  OBVIOUS
<1>2. l[i].b \in Addr /\ l[j].b \in Addr /\ l[q].b \in Addr
  BY <1>1, TableFacts
<1>3. \A m, k \in 1 .. Len(l) : m < k => l[m].b < l[k].b
  BY DEF Table
<1>4. Off(r, l[i].b) <= Off(r, l[j].b) /\ Off(r, l[i].b) <= Off(r, l[q].b)
  BY <1>1
<1> SUFFICES Off(r, l[q].b) <= Off(r, l[j].b)
  OBVIOUS
<1>7. (i < Len(l) => q = i + 1) /\ (i = Len(l) => q = 1)
  OBVIOUS
<1> HIDE DEF q
<1>5. CASE i < Len(l)
  <2>1. l[i].b < l[q].b
    BY <1>1, <1>3, <1>5, <1>7
  <2>2. l[j].b < l[i].b \/ l[q].b <= l[j].b
    <3>1. j < i \/ j = q \/ q < j
      BY <1>1, <1>5, <1>7
    <3> QED
      BY <3>1, <1>1, <1>2, <1>3 DEF Addr
  <2> QED
    BY <2>1, <2>2, <1>2, <1>4, NextRound
<1>6. CASE i = Len(l)
  <2>1. l[q].b <= l[j].b /\ l[j].b < l[i].b
    <3>1. (j = q \/ q < j) /\ j < i
      BY <1>1, <1>6, <1>7
    <3> QED
      BY <3>1, <1>1, <1>2, <1>3 DEF Addr
  <2> QED
    BY <2>1, <1>2, <1>4, NextRound
<1> QED
  BY <1>1, <1>5, <1>6

LEMMA TableRemove ==
  ASSUME NEW l \in Seq(Region), NEW r \in Addr, NEW a \in Addr, Table(l, r, a),
         NEW i \in 1 .. Len(l)
  PROVE  LET m == RemoveAt(l, i)
         IN /\ m \in Seq(Region) /\ Len(m) = Len(l) - 1 /\ Table(m, r, a)
            /\ Regions(m) = Regions(l) \ {l[i]}
            /\ \A j \in 1 .. Len(m) : m[j] = IF j < i THEN l[j] ELSE l[j + 1]
<1> DEFINE m == RemoveAt(l, i)
           K(j) == IF j < i THEN j ELSE j + 1
<1>0. Len(l) \in Nat /\ Len(l) > 0
  OBVIOUS
<1>1. /\ m \in Seq(Region) /\ Len(m) = Len(l) - 1
      /\ \A j \in 1 .. Len(m) : m[j] = IF j < i THEN l[j] ELSE l[j + 1]
  BY <1>0, RemoveAtIs
<1> HIDE DEF m
<1>2. /\ \A j \in 1 .. Len(m) : K(j) \in 1 .. Len(l) /\ K(j) # i /\ m[j] = l[K(j)]
      /\ \A j, k \in 1 .. Len(m) : j < k => K(j) < K(k)
  BY <1>0, <1>1
<1>3. \A k \in 1 .. Len(l) : k # i => \E j \in 1 .. Len(m) : K(j) = k
  <2> SUFFICES ASSUME NEW k \in 1 .. Len(l), k # i PROVE \E j \in 1 .. Len(m) : K(j) = k
    OBVIOUS
  <2>1. CASE k < i
    <3>1. k \in 1 .. Len(m) /\ K(k) = k
      BY <1>0, <1>1, <2>1
    <3> QED
      BY <3>1
  <2>2. CASE k > i
    <3>1. k - 1 \in 1 .. Len(m) /\ K(k - 1) = k
      BY <1>0, <1>1, <2>2
    <3> QED
      BY <3>1
  <2> QED
    BY <1>0, <2>1, <2>2
<1> HIDE DEF K
<1>4. Table(m, r, a)
  BY <1>2 DEF Table
<1>5. \A j \in 1 .. Len(l) : j # i => l[j] # l[i]
  BY TableFacts
<1>6. Regions(m) = Regions(l) \ {l[i]}
  <2>1. ASSUME NEW x \in Regions(m) PROVE x \in Regions(l) \ {l[i]}
    <3>1. PICK j \in 1 .. Len(m) : x = m[j]
      BY DEF Regions
    <3>2. x = l[K(j)] /\ K(j) \in 1 .. Len(l) /\ K(j) # i
      BY <1>2, <3>1
    <3> QED
      BY <1>5, <3>2 DEF Regions
  <2>2. ASSUME NEW x \in Regions(l) \ {l[i]} PROVE x \in Regions(m)
    <3>1. PICK k \in 1 .. Len(l) : x = l[k]
      BY DEF Regions
    <3>2. PICK j \in 1 .. Len(m) : K(j) = k
      BY <1>3, <3>1
    <3> QED
      BY <1>2, <3>1, <3>2 DEF Regions
  <2> QED
    BY <2>1, <2>2
<1> QED
  BY <1>1, <1>4, <1>6 DEF m

\* Table m is l with region i made shorter, to g.
Trimmed(l, r, i, g, m) ==
  /\ i \in 1 .. Len(l) /\ g \in Region /\ m = [l EXCEPT ![i] = g]
  /\ Off(r, l[i].b) <= Off(r, g.b) /\ Off(r, g.b) < Off(r, g.e) /\ Off(r, g.e) <= Off(r, l[i].e)
  /\ g.b = l[i].b \/ Len(l) = 1

LEMMA TableTrim ==
  ASSUME NEW l \in Seq(Region), NEW r \in Addr, NEW a \in Addr, Table(l, r, a),
         NEW i, NEW g, NEW m, Trimmed(l, r, i, g, m)
  PROVE  /\ m \in Seq(Region) /\ Len(m) = Len(l) /\ Table(m, r, a)
         /\ Regions(m) = (Regions(l) \ {l[i]}) \cup {g}
         /\ \A j \in 1 .. Len(m) : m[j] = IF j = i THEN g ELSE l[j]
<1>0. /\ i \in 1 .. Len(l) /\ g \in Region /\ m = [l EXCEPT ![i] = g]
      /\ Off(r, l[i].b) <= Off(r, g.b) /\ Off(r, g.b) < Off(r, g.e) /\ Off(r, g.e) <= Off(r, l[i].e)
      /\ g.b = l[i].b \/ Len(l) = 1
  BY DEF Trimmed
<1>1. /\ m \in Seq(Region) /\ Len(m) = Len(l)
      /\ \A j \in 1 .. Len(m) : m[j] = IF j = i THEN g ELSE l[j]
  BY <1>0, ExceptSeq
<1>2. \A j \in 1 .. Len(l) : j # i => l[j] # l[i]
  <2>1. \A j, k \in 1 .. Len(l) : l[j].b = l[k].b => j = k
    BY TableFacts
  <2> QED
    BY <1>0, <2>1
<1>3. Regions(m) = (Regions(l) \ {l[i]}) \cup {g}
  BY <1>0, <1>1, <1>2 DEF Regions
<1>4. \A j, k \in 1 .. Len(m) : j < k => m[j].b < m[k].b
  <2> SUFFICES ASSUME NEW j \in 1 .. Len(m), NEW k \in 1 .. Len(m), j < k
               PROVE  m[j].b < m[k].b
    OBVIOUS
  <2>1. l[j].b < l[k].b
    BY <1>1 DEF Table
  <2>2. CASE g.b = l[i].b
    <3>1. m[j].b = l[j].b /\ m[k].b = l[k].b
      BY <1>1, <2>2
    <3> QED
      BY <2>1, <3>1
  <2>3. CASE Len(l) = 1
    <3>1. j = 1 /\ k = 1
      BY <1>1, <2>3
    <3> QED
      BY <3>1
  <2> QED
    BY <1>0, <2>2, <2>3
<1>5. g.b \in Addr /\ g.e \in Addr /\ Off(r, g.b) \in Int /\ Off(r, g.e) \in Int /\ Off(r, a) \in Int
  <2>1. g.b \in Addr /\ g.e \in Addr
    BY <1>0 DEF Region
  <2> QED
    BY <2>1, OffRange, SMTT(30)
<1>6. \A j \in 1 .. Len(l) : Off(r, l[j].b) \in Int /\ Off(r, l[j].e) \in Int
  BY TableFacts
<1>10. ASSUME NEW j \in 1 .. Len(m)
       PROVE  /\ Off(r, l[j].b) <= Off(r, m[j].b) /\ Off(r, m[j].e) <= Off(r, l[j].e)
              /\ Off(r, m[j].b) < Off(r, m[j].e)
              /\ Off(r, m[j].b) \in Int /\ Off(r, m[j].e) \in Int
  <2>1. Off(r, l[j].b) < Off(r, l[j].e) /\ Off(r, l[j].b) \in Int /\ Off(r, l[j].e) \in Int
    BY <1>1, <1>6 DEF Table
  <2>2. CASE j = i
    BY <1>0, <1>1, <1>5, <2>2
  <2>3. CASE j # i
    <3>1. m[j] = l[j]
      BY <1>1, <2>3
    <3> QED
      BY <2>1, <3>1
  <2> QED
    BY <2>2, <2>3
<1>7. ASSUME NEW j \in 1 .. Len(m) PROVE Off(r, m[j].b) < Off(r, m[j].e) /\ Off(r, m[j].e) <= Off(r, a)
  <2>1. Off(r, l[j].e) <= Off(r, a) /\ Off(r, l[j].e) \in Int
    BY <1>1, <1>6 DEF Table
  <2>2. Off(r, m[j].e) <= Off(r, l[j].e) /\ Off(r, m[j].b) < Off(r, m[j].e) /\ Off(r, m[j].e) \in Int
    BY <1>10
  <2> QED
    BY <1>5, <2>1, <2>2
<1>8. ASSUME NEW j \in 1 .. Len(m), NEW k \in 1 .. Len(m), Off(r, m[j].b) < Off(r, m[k].b)
      PROVE  Off(r, m[j].e) < Off(r, m[k].b)
  <2>1. CASE j # k
    <3>1. Off(r, l[j].e) < Off(r, l[k].b) \/ Off(r, l[k].e) < Off(r, l[j].b)
      BY <1>1, <2>1, TableFacts
    <3>2. /\ Off(r, l[j].b) <= Off(r, m[j].b) /\ Off(r, m[j].e) <= Off(r, l[j].e)
          /\ Off(r, l[k].b) <= Off(r, m[k].b) /\ Off(r, m[k].e) <= Off(r, l[k].e)
          /\ Off(r, m[k].b) < Off(r, m[k].e)
          /\ Off(r, m[j].b) \in Int /\ Off(r, m[j].e) \in Int
          /\ Off(r, m[k].b) \in Int /\ Off(r, m[k].e) \in Int
      BY <1>10
    <3>3. /\ Off(r, l[j].b) \in Int /\ Off(r, l[j].e) \in Int
          /\ Off(r, l[k].b) \in Int /\ Off(r, l[k].e) \in Int
      BY <1>1, <1>6
    <3> QED
      BY <1>8, <3>1, <3>2, <3>3
  <2>2. CASE j = k
    BY <1>8, <1>10, <2>2
  <2> QED
    BY <2>1, <2>2
<1>9. Table(m, r, a)
  BY <1>4, <1>7, <1>8 DEF Table
<1> QED
  BY <1>1, <1>3, <1>9

\* The part from b to e of region i: all of it, its front when it is the only one, or its tail.
Part(l, r, i, b, e) ==
  \/ b = l[i].b /\ e = l[i].e
  \/ b = l[i].b /\ Off(r, b) < Off(r, e) /\ Off(r, e) < Off(r, l[i].e) /\ Len(l) = 1
  \/ e = l[i].e /\ Off(r, l[i].b) < Off(r, b) /\ Off(r, b) < Off(r, e)

\* What is left of region g.
Left(g, b, e) == (IF g.b # b THEN {[b |-> g.b, e |-> b]} ELSE {})
                 \cup (IF g.e # e THEN {[b |-> e, e |-> g.e]} ELSE {})

LEMMA UnlockedTable ==
  ASSUME NEW l \in Seq(Region), NEW r \in Addr, NEW a \in Addr, Table(l, r, a),
         NEW A, First(l, r, A), NEW i \in 1 .. Len(l),
         NEW b \in Addr, NEW e \in Addr, Part(l, r, i, b, e)
  PROVE  LET m == Unlocked(l, i, b, e)
         IN /\ m \in Seq(Region) /\ Len(m) <= Len(l) /\ Table(m, r, a)
            /\ Regions(m) = (Regions(l) \ {l[i]}) \cup Left(l[i], b, e)
            /\ m # << >> /\ A # b => First(m, r, A)
            /\ m # << >> /\ A = b => First(m, r, IF i <= Len(m) THEN m[i].b ELSE m[1].b)
<1> DEFINE m == Unlocked(l, i, b, e)
<1>1. PICK k \in 1 .. Len(l) : /\ A = l[k].b
                               /\ \A j \in 1 .. Len(l) : Off(r, A) <= Off(r, l[j].b)
  BY DEF First
<1>2. /\ l[i].b \in Addr /\ l[i].e \in Addr /\ l[i] \in Region /\ Len(l) \in Nat
      /\ Off(r, l[i].b) \in Int /\ Off(r, l[i].e) \in Int /\ Off(r, l[i].b) < Off(r, l[i].e)
      /\ Off(r, b) \in Int /\ Off(r, e) \in Int
  <2>1. \A x \in Addr : Off(r, x) \in Int
    BY OffRange
  <2>2. /\ l[i].b \in Addr /\ l[i].e \in Addr /\ l[i] \in Region
        /\ Off(r, l[i].b) < Off(r, l[i].e)
    BY TableFacts
  <2> QED
    BY <2>1, <2>2
<1>3. CASE b = l[i].b /\ e = l[i].e
  <2>1. m = RemoveAt(l, i)
    BY <1>3 DEF Unlocked
  <2> HIDE DEF m
  <2>2. /\ m \in Seq(Region) /\ Len(m) = Len(l) - 1 /\ Table(m, r, a)
        /\ Regions(m) = Regions(l) \ {l[i]}
        /\ \A j \in 1 .. Len(m) : m[j] = IF j < i THEN l[j] ELSE l[j + 1]
    BY <2>1, TableRemove
  <2>3. Left(l[i], b, e) = {}
    BY <1>3 DEF Left
  <2>4. \A j \in 1 .. Len(m) : \E n \in 1 .. Len(l) : n # i /\ m[j] = l[n]
    <3> SUFFICES ASSUME NEW j \in 1 .. Len(m)
                 PROVE  \E n \in 1 .. Len(l) : n # i /\ m[j] = l[n]
      OBVIOUS
    <3>1. j \in 1 .. Len(l) /\ j + 1 \in 1 .. Len(l)
      BY <1>2, <2>2
    <3>2. CASE j < i
      BY <2>2, <3>1, <3>2
    <3>3. CASE j >= i
      <4>1. m[j] = l[j + 1] /\ j + 1 # i
        BY <2>2, <3>1, <3>3
      <4> QED
        BY <3>1, <4>1
    <3> QED
      BY <3>1, <3>2, <3>3
  <2>5. m # << >> /\ A # b => First(m, r, A)
    <3> SUFFICES ASSUME A # b PROVE First(m, r, A)
      OBVIOUS
    <3>1. k # i
      BY <1>1, <1>3
    <3>2. \E j \in 1 .. Len(m) : m[j] = l[k]
      <4>1. CASE k < i
        <5>1. k \in 1 .. Len(m)
          BY <1>2, <2>2, <4>1
        <5> QED
          BY <2>2, <4>1, <5>1
      <4>2. CASE k > i
        <5>1. k - 1 \in 1 .. Len(m) /\ ~(k - 1 < i) /\ (k - 1) + 1 = k
          BY <1>2, <2>2, <4>2
        <5>2. m[k - 1] = l[(k - 1) + 1]
          BY <2>2, <5>1
        <5> QED
          BY <5>1, <5>2
      <4> QED
        BY <3>1, <4>1, <4>2
    <3> QED
      BY <1>1, <2>4, <3>2 DEF First
  <2>6. m # << >> /\ A = b => First(m, r, IF i <= Len(m) THEN m[i].b ELSE m[1].b)
    <3> SUFFICES ASSUME m # << >>, A = b
                 PROVE  First(m, r, IF i <= Len(m) THEN m[i].b ELSE m[1].b)
      OBVIOUS
    <3>0. Len(m) \in Nat /\ Len(m) # 0
      BY <2>2
    <3> DEFINE q == IF i < Len(l) THEN i + 1 ELSE 1
               n == IF i <= Len(m) THEN i ELSE 1
    <3>1. n \in 1 .. Len(m) /\ m[n] = l[q] /\ (IF i <= Len(m) THEN m[i].b ELSE m[1].b) = m[n].b
      <4>1. CASE i <= Len(m)
        <5>1. n = i /\ q = i + 1 /\ n \in 1 .. Len(m)
          BY <1>2, <2>2, <4>1
        <5> QED
          BY <2>2, <4>1, <5>1
      <4>2. CASE ~(i <= Len(m))
        <5>1. n = 1 /\ q = 1 /\ 1 \in 1 .. Len(m) /\ 1 < i
          BY <1>2, <2>2, <3>0, <4>2
        <5> QED
          BY <2>2, <4>2, <5>1
      <4> QED
        BY <4>1, <4>2
    <3>2. \A j \in 1 .. Len(l) : Off(r, l[i].b) <= Off(r, l[j].b)
      BY <1>1, <1>3
    <3>3. \A j \in 1 .. Len(l) : j # i => Off(r, l[q].b) <= Off(r, l[j].b)
      BY <3>2, Successor
    <3> HIDE DEF q, n
    <3> QED
      BY <2>4, <3>1, <3>3 DEF First
  <2> QED
    BY <1>2, <2>2, <2>3, <2>5, <2>6 DEF m
<1>4. CASE /\ b = l[i].b /\ Off(r, b) < Off(r, e) /\ Off(r, e) < Off(r, l[i].e) /\ Len(l) = 1
  <2> DEFINE g == [b |-> e, e |-> l[i].e]
  <2>1. m = [l EXCEPT ![i] = g]
    <3>1. e # l[i].e
      BY <1>2, <1>4
    <3>2. [l[i] EXCEPT !.b = e] = g
      BY <1>2 DEF Region
    <3>3. m = [l EXCEPT ![i].b = e]
      BY <1>4, <3>1 DEF Unlocked
    <3> QED
      BY <3>2, <3>3
  <2>2. g \in Region /\ g.b = e /\ g.e = l[i].e
    BY <1>2 DEF Region
  <2>3. Left(l[i], b, e) = {g}
    <3>1. e # l[i].e
      BY <1>2, <1>4
    <3> QED
      BY <1>4, <3>1 DEF Left
  <2> HIDE DEF m, g
  <2>4. Off(r, l[i].b) <= Off(r, g.b) /\ Off(r, g.b) < Off(r, g.e) /\ Off(r, g.e) <= Off(r, l[i].e)
    BY <1>2, <1>4, <2>2
  <2>5. /\ m \in Seq(Region) /\ Len(m) = Len(l) /\ Table(m, r, a)
        /\ Regions(m) = (Regions(l) \ {l[i]}) \cup {g}
        /\ \A j \in 1 .. Len(m) : m[j] = IF j = i THEN g ELSE l[j]
    <3>1. g.b = l[i].b \/ Len(l) = 1
      BY <1>4
    <3>2. Trimmed(l, r, i, g, m)
      BY <2>1, <2>2, <2>4, <3>1 DEF Trimmed
    <3> QED
      BY <3>2, TableTrim, SMTT(20)
  <2>6. i = 1 /\ k = 1 /\ Len(m) = 1
    BY <1>4, <2>5
  <2>7. First(m, r, m[1].b)
    <3>1. Off(r, m[1].b) \in Int
      BY <2>2, <2>5, <2>6, OffRange, SMTT(30)
    <3> QED
      BY <2>6, <3>1 DEF First
  <2> QED
    BY <1>1, <1>2, <1>4, <2>3, <2>5, <2>6, <2>7 DEF m
<1>5. CASE e = l[i].e /\ Off(r, l[i].b) < Off(r, b) /\ Off(r, b) < Off(r, e)
  <2> DEFINE g == [b |-> l[i].b, e |-> b]
  <2>0. b # l[i].b
    BY <1>2, <1>5
  <2>1. m = [l EXCEPT ![i] = g]
    <3>2. [l[i] EXCEPT !.e = b] = g
      BY <1>2 DEF Region
    <3>3. m = [l EXCEPT ![i].e = b]
      BY <1>5, <2>0 DEF Unlocked
    <3> QED
      BY <3>2, <3>3
  <2>2. g \in Region /\ g.b = l[i].b /\ g.e = b
    BY <1>2 DEF Region
  <2>3. Left(l[i], b, e) = {g}
    BY <1>5, <2>0 DEF Left
  <2> HIDE DEF m, g
  <2>4. Off(r, l[i].b) <= Off(r, g.b) /\ Off(r, g.b) < Off(r, g.e) /\ Off(r, g.e) <= Off(r, l[i].e)
    BY <1>2, <1>5, <2>2
  <2>5. /\ m \in Seq(Region) /\ Len(m) = Len(l) /\ Table(m, r, a)
        /\ Regions(m) = (Regions(l) \ {l[i]}) \cup {g}
        /\ \A j \in 1 .. Len(m) : m[j] = IF j = i THEN g ELSE l[j]
    <3>1. g.b = l[i].b \/ Len(l) = 1
      BY <2>2
    <3>2. Trimmed(l, r, i, g, m)
      BY <2>1, <2>2, <2>4, <3>1 DEF Trimmed
    <3> QED
      BY <3>2, TableTrim, SMTT(20)
  <2>6. A # b
    <3> SUFFICES ASSUME A = b PROVE FALSE
      OBVIOUS
    <3>1. k # i
      BY <1>1, <2>0
    <3>2. Off(r, l[i].e) < Off(r, l[k].b) \/ Off(r, l[k].e) < Off(r, l[i].b)
      BY <3>1, TableFacts
    <3>3. Off(r, l[k].b) < Off(r, l[k].e) /\ Off(r, l[k].e) \in Int /\ Off(r, l[k].b) \in Int
      BY TableFacts
    <3> QED
      BY <1>1, <1>2, <1>5, <3>2, <3>3
  <2>7. First(m, r, A)
    <3>1. \A j \in 1 .. Len(m) : m[j].b = l[j].b
      BY <2>2, <2>5
    <3> QED
      BY <1>1, <2>5, <3>1 DEF First
  <2> QED
    BY <1>2, <2>3, <2>5, <2>6, <2>7 DEF m
<1> QED
  BY <1>3, <1>4, <1>5 DEF Part

\* The record unlock_data finds is the only one the part can belong to.
LEMMA MatchIs ==
  ASSUME NEW l \in Seq(Region), NEW r \in Addr, NEW a \in Addr, Table(l, r, a),
         NEW i \in 1 .. Len(l), NEW b \in Addr, NEW e \in Addr, Part(l, r, i, b, e)
  PROVE  {k \in DOMAIN l : l[k].b = b \/ l[k].e = e} = {i}
<1>1. DOMAIN l = 1 .. Len(l) /\ Len(l) \in Nat
  OBVIOUS
<1>2. l[i].b = b \/ l[i].e = e
  BY DEF Part
<1>3. ASSUME NEW k \in 1 .. Len(l), k # i PROVE l[k].b # b /\ l[k].e # e
  <2>0. /\ Off(r, l[i].b) < Off(r, l[i].e) /\ Off(r, l[k].b) < Off(r, l[k].e)
        /\ Off(r, l[i].b) \in Int /\ Off(r, l[i].e) \in Int
        /\ Off(r, l[k].b) \in Int /\ Off(r, l[k].e) \in Int
    BY TableFacts
  <2>1. Off(r, l[i].e) < Off(r, l[k].b) \/ Off(r, l[k].e) < Off(r, l[i].b)
    BY <1>3, TableFacts
  <2>2. Off(r, b) \in Int /\ Off(r, e) \in Int
    BY OffRange
  <2>3. CASE Len(l) = 1
    BY <1>3, <2>3
  <2>4. CASE b = l[i].b /\ e = l[i].e
    BY <2>0, <2>1, <2>4
  <2>5. CASE e = l[i].e /\ Off(r, l[i].b) < Off(r, b) /\ Off(r, b) < Off(r, e)
    BY <2>0, <2>1, <2>2, <2>5
  <2> QED
    BY <2>3, <2>4, <2>5 DEF Part
<1> QED
  BY <1>1, <1>2, <1>3

\* What unlocking and locking leave alone.
SameRest(c, d) ==
  d.State = c.State /\ d.hMem = c.hMem /\ d.enbl = c.enbl

\* unlock_data once its record i is found; m is the table it leaves.
AfterUnlock(c, m, i, b) ==
  LET d == [c EXCEPT !.pLockData = m]
      next == IF i <= Len(d.pLockData) THEN d.pLockData[i].b ELSE d.pLockData[1].b
  IN IF c.ppLockAddr = b
     THEN IF d.pLockData = << >> THEN update_read_pointer(d, d.ppProcessAddr)
          ELSE update_read_pointer([d EXCEPT !.ppLockAddr = next], next)
     ELSE IF c.wRpiStatus THEN process_read_pointer(d)
     ELSE d

\* The part from b to e belongs to region i of the table.
Unlockable(c, i, b, e) ==
  Sound(c) /\ i \in 1 .. Len(c.pLockData) /\ Part(c.pLockData, Base(c), i, b, e)

LEMMA UnlockSound ==
  ASSUME NEW c \in Channel, NEW b \in Addr, NEW e \in Addr, NEW i, Unlockable(c, i, b, e),
         NEW d, d = unlock_data(c, b, e)
  PROVE  /\ Sound(d) /\ d.wLockAlloc = c.wLockAlloc
         /\ Regions(d.pLockData) = (Regions(c.pLockData) \ {c.pLockData[i]})
                                     \cup Left(c.pLockData[i], b, e)
         /\ Len(d.pLockData) <= Len(c.pLockData)
         /\ Table(d.pLockData, Base(c), c.ppProcessAddr)
         /\ SamePointers(c, d) \/ Moved(d.pLockData, d)
<1>0. Sound(c) /\ i \in 1 .. Len(c.pLockData) /\ Part(c.pLockData, Base(c), i, b, e)
  BY DEF Unlockable
<1> DEFINE l == c.pLockData
           r == Base(c)
           m == Unlocked(l, i, b, e)
           u == [c EXCEPT !.pLockData = m]
           next == IF i <= Len(m) THEN m[i].b ELSE m[1].b
           v == [u EXCEPT !.ppLockAddr = next]
<1>1. /\ l \in Seq(Region) /\ r \in Addr /\ c.ppProcessAddr \in Addr /\ Table(l, r, c.ppProcessAddr)
      /\ i \in 1 .. Len(l) /\ Part(l, r, i, b, e)
  BY <1>0, BaseOn DEF Channel, Sound
<1>2. l # << >> /\ First(l, r, c.ppLockAddr)
  <2>1. l # << >>
    BY <1>1
  <2> QED
    BY <1>0, <2>1 DEF Sound
<1>3. {k \in DOMAIN l : l[k].b = b \/ l[k].e = e} = {i}
  BY <1>1, MatchIs
<1>4. d = IF c.ppLockAddr = b
          THEN IF m = << >> THEN update_read_pointer(u, u.ppProcessAddr)
               ELSE update_read_pointer(v, next)
          ELSE IF c.wRpiStatus THEN process_read_pointer(u) ELSE u
  <2> DEFINE Match == {k \in DOMAIN l : l[k].b = b \/ l[k].e = e}
  <2>1. (CHOOSE k \in Match : \A n \in Match : k <= n) = i
    <3>1. Match = {i}
      BY <1>3
    <3> HIDE DEF Match
    <3> QED
      BY <1>1, <3>1
  <2>2. u.pLockData = m
    BY DEF Channel
  <2>3. Match # {}
    BY <1>3
  <2>4. d = AfterUnlock(c, Unlocked(l, CHOOSE k \in Match : \A n \in Match : k <= n, b, e),
                        CHOOSE k \in Match : \A n \in Match : k <= n, b)
    BY <2>3, Zenon DEF unlock_data, AfterUnlock
  <2>5. d = AfterUnlock(c, m, i, b)
    <3> DEFINE C == CHOOSE k \in Match : \A n \in Match : k <= n
    <3>1. C = i
      BY <2>1
    <3>2. d = AfterUnlock(c, Unlocked(l, C, b, e), C, b)
      BY <2>4
    <3> HIDE DEF C, l
    <3> QED
      BY <3>1, <3>2
  <2> HIDE DEF m
  <2> QED
    BY <2>2, <2>5 DEF AfterUnlock
<1>5. /\ m \in Seq(Region) /\ Len(m) <= Len(l) /\ Table(m, r, c.ppProcessAddr)
      /\ Regions(m) = (Regions(l) \ {l[i]}) \cup Left(l[i], b, e)
      /\ m # << >> /\ c.ppLockAddr # b => First(m, r, c.ppLockAddr)
      /\ m # << >> /\ c.ppLockAddr = b => First(m, r, next)
  <2> HIDE DEF l, r
  <2> QED
    BY <1>1, <1>2, UnlockedTable
<1> HIDE DEF m
<1>6. /\ u \in Channel /\ Pointers(u) /\ Base(u) = r /\ u.pLockData = m
      /\ u.ppProcessAddr = c.ppProcessAddr /\ u.ppLockAddr = c.ppLockAddr
      /\ SamePointers(c, u) /\ SameRest(c, u)
      /\ u.wLockAlloc = c.wLockAlloc /\ u.uwInternal = c.uwInternal
  <2>1. Off(r, r) <= Off(r, c.ppProcessAddr)
    BY <1>1, BaseBehind
  <2> QED
    BY <1>0, <1>5, <2>1 DEF Channel, Sound, Pointers, Base, SamePointers, SameRest
<1>7. CASE c.ppLockAddr = b /\ m = << >>
  <2>1. d = update_read_pointer(u, u.ppProcessAddr)
    BY <1>4, <1>7
  <2>2. Sound(u)
    BY <1>5, <1>6, <1>7 DEF Sound
  <2> HIDE DEF u
  <2>3. /\ d \in Channel /\ Sound(d) /\ SameData(u, d)
        /\ Off(Base(u), Base(d)) <= Off(Base(u), u.ppProcessAddr)
    BY <1>6, <1>7, <2>1, <2>2, UpdateToProcessed
  <2> QED
    BY <1>5, <1>6, <2>3 DEF SameData, SamePointers, SameRest, m
<1>8. CASE c.ppLockAddr = b /\ m # << >>
  <2>1. d = update_read_pointer(v, next)
    BY <1>4, <1>8
  <2>2. First(m, r, next)
    BY <1>5, <1>8
  <2>3. PICK k \in 1 .. Len(m) : next = m[k].b /\ \A j \in 1 .. Len(m) : Off(r, next) <= Off(r, m[j].b)
    BY <2>2 DEF First
  <2>4. next \in Addr /\ Off(r, next) <= Off(r, c.ppProcessAddr)
    <3>1. /\ m[k].b \in Addr /\ Off(r, m[k].b) < Off(r, m[k].e)
          /\ Off(r, m[k].b) \in Int /\ Off(r, m[k].e) \in Int
      BY <1>1, <1>5, TableFacts
    <3>2. Off(r, m[k].e) <= Off(r, c.ppProcessAddr) /\ Off(r, c.ppProcessAddr) \in Int
      BY <1>1, <1>5, OffRange DEF Table
    <3> HIDE DEF next
    <3> QED
      BY <2>3, <3>1, <3>2
  <2> HIDE DEF next
  <2>5. /\ v \in Channel /\ Pointers(v) /\ Base(v) = r /\ v.pLockData = m
        /\ v.ppProcessAddr = c.ppProcessAddr /\ v.ppLockAddr = next
        /\ SamePointers(c, v) /\ SameRest(c, v)
        /\ v.wLockAlloc = c.wLockAlloc /\ v.uwInternal = c.uwInternal
    <3> HIDE DEF u
    <3> QED
      BY <1>6, <2>4 DEF Channel, Pointers, Base, SamePointers, SameRest
  <2> HIDE DEF v
  <2>6. Sound(v)
    BY <1>5, <2>2, <2>5 DEF Sound
  <2>7. /\ d \in Channel /\ Sound(d) /\ SameData(v, d)
        /\ Off(Base(v), Base(d)) <= Off(Base(v), next) /\ Base(d) \in Addr
    BY <2>1, <2>3, <2>4, <2>5, <2>6, UpdateSound
  <2>8. Off(r, Base(d)) <= Off(r, c.ppProcessAddr)
    <3>1. /\ Off(r, Base(d)) \in Int /\ Off(r, next) \in Int
          /\ Off(r, c.ppProcessAddr) \in Int
      <4>1. \A x \in Addr : Off(r, x) \in Int
        BY <1>1, OffRange
      <4> QED
        BY <1>1, <2>4, <2>7, <4>1
    <3> HIDE DEF r
    <3> QED
      BY <2>4, <2>5, <2>7, <3>1
  <2> QED
    BY <1>5, <2>5, <2>7, <2>8 DEF SameData, SamePointers, SameRest, m
<1>9. CASE c.ppLockAddr # b
  <2>1. Sound(u)
    BY <1>5, <1>6, <1>9 DEF Sound
  <2> HIDE DEF u
  <2>2. CASE c.wRpiStatus
    <3>1. d = process_read_pointer(u)
      BY <1>4, <1>9, <2>2
    <3>2. /\ d \in Channel /\ Sound(d) /\ SameQueue(u, d)
          /\ SamePointers(u, d) \/ Moved(u.pLockData, d)
      BY <1>6, <2>1, <3>1, ProcessSound
    <3> QED
      BY <1>5, <1>6, <3>2 DEF SameQueue, SamePointers, SameRest, m
  <2>3. CASE ~c.wRpiStatus
    <3>1. d = u
      BY <1>4, <1>9, <2>3
    <3> QED
      BY <1>5, <1>6, <2>1, <3>1 DEF m
  <2> QED
    BY <2>2, <2>3
<1> QED
  BY <1>7, <1>8, <1>9

-----------------------------------------------------------------------------
\* Locking a record.

\* Where lock_data puts the record that begins at b.
Place(l, b) ==
  CHOOSE i \in 1 .. Len(l) + 1 :
    /\ i = Len(l) + 1 \/ b < l[i].b
    /\ \A j \in 1 .. i - 1 : b >= l[j].b

LEMMA PlaceIs ==
  ASSUME NEW l \in Seq(Region), NEW b \in Addr
  PROVE  LET i == Place(l, b)
         IN /\ i \in 1 .. Len(l) + 1
            /\ i = Len(l) + 1 \/ b < l[i].b
            /\ \A j \in 1 .. i - 1 : b >= l[j].b
<1> DEFINE S == {i \in 1 .. Len(l) + 1 : i = Len(l) + 1 \/ b < l[i].b}
<1>0. Len(l) \in Nat
  OBVIOUS
<1>1. S \in SUBSET Nat /\ Len(l) + 1 \in S
  BY <1>0
<1>2. PICK i \in S : \A x \in S : i <= x
  <2> HIDE DEF S
  <2>1. S # {}
    BY <1>1
  <2> QED
    BY <1>1, <2>1, LeastExists
<1>3. i \in 1 .. Len(l) + 1 /\ (i = Len(l) + 1 \/ b < l[i].b)
  OBVIOUS
<1>4. \A j \in 1 .. i - 1 : b >= l[j].b
  <2> SUFFICES ASSUME NEW j \in 1 .. i - 1 PROVE b >= l[j].b
    OBVIOUS
  <2>1. j \in 1 .. Len(l) /\ ~(i <= j)
    BY <1>0, <1>3
  <2>2. j \notin S
    BY <1>2, <2>1
  <2>3. l[j].b \in Addr
    BY <2>1, RegionsOn
  <2> QED
    BY <1>0, <2>1, <2>2, <2>3, Sizes DEF Addr
<1> HIDE DEF S
<1>5. \E n \in 1 .. Len(l) + 1 : /\ n = Len(l) + 1 \/ b < l[n].b
                                 /\ \A j \in 1 .. n - 1 : b >= l[j].b
  BY <1>3, <1>4
<1> QED
  BY <1>5 DEF Place

\* Table m is l with region g put in at its place, behind all that l holds.
Inserted(l, r, p, g, m) ==
  /\ g \in Region /\ m = InsertAt(l, Place(l, g.b), g)
  /\ Off(r, p) <= Off(r, g.b) /\ Off(r, g.b) < Off(r, g.e)
  /\ l = << >> \/ Off(r, p) < Off(r, g.b)

LEMMA TableInsert ==
  ASSUME NEW l \in Seq(Region), NEW r \in Addr, NEW p \in Addr, Table(l, r, p),
         NEW g, NEW m, Inserted(l, r, p, g, m)
  PROVE  /\ m \in Seq(Region) /\ Len(m) = Len(l) + 1 /\ Table(m, r, g.e)
         /\ Regions(m) = Regions(l) \cup {g}
         /\ g \notin Regions(l)
         /\ l = << >> => First(m, r, g.b)
         /\ \A a : l # << >> /\ First(l, r, a) => First(m, r, a)
<1> DEFINE i == Place(l, g.b)
<1>0. /\ g \in Region /\ m = InsertAt(l, i, g)
      /\ Off(r, p) <= Off(r, g.b) /\ Off(r, g.b) < Off(r, g.e)
      /\ l = << >> \/ Off(r, p) < Off(r, g.b)
  BY DEF Inserted
<1>1. /\ g.b \in Addr /\ g.e \in Addr /\ Len(l) \in Nat
      /\ Off(r, g.b) \in Int /\ Off(r, g.e) \in Int /\ Off(r, p) \in Int
  <2>1. g.b \in Addr /\ g.e \in Addr
    BY <1>0 DEF Region
  <2> QED
    BY <2>1, OffRange, SMTT(30)
<1>2. /\ i \in 1 .. Len(l) + 1
      /\ i = Len(l) + 1 \/ g.b < l[i].b
      /\ \A j \in 1 .. i - 1 : g.b >= l[j].b
  BY <1>1, PlaceIs
<1> HIDE DEF i
<1>3. /\ m \in Seq(Region) /\ Len(m) = Len(l) + 1
      /\ \A j \in 1 .. Len(l) + 1 : m[j] = IF j < i THEN l[j] ELSE IF j = i THEN g ELSE l[j - 1]
  BY <1>0, <1>2, InsertAtIs, SMTT(30)
<1>4. ASSUME NEW j \in 1 .. Len(l)
      PROVE  /\ Off(r, l[j].b) < Off(r, l[j].e) /\ Off(r, l[j].e) < Off(r, g.b)
             /\ Off(r, l[j].b) \in Int /\ Off(r, l[j].e) \in Int
             /\ l[j].b \in Addr /\ l[j].b # g.b
  <2>1. /\ Off(r, l[j].b) < Off(r, l[j].e) /\ Off(r, l[j].e) <= Off(r, p)
        /\ Off(r, l[j].b) \in Int /\ Off(r, l[j].e) \in Int /\ l[j].b \in Addr
    BY TableFacts DEF Table
  <2>2. Off(r, p) < Off(r, g.b)
    BY <1>0, <1>1
  <2> QED
    BY <1>1, <2>1, <2>2
\* Every entry of the new table is the new region or an old one, the old ones in their order.
<1>5. ASSUME NEW j \in 1 .. Len(m)
      PROVE  \/ j = i /\ m[j] = g
             \/ \E n \in 1 .. Len(l) : m[j] = l[n] /\ ((j < i /\ n = j) \/ (j > i /\ n = j - 1))
  <2>0. j \in 1 .. Len(l) + 1
    BY <1>1, <1>3
  <2>1. CASE j < i
    <3>1. j \in 1 .. Len(l) /\ m[j] = l[j]
      BY <1>1, <1>2, <1>3, <2>0, <2>1
    <3> QED
      BY <2>1, <3>1
  <2>2. CASE j = i
    BY <1>3, <2>0, <2>2
  <2>3. CASE j > i
    <3>1. j - 1 \in 1 .. Len(l) /\ m[j] = l[j - 1]
      BY <1>1, <1>2, <1>3, <2>0, <2>3
    <3> QED
      BY <2>3, <3>1
  <2> QED
    BY <1>2, <2>0, <2>1, <2>2, <2>3
<1>6. \A n \in 1 .. Len(l) : \E j \in 1 .. Len(m) : m[j] = l[n]
  <2> SUFFICES ASSUME NEW n \in 1 .. Len(l) PROVE \E j \in 1 .. Len(m) : m[j] = l[n]
    OBVIOUS
  <2>1. CASE n < i
    <3>1. n \in 1 .. Len(m) /\ m[n] = l[n]
      BY <1>1, <1>3, <2>1
    <3> QED
      BY <3>1
  <2>2. CASE n >= i
    <3>1. n + 1 \in 1 .. Len(l) + 1 /\ ~(n + 1 < i) /\ n + 1 # i /\ (n + 1) - 1 = n
      BY <1>1, <1>2, <2>2
    <3>2. m[n + 1] = l[(n + 1) - 1]
      BY <1>3, <3>1
    <3> QED
      BY <1>3, <3>1, <3>2
  <2> QED
    BY <1>2, <2>1, <2>2
<1>7. i \in 1 .. Len(m) /\ m[i] = g
  BY <1>2, <1>3
<1>8. Regions(m) = Regions(l) \cup {g}
  BY <1>5, <1>6, <1>7 DEF Regions
<1>9. g \notin Regions(l)
  BY <1>4 DEF Regions
<1>10. ASSUME NEW j \in 1 .. Len(m), NEW k \in 1 .. Len(m), j < k PROVE m[j].b < m[k].b
  <2>1. \A x, y \in 1 .. Len(l) : x < y => l[x].b < l[y].b
    BY DEF Table
  <2>2. g.b \in Int /\ \A n \in 1 .. Len(l) : l[n].b \in Int
    BY <1>1, <1>4, Sizes DEF Addr
  <2>3. CASE j = i
    <3>1. PICK n \in 1 .. Len(l) : m[k] = l[n] /\ n = k - 1 /\ k > i
      BY <1>5, <1>10, <2>3
    <3>2. g.b < l[i].b /\ i \in 1 .. Len(l)
      BY <1>1, <1>2, <3>1
    <3>3. i = n \/ l[i].b < l[n].b
      BY <1>10, <2>1, <2>3, <3>1, <3>2
    <3> QED
      BY <1>7, <2>2, <2>3, <3>1, <3>2, <3>3
  <2>4. CASE k = i
    <3>1. PICK n \in 1 .. Len(l) : m[j] = l[n] /\ n = j /\ j < i
      BY <1>5, <1>10, <2>4
    <3>2. g.b >= l[n].b /\ l[n].b # g.b
      BY <1>2, <1>4, <3>1
    <3> QED
      BY <1>7, <2>2, <2>4, <3>1, <3>2
  <2>5. CASE j # i /\ k # i
    <3>1. PICK x \in 1 .. Len(l) : m[j] = l[x] /\ ((j < i /\ x = j) \/ (j > i /\ x = j - 1))
      BY <1>5, <2>5
    <3>2. PICK y \in 1 .. Len(l) : m[k] = l[y] /\ ((k < i /\ y = k) \/ (k > i /\ y = k - 1))
      BY <1>5, <2>5
    <3>3. x < y
      BY <1>2, <1>10, <3>1, <3>2
    <3> QED
      BY <2>1, <3>1, <3>2, <3>3
  <2> QED
    BY <2>3, <2>4, <2>5
<1>11. ASSUME NEW j \in 1 .. Len(m)
       PROVE  Off(r, m[j].b) < Off(r, m[j].e) /\ Off(r, m[j].e) <= Off(r, g.e)
  <2>1. CASE m[j] = g
    BY <1>0, <1>1, <2>1
  <2>2. ASSUME NEW x \in 1 .. Len(l), m[j] = l[x]
        PROVE  Off(r, m[j].b) < Off(r, m[j].e) /\ Off(r, m[j].e) <= Off(r, g.e)
    BY <1>0, <1>1, <1>4, <2>2
  <2> QED
    BY <1>5, <2>1, <2>2
<1>12. ASSUME NEW j \in 1 .. Len(m), NEW k \in 1 .. Len(m), Off(r, m[j].b) < Off(r, m[k].b)
       PROVE  Off(r, m[j].e) < Off(r, m[k].b)
  <2>1. CASE m[j] = g
    <3>1. m[k] = g \/ \E n \in 1 .. Len(l) : m[k] = l[n]
      BY <1>5
    <3> QED
      BY <1>1, <1>4, <1>12, <2>1, <3>1
  <2>2. ASSUME NEW x \in 1 .. Len(l), m[j] = l[x] PROVE Off(r, m[j].e) < Off(r, m[k].b)
    <3>1. CASE m[k] = g
      BY <1>4, <2>2, <3>1
    <3>2. ASSUME NEW y \in 1 .. Len(l), m[k] = l[y] PROVE Off(r, m[j].e) < Off(r, m[k].b)
      <4>1. Off(r, l[x].b) < Off(r, l[y].b)
        BY <1>12, <2>2, <3>2
      <4> QED
        BY <2>2, <3>2, <4>1 DEF Table
    <3> QED
      BY <1>5, <3>1, <3>2
  <2> QED
    BY <1>5, <2>1, <2>2
<1>13. Table(m, r, g.e)
  BY <1>10, <1>11, <1>12 DEF Table
<1>14. l = << >> => First(m, r, g.b)
  <2> SUFFICES ASSUME l = << >> PROVE First(m, r, g.b)
    OBVIOUS
  <2>1. Len(l) = 0
    OBVIOUS
  <2>2. \A j \in 1 .. Len(m) : m[j] = g
    BY <1>5, <2>1
  <2> QED
    BY <1>1, <1>7, <2>2 DEF First
<1>15. ASSUME NEW a, l # << >>, First(l, r, a) PROVE First(m, r, a)
  <2>1. PICK k \in 1 .. Len(l) : a = l[k].b /\ \A j \in 1 .. Len(l) : Off(r, a) <= Off(r, l[j].b)
    BY <1>15 DEF First
  <2>2. PICK n \in 1 .. Len(m) : m[n] = l[k]
    BY <1>6
  <2>3. ASSUME NEW j \in 1 .. Len(m) PROVE Off(r, a) <= Off(r, m[j].b)
    <3>1. CASE m[j] = g
      BY <1>1, <1>4, <2>1, <3>1
    <3>2. CASE \E x \in 1 .. Len(l) : m[j] = l[x]
      BY <2>1, <3>2
    <3> QED
      BY <1>5, <3>1, <3>2
  <2> QED
    BY <2>1, <2>2, <2>3 DEF First
<1> QED
  BY <1>3, <1>8, <1>9, <1>13, <1>14, <1>15

\* The record from b to e can be locked; it is behind everything locked, and complete.
Lockable(c, b, e, ok) ==
  /\ Sound(c) /\ CanLock(c, ok)
  /\ Off(Base(c), c.ppProcessAddr) <= Off(Base(c), b)
  /\ Off(Base(c), b) < Off(Base(c), e) /\ Off(Base(c), e) <= Off(Base(c), c.wstart)
  /\ c.pLockData = << >> \/ Off(Base(c), c.ppProcessAddr) < Off(Base(c), b)

LEMMA LockSound ==
  ASSUME NEW c \in Channel, NEW b \in Addr, NEW e \in Addr, NEW ok, Lockable(c, b, e, ok),
         NEW d, d = lock_data(c, b, e, ok)
  PROVE  /\ Sound(d) /\ Base(d) = Base(c)
         /\ d.ppReadAddr = c.ppReadAddr /\ d.wstart = c.wstart /\ d.ppProcessAddr = e
         /\ d.wLockAlloc = MaxLocks
         /\ Regions(d.pLockData) = Regions(c.pLockData) \cup {[b |-> b, e |-> e]}
         /\ Len(d.pLockData) = Len(c.pLockData) + 1
<1>0. /\ Sound(c) /\ CanLock(c, ok)
      /\ Off(Base(c), c.ppProcessAddr) <= Off(Base(c), b)
      /\ Off(Base(c), b) < Off(Base(c), e) /\ Off(Base(c), e) <= Off(Base(c), c.wstart)
      /\ c.pLockData = << >> \/ Off(Base(c), c.ppProcessAddr) < Off(Base(c), b)
  BY DEF Lockable
<1> DEFINE l == c.pLockData
           g == [b |-> b, e |-> e]
           m == InsertAt(l, Place(l, b), g)
           a == IF l = << >> THEN b ELSE c.ppLockAddr
<1>1. d = [c EXCEPT !.ppProcessAddr = e, !.wLockAlloc = MaxLocks, !.ppLockAddr = a, !.pLockData = m]
  BY <1>0 DEF lock_data, Place
<1>2. /\ l \in Seq(Region) /\ Base(c) \in Addr /\ c.ppProcessAddr \in Addr
      /\ Table(l, Base(c), c.ppProcessAddr) /\ g \in Region /\ g.b = b /\ g.e = e
  BY <1>0, BaseOn DEF Channel, Sound, Region
<1>3. Inserted(l, Base(c), c.ppProcessAddr, g, m)
  <2> HIDE DEF g
  <2> QED
    BY <1>0, <1>2 DEF Inserted
<1>4. /\ m \in Seq(Region) /\ Len(m) = Len(l) + 1 /\ Table(m, Base(c), e)
      /\ Regions(m) = Regions(l) \cup {g}
      /\ g \notin Regions(l)
      /\ l = << >> => First(m, Base(c), b)
      /\ l # << >> => First(m, Base(c), c.ppLockAddr)
  <2> HIDE DEF g, m, l
  <2>1. /\ m \in Seq(Region) /\ Len(m) = Len(l) + 1 /\ Table(m, Base(c), e)
        /\ Regions(m) = Regions(l) \cup {g}
        /\ g \notin Regions(l)
        /\ l = << >> => First(m, Base(c), g.b)
        /\ \A x : l # << >> /\ First(l, Base(c), x) => First(m, Base(c), x)
    BY <1>2, <1>3, TableInsert
  <2>2. l # << >> => First(l, Base(c), c.ppLockAddr)
    BY <1>0 DEF Sound, l
  <2> QED
    BY <1>2, <2>1, <2>2
<1>5. a \in Addr \cup {NULL}
  BY DEF Channel
<1> HIDE DEF m, a
<1>6. /\ d \in Channel /\ Base(d) = Base(c)
      /\ d.ppReadAddr = c.ppReadAddr /\ d.wstart = c.wstart /\ d.ppProcessAddr = e
      /\ d.wLockAlloc = MaxLocks
      /\ d.pLockData = m /\ d.ppLockAddr = a
      /\ d.rptr = c.rptr /\ d.wptr = c.wptr /\ d.full = c.full
  BY <1>1, <1>4, <1>5 DEF Channel, Base
<1> HIDE DEF g, l
<1>7. Pointers(d)
  BY <1>0, <1>6 DEF Pointers, Sound
<1>8. First(m, Base(c), a)
  BY <1>4 DEF a
<1>9. Sound(d)
  BY <1>4, <1>6, <1>7, <1>8 DEF Sound
<1> QED
  BY <1>4, <1>6, <1>9 DEF g, l

-----------------------------------------------------------------------------
\* What the functions keep of a channel whatever its table holds.
LEMMA ProcessTyped ==
  ASSUME NEW c \in Channel
  PROVE  LET d == process_read_pointer(c) IN d \in Channel /\ SameQueue(c, d)
<1> DEFINE l == c.pLockData
           d == process_read_pointer(c)
           i == LargestGap(l)
           b == GapBegin(l, i)
           e == GapEnd(l, i)
<1>0. l \in Seq(Region) /\ c.ppProcessAddr \in Addr
  BY DEF Channel
<1>1. CASE l = << >>
  <2>1. d = update_read_pointer(c, c.ppProcessAddr)
    BY <1>1 DEF process_read_pointer
  <2> HIDE DEF d
  <2>2. d \in Channel /\ SameData(c, d)
    BY <1>0, <2>1, UpdateFields
  <2> QED
    BY <2>2 DEF SameData, SameQueue, d
<1>2. CASE l # << >> /\ GapSize(l, i) >= Gran
  <2>1. i \in 0 .. Len(l) - 1
    BY <1>0, <1>2, LargestGapOn
  <2>2. d = move_write_pointer(c, b, e)
    BY <1>2 DEF process_read_pointer
  <2> HIDE DEF d, i
  <2>3. b \in Addr /\ e \in Addr
    <3>1. Len(l) \in Nat /\ Len(l) \in 1 .. Len(l) /\ i + 1 \in 1 .. Len(l)
      BY <1>0, <1>2, <2>1
    <3>2. \A j \in 1 .. Len(l) : l[j].b \in Addr /\ l[j].e \in Addr
      BY <1>0, RegionsOn
    <3>3. i # 0 => i \in 1 .. Len(l)
      BY <2>1, <3>1
    <3> QED
      BY <3>1, <3>2, <3>3 DEF GapBegin, GapEnd
  <2> HIDE DEF b, e
  <2> DEFINE u == [c EXCEPT !.run = FALSE, !.wstart = b, !.wptr = b, !.full = FALSE]
             v == update_read_pointer(u, e)
  <2>4. u \in Channel /\ SameQueue(c, u)
    BY <2>3 DEF Channel, SameQueue
  <2>5. d = [v EXCEPT !.ppProcessAddr = b, !.ppReadAddr = b, !.ppLockAddr = e]
    BY <2>2 DEF move_write_pointer
  <2> HIDE DEF u
  <2>6. v \in Channel /\ SameData(u, v)
    BY <2>3, <2>4, UpdateFields
  <2> HIDE DEF v
  <2>7. d \in Channel /\ SameQueue(v, d)
    BY <2>3, <2>5, <2>6 DEF Channel, SameQueue
  <2> QED
    BY <2>4, <2>6, <2>7 DEF SameData, SameQueue, d
<1>3. CASE l # << >> /\ ~(GapSize(l, i) >= Gran)
  <2>1. d = c
    BY <1>3 DEF process_read_pointer
  <2> HIDE DEF d
  <2> QED
    BY <2>1 DEF SameQueue, d
<1> QED
  BY <1>1, <1>2, <1>3

LEMMA UnlockedTyped ==
  ASSUME NEW l \in Seq(Region), NEW i \in 1 .. Len(l), NEW b \in Addr, NEW e \in Addr
  PROVE  Unlocked(l, i, b, e) \in Seq(Region)
<1>1. RemoveAt(l, i) \in Seq(Region)
  BY RemoveAtIs
<1>2. l[i] \in Region
  BY ElementOfSeq
<1>3. [l EXCEPT ![i].b = e] \in Seq(Region)
  <2>1. [l[i] EXCEPT !.b = e] \in Region
    BY <1>2 DEF Region
  <2> QED
    BY <2>1, ExceptSeq
<1>4. [l EXCEPT ![i].e = b] \in Seq(Region)
  <2>1. [l[i] EXCEPT !.e = b] \in Region
    BY <1>2 DEF Region
  <2> QED
    BY <2>1, ExceptSeq
<1> QED
  BY <1>1, <1>3, <1>4, Zenon DEF Unlocked

LEMMA UnlockTyped ==
  ASSUME NEW c \in Channel, NEW b \in Addr, NEW e \in Addr
  PROVE  LET d == unlock_data(c, b, e)
         IN d \in Channel /\ SameRest(c, d) /\ d.uwInternal = c.uwInternal
<1> DEFINE l == c.pLockData
           Match == {k \in DOMAIN l : l[k].b = b \/ l[k].e = e}
           i == CHOOSE k \in Match : \A n \in Match : k <= n
           m == Unlocked(l, i, b, e)
           u == [c EXCEPT !.pLockData = m]
           next == IF i <= Len(m) THEN m[i].b ELSE m[1].b
           v == [u EXCEPT !.ppLockAddr = next]
           d == unlock_data(c, b, e)
<1>1. l \in Seq(Region) /\ c.ppProcessAddr \in Addr
  BY DEF Channel
<1>2. CASE Match = {}
  <2>1. d = c
    BY <1>2 DEF unlock_data
  <2> HIDE DEF d
  <2> QED
    BY <2>1 DEF SameRest, d
<1>3. CASE Match # {}
  <2>1. d = AfterUnlock(c, m, i, b)
    BY <1>3, Zenon DEF unlock_data, AfterUnlock
  <2>2. i \in 1 .. Len(l)
    <3>1. Match \in SUBSET Nat /\ Match \subseteq 1 .. Len(l)
      BY <1>1
    <3> HIDE DEF Match
    <3>2. \E k \in Match : \A n \in Match : k <= n
      BY <1>3, <3>1, LeastExists
    <3> QED
      BY <3>1, <3>2
  <2> HIDE DEF i
  <2>3. m \in Seq(Region)
    BY <1>1, <2>2, UnlockedTyped
  <2> HIDE DEF m, d, Match
  <2>4. u \in Channel /\ SameRest(c, u) /\ u.uwInternal = c.uwInternal /\ u.pLockData = m
        /\ u.ppProcessAddr = c.ppProcessAddr
    BY <2>3 DEF Channel, SameRest
  <2>5. d = IF c.ppLockAddr = b
            THEN IF m = << >> THEN update_read_pointer(u, u.ppProcessAddr)
                 ELSE update_read_pointer(v, next)
            ELSE IF c.wRpiStatus THEN process_read_pointer(u) ELSE u
    BY <2>1, <2>4 DEF AfterUnlock
  <2>6. CASE c.ppLockAddr = b /\ m = << >>
    <3>1. d = update_read_pointer(u, u.ppProcessAddr)
      BY <2>5, <2>6
    <3> HIDE DEF u
    <3>2. d \in Channel /\ SameData(u, d)
      BY <1>1, <2>4, <3>1, UpdateFields
    <3> QED
      BY <2>4, <3>2 DEF SameData, SameRest, d
  <2>7. CASE c.ppLockAddr = b /\ m # << >>
    <3>1. d = update_read_pointer(v, next)
      BY <2>5, <2>7
    <3>2. next \in Addr
      <4>1. Len(m) \in Nat /\ 1 \in 1 .. Len(m) /\ (i <= Len(m) => i \in 1 .. Len(m))
        BY <2>2, <2>3, <2>7
      <4>2. \A j \in 1 .. Len(m) : m[j].b \in Addr
        BY <2>3, RegionsOn
      <4> QED
        BY <4>1, <4>2
    <3> HIDE DEF next, u
    <3>3. v \in Channel /\ SameRest(u, v) /\ v.uwInternal = u.uwInternal
      BY <2>4, <3>2 DEF Channel, SameRest
    <3> HIDE DEF v
    <3>4. d \in Channel /\ SameData(v, d)
      BY <3>1, <3>2, <3>3, UpdateFields
    <3> QED
      BY <2>4, <3>3, <3>4 DEF SameData, SameRest, d
  <2>8. CASE c.ppLockAddr # b /\ c.wRpiStatus
    <3>1. d = process_read_pointer(u)
      BY <2>5, <2>8
    <3> HIDE DEF u
    <3>2. d \in Channel /\ SameQueue(u, d)
      BY <2>4, <3>1, ProcessTyped
    <3> QED
      BY <2>4, <3>2 DEF SameQueue, SameRest, d
  <2>9. CASE c.ppLockAddr # b /\ ~c.wRpiStatus
    <3>1. d = u
      BY <2>5, <2>9
    <3> HIDE DEF u
    <3> QED
      BY <2>4, <3>1 DEF d
  <2> QED
    BY <2>6, <2>7, <2>8, <2>9
<1> QED
  BY <1>2, <1>3

LEMMA LockTyped ==
  ASSUME NEW c \in Channel, NEW b \in Addr, NEW e \in Addr, NEW ok
  PROVE  LET d == lock_data(c, b, e, ok)
         IN /\ d \in Channel /\ SameRest(c, d)
            /\ c.uwInternal \/ ~CanLock(c, ok) => d.uwInternal
<1> DEFINE l == c.pLockData
           g == [b |-> b, e |-> e]
           m == InsertAt(l, Place(l, b), g)
           a == IF l = << >> THEN b ELSE c.ppLockAddr
           d == lock_data(c, b, e, ok)
<1>1. CASE CanLock(c, ok)
  <2>1. d = [c EXCEPT !.ppProcessAddr = e, !.wLockAlloc = MaxLocks, !.ppLockAddr = a, !.pLockData = m]
    BY <1>1 DEF lock_data, Place
  <2>2. l \in Seq(Region) /\ g \in Region
    BY DEF Channel, Region
  <2>3. m \in Seq(Region)
    BY <2>2, PlaceIs, InsertAtIs
  <2>4. a \in Addr \cup {NULL}
    BY DEF Channel
  <2> HIDE DEF m, a, d
  <2> QED
    BY <1>1, <2>1, <2>3, <2>4 DEF Channel, SameRest, d
<1>2. CASE ~CanLock(c, ok)
  <2>1. d = [c EXCEPT !.ppProcessAddr = e, !.uwInternal = TRUE]
    BY <1>2 DEF lock_data
  <2> HIDE DEF d
  <2> QED
    BY <2>1 DEF Channel, SameRest, d
<1> QED
  BY <1>1, <1>2

LEMMA SkipTyped ==
  ASSUME NEW c \in Channel, NEW e \in Addr
  PROVE  LET d == skip_data(c, e)
         IN d \in Channel /\ SameRest(c, d) /\ d.uwInternal = c.uwInternal
<1> DEFINE u == [c EXCEPT !.ppProcessAddr = e]
           d == skip_data(c, e)
<1>1. u \in Channel /\ SameRest(c, u) /\ u.uwInternal = c.uwInternal
  BY DEF Channel, SameRest
<1>2. d = IF c.pLockData = << >> THEN update_read_pointer(u, e) ELSE u
  BY DEF skip_data
<1> HIDE DEF u, d
<1>3. update_read_pointer(u, e) \in Channel /\ SameData(u, update_read_pointer(u, e))
  BY <1>1, UpdateFields
<1>4. d \in Channel /\ SameRest(c, d) /\ d.uwInternal = c.uwInternal
  BY <1>1, <1>2, <1>3 DEF SameData, SameRest
<1> QED
  BY <1>4 DEF d

LEMMA TableGrow ==
  ASSUME NEW l \in Seq(Region), NEW r \in Addr, NEW p \in Addr, NEW e \in Addr,
         Table(l, r, p), Off(r, p) <= Off(r, e)
  PROVE  Table(l, r, e)
<1>1. Off(r, p) \in Int /\ Off(r, e) \in Int
  BY OffRange
<1>2. ASSUME NEW j \in 1 .. Len(l)
      PROVE  Off(r, l[j].b) < Off(r, l[j].e) /\ Off(r, l[j].e) <= Off(r, e)
  <2>1. /\ Off(r, l[j].b) < Off(r, l[j].e) /\ Off(r, l[j].e) <= Off(r, p)
        /\ Off(r, l[j].e) \in Int
    BY TableFacts DEF Table
  <2> QED
    BY <1>1, <2>1
<1> QED
  BY <1>2 DEF Table

LEMMA SkipSound ==
  ASSUME NEW c \in Channel, Sound(c), NEW e \in Addr,
         Off(Base(c), c.ppProcessAddr) <= Off(Base(c), e), Off(Base(c), e) <= Off(Base(c), c.wstart)
  PROVE  LET d == skip_data(c, e)
         IN /\ d \in Channel /\ Sound(d) /\ SameRest(c, d)
            /\ d.ppReadAddr = c.ppReadAddr /\ d.wstart = c.wstart /\ d.ppProcessAddr = e
            /\ d.pLockData = c.pLockData /\ d.wLockAlloc = c.wLockAlloc /\ d.uwInternal = c.uwInternal
            /\ Off(Base(c), Base(d)) <= Off(Base(c), e)
<1> DEFINE u == [c EXCEPT !.ppProcessAddr = e]
           d == skip_data(c, e)
<1>1. /\ u \in Channel /\ SameRest(c, u) /\ u.uwInternal = c.uwInternal /\ u.wLockAlloc = c.wLockAlloc
      /\ u.pLockData = c.pLockData /\ u.ppProcessAddr = e /\ Base(u) = Base(c)
      /\ u.ppReadAddr = c.ppReadAddr /\ u.wstart = c.wstart /\ u.ppLockAddr = c.ppLockAddr
      /\ u.rptr = c.rptr /\ u.wptr = c.wptr /\ u.full = c.full
  BY DEF Channel, SameRest, Base
<1>2. d = IF u.pLockData = << >> THEN update_read_pointer(u, u.ppProcessAddr) ELSE u
  BY <1>1 DEF skip_data
<1> HIDE DEF u, d
<1>3. Sound(u)
  <2>1. Table(c.pLockData, Base(c), e)
    BY BaseOn, TableGrow DEF Sound, Channel
  <2> QED
    BY <1>1, <2>1 DEF Sound, Pointers
<1>4. CASE u.pLockData = << >>
  <2>1. /\ d \in Channel /\ Sound(d) /\ SameData(u, d)
        /\ Off(Base(u), Base(d)) <= Off(Base(u), u.ppProcessAddr)
    BY <1>1, <1>2, <1>3, <1>4, UpdateToProcessed
  <2> QED
    BY <1>1, <2>1 DEF SameData, SameRest, d
<1>5. CASE u.pLockData # << >>
  <2>1. Off(Base(c), Base(c)) <= Off(Base(c), e)
    BY BaseOn, BaseBehind
  <2> QED
    BY <1>1, <1>2, <1>3, <1>5, <2>1 DEF d
<1> QED
  BY <1>4, <1>5

-----------------------------------------------------------------------------
\* What has been handed over and what has not.
LEMMA StillBefore ==
  ASSUME NEW r \in Addr, NEW s \in Addr, NEW x \in Addr, NEW y \in Addr,
         Off(r, s) <= Off(r, x), Off(r, x) <= Off(r, y)
  PROVE  Off(s, x) <= Off(s, y)
BY Sizes DEF Addr, Off

LEMMA CellsNone == ASSUME NEW a \in Addr PROVE Cells(a, a) = {}
BY Sizes DEF Addr, Cells

LEMMA CellsSplit ==
  ASSUME NEW r \in Addr, NEW a \in Addr, NEW b \in Addr, NEW c \in Addr,
         Off(r, a) <= Off(r, b), Off(r, b) <= Off(r, c)
  PROVE  Cells(a, c) \ Cells(a, b) = Cells(b, c) /\ Cells(a, b) \cup Cells(b, c) = Cells(a, c)
<1>1. \A x \in Addr : Off(r, x) \in Int
  BY OffRange
<1>2. Off(r, a) <= Off(r, c)
  BY <1>1
<1>3. /\ Cells(a, b) = {x \in Addr : Off(r, a) <= Off(r, x) /\ Off(r, x) < Off(r, b)}
      /\ Cells(b, c) = {x \in Addr : Off(r, b) <= Off(r, x) /\ Off(r, x) < Off(r, c)}
      /\ Cells(a, c) = {x \in Addr : Off(r, a) <= Off(r, x) /\ Off(r, x) < Off(r, c)}
  BY <1>2, CellsByOff
<1> QED
  BY <1>1, <1>3

\* One word on, and how far that is behind r.
LEMMA NextWord ==
  ASSUME NEW r \in Addr, NEW a \in Addr
  PROVE  LET w == ((a + 1) % QueueSize)
         IN /\ w \in Addr /\ Cells(a, w) \in {{}, {a}}
            /\ w # r => Off(r, w) = Off(r, a) + 1
<1>1. a \in 0 .. QueueSize - 1 /\ QueueSize \in Nat \ {0}
  BY Sizes DEF Addr
<1>2. ((a + 1) % QueueSize) = IF a = QueueSize - 1 THEN 0 ELSE a + 1
  <2>1. CASE a = QueueSize - 1
    BY <1>1, <2>1
  <2>2. CASE a # QueueSize - 1
    BY <1>1, <2>2
  <2> QED
    BY <2>1, <2>2
<1> DEFINE w == ((a + 1) % QueueSize)
<1>3. w = IF a = QueueSize - 1 THEN 0 ELSE a + 1
  BY <1>2
<1> HIDE DEF w
<1>4. w \in Addr /\ (w # r => Off(r, w) = Off(r, a) + 1)
  BY <1>1, <1>3 DEF Addr, Off
<1>5. Cells(a, w) \in {{}, {a}}
  <2>1. CASE a = QueueSize - 1
    <3>1. CASE QueueSize = 1
      BY <1>1, <1>3, <2>1, <3>1 DEF Cells
    <3>2. CASE QueueSize # 1
      BY <1>1, <1>3, <2>1, <3>2 DEF Cells
    <3> QED
      BY <3>1, <3>2
  <2>2. CASE a # QueueSize - 1
    BY <1>1, <1>3, <2>2 DEF Cells
  <2> QED
    BY <2>1, <2>2
<1> QED
  BY <1>4, <1>5 DEF w

\* A record lies between the cursor and the end of what process_data hands over.
LEMMA RecordPlace ==
  ASSUME TypeOK, Sound(ch), Cursor, bh.pc = "records", NEW x \in RecordEnds
  PROVE  LET r == Base(ch)
         IN /\ x \in Addr /\ RecordBegin \in Addr /\ bh.cur \in Addr
            /\ bh.cur = ch.ppProcessAddr
            /\ Off(r, bh.cur) <= Off(r, RecordBegin) /\ Off(r, RecordBegin) < Off(r, x)
            /\ Off(r, x) <= Off(r, bh.end) /\ Off(r, x) <= Off(r, ch.wstart)
            /\ Off(r, bh.cur) <= Off(r, x)
            /\ UnloadType = "PSI" => Off(r, bh.cur) < Off(r, RecordBegin)
<1> DEFINE r == Base(ch)
<1>1. /\ ch \in Channel /\ r \in Addr /\ bh.cur \in Addr /\ bh.end \in Addr /\ ch.wstart \in Addr
      /\ bh.cur = ch.ppProcessAddr /\ bh.cur # bh.end
      /\ Off(r, bh.cur) <= Off(r, bh.end) /\ Off(r, bh.end) <= Off(r, ch.wstart)
      /\ UnloadType \in {"PSI", "PES"}
  <2>1. ch \in Channel
    BY ChannelTyped
  <2>2. UnloadType \in {"PSI", "PES"}
    BY QueueAssumption DEF TypeOK, UnloadType
  <2> QED
    BY <2>1, <2>2, BaseOn DEF TypeOK, Cursor, Channel
<1> HIDE DEF r
<1>2. \A y \in Addr : Off(r, y) \in Int /\ \A z \in Addr : Off(r, y) = Off(r, z) => y = z
  BY <1>1, OffRange, OffEqual
<1>3. CASE UnloadType = "PES"
  <2>1. x = bh.end
    BY <1>3 DEF RecordEnds
  <2>2. RecordBegin = bh.cur
    BY <1>1, <1>3, Sizes DEF RecordBegin, MatchWord, Addr
  <2>3. Off(r, bh.cur) # Off(r, bh.end)
    BY <1>1, <1>2
  <2> QED
    BY <1>1, <1>2, <1>3, <2>1, <2>2, <2>3 DEF r
<1>4. CASE UnloadType = "PSI"
  <2> DEFINE w == RecordBegin
  <2>0. w = ((bh.cur + 1) % QueueSize)
    BY <1>4 DEF RecordBegin, MatchWord
  <2>1. x \in Cells(bh.cur, bh.end) \cup {bh.end} /\ Cardinality(Cells(bh.cur, x)) > 1
    BY <1>4 DEF RecordEnds, MatchWord
  <2> HIDE DEF w
  <2>2. x \in Addr /\ Off(r, bh.cur) <= Off(r, x) /\ Off(r, x) <= Off(r, bh.end)
    <3>1. Cells(bh.cur, bh.end) = {y \in Addr : Off(r, bh.cur) <= Off(r, y) /\ Off(r, y) < Off(r, bh.end)}
      BY <1>1, CellsByOff
    <3> QED
      BY <1>1, <1>2, <2>1, <3>1
  <2>3. x # bh.cur /\ x # w
    <3>1. Cells(bh.cur, bh.cur) = {}
      BY <1>1, CellsNone
    <3>2. Cells(bh.cur, w) \in {{}, {bh.cur}}
      BY <1>1, <2>0, NextWord
    <3>3. Cardinality({}) = 0 /\ Cardinality({bh.cur}) = 1
      BY FS_EmptySet, FS_Singleton
    <3>4. ASSUME x = bh.cur \/ x = w PROVE FALSE
      <4>1. Cells(bh.cur, x) = {} \/ Cells(bh.cur, x) = {bh.cur}
        BY <3>1, <3>2, <3>4
      <4>2. Cardinality(Cells(bh.cur, x)) \in {0, 1}
        BY <3>3, <4>1
      <4> QED
        BY <2>1, <4>2
    <3> QED
      BY <3>4
  <2>4. w \in Addr /\ Off(r, w) = Off(r, bh.cur) + 1
    <3>1. w \in Addr /\ (w # r => Off(r, w) = Off(r, bh.cur) + 1)
      BY <1>1, <2>0, NextWord
    <3>2. w # r
      <4> SUFFICES ASSUME w = r PROVE FALSE
        OBVIOUS
      <4>1. Off(r, bh.cur) < Off(r, x) /\ Off(r, x) \in 0 .. QueueSize - 1
            /\ Off(r, bh.cur) \in 0 .. QueueSize - 1
        <5>1. Off(r, bh.cur) # Off(r, x)
          BY <1>1, <1>2, <2>2, <2>3
        <5> QED
          BY <1>1, <1>2, <2>2, <5>1, OffRange
      <4>2. Off(r, bh.cur) = QueueSize - 1
        <5>1. bh.cur \in 0 .. QueueSize - 1 /\ r \in 0 .. QueueSize - 1 /\ QueueSize \in Nat \ {0}
          BY <1>1, Sizes DEF Addr
        <5>2. CASE bh.cur = QueueSize - 1
          BY <2>0, <5>1, <5>2 DEF Off
        <5>3. CASE bh.cur # QueueSize - 1
          <6>1. w = bh.cur + 1
            BY <2>0, <5>1, <5>3
          <6> QED
            BY <5>1, <6>1 DEF Off
        <5> QED
          BY <5>2, <5>3
      <4> QED
        BY <4>1, <4>2
    <3> QED
      BY <3>1, <3>2
  <2>5. Off(r, w) < Off(r, x)
    <3>1. Off(r, bh.cur) # Off(r, x) /\ Off(r, w) # Off(r, x)
      BY <1>1, <1>2, <2>2, <2>3, <2>4
    <3> QED
      BY <1>1, <1>2, <2>2, <2>4, <3>1
  <2>6. Off(r, x) <= Off(r, ch.wstart)
    BY <1>1, <1>2, <2>2
  <2> QED
    BY <1>1, <1>2, <2>2, <2>4, <2>5, <2>6 DEF r, w
<1> QED
  BY <1>1, <1>3, <1>4

-----------------------------------------------------------------------------
\* The steps.  First the types, which hold whatever failed.
LEMMA TypedAgain ==
  ASSUME TypeOK, UNCHANGED setup, ch' \in Channel, posted' \in SUBSET Bits,
         bh' \in [pc : {"idle", "records", "interrupt"}, cur : Addr, end : Addr, bits : SUBSET Bits],
         held' \in SUBSET Region, fresh' \in SUBSET Addr
  PROVE  TypeOK'
BY DEF TypeOK, Channel, MaxLocks

\* Cursor, FreshWhere, HeldWhere and Allotted depend on these fields only.
SameView(c, d) ==
  /\ d.rptr = c.rptr /\ d.wptr = c.wptr /\ d.wstart = c.wstart /\ d.full = c.full
  /\ d.ppReadAddr = c.ppReadAddr /\ d.ppProcessAddr = c.ppProcessAddr
  /\ d.ppLockAddr = c.ppLockAddr /\ d.pLockData = c.pLockData
  /\ d.wLockAlloc = c.wLockAlloc /\ d.uwInternal = c.uwInternal

LEMMA ViewSound == ASSUME NEW c, NEW d, SameView(c, d), Sound(c) PROVE Sound(d) /\ Base(d) = Base(c)
BY DEF SameView, Sound, Pointers, Base

LEMMA ViewKept ==
  ASSUME IInv, SameView(ch, ch'), UNCHANGED <<setup, bh>>,
         held' = held, ch'.State = "UNDEFINED" \/ (ch.State # "UNDEFINED" /\ fresh' = fresh)
  PROVE  (NoLockFailed => Sound(ch) /\ Cursor /\ FreshWhere /\ HeldWhere /\ Allotted)'
<1> SUFFICES ASSUME NoLockFailed' PROVE (Sound(ch) /\ Cursor /\ FreshWhere /\ HeldWhere /\ Allotted)'
  OBVIOUS
<1>1. NoLockFailed /\ Sound(ch) /\ Cursor /\ FreshWhere /\ HeldWhere /\ Allotted
  BY DEF IInv, SameView, NoLockFailed
<1>2. Sound(ch') /\ Base(ch') = Base(ch)
  BY <1>1, ViewSound
<1> QED
  BY <1>1, <1>2 DEF SameView, Cursor, FreshWhere, HeldWhere, Allotted, Env, OneAtATime

LEMMA HwWriteInv ==
  ASSUME IInv, InUse(setup), NoLockFailed, UNCHANGED setup, NEW done \in BOOLEAN, HwWrite(done)
  PROVE  IInv'
<1> DEFINE w == ((ch.wptr + 1) % QueueSize)
           caught == w = ch.rptr % QueueSize
           r == Base(ch)
<1>1. /\ TypeOK /\ Life /\ Sound(ch) /\ Cursor /\ FreshWhere /\ HeldWhere /\ Allotted
      /\ ch \in Channel /\ r \in Addr
  BY ChannelTyped, BaseOn DEF IInv
<1>2. /\ ch.wptr \in Addr /\ ch.wstart \in Addr /\ ch.ppProcessAddr \in Addr
      /\ ch.rptr \in 1 .. QueueSize
  BY <1>1 DEF Channel
<1>3. caught <=> w = r
  BY <1>2, Sizes DEF Base
<1>4. w \in Addr /\ (w # r => Off(r, w) = Off(r, ch.wptr) + 1)
  BY <1>1, <1>2, NextWord
<1>5. /\ ch.enbl /\ ~ch.full /\ ch.State # "UNDEFINED"
      /\ ~(done /\ caught)
      /\ ~done => Cardinality(Cells(ch.wstart, w)) \in 1 .. MaxUnit - 1
      /\ ch' = [ch EXCEPT !.wptr = w, !.wstart = IF done THEN w ELSE ch.wstart,
                          !.full = caught, !.run = ~caught,
                          !.qstat = ch.qstat \cup (IF done THEN {"TSC"} ELSE {})
                                             \cup (IF caught THEN {"RPI"} ELSE {})]
      /\ fresh' = IF done THEN fresh \cup Cells(ch.wstart, w) ELSE fresh
      /\ posted' = posted /\ bh' = bh /\ held' = held
  BY <1>1 DEF HwWrite, HwCanWrite, InUse, Life, Env
<1> HIDE DEF w, caught
<1>6. /\ ch' \in Channel
      /\ ch'.wptr = w /\ ch'.wstart = (IF done THEN w ELSE ch.wstart) /\ ch'.full = caught
      /\ ch'.rptr = ch.rptr /\ ch'.State = ch.State /\ ch'.hMem = ch.hMem /\ ch'.enbl = ch.enbl
      /\ ch'.ppProcessAddr = ch.ppProcessAddr /\ ch'.ppReadAddr = ch.ppReadAddr
      /\ ch'.ppLockAddr = ch.ppLockAddr /\ ch'.pLockData = ch.pLockData
      /\ ch'.wLockAlloc = ch.wLockAlloc /\ ch'.uwInternal = ch.uwInternal
  <2>1. /\ caught \in BOOLEAN /\ (~caught) \in BOOLEAN
        /\ (IF done THEN w ELSE ch.wstart) \in Addr
        /\ ch.qstat \cup (IF done THEN {"TSC"} ELSE {}) \cup (IF caught THEN {"RPI"} ELSE {})
             \in SUBSET Bits
    <3>1. caught \in BOOLEAN
      BY DEF caught
    <3>2. ch.qstat \in SUBSET Bits
      BY <1>1 DEF Channel
    <3>3. ch.qstat \cup (IF done THEN {"TSC"} ELSE {}) \cup (IF caught THEN {"RPI"} ELSE {})
            \in SUBSET Bits
      <4> DEFINE A == IF done THEN {"TSC"} ELSE {}
                 B == IF caught THEN {"RPI"} ELSE {}
      <4>1. A \in SUBSET Bits /\ B \in SUBSET Bits
        BY DEF Bits
      <4> HIDE DEF A, B
      <4>2. ch.qstat \cup A \cup B \in SUBSET Bits
        BY <3>2, <4>1
      <4> QED
        BY <4>2 DEF A, B
    <3>4. (IF done THEN w ELSE ch.wstart) \in Addr
      BY <1>2, <1>4
    <3>5. (~caught) \in BOOLEAN
      BY Zenon
    <3> QED
      BY <3>1, <3>3, <3>4, <3>5, Zenon
  <2> QED
    BY <1>1, <1>4, <1>5, <2>1 DEF Channel
<1>7. /\ Off(r, ch.ppProcessAddr) <= Off(r, ch.wstart) /\ Off(r, ch.wstart) <= Off(r, ch.wptr)
      /\ \A y \in Addr : Off(r, y) \in Int
  BY <1>1, <1>5, OffRange DEF Sound, Pointers
<1>8. ~done => w # ch.wstart
  <2> SUFFICES ASSUME ~done, w = ch.wstart PROVE FALSE
    OBVIOUS
  <2>1. Cells(ch.wstart, w) = {}
    BY <1>2, CellsNone
  <2>2. Cardinality(Cells(ch.wstart, w)) = 0
    BY <2>1, FS_EmptySet
  <2>3. Cardinality(Cells(ch.wstart, w)) \in 1 .. MaxUnit - 1
    BY <1>5
  <2> QED
    BY <2>2, <2>3, QueueAssumption
<1>9. /\ Off(r, ch.wstart) <= Off(r, ch'.wstart)
      /\ ~caught => Off(r, ch'.wstart) <= Off(r, w)
  <2>1. CASE done
    <3>1. w # r
      BY <1>3, <1>5, <2>1
    <3> QED
      BY <1>2, <1>4, <1>6, <1>7, <2>1, <3>1
  <2>2. CASE ~done
    BY <1>2, <1>3, <1>4, <1>6, <1>7, <2>2
  <2> QED
    BY <2>1, <2>2
<1>10. Base(ch') = r /\ Sound(ch')
  <2>1. Base(ch') = r
    BY <1>6 DEF Base, r
  <2>2. Off(r, ch'.ppProcessAddr) <= Off(r, ch'.wstart)
    <3>1. ch'.wstart \in Addr
      BY <1>2, <1>4, <1>6
    <3> QED
      BY <1>2, <1>6, <1>7, <1>9, <3>1
  <2>3. Pointers(ch')
    BY <1>1, <1>3, <1>6, <1>8, <1>9, <2>1, <2>2, <1>5 DEF Pointers, Sound, r
  <2> QED
    BY <1>1, <1>6, <2>1, <2>3 DEF Sound, r
<1>11. Cursor'
  <2>1. bh.pc = "records" => Off(r, bh.end) <= Off(r, ch'.wstart)
    <3> SUFFICES ASSUME bh.pc = "records" PROVE Off(r, bh.end) <= Off(r, ch'.wstart)
      OBVIOUS
    <3>1. Off(r, bh.end) <= Off(r, ch.wstart) /\ bh.end \in Addr
      BY <1>1 DEF Cursor, TypeOK, r
    <3>2. ch'.wstart \in Addr
      BY <1>2, <1>4, <1>6
    <3> QED
      BY <1>2, <1>7, <1>9, <3>1, <3>2
  <2> QED
    BY <1>1, <1>5, <1>6, <1>10, <2>1 DEF Cursor, r
<1>12. fresh' = Cells(ch'.ppProcessAddr, ch'.wstart)
  <2>1. fresh = Cells(ch.ppProcessAddr, ch.wstart)
    BY <1>1, <1>5 DEF FreshWhere
  <2>2. CASE done
    <3>1. Off(r, ch.wstart) <= Off(r, w)
      BY <1>6, <1>9, <2>2
    <3>2. Cells(ch.ppProcessAddr, ch.wstart) \cup Cells(ch.wstart, w) = Cells(ch.ppProcessAddr, w)
      BY <1>1, <1>2, <1>4, <1>7, <3>1, CellsSplit
    <3> QED
      BY <1>5, <1>6, <2>1, <2>2, <3>2
  <2>3. CASE ~done
    BY <1>5, <1>6, <2>1, <2>3
  <2> QED
    BY <2>2, <2>3
<1>13. TypeOK'
  <2>1. fresh' \in SUBSET Addr
    BY <1>2, <1>4, <1>6, <1>12, CellsOn
  <2> QED
    BY <1>1, <1>5, <1>6, <2>1, TypedAgain DEF TypeOK
<1>14. Life'
  BY <1>1, <1>5, <1>6 DEF Life
<1>15. HeldWhere' /\ Allotted' /\ FreshWhere'
  BY <1>1, <1>5, <1>6, <1>12 DEF HeldWhere, Allotted, FreshWhere, Env, OneAtATime
<1> QED
  BY <1>10, <1>11, <1>13, <1>14, <1>15 DEF IInv

\* Steps of the hardware and of the top half that the queue's pointers do not notice.
LEMMA HwBlockedInv ==
  ASSUME IInv, UNCHANGED setup, HwBlocked
  PROVE  IInv'
<1>1. TypeOK /\ Life /\ ch \in Channel
  BY ChannelTyped DEF IInv
<1>2. /\ ch' = [ch EXCEPT !.run = FALSE, !.qstat = ch.qstat \cup {"RPI"}]
      /\ posted' = posted /\ bh' = bh /\ held' = held /\ fresh' = fresh
      /\ ch.State # "UNDEFINED"
  BY <1>1 DEF HwBlocked, Life
<1>3. /\ ch' \in Channel /\ SameView(ch, ch')
      /\ ch'.State = ch.State /\ ch'.hMem = ch.hMem /\ ch'.enbl = ch.enbl
  <2>1. ch.qstat \cup {"RPI"} \in SUBSET Bits
    BY <1>1 DEF Channel, Bits
  <2> QED
    BY <1>1, <1>2, <2>1 DEF Channel, SameView
<1>4. TypeOK'
  BY <1>1, <1>2, <1>3, TypedAgain DEF TypeOK
<1>5. Life'
  BY <1>1, <1>2, <1>3 DEF Life
<1> QED
  BY <1>2, <1>3, <1>4, <1>5, ViewKept DEF IInv

LEMMA TopHalfInv ==
  ASSUME IInv, UNCHANGED setup, TopHalf
  PROVE  IInv'
<1>1. TypeOK /\ Life /\ ch \in Channel
  BY ChannelTyped DEF IInv
<1>2. /\ ch' = [ch EXCEPT !.qstat = {}] /\ posted' = posted \cup ch.qstat
      /\ bh' = bh /\ held' = held /\ fresh' = fresh
  BY DEF TopHalf
<1>3. /\ ch' \in Channel /\ SameView(ch, ch')
      /\ ch'.State = ch.State /\ ch'.hMem = ch.hMem /\ ch'.enbl = ch.enbl
  BY <1>1, <1>2 DEF Channel, SameView
<1>4. TypeOK'
  <2>1. posted' \in SUBSET Bits
    BY <1>1, <1>2 DEF Channel, TypeOK
  <2> QED
    BY <1>1, <1>2, <1>3, <2>1, TypedAgain DEF TypeOK
<1>5. Life'
  BY <1>1, <1>2, <1>3 DEF Life
<1> QED
  BY <1>2, <1>3, <1>4, <1>5, ViewKept DEF IInv

\* process_data takes the read address and the end of the complete units.
LEMMA BhStartInv ==
  ASSUME IInv, UNCHANGED setup, BhStart
  PROVE  IInv'
<1> DEFINE data == "TSC" \in posted /\ ch.State = "ENABLED" /\ ch.ppReadAddr # ch.wstart
<1>1. TypeOK /\ Life /\ ch \in Channel
  BY ChannelTyped DEF IInv
<1>2. /\ bh.pc = "idle" /\ ch' = ch /\ posted' = {} /\ held' = held /\ fresh' = fresh
      /\ bh' = [pc |-> IF data THEN "records" ELSE "interrupt",
                cur |-> ch.ppReadAddr, end |-> ch.wstart, bits |-> posted]
  BY DEF BhStart
<1>3. TypeOK'
  <2>1. ch.ppReadAddr \in Addr /\ ch.wstart \in Addr /\ posted \in SUBSET Bits
    BY <1>1 DEF Channel, TypeOK
  <2>2. bh' \in [pc : {"idle", "records", "interrupt"}, cur : Addr, end : Addr, bits : SUBSET Bits]
    <3>1. (IF data THEN "records" ELSE "interrupt") \in {"idle", "records", "interrupt"}
      OBVIOUS
    <3> HIDE DEF data
    <3> QED
      BY <1>2, <2>1, <3>1
  <2> QED
    BY <1>1, <1>2, <2>2, TypedAgain DEF TypeOK
<1>4. /\ bh'.pc = (IF data THEN "records" ELSE "interrupt")
      /\ bh'.cur = ch.ppReadAddr /\ bh'.end = ch.wstart
  <2> HIDE DEF data
  <2> QED
    BY <1>2
<1>5. Life'
  BY <1>1, <1>2, <1>4 DEF Life
<1>6. NoLockFailed' => (Sound(ch) /\ Cursor /\ FreshWhere /\ HeldWhere /\ Allotted)'
  <2> SUFFICES ASSUME NoLockFailed'
               PROVE  (Sound(ch) /\ Cursor /\ FreshWhere /\ HeldWhere /\ Allotted)'
    OBVIOUS
  <2>1. Sound(ch) /\ Cursor /\ FreshWhere /\ HeldWhere /\ Allotted
    BY <1>2 DEF IInv, NoLockFailed
  <2>2. ch.ppReadAddr = ch.ppProcessAddr
    BY <1>2, <2>1 DEF Cursor
  <2>3. Off(Base(ch), ch.wstart) <= Off(Base(ch), ch.wstart)
    <3>1. Base(ch) \in Addr /\ ch.wstart \in Addr
      BY <1>1, BaseOn DEF Channel
    <3>2. Off(Base(ch), ch.wstart) \in Int
      BY <3>1, OffRange
    <3> QED
      BY <3>2
  <2>4. Off(Base(ch), ch.ppProcessAddr) <= Off(Base(ch), ch.wstart)
    BY <2>1 DEF Sound, Pointers
  <2>5. Cursor'
    BY <1>2, <1>4, <2>2, <2>3, <2>4 DEF Cursor
  <2> QED
    BY <1>2, <2>1, <2>5 DEF FreshWhere, HeldWhere, Allotted, Env, OneAtATime
<1> QED
  BY <1>3, <1>5, <1>6 DEF IInv

\* process_data goes on behind a record, with what is left to hand over.
LEMMA Advanced ==
  ASSUME IInv, UNCHANGED setup, bh.pc = "records", NEW c \in Channel, NEW x \in Addr,
         SameRest(ch, c), BhAdvance(c, x), held' \in SUBSET Region, fresh' \in SUBSET fresh
  PROVE  TypeOK' /\ Life'
<1>1. TypeOK /\ Life /\ ch \in Channel
  BY ChannelTyped DEF IInv
<1>2. /\ ch' \in Channel /\ SameRest(ch, ch')
      /\ bh' = [bh EXCEPT !.cur = x, !.pc = IF x = bh.end THEN "interrupt" ELSE "records"]
      /\ posted' = posted
  <2>1. [c EXCEPT !.ppReadAddr = x] \in Channel /\ SameRest(ch, [c EXCEPT !.ppReadAddr = x])
    BY DEF Channel, SameRest
  <2> QED
    BY <2>1 DEF BhAdvance
<1>3. TypeOK'
  <2>1. bh' \in [pc : {"idle", "records", "interrupt"}, cur : Addr, end : Addr, bits : SUBSET Bits]
    BY <1>1, <1>2 DEF TypeOK
  <2>2. posted' \in SUBSET Bits /\ fresh' \in SUBSET Addr
    BY <1>1, <1>2 DEF TypeOK
  <2> QED
    BY <1>1, <1>2, <2>1, <2>2, TypedAgain
<1>4. ch.State = "ENABLED" /\ ch'.State = "ENABLED"
  BY <1>1, <1>2 DEF Life, SameRest
<1>5. Life'
  BY <1>1, <1>2, <1>4 DEF Life, SameRest
<1> QED
  BY <1>3, <1>5

LEMMA AdvancedOn ==
  ASSUME TypeOK, Sound(ch), Cursor, FreshWhere, Life, bh.pc = "records",
         NEW x \in RecordEnds, NEW c \in Channel, Sound(c), BhAdvance(c, x),
         c.ppReadAddr = ch.ppReadAddr, c.wstart = ch.wstart, c.ppProcessAddr = x,
         Off(Base(ch), Base(c)) <= Off(Base(ch), x),
         fresh' = fresh \ Cells(bh.cur, x)
  PROVE  /\ Sound(ch)' /\ Cursor' /\ FreshWhere'
         /\ ch'.pLockData = c.pLockData /\ ch'.wLockAlloc = c.wLockAlloc
<1> DEFINE r == Base(ch)
<1>1. /\ x \in Addr /\ bh.cur = ch.ppProcessAddr /\ r \in Addr /\ bh.cur \in Addr
      /\ bh.end \in Addr /\ ch.wstart \in Addr /\ Base(c) \in Addr
      /\ Off(r, bh.cur) <= Off(r, x) /\ Off(r, x) <= Off(r, bh.end)
      /\ Off(r, x) <= Off(r, ch.wstart) /\ Off(r, bh.end) <= Off(r, ch.wstart)
  <2>1. ch \in Channel
    BY ChannelTyped
  <2> QED
    BY <2>1, RecordPlace, BaseOn DEF Channel, TypeOK, Cursor
<1>2. /\ ch' = (IF x = bh.end THEN [c EXCEPT !.ppReadAddr = x] ELSE c)
      /\ bh'.cur = x /\ bh'.end = bh.end
      /\ bh'.pc = (IF x = bh.end THEN "interrupt" ELSE "records")
  BY DEF BhAdvance, TypeOK
<1>3. /\ ch'.rptr = c.rptr /\ ch'.wptr = c.wptr /\ ch'.wstart = c.wstart /\ ch'.full = c.full
      /\ ch'.ppProcessAddr = x /\ ch'.ppLockAddr = c.ppLockAddr /\ ch'.pLockData = c.pLockData
      /\ ch'.wLockAlloc = c.wLockAlloc
      /\ x = bh.end => ch'.ppReadAddr = x
  BY <1>2 DEF Channel
<1>4. Sound(ch') /\ Base(ch') = Base(c)
  BY <1>3 DEF Sound, Pointers, Base
<1>5. /\ Off(Base(c), x) <= Off(Base(c), bh.end)
      /\ Off(Base(c), bh.end) <= Off(Base(c), ch.wstart)
  <2>1. Off(r, Base(c)) <= Off(r, bh.end)
    <3>1. \A y \in Addr : Off(r, y) \in Int
      BY <1>1, OffRange
    <3>2. Off(r, Base(c)) <= Off(r, x)
      OBVIOUS
    <3> HIDE DEF r
    <3> QED
      BY <1>1, <3>1, <3>2
  <2> QED
    BY <1>1, <2>1, StillBefore
<1>6. Cursor'
  <2>1. CASE x = bh.end
    BY <1>2, <1>3, <2>1 DEF Cursor
  <2>2. CASE x # bh.end
    BY <1>2, <1>3, <1>4, <1>5, <2>2 DEF Cursor
  <2> QED
    BY <2>1, <2>2
<1>7. fresh' = Cells(x, ch.wstart)
  <2>1. fresh = Cells(bh.cur, ch.wstart)
    BY <1>1 DEF FreshWhere, Life
  <2>2. Cells(bh.cur, ch.wstart) \ Cells(bh.cur, x) = Cells(x, ch.wstart)
    BY <1>1, CellsSplit
  <2> QED
    BY <2>1, <2>2
<1>8. FreshWhere'
  BY <1>3, <1>7 DEF FreshWhere
<1> QED
  BY <1>3, <1>4, <1>6, <1>8

LEMMA BhSkipInv ==
  ASSUME IInv, UNCHANGED setup, NEW x \in RecordEnds, BhSkip(x)
  PROVE  IInv'
<1> DEFINE c == skip_data(ch, x)
<1>1. TypeOK /\ Life /\ ch \in Channel
  BY ChannelTyped DEF IInv
<1>2. /\ bh.pc = "records" /\ BhAdvance(c, x) /\ held' = held
      /\ fresh' = fresh \ Cells(bh.cur, x)
  BY DEF BhSkip
<1>3. x \in Addr
  <2>1. bh.cur \in Addr /\ bh.end \in Addr
    BY <1>1 DEF TypeOK
  <2>2. Cells(bh.cur, bh.end) \subseteq Addr
    BY <2>1, CellsOn
  <2> QED
    BY <2>1, <2>2 DEF RecordEnds
<1>4. c \in Channel /\ SameRest(ch, c) /\ c.uwInternal = ch.uwInternal
  BY <1>1, <1>3, SkipTyped
<1>5. TypeOK' /\ Life'
  <2> HIDE DEF c
  <2>1. held' \in SUBSET Region /\ fresh' \in SUBSET fresh
    BY <1>1, <1>2 DEF TypeOK
  <2> QED
    BY <1>2, <1>3, <1>4, <2>1, Advanced
<1>6. NoLockFailed' => NoLockFailed
  <2> HIDE DEF c
  <2> QED
    BY <1>2, <1>4 DEF BhAdvance, NoLockFailed, Channel
<1>7. ASSUME NoLockFailed PROVE (Sound(ch) /\ Cursor /\ FreshWhere /\ HeldWhere /\ Allotted)'
  <2>1. Sound(ch) /\ Cursor /\ FreshWhere /\ HeldWhere /\ Allotted
    BY <1>7 DEF IInv
  <2>2. /\ Off(Base(ch), ch.ppProcessAddr) <= Off(Base(ch), x)
        /\ Off(Base(ch), x) <= Off(Base(ch), ch.wstart)
    BY <1>1, <1>2, <2>1, RecordPlace
  <2>3. /\ Sound(c) /\ c.ppReadAddr = ch.ppReadAddr /\ c.wstart = ch.wstart /\ c.ppProcessAddr = x
        /\ c.pLockData = ch.pLockData /\ c.wLockAlloc = ch.wLockAlloc
        /\ Off(Base(ch), Base(c)) <= Off(Base(ch), x)
    BY <1>1, <1>3, <2>1, <2>2, SkipSound
  <2> HIDE DEF c
  <2>4. /\ Sound(ch)' /\ Cursor' /\ FreshWhere'
        /\ ch'.pLockData = c.pLockData /\ ch'.wLockAlloc = c.wLockAlloc
    BY <1>1, <1>2, <1>4, <2>1, <2>3, AdvancedOn
  <2> QED
    BY <1>2, <2>1, <2>3, <2>4 DEF HeldWhere, Allotted, Env, OneAtATime
<1> QED
  BY <1>5, <1>6, <1>7 DEF IInv

LEMMA RegionsNone ==
  ASSUME NEW l \in Seq(Region), Regions(l) = {}
  PROVE  l = << >>
<1>1. Len(l) \in Nat
  OBVIOUS
<1>2. 1 \notin 1 .. Len(l)
  BY DEF Regions
<1> QED
  BY <1>1, <1>2

\* A client that holds one region at a time is locked out until it gave that back.
LEMMA LockRoom ==
  ASSUME TypeOK, Allotted, OneAtATime(setup), NEW ok, CanLock(ch, ok)
  PROVE  ch.pLockData = << >>
<1>1. ch.pLockData \in Seq(Region) /\ setup.locks \in Nat \ {0}
  BY QueueAssumption DEF TypeOK
<1>2. CASE "Hold" \notin Env
  BY <1>2 DEF Allotted
<1>3. CASE "Hold" \in Env
  <2>1. MaxLocks = 1
    BY <1>3 DEF OneAtATime, Env, MaxLocks
  <2>2. CASE ch.wLockAlloc = 0
    BY <2>2 DEF Allotted
  <2>3. CASE ch.wLockAlloc # 0
    <3>1. Len(ch.pLockData) < 1
      BY <2>1, <2>3 DEF CanLock
    <3> QED
      BY <1>1, <3>1
  <2> QED
    BY <2>2, <2>3
<1> QED
  BY <1>2, <1>3

LEMMA RecordTyped ==
  ASSUME TypeOK, NEW x \in RecordEnds
  PROVE  x \in Addr /\ RecordBegin \in Addr
<1>1. bh.cur \in Addr /\ bh.end \in Addr
  BY DEF TypeOK
<1>2. Cells(bh.cur, bh.end) \subseteq Addr
  BY <1>1, CellsOn
<1>3. bh.cur + MatchWord \in Nat
  BY <1>1, Sizes DEF MatchWord, Addr
<1> QED
  BY <1>1, <1>2, <1>3, Sizes DEF RecordEnds, RecordBegin, Addr

LEMMA BhNotifyInv ==
  ASSUME IInv, InUse(setup), UNCHANGED setup, NEW x \in RecordEnds, NEW ok \in BOOLEAN,
         BhNotify(x, ok)
  PROVE  IInv'
<1> DEFINE b == RecordBegin
           c == lock_data(ch, b, x, ok)
           g == [b |-> b, e |-> x]
<1>1. TypeOK /\ Life /\ ch \in Channel /\ x \in Addr /\ b \in Addr
  BY ChannelTyped, RecordTyped DEF IInv
<1>2. /\ bh.pc = "records" /\ "Hold" \in Env /\ BhAdvance(c, x)
      /\ held' = held \cup {g} /\ fresh' = fresh \ Cells(bh.cur, x)
  BY DEF BhNotify
<1> HIDE DEF b
<1>3. /\ c \in Channel /\ SameRest(ch, c)
      /\ ch.uwInternal \/ ~CanLock(ch, ok) => c.uwInternal
  BY <1>1, LockTyped
<1>4. TypeOK' /\ Life'
  <2>1. held' \in SUBSET Region /\ fresh' \in SUBSET fresh
    BY <1>1, <1>2 DEF TypeOK, Region
  <2> HIDE DEF c
  <2> QED
    BY <1>1, <1>2, <1>3, <2>1, Advanced
<1>5. NoLockFailed' => NoLockFailed /\ CanLock(ch, ok)
  <2> HIDE DEF c
  <2>1. ch'.uwInternal = c.uwInternal
    BY <1>2, <1>3 DEF BhAdvance, Channel
  <2> QED
    BY <1>3, <2>1 DEF NoLockFailed
<1>6. ASSUME NoLockFailed, CanLock(ch, ok)
      PROVE (Sound(ch) /\ Cursor /\ FreshWhere /\ HeldWhere /\ Allotted)'
  <2>1. Sound(ch) /\ Cursor /\ FreshWhere /\ HeldWhere /\ Allotted
    BY <1>6 DEF IInv
  <2>2. /\ Off(Base(ch), ch.ppProcessAddr) <= Off(Base(ch), b)
        /\ Off(Base(ch), b) < Off(Base(ch), x)
        /\ Off(Base(ch), x) <= Off(Base(ch), ch.wstart)
        /\ Off(Base(ch), ch.ppProcessAddr) <= Off(Base(ch), x)
        /\ UnloadType = "PSI" => Off(Base(ch), ch.ppProcessAddr) < Off(Base(ch), b)
    BY <1>1, <1>2, <2>1, RecordPlace DEF b
  <2>3. OneAtATime(setup) => ch.pLockData = << >>
    BY <1>1, <1>6, <2>1, LockRoom
  <2>4. ch.pLockData = << >> \/ Off(Base(ch), ch.ppProcessAddr) < Off(Base(ch), b)
    BY <2>2, <2>3 DEF InUse, UnloadType
  <2>5. /\ Sound(c) /\ Base(c) = Base(ch)
        /\ c.ppReadAddr = ch.ppReadAddr /\ c.wstart = ch.wstart /\ c.ppProcessAddr = x
        /\ c.wLockAlloc = MaxLocks
        /\ Regions(c.pLockData) = Regions(ch.pLockData) \cup {g}
        /\ Len(c.pLockData) = Len(ch.pLockData) + 1
    <3>1. Lockable(ch, b, x, ok)
      BY <1>6, <2>1, <2>2, <2>4 DEF Lockable
    <3> HIDE DEF c
    <3>2. c = lock_data(ch, b, x, ok)
      BY DEF c
    <3> QED
      BY <1>1, <3>1, <3>2, LockSound
  <2>6. Off(Base(ch), Base(c)) <= Off(Base(ch), x)
    BY <1>1, <2>5, BaseOn, BaseBehind
  <2> HIDE DEF c, g
  <2>7. /\ Sound(ch)' /\ Cursor' /\ FreshWhere'
        /\ ch'.pLockData = c.pLockData /\ ch'.wLockAlloc = c.wLockAlloc
    BY <1>1, <1>2, <1>3, <2>1, <2>5, <2>6, AdvancedOn
  <2>8. HeldWhere'
    BY <1>2, <2>1, <2>5, <2>7 DEF HeldWhere
  <2>9. Allotted'
    <3>1. MaxLocks # 0
      BY <1>1, QueueAssumption DEF TypeOK, MaxLocks
    <3>2. OneAtATime(setup) => Len(c.pLockData) <= 1
      BY <2>3, <2>5
    <3> QED
      BY <1>2, <2>5, <2>7, <3>1, <3>2 DEF Allotted, Env, OneAtATime
  <2> QED
    BY <2>7, <2>8, <2>9
<1> QED
  BY <1>4, <1>5, <1>6 DEF IInv

LEMMA BhNotifyUnlockInv ==
  ASSUME IInv, InUse(setup), UNCHANGED setup, NEW x \in RecordEnds, NEW ok \in BOOLEAN,
         BhNotifyUnlock(x, ok)
  PROVE  IInv'
<1> DEFINE b == RecordBegin
           d == lock_data(ch, b, x, ok)
           c == unlock_data(d, b, x)
           g == [b |-> b, e |-> x]
<1>1. TypeOK /\ Life /\ ch \in Channel /\ x \in Addr /\ b \in Addr
  BY ChannelTyped, RecordTyped DEF IInv
<1>2. /\ bh.pc = "records" /\ "Release" \in Env /\ BhAdvance(c, x)
      /\ held' = held /\ fresh' = StillFresh(c, fresh \ Cells(bh.cur, x))
  BY DEF BhNotifyUnlock
<1> HIDE DEF b
<1>3. /\ d \in Channel /\ SameRest(ch, d)
      /\ ch.uwInternal \/ ~CanLock(ch, ok) => d.uwInternal
  BY <1>1, LockTyped
<1>4. c \in Channel /\ SameRest(ch, c) /\ c.uwInternal = d.uwInternal
  <2> HIDE DEF d
  <2>1. c \in Channel /\ SameRest(d, c) /\ c.uwInternal = d.uwInternal
    BY <1>1, <1>3, UnlockTyped
  <2> HIDE DEF c
  <2> QED
    BY <1>3, <2>1 DEF SameRest, c
<1>5. TypeOK' /\ Life'
  <2> HIDE DEF c
  <2>1. held' \in SUBSET Region /\ fresh' \in SUBSET fresh
    BY <1>1, <1>2 DEF TypeOK, StillFresh
  <2> QED
    BY <1>1, <1>2, <1>4, <2>1, Advanced
<1>6. NoLockFailed' => NoLockFailed /\ CanLock(ch, ok)
  <2> HIDE DEF c, d
  <2>1. ch'.uwInternal = c.uwInternal
    BY <1>2, <1>4 DEF BhAdvance, Channel
  <2> QED
    BY <1>3, <1>4, <2>1 DEF NoLockFailed
<1>7. ASSUME NoLockFailed, CanLock(ch, ok)
      PROVE (Sound(ch) /\ Cursor /\ FreshWhere /\ HeldWhere /\ Allotted)'
  <2>1. Sound(ch) /\ Cursor /\ FreshWhere /\ HeldWhere /\ Allotted
    BY <1>7 DEF IInv
  <2>2. /\ Off(Base(ch), ch.ppProcessAddr) <= Off(Base(ch), b)
        /\ Off(Base(ch), b) < Off(Base(ch), x)
        /\ Off(Base(ch), x) <= Off(Base(ch), ch.wstart)
        /\ Off(Base(ch), ch.ppProcessAddr) <= Off(Base(ch), x)
    BY <1>1, <1>2, <2>1, RecordPlace DEF b
  <2>3. OneAtATime(setup)
    BY <1>2 DEF InUse, Env
  <2>4. ch.pLockData = << >>
    BY <1>1, <1>7, <2>1, <2>3, LockRoom
  <2>5. /\ Sound(d) /\ Base(d) = Base(ch)
        /\ d.ppReadAddr = ch.ppReadAddr /\ d.wstart = ch.wstart /\ d.ppProcessAddr = x
        /\ d.wLockAlloc = MaxLocks
        /\ Regions(d.pLockData) = Regions(ch.pLockData) \cup {g}
        /\ Len(d.pLockData) = Len(ch.pLockData) + 1
    <3>1. Lockable(ch, b, x, ok)
      BY <1>7, <2>1, <2>2, <2>4 DEF Lockable
    <3> HIDE DEF d
    <3>2. d = lock_data(ch, b, x, ok)
      BY DEF d
    <3> QED
      BY <1>1, <3>1, <3>2, LockSound
  <2> HIDE DEF d
  <2>6. Len(d.pLockData) = 1 /\ d.pLockData[1] = g
    <3>1. Len(ch.pLockData) = 0 /\ Regions(ch.pLockData) = {}
      BY <2>4 DEF Regions
    <3> HIDE DEF g
    <3>2. Len(d.pLockData) = 1 /\ Regions(d.pLockData) = {g}
      BY <2>5, <3>1
    <3> QED
      BY <3>2 DEF Regions
  <2>7. Part(d.pLockData, Base(d), 1, b, x) /\ 1 \in 1 .. Len(d.pLockData)
    BY <2>6 DEF Part
  <2>8. /\ Sound(c)
        /\ Regions(c.pLockData) = (Regions(d.pLockData) \ {d.pLockData[1]})
                                    \cup Left(d.pLockData[1], b, x)
        /\ c.wLockAlloc = d.wLockAlloc
        /\ SamePointers(d, c) \/ Moved(c.pLockData, c)
    <3> HIDE DEF c
    <3>1. c = unlock_data(d, b, x)
      BY DEF c
    <3>2. Unlockable(d, 1, b, x)
      BY <2>5, <2>7 DEF Unlockable
    <3> QED
      BY <1>1, <1>3, <3>1, <3>2, UnlockSound
  <2> HIDE DEF c
  <2>9. c.pLockData = << >>
    <3>1. Left(g, b, x) = {}
      BY DEF Left
    <3> HIDE DEF g
    <3>2. Regions(d.pLockData) = {g}
      BY <2>4, <2>5 DEF Regions
    <3>3. Regions(c.pLockData) = {}
      BY <2>6, <2>8, <3>1, <3>2
    <3>4. c.pLockData \in Seq(Region)
      BY <1>4 DEF Channel
    <3> QED
      BY <3>3, <3>4, RegionsNone
  <2>10. SamePointers(d, c)
    <3>1. ~Moved(c.pLockData, c)
      BY <2>9 DEF Moved
    <3> QED
      BY <2>8, <3>1
  <2>11. /\ c.ppReadAddr = ch.ppReadAddr /\ c.wstart = ch.wstart /\ c.ppProcessAddr = x
         /\ Off(Base(ch), Base(c)) <= Off(Base(ch), x)
    BY <2>5, <2>10 DEF SamePointers
  <2>12. fresh' = fresh \ Cells(bh.cur, x)
    BY <1>2, <2>11 DEF StillFresh
  <2>13. /\ Sound(ch)' /\ Cursor' /\ FreshWhere'
         /\ ch'.pLockData = c.pLockData /\ ch'.wLockAlloc = c.wLockAlloc
    BY <1>1, <1>2, <1>4, <2>1, <2>8, <2>11, <2>12, AdvancedOn
  <2>14. HeldWhere'
    BY <1>2, <2>1, <2>4, <2>9, <2>13 DEF HeldWhere
  <2>15. Allotted'
    BY <2>9, <2>13 DEF Allotted
  <2> QED
    BY <2>13, <2>14, <2>15
<1> QED
  BY <1>5, <1>6, <1>7 DEF IInv

\* Undelivered words are given up just when the write pointer was moved behind a region.
LEMMA FreshAfter ==
  ASSUME ch \in Channel, Sound(ch), fresh = Cells(ch.ppProcessAddr, ch.wstart),
         NEW c \in Channel, NEW l \in Seq(Region), Table(l, Base(ch), ch.ppProcessAddr),
         SamePointers(ch, c) \/ Moved(l, c)
  PROVE  StillFresh(c, fresh) = Cells(c.ppProcessAddr, c.wstart)
<1>1. /\ Base(ch) \in Addr /\ ch.ppProcessAddr \in Addr /\ ch.wstart \in Addr
      /\ Off(Base(ch), ch.ppProcessAddr) <= Off(Base(ch), ch.wstart)
  BY BaseOn DEF Channel, Sound, Pointers
<1>2. CASE SamePointers(ch, c)
  BY <1>2 DEF SamePointers, StillFresh
<1>3. CASE Moved(l, c)
  <2>1. PICK p \in 1 .. Len(l) : c.ppProcessAddr = l[p].e /\ c.wstart = l[p].e
    BY <1>3 DEF Moved
  <2>2. l[p].e \in Addr /\ Off(Base(ch), l[p].e) <= Off(Base(ch), ch.ppProcessAddr)
    BY RegionsOn DEF Table
  <2>3. Cells(c.ppProcessAddr, c.wstart) = {}
    BY <2>1, <2>2, CellsNone
  <2>4. c.wstart = ch.wstart => fresh = {}
    <3> SUFFICES ASSUME c.wstart = ch.wstart PROVE fresh = {}
      OBVIOUS
    <3>1. Off(Base(ch), ch.wstart) = Off(Base(ch), ch.ppProcessAddr)
      <4>1. \A x \in Addr : Off(Base(ch), x) \in Int
        BY <1>1, OffRange
      <4> QED
        BY <1>1, <2>1, <2>2, <4>1
    <3>2. ch.wstart = ch.ppProcessAddr
      BY <1>1, <3>1, OffEqual
    <3> QED
      BY <1>1, <3>2, CellsNone
  <2> QED
    BY <2>3, <2>4 DEF StillFresh
<1> QED
  BY <1>2, <1>3

LEMMA BhInterruptInv ==
  ASSUME IInv, UNCHANGED setup, BhInterrupt
  PROVE  IInv'
<1> DEFINE u == [ch EXCEPT !.wRpiStatus = TRUE]
           p == process_read_pointer(u)
           c == IF "RPI" \in bh.bits THEN p ELSE ch
<1>1. TypeOK /\ Life /\ ch \in Channel
  BY ChannelTyped DEF IInv
<1>2. /\ bh.pc = "interrupt" /\ ch' = c /\ bh' = Idle
      /\ fresh' = StillFresh(c, fresh) /\ posted' = posted /\ held' = held
  BY DEF BhInterrupt
<1>3. /\ u \in Channel /\ SameView(ch, u) /\ SameQueue(ch, u)
      /\ u.State = ch.State /\ u.pLockData = ch.pLockData
  BY <1>1 DEF Channel, SameView, SameQueue
<1> HIDE DEF u
<1>4. p \in Channel /\ SameQueue(u, p)
  BY <1>3, ProcessTyped
<1> HIDE DEF p
<1>5. c \in Channel /\ SameQueue(ch, c)
  <2>1. SameQueue(ch, p) /\ SameQueue(ch, ch)
    BY <1>3, <1>4 DEF SameQueue
  <2> QED
    BY <1>1, <1>4, <2>1
<1>6. bh'.pc = "idle" /\ Idle \in [pc : {"idle", "records", "interrupt"}, cur : Addr, end : Addr,
                                  bits : SUBSET Bits]
  BY <1>2, Sizes DEF Idle, Addr
<1>7. TypeOK' /\ Life'
  <2> HIDE DEF c
  <2>1. fresh' \in SUBSET fresh
    BY <1>2 DEF StillFresh
  <2>2. TypeOK'
    BY <1>1, <1>2, <1>5, <1>6, <2>1, TypedAgain DEF TypeOK
  <2>3. Life'
    BY <1>1, <1>2, <1>5, <1>6, <2>1 DEF Life, SameQueue
  <2> QED
    BY <2>2, <2>3
<1>8. ASSUME NoLockFailed' PROVE (Sound(ch) /\ Cursor /\ FreshWhere /\ HeldWhere /\ Allotted)'
  <2>1. Sound(ch) /\ Cursor /\ FreshWhere /\ HeldWhere /\ Allotted
    BY <1>2, <1>5, <1>8 DEF IInv, NoLockFailed, SameQueue
  <2>2. Sound(u) /\ Base(u) = Base(ch)
    BY <1>3, <2>1, ViewSound
  <2>3. Sound(p) /\ (SamePointers(u, p) \/ Moved(ch.pLockData, p))
    BY <1>3, <2>2, ProcessSound DEF p
  <2>4. Sound(c) /\ (SamePointers(ch, c) \/ Moved(ch.pLockData, c))
    <3>1. SamePointers(u, p) => SamePointers(ch, p)
      BY <1>3, <2>2 DEF SamePointers, SameView
    <3>2. SamePointers(ch, ch)
      BY <1>1, BaseOn, BaseBehind DEF SamePointers, Channel
    <3> QED
      BY <2>1, <2>3, <3>1, <3>2
  <2> HIDE DEF c
  <2>5. Cursor'
    BY <1>2, <1>6, <2>1, <2>4 DEF Cursor, SamePointers, Moved
  <2>6. FreshWhere'
    <3> SUFFICES ASSUME ch'.State # "UNDEFINED"
                 PROVE  fresh' = Cells(ch'.ppProcessAddr, ch'.wstart)
      BY DEF FreshWhere
    <3>1. fresh = Cells(ch.ppProcessAddr, ch.wstart)
      BY <1>2, <1>5, <2>1 DEF FreshWhere, SameQueue
    <3>2. ch.pLockData \in Seq(Region) /\ Table(ch.pLockData, Base(ch), ch.ppProcessAddr)
      BY <1>1, <2>1 DEF Sound, Channel
    <3>3. StillFresh(c, fresh) = Cells(c.ppProcessAddr, c.wstart)
      BY <1>1, <1>5, <2>1, <2>4, <3>1, <3>2, FreshAfter
    <3> QED
      BY <1>2, <3>3
  <2>7. HeldWhere' /\ Allotted'
    BY <1>2, <1>5, <2>1 DEF HeldWhere, Allotted, SameQueue, Env, OneAtATime
  <2> QED
    BY <1>2, <2>4, <2>5, <2>6, <2>7
<1> QED
  BY <1>7, <1>8 DEF IInv

\* The client's parts: a whole region, its front, its tail.
LEMMA PartOf ==
  ASSUME NEW l \in Seq(Region), NEW r \in Addr, NEW a \in Addr, Table(l, r, a),
         NEW i \in 1 .. Len(l), NEW x \in Cells(l[i].b, l[i].e) \ {l[i].b}
  PROVE  /\ x \in Addr
         /\ Len(l) = 1 => Part(l, r, i, l[i].b, x)
         /\ Part(l, r, i, x, l[i].e)
<1>1. /\ l[i].b \in Addr /\ l[i].e \in Addr /\ Off(r, l[i].b) < Off(r, l[i].e)
      /\ \A y \in Addr : Off(r, y) \in Int
  BY TableFacts, OffRange
<1>2. Cells(l[i].b, l[i].e) = {y \in Addr : Off(r, l[i].b) <= Off(r, y) /\ Off(r, y) < Off(r, l[i].e)}
  BY <1>1, CellsByOff
<1>3. x \in Addr /\ Off(r, l[i].b) <= Off(r, x) /\ Off(r, x) < Off(r, l[i].e) /\ x # l[i].b
  BY <1>2
<1>4. Off(r, l[i].b) # Off(r, x)
  BY <1>1, <1>3, OffEqual
<1>5. Off(r, l[i].b) < Off(r, x)
  BY <1>1, <1>3, <1>4
<1> QED
  BY <1>3, <1>5 DEF Part

LEMMA QueueUnlockInv ==
  ASSUME IInv, NoLockFailed, UNCHANGED setup, NEW i \in 1 .. Len(ch.pLockData),
         NEW b \in Addr, NEW e \in Addr, Part(ch.pLockData, Base(ch), i, b, e),
         QueueUnlock(ch.pLockData[i], b, e)
  PROVE  IInv'
<1> DEFINE g == ch.pLockData[i]
           c == unlock_data(ch, b, e)
<1>1. /\ TypeOK /\ Life /\ ch \in Channel /\ Sound(ch) /\ Cursor /\ FreshWhere /\ HeldWhere /\ Allotted
  BY ChannelTyped DEF IInv
<1>2. g \in held /\ ch.State # "UNDEFINED"
  BY <1>1 DEF QueueUnlock, Life
<1>3. /\ bh.pc = "idle" /\ ch' = c /\ held' = (held \ {g}) \cup Left(g, b, e)
      /\ fresh' = StillFresh(c, fresh) /\ posted' = posted /\ bh' = bh
  <2> HIDE DEF c, g
  <2>1. ch' = c /\ fresh' = StillFresh(c, fresh)
    BY <1>2 DEF QueueUnlock, c, g
  <2>2. held' = (held \ {g}) \cup (IF g.b # b THEN {[b |-> g.b, e |-> b]} ELSE {})
                             \cup (IF g.e # e THEN {[b |-> e, e |-> g.e]} ELSE {})
    BY DEF QueueUnlock, g
  <2>3. held' = (held \ {g}) \cup Left(g, b, e)
    BY <2>2 DEF Left
  <2> QED
    BY <2>1, <2>3 DEF QueueUnlock
<1>4. c \in Channel /\ SameRest(ch, c) /\ c.uwInternal = ch.uwInternal
  BY <1>1, UnlockTyped
<1>5. /\ Sound(c) /\ c.wLockAlloc = ch.wLockAlloc
      /\ Regions(c.pLockData) = (Regions(ch.pLockData) \ {g}) \cup Left(g, b, e)
      /\ Len(c.pLockData) <= Len(ch.pLockData)
      /\ Table(c.pLockData, Base(ch), ch.ppProcessAddr)
      /\ SamePointers(ch, c) \/ Moved(c.pLockData, c)
  <2>1. Unlockable(ch, i, b, e)
    BY <1>1 DEF Unlockable
  <2> HIDE DEF c
  <2>2. c = unlock_data(ch, b, e)
    BY DEF c
  <2> QED
    BY <1>1, <2>1, <2>2, UnlockSound
<1> HIDE DEF c, g
<1>6. c.pLockData \in Seq(Region) /\ Len(c.pLockData) \in Nat /\ Len(ch.pLockData) \in Nat
  BY <1>1, <1>4 DEF Channel
<1>7. HeldWhere'
  BY <1>1, <1>3, <1>5 DEF HeldWhere
<1>8. TypeOK'
  <2>1. held' \in SUBSET Region
    <3>1. \A j \in 1 .. Len(c.pLockData) : c.pLockData[j] \in Region
      BY <1>6, ElementOfSeq
    <3> QED
      BY <1>3, <1>7, <3>1 DEF HeldWhere, Regions
  <2>2. fresh' \in SUBSET Addr
    BY <1>1, <1>3 DEF StillFresh, TypeOK
  <2> QED
    BY <1>1, <1>3, <1>4, <2>1, <2>2, TypedAgain DEF TypeOK
<1>9. Life'
  BY <1>1, <1>2, <1>3, <1>4 DEF Life, SameRest
<1>10. Cursor'
  BY <1>1, <1>3, <1>5 DEF Cursor, SamePointers, Moved
<1>11. FreshWhere'
  <2>1. fresh = Cells(ch.ppProcessAddr, ch.wstart)
    BY <1>1, <1>2 DEF FreshWhere
  <2>2. StillFresh(c, fresh) = Cells(c.ppProcessAddr, c.wstart)
    BY <1>1, <1>4, <1>5, <1>6, <2>1, FreshAfter
  <2> QED
    BY <1>3, <2>2 DEF FreshWhere
<1>12. Allotted'
  <2>1. ch.pLockData # << >>
    BY <1>6
  <2>2. OneAtATime(setup) => Len(c.pLockData) <= 1
    BY <1>1, <1>5, <1>6 DEF Allotted
  <2> QED
    BY <1>1, <1>3, <1>5, <2>1, <2>2 DEF Allotted, Env, OneAtATime
<1> QED
  BY <1>3, <1>5, <1>7, <1>8, <1>9, <1>10, <1>11, <1>12 DEF IInv

LEMMA OneOnly == ASSUME NEW n \in Nat, n <= 1, NEW i \in 1 .. n PROVE n = 1
OBVIOUS

LEMMA ClientInv ==
  ASSUME IInv, InUse(setup), NoLockFailed, UNCHANGED setup, Client
  PROVE  IInv'
<1>1. /\ TypeOK /\ ch \in Channel /\ HeldWhere /\ Allotted /\ Base(ch) \in Addr
      /\ ch.pLockData \in Seq(Region)
      /\ Table(ch.pLockData, Base(ch), ch.ppProcessAddr) /\ ch.ppProcessAddr \in Addr
  <2>1. ch \in Channel
    BY ChannelTyped DEF IInv
  <2> QED
    BY <2>1, BaseOn DEF IInv, Sound, Channel
<1>2. PICK g \in held : UnlockAll(g) \/ UnlockFront(g) \/ UnlockTail(g)
  BY DEF Client
<1>3. PICK i \in 1 .. Len(ch.pLockData) : g = ch.pLockData[i]
  BY <1>1 DEF HeldWhere, Regions
<1>4. g.b \in Addr /\ g.e \in Addr
  BY <1>1, <1>3, RegionsOn
<1>5. CASE UnlockAll(g)
  <2>1. Part(ch.pLockData, Base(ch), i, g.b, g.e)
    BY <1>3 DEF Part
  <2> QED
    BY <1>3, <1>4, <1>5, <2>1, QueueUnlockInv DEF UnlockAll
<1>6. CASE UnlockFront(g)
  <2>1. PICK x \in Cells(g.b, g.e) \ {g.b} : QueueUnlock(g, g.b, x)
    BY <1>6 DEF UnlockFront
  <2>2. Len(ch.pLockData) = 1
    <3>1. OneAtATime(setup)
      BY <1>6 DEF UnlockFront, InUse, Env
    <3>2. Len(ch.pLockData) <= 1
      BY <1>1, <3>1 DEF Allotted
    <3>3. Len(ch.pLockData) \in Nat
      BY <1>1
    <3> QED
      BY <3>2, <3>3, OneOnly, Zenon
  <2>3. x \in Addr /\ Part(ch.pLockData, Base(ch), i, g.b, x)
    BY <1>1, <1>3, <2>2, PartOf
  <2> QED
    BY <1>3, <1>4, <2>1, <2>3, QueueUnlockInv
<1>7. CASE UnlockTail(g)
  <2>1. PICK x \in Cells(g.b, g.e) \ {g.b} : QueueUnlock(g, x, g.e)
    BY <1>7 DEF UnlockTail
  <2>2. x \in Addr /\ Part(ch.pLockData, Base(ch), i, x, g.e)
    BY <1>1, <1>3, PartOf
  <2> QED
    BY <1>3, <1>4, <2>1, <2>2, QueueUnlockInv
<1> QED
  BY <1>2, <1>5, <1>6, <1>7

-----------------------------------------------------------------------------
\* The controls.  Some only switch; the others leave an empty queue.
LEMMA SwitchInv ==
  ASSUME IInv, UNCHANGED setup, NEW c \in Channel, Control(c, FALSE), SameView(ch, c),
         c.hMem = ch.hMem, c.State = "UNDEFINED" => ch.State = "UNDEFINED" /\ c.enbl = ch.enbl,
         ch.State = "UNDEFINED" => c.State = "UNDEFINED"
  PROVE  IInv'
<1>1. TypeOK /\ Life
  BY DEF IInv
<1>2. ch' = c /\ held' = held /\ fresh' = fresh /\ posted' = posted /\ bh' = bh /\ bh.pc = "idle"
  BY DEF Control
<1>3. TypeOK'
  BY <1>1, <1>2, TypedAgain DEF TypeOK
<1>4. Life'
  BY <1>1, <1>2 DEF Life, SameView
<1>5. ch'.State = "UNDEFINED" \/ (ch.State # "UNDEFINED" /\ fresh' = fresh)
  BY <1>2
<1> QED
  BY <1>2, <1>3, <1>4, <1>5, ViewKept DEF IInv

LEMMA EmptySound == ASSUME NEW c, Pointers(c), c.pLockData = << >> PROVE Sound(c)
BY DEF Sound, Table

LEMMA EmptiedInv ==
  ASSUME IInv, UNCHANGED setup, NEW c \in Channel, Control(c, TRUE), c.pLockData = << >>,
         c.State = "UNDEFINED" => ~c.enbl, c.State # "UNDEFINED" => c.hMem = "live",
         c.hMem # "twice",
         ~c.uwInternal => /\ Pointers(c) /\ c.ppReadAddr = c.ppProcessAddr
                          /\ c.State # "UNDEFINED" => c.ppProcessAddr = c.wstart
  PROVE  IInv'
<1>1. TypeOK /\ Life
  BY DEF IInv
<1>2. ch' = c /\ held' = {} /\ fresh' = {} /\ posted' = posted /\ bh' = bh /\ bh.pc = "idle"
  BY DEF Control
<1>3. TypeOK'
  BY <1>1, <1>2, TypedAgain DEF TypeOK
<1>4. Life'
  BY <1>1, <1>2 DEF Life
<1>5. ASSUME NoLockFailed' PROVE (Sound(ch) /\ Cursor /\ FreshWhere /\ HeldWhere /\ Allotted)'
  <2>1. /\ Pointers(c) /\ c.ppReadAddr = c.ppProcessAddr
        /\ c.State # "UNDEFINED" => c.ppProcessAddr = c.wstart
    BY <1>2, <1>5 DEF NoLockFailed
  <2>2. Sound(c)
    BY <2>1, EmptySound
  <2>3. FreshWhere'
    <3>1. Cells(c.wstart, c.wstart) = {}
      BY CellsNone DEF Channel
    <3> QED
      BY <1>2, <2>1, <3>1 DEF FreshWhere
  <2>4. Cursor' /\ HeldWhere' /\ Allotted'
    BY <1>2, <2>1 DEF Cursor, HeldWhere, Regions, Allotted
  <2> QED
    BY <1>2, <2>2, <2>3, <2>4
<1> QED
  BY <1>3, <1>4, <1>5 DEF IInv

LEMMA PointersAtStart ==
  ASSUME NEW c \in Channel, Granular(c.rptr), ~c.full,
         c.ppProcessAddr = 0, c.wstart = 0, c.wptr = 0
  PROVE  Pointers(c)
<1>1. 0 \in Addr /\ Base(c) \in Addr
  BY Sizes, BaseOn DEF Addr
<1>2. Off(Base(c), 0) \in Int
  BY <1>1, OffRange
<1> QED
  BY <1>2 DEF Pointers

LEMMA ResetIs ==
  ASSUME NEW c \in Channel
  PROVE  LET d == control_reset(c)
         IN /\ d \in Channel /\ d.hMem = c.hMem /\ d.uwInternal = c.uwInternal
            /\ d.rptr = c.rptr /\ ~d.full /\ d.wptr = 0 /\ d.wstart = 0
            /\ d.ppReadAddr = 0 /\ d.ppProcessAddr = 0 /\ d.pLockData = << >>
            /\ d.State = "DISABLED"
<1> DEFINE u == IF c.State # "DISABLED" THEN control_disable(c) ELSE c
           d == control_reset(c)
<1>1. /\ u \in Channel /\ u.hMem = c.hMem /\ u.uwInternal = c.uwInternal /\ u.rptr = c.rptr
      /\ u.State = "DISABLED"
  <2>1. /\ control_disable(c) \in Channel /\ control_disable(c).hMem = c.hMem
        /\ control_disable(c).uwInternal = c.uwInternal /\ control_disable(c).rptr = c.rptr
        /\ control_disable(c).State = "DISABLED"
    BY DEF Channel, control_disable
  <2> QED
    BY <2>1
<1>2. d = [u EXCEPT !.wptr = 0, !.wstart = 0, !.full = FALSE, !.ppReadAddr = 0, !.ppProcessAddr = 0,
                    !.pLockData = << >>, !.ppLockAddr = NULL]
  BY DEF control_reset
<1> HIDE DEF u, d
<1>3. 0 \in Addr /\ << >> \in Seq(Region)
  BY Sizes DEF Addr
<1>4. /\ d \in Channel /\ d.hMem = c.hMem /\ d.uwInternal = c.uwInternal
      /\ d.rptr = c.rptr /\ ~d.full /\ d.wptr = 0 /\ d.wstart = 0
      /\ d.ppReadAddr = 0 /\ d.ppProcessAddr = 0 /\ d.pLockData = << >>
      /\ d.State = "DISABLED"
  BY <1>1, <1>2, <1>3 DEF Channel
<1> QED
  BY <1>4 DEF d

LEMMA AllocateInv ==
  ASSUME IInv, UNCHANGED setup, QueueAllocate
  PROVE  IInv'
<1>1. TypeOK /\ Life /\ ch \in Channel /\ ch.State = "UNDEFINED"
  BY ChannelTyped DEF IInv, QueueAllocate
<1>2. CASE Control(allocated(ch), TRUE)
  <2> DEFINE u == [ch EXCEPT !.hMem = "live", !.pLockData = << >>, !.wLockAlloc = 0,
                             !.ppLockAddr = NULL, !.ppProcessAddr = 0, !.uwInternal = FALSE,
                             !.rptr = QueueSize, !.full = ch.full /\ ch.rptr = QueueSize,
                             !.enbl = FALSE, !.State = "DISABLED"]
             c == control_reset(u)
  <2>1. c = allocated(ch)
    BY DEF allocated
  <2>2. u \in Channel /\ u.hMem = "live" /\ ~u.uwInternal /\ u.rptr = QueueSize
    <3>1. 0 \in Addr /\ << >> \in Seq(Region) /\ QueueSize \in 1 .. QueueSize
      BY Sizes DEF Addr
    <3>2. (ch.full /\ ch.rptr = QueueSize) \in BOOLEAN
      BY <1>1 DEF Channel
    <3> QED
      BY <1>1, <3>1, <3>2 DEF Channel
  <2> HIDE DEF u
  <2>3. /\ c \in Channel /\ c.hMem = "live" /\ ~c.uwInternal /\ c.rptr = QueueSize /\ ~c.full
        /\ c.wptr = 0 /\ c.wstart = 0 /\ c.ppReadAddr = 0 /\ c.ppProcessAddr = 0
        /\ c.pLockData = << >> /\ c.State = "DISABLED"
    BY <2>2, ResetIs
  <2> HIDE DEF c
  <2>4. Pointers(c)
    BY <2>3, SizeGranular, PointersAtStart
  <2> QED
    BY <1>2, <2>1, <2>3, <2>4, EmptiedInv
<1>3. CASE Control([ch EXCEPT !.hMem = "none"], TRUE)
  <2> DEFINE c == [ch EXCEPT !.hMem = "none"]
  <2>1. /\ c \in Channel /\ SameView(ch, c) /\ c.State = "UNDEFINED" /\ c.hMem = "none"
        /\ c.pLockData = << >> /\ ~c.enbl
    BY <1>1 DEF Channel, SameView, Life
  <2> HIDE DEF c
  <2>2. ~c.uwInternal => Pointers(c) /\ c.ppReadAddr = c.ppProcessAddr
    <3> SUFFICES ASSUME ~c.uwInternal PROVE Pointers(c) /\ c.ppReadAddr = c.ppProcessAddr
      OBVIOUS
    <3>1. Sound(ch) /\ Cursor /\ bh.pc = "idle"
      BY <1>3, <2>1 DEF IInv, NoLockFailed, SameView, Control
    <3>2. Sound(c)
      BY <2>1, <3>1, ViewSound
    <3> QED
      BY <2>1, <3>1, <3>2 DEF Sound, Cursor, SameView
  <2> QED
    BY <1>3, <2>1, <2>2, EmptiedInv DEF c
<1> QED
  BY <1>2, <1>3 DEF QueueAllocate

LEMMA ResetInv ==
  ASSUME IInv, NoLockFailed, UNCHANGED setup, QueueReset
  PROVE  IInv'
<1> DEFINE c == control_reset(ch)
<1>1. /\ TypeOK /\ Life /\ ch \in Channel /\ ch.State # "UNDEFINED" /\ Granular(ch.rptr)
      /\ Control(c, TRUE)
  BY ChannelTyped DEF IInv, QueueReset, Sound, Pointers
<1>2. /\ c \in Channel /\ c.hMem = ch.hMem /\ c.rptr = ch.rptr /\ ~c.full
      /\ c.wptr = 0 /\ c.wstart = 0 /\ c.ppReadAddr = 0 /\ c.ppProcessAddr = 0
      /\ c.pLockData = << >> /\ c.State = "DISABLED"
  BY <1>1, ResetIs
<1> HIDE DEF c
<1>3. Pointers(c)
  BY <1>1, <1>2, PointersAtStart
<1>4. c.hMem = "live"
  BY <1>1, <1>2 DEF Life
<1> QED
  BY <1>1, <1>2, <1>3, <1>4, EmptiedInv

LEMMA FreeInv ==
  ASSUME IInv, UNCHANGED setup, QueueFree
  PROVE  IInv'
<1> DEFINE u == channel_disable(ch)
           v == IF u.State # "UNDEFINED" THEN control_disable(u) ELSE u
           c == freed(u)
<1>1. TypeOK /\ Life /\ ch \in Channel /\ Control(c, TRUE)
  BY ChannelTyped DEF IInv, QueueFree
<1>2. u \in Channel /\ SameView(ch, u) /\ SameRest(ch, u)
  BY <1>1 DEF Channel, SameView, SameRest, channel_disable
<1> HIDE DEF u
<1>3. /\ v \in Channel /\ SameView(ch, v) /\ v.hMem = ch.hMem
      /\ ch.State = "UNDEFINED" => ~v.enbl
      /\ ch.State # "UNDEFINED" => ~v.enbl
  <2>1. /\ control_disable(u) \in Channel /\ SameView(ch, control_disable(u))
        /\ control_disable(u).hMem = ch.hMem /\ ~control_disable(u).enbl
    BY <1>2 DEF Channel, SameView, SameRest, control_disable
  <2> QED
    BY <1>1, <1>2, <2>1 DEF SameRest, Life
<1>4. c = [v EXCEPT !.hMem = IF u.State # "UNDEFINED" /\ u.hMem # "none"
                             THEN pm_free_physical(u.hMem) ELSE u.hMem,
                    !.State = "UNDEFINED", !.pLockData = << >>, !.ppLockAddr = NULL,
                    !.wLockAlloc = 0]
  BY DEF freed
<1> HIDE DEF v, c
<1> DEFINE h == IF u.State # "UNDEFINED" /\ u.hMem # "none" THEN pm_free_physical(u.hMem) ELSE u.hMem
<1>5. h \in {"none", "live", "stale"}
  <2>1. ch.hMem \in {"none", "live", "stale"}
    BY <1>1 DEF Life, Channel
  <2>2. u.State # "UNDEFINED" => u.hMem = "live"
    BY <1>1, <1>2 DEF Life, SameRest
  <2> QED
    BY <1>2, <2>1, <2>2 DEF SameRest, pm_free_physical
<1> HIDE DEF h
<1>6. /\ c \in Channel /\ c.hMem = h /\ c.State = "UNDEFINED" /\ c.pLockData = << >> /\ ~c.enbl
      /\ c.rptr = ch.rptr /\ c.wptr = ch.wptr /\ c.wstart = ch.wstart /\ c.full = ch.full
      /\ c.ppReadAddr = ch.ppReadAddr /\ c.ppProcessAddr = ch.ppProcessAddr
      /\ c.uwInternal = ch.uwInternal
  <2>1. c = [v EXCEPT !.hMem = h, !.State = "UNDEFINED", !.pLockData = << >>, !.ppLockAddr = NULL,
                      !.wLockAlloc = 0]
    BY <1>4 DEF h
  <2>2. << >> \in Seq(Region)
    OBVIOUS
  <2> QED
    BY <1>3, <1>5, <2>1, <2>2 DEF Channel, SameView
<1>7. ~c.uwInternal => Pointers(c) /\ c.ppReadAddr = c.ppProcessAddr
  <2> SUFFICES ASSUME ~c.uwInternal PROVE Pointers(c) /\ c.ppReadAddr = c.ppProcessAddr
    OBVIOUS
  <2>1. Sound(ch) /\ Cursor /\ bh.pc = "idle"
    BY <1>1, <1>6 DEF IInv, NoLockFailed, Control
  <2>2. Base(c) = Base(ch)
    BY <1>6 DEF Base
  <2> QED
    BY <1>6, <2>1, <2>2 DEF Sound, Pointers, Cursor
<1> QED
  BY <1>1, <1>5, <1>6, <1>7, EmptiedInv

LEMMA ProcessInv ==
  ASSUME IInv, NoLockFailed, UNCHANGED setup, Process
  PROVE  IInv'
<1>1. TypeOK /\ Life /\ ch \in Channel
  BY ChannelTyped DEF IInv
<1>2. CASE QueueEnable
  <2> DEFINE c == control_enable(ch)
  <2>1. ch.State # "UNDEFINED" /\ Control(c, FALSE)
    BY <1>2 DEF QueueEnable
  <2>2. c \in Channel /\ SameView(ch, c) /\ c.hMem = ch.hMem /\ c.State = "ENABLED"
    <3> DEFINE u == [ch EXCEPT !.enbl = TRUE, !.State = "ENABLED"]
    <3>1. u \in Channel /\ SameView(ch, u) /\ u.hMem = ch.hMem /\ u.State = "ENABLED"
      BY <1>1 DEF Channel, SameView
    <3> HIDE DEF u
    <3>2. /\ channel_restart(u) \in Channel /\ SameView(ch, channel_restart(u))
          /\ channel_restart(u).hMem = ch.hMem /\ channel_restart(u).State = "ENABLED"
      BY <3>1 DEF Channel, SameView, channel_restart
    <3> QED
      BY <3>2 DEF control_enable, u
  <2> HIDE DEF c
  <2> QED
    BY <2>1, <2>2, SwitchInv
<1>3. CASE QueueDisable
  <2> DEFINE c == control_disable(ch)
  <2>1. ch.State # "UNDEFINED" /\ Control(c, FALSE)
    BY <1>3 DEF QueueDisable
  <2>2. c \in Channel /\ SameView(ch, c) /\ c.hMem = ch.hMem /\ c.State = "DISABLED"
    BY <1>1 DEF Channel, SameView, control_disable
  <2> HIDE DEF c
  <2> QED
    BY <2>1, <2>2, SwitchInv
<1>4. CASE ChannelEnable
  <2> DEFINE u == [ch EXCEPT !.Status = "ENABLED"]
             c == channel_restart(u)
  <2>1. Control(c, FALSE)
    BY <1>4 DEF ChannelEnable
  <2>2. u \in Channel /\ SameView(ch, u) /\ SameRest(ch, u)
    BY <1>1 DEF Channel, SameView, SameRest
  <2> HIDE DEF u
  <2>3. c \in Channel /\ SameView(ch, c) /\ SameRest(ch, c)
    BY <2>2 DEF Channel, SameView, SameRest, channel_restart
  <2> HIDE DEF c
  <2> QED
    BY <2>1, <2>3, SwitchInv DEF SameRest
<1>5. CASE ChannelDisable
  <2> DEFINE c == channel_disable(ch)
  <2>1. Control(c, FALSE)
    BY <1>5 DEF ChannelDisable
  <2>2. c \in Channel /\ SameView(ch, c) /\ SameRest(ch, c)
    BY <1>1 DEF Channel, SameView, SameRest, channel_disable
  <2> HIDE DEF c
  <2> QED
    BY <2>1, <2>2, SwitchInv DEF SameRest
<1> QED
  BY <1>2, <1>3, <1>4, <1>5, AllocateInv, ResetInv, FreeInv DEF Process

LEMMA BottomHalfInv ==
  ASSUME IInv, InUse(setup), UNCHANGED setup, BottomHalf
  PROVE  IInv'
<1>1. ASSUME NEW x \in RecordEnds,
             BhSkip(x) \/ \E ok \in BOOLEAN : BhNotify(x, ok) \/ BhNotifyUnlock(x, ok)
      PROVE  IInv'
  BY <1>1, BhSkipInv, BhNotifyInv, BhNotifyUnlockInv
<1> QED
  BY <1>1, BhStartInv, BhInterruptInv DEF BottomHalf

LEMMA NextInv ==
  ASSUME IInv, InUse(setup), [Next]_vars
  PROVE  IInv'
<1>1. CASE UNCHANGED vars
  BY <1>1 DEF vars, IInv, TypeOK, Life, NoLockFailed, Cursor, FreshWhere, HeldWhere, Allotted,
              MaxLocks, Env, OneAtATime
<1>2. CASE Next
  <2>1. UNCHANGED setup
    BY <1>2 DEF Next
  <2>2. CASE BottomHalf
    BY <2>1, <2>2, BottomHalfInv
  <2>3. CASE NoLockFailed /\ Hardware
    BY <2>1, <2>3, HwBlockedInv, HwWriteInv DEF Hardware
  <2>4. CASE NoLockFailed /\ TopHalf
    BY <2>1, <2>4, TopHalfInv
  <2>5. CASE NoLockFailed /\ Client
    BY <2>1, <2>5, ClientInv
  <2>6. CASE NoLockFailed /\ Process
    BY <2>1, <2>6, ProcessInv
  <2>7. CASE ~NoLockFailed /\ (QueueFree \/ QueueAllocate)
    BY <2>1, <2>7, FreeInv, AllocateInv
  <2> QED
    BY <1>2, <2>2, <2>3, <2>4, <2>5, <2>6, <2>7 DEF Next
<1> QED
  BY <1>1, <1>2

LEMMA InitInv == Init => IInv
<1> SUFFICES ASSUME Init PROVE IInv
  OBVIOUS
<1>1. 0 \in Addr /\ << >> \in Seq(Region) /\ QueueSize \in 1 .. QueueSize
  BY Sizes DEF Addr
<1>2. /\ setup \in Setups /\ posted = {} /\ bh = Idle /\ held = {} /\ fresh = {}
      /\ ch \in Channel
      /\ ch.State = "UNDEFINED" /\ ch.hMem = "none" /\ ~ch.enbl /\ ~ch.full
      /\ ch.ppReadAddr = 0 /\ ch.ppProcessAddr = 0 /\ ch.wptr = 0 /\ ch.wstart = 0
      /\ ch.rptr = QueueSize /\ ch.pLockData = << >>
  BY <1>1 DEF Init, Channel, Bits
<1>3. TypeOK
  <2>1. bh \in [pc : {"idle", "records", "interrupt"}, cur : Addr, end : Addr, bits : SUBSET Bits]
    BY <1>1, <1>2 DEF Idle
  <2> QED
    BY <1>2, <2>1 DEF TypeOK, Channel
<1>4. Life
  BY <1>2 DEF Life, Idle
<1>5. Sound(ch)
  BY <1>2, SizeGranular, PointersAtStart, EmptySound
<1>6. Cursor /\ FreshWhere /\ HeldWhere /\ Allotted
  BY <1>2 DEF Cursor, Idle, FreshWhere, HeldWhere, Regions, Allotted
<1> QED
  BY <1>3, <1>4, <1>5, <1>6 DEF IInv

LEMMA SetupInUse == QueuesInUse /\ IInv => InUse(setup)
BY DEF QueuesInUse, IInv, TypeOK

\* The inductive invariant holds of every behaviour.
THEOREM Invariance == QueuesInUse => (Spec => []IInv)
<1> SUFFICES ASSUME QueuesInUse PROVE Spec => []IInv
  OBVIOUS
<1>1. Init => IInv
  BY InitInv
<1>2. IInv /\ [Next]_vars => IInv'
  BY SetupInUse, NextInv
<1> QED
  BY <1>1, <1>2, PTL DEF Spec

LEMMA InvOverwritten == IInv => NothingOverwritten
<1> SUFFICES ASSUME IInv PROVE NothingOverwritten
  OBVIOUS
<1> SUFFICES ASSUME HwCanWrite, NoLockFailed PROVE ch.wptr \notin LockedCells /\ ch.wptr \notin fresh
  BY DEF IInv, NothingOverwritten, LockedNotOverwritten, FreshNotOverwritten
<1> DEFINE r == Base(ch)
           l == ch.pLockData
<1>1. /\ ch \in Channel /\ Sound(ch) /\ ~ch.full /\ fresh = Cells(ch.ppProcessAddr, ch.wstart)
      /\ l \in Seq(Region)
  <2>1. ch \in Channel
    BY ChannelTyped DEF IInv
  <2> QED
    BY <2>1 DEF IInv, HwCanWrite, Life, FreshWhere, Channel
<1>2. /\ r \in Addr /\ ch.ppProcessAddr \in Addr /\ ch.wstart \in Addr /\ ch.wptr \in Addr
      /\ Off(r, ch.ppProcessAddr) <= Off(r, ch.wstart) /\ Off(r, ch.wstart) <= Off(r, ch.wptr)
      /\ Table(l, r, ch.ppProcessAddr)
  BY <1>1, BaseOn DEF Channel, Sound, Pointers
<1> HIDE DEF r
<1>3. \A y \in Addr : Off(r, y) \in Int
  BY <1>2, OffRange
<1>4. ch.wptr \notin fresh
  <2>1. fresh = {x \in Addr : Off(r, ch.ppProcessAddr) <= Off(r, x) /\ Off(r, x) < Off(r, ch.wstart)}
    BY <1>1, <1>2, CellsByOff
  <2> QED
    BY <1>2, <1>3, <2>1
<1>5. ASSUME NEW i \in 1 .. Len(l) PROVE ch.wptr \notin Cells(l[i].b, l[i].e)
  <2>1. /\ l[i].b \in Addr /\ l[i].e \in Addr /\ Off(r, l[i].b) < Off(r, l[i].e)
        /\ Off(r, l[i].e) <= Off(r, ch.ppProcessAddr)
        /\ Off(r, l[i].b) \in Int /\ Off(r, l[i].e) \in Int
    BY <1>1, <1>2, TableFacts DEF Table
  <2>2. Cells(l[i].b, l[i].e) = {x \in Addr : Off(r, l[i].b) <= Off(r, x) /\ Off(r, x) < Off(r, l[i].e)}
    BY <1>2, <2>1, CellsByOff
  <2> QED
    BY <1>2, <1>3, <2>1, <2>2
<1>6. ch.wptr \notin LockedCells
  <2>1. DOMAIN l = 1 .. Len(l)
    BY <1>1
  <2> QED
    BY <1>5, <2>1 DEF LockedCells
<1> QED
  BY <1>4, <1>6

\* Where the hardware writes next is neither locked nor unseen (process_read_pointer, unlock_data,
\* update_read_pointer).
THEOREM LockedAndUnseenKept == QueuesInUse => (Spec => []NothingOverwritten)
BY Invariance, InvOverwritten, PTL

LEMMA InvFresh == IInv => ReadsWhatIsFresh
BY DEF IInv, ReadsWhatIsFresh, Cursor, FreshWhere

\* What process_data will hand over next is just what nobody has seen.
THEOREM HandsOverTheUnseen == QueuesInUse => (Spec => []ReadsWhatIsFresh)
BY Invariance, InvFresh, PTL

LEMMA InvHeld == IInv => HeldOnce
<1> SUFFICES ASSUME IInv PROVE HeldOnce
  OBVIOUS
<1>1. FreedOnce
  BY DEF IInv, Life, FreedOnce
<1>2. ASSUME NoLockFailed PROVE HeldCells = LockedCells
  <2>1. held = {ch.pLockData[i] : i \in 1 .. Len(ch.pLockData)}
    BY <1>2 DEF IInv, HeldWhere, Regions
  <2>2. DOMAIN ch.pLockData = 1 .. Len(ch.pLockData)
    BY DEF IInv, TypeOK
  <2> QED
    BY <2>1, <2>2 DEF HeldCells, LockedCells
<1> QED
  BY <1>1, <1>2 DEF HeldOnce, HeldIsLocked

\* The client holds what the table locks, and the memory goes back to its pool once
\* (xp_osi_queue_free).
THEOREM HeldIsLockedAlways == QueuesInUse => (Spec => []HeldOnce)
BY Invariance, InvHeld, PTL
=============================================================================
