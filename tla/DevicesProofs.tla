--------------------------- MODULE DevicesProofs ---------------------------
(***************************************************************************)
(* Of the devices that share no state with each other: the buffers of the  *)
(* clip player are never filled while the decoder reads them and never     *)
(* waited for with interrupts off; what is written to the smart card and   *)
(* what it sends arrives whole, and no thread sleeps that nobody wakes;    *)
(* the video node, its decoder and the encoders agree whenever no call is  *)
(* under way.                                                              *)
(***************************************************************************)
EXTENDS MCDevices, FiniteSetTheorems, SequenceTheorems, TLAPS

USE ClipAssumption

-----------------------------------------------------------------------------
(* The clip player: where the buffers are.                                  *)

\* A buffer is free, filled as a clip, or held by the process, once.
Once(b, c, h) ==
  /\ \A i, j \in DOMAIN b : b[i].buf = b[j].buf => i = j
  /\ \A i, j \in DOMAIN c : c[i].buf = c[j].buf => i = j
  /\ \A x, y \in h : x.buf = y.buf => x = y
  /\ \A i \in DOMAIN b, j \in DOMAIN c : b[i].buf # c[j].buf
  /\ \A i \in DOMAIN b, x \in h : b[i].buf # x.buf
  /\ \A j \in DOMAIN c, x \in h : c[j].buf # x.buf

LEMMA TakenOnce ==
  ASSUME NEW b \in Seq(ClipInfos), NEW c \in Seq(ClipInfos), NEW h \in SUBSET ClipInfos,
         b # <<>>, Once(b, c, h)
  PROVE  /\ Tail(b) \in Seq(ClipInfos) /\ Head(b) \in ClipInfos \ h
         /\ Len(Tail(b)) = Len(b) - 1
         /\ Once(Tail(b), c, h \cup {Head(b)})
<1>1. Tail(b) \in Seq(ClipInfos) /\ Head(b) = b[1] /\ Len(Tail(b)) = Len(b) - 1 /\ Len(b) \in Nat \ {0}
  OBVIOUS
<1>2. \A i \in DOMAIN Tail(b) : i + 1 \in DOMAIN b /\ Tail(b)[i] = b[i + 1] /\ i + 1 # 1
  OBVIOUS
<1>3. DOMAIN b = 1 .. Len(b) /\ 1 \in DOMAIN b /\ b[1] \in ClipInfos
  OBVIOUS
<1>4. b[1] \notin h
  BY <1>3 DEF Once
<1>5. \A i, j \in DOMAIN Tail(b) : Tail(b)[i].buf = Tail(b)[j].buf => i = j
  <2> SUFFICES ASSUME NEW i \in DOMAIN Tail(b), NEW j \in DOMAIN Tail(b),
                      Tail(b)[i].buf = Tail(b)[j].buf
               PROVE  i = j
    OBVIOUS
  <2>1. i + 1 = j + 1
    BY <1>2 DEF Once
  <2>2. i \in Int /\ j \in Int
    BY <1>1
  <2> QED BY <2>1, <2>2
<1>6. \A x, y \in h \cup {Head(b)} : x.buf = y.buf => x = y
  BY <1>1, <1>3 DEF Once
<1>7. \A i \in DOMAIN Tail(b), j \in DOMAIN c : Tail(b)[i].buf # c[j].buf
  BY <1>2 DEF Once
<1>8. \A i \in DOMAIN Tail(b), x \in h \cup {Head(b)} : Tail(b)[i].buf # x.buf
  BY <1>1, <1>2, <1>3 DEF Once
<1>9. \A j \in DOMAIN c, x \in h \cup {Head(b)} : c[j].buf # x.buf
  BY <1>1, <1>3 DEF Once
<1> QED BY <1>1, <1>3, <1>4, <1>5, <1>6, <1>7, <1>8, <1>9 DEF Once

LEMMA QueuedOnce ==
  ASSUME NEW b \in Seq(ClipInfos), NEW c \in Seq(ClipInfos), NEW h \in SUBSET ClipInfos,
         NEW x \in h, NEW k \in ClipInfos, k.buf = x.buf, Once(b, c, h)
  PROVE  /\ Append(c, k) \in Seq(ClipInfos) /\ Len(Append(c, k)) = Len(c) + 1
         /\ \A i \in 1 .. Len(c) : Append(c, k)[i] = c[i]
         /\ Once(b, Append(c, k), h \ {x})
<1> DEFINE e == Append(c, k)
<1>1. e \in Seq(ClipInfos) /\ Len(e) = Len(c) + 1 /\ DOMAIN e = 1 .. Len(c) + 1 /\ Len(c) \in Nat
  OBVIOUS
<1>2. \A i \in DOMAIN e : \/ i \in DOMAIN c /\ e[i] = c[i]
                          \/ i = Len(c) + 1 /\ e[i] = k
  OBVIOUS
<1>3. \A i \in 1 .. Len(c) : e[i] = c[i]
  OBVIOUS
<1> HIDE DEF e
<1>4. \A i, j \in DOMAIN e : e[i].buf = e[j].buf => i = j
  BY <1>2 DEF Once
<1>5. \A y, z \in h \ {x} : y.buf = z.buf => y = z
  BY DEF Once
<1>6. \A i \in DOMAIN b, j \in DOMAIN e : b[i].buf # e[j].buf
  BY <1>2 DEF Once
<1>7. \A j \in DOMAIN e, y \in h \ {x} : e[j].buf # y.buf
  BY <1>2 DEF Once
<1>8. \A i \in DOMAIN b, y \in h \ {x} : b[i].buf # y.buf
  BY DEF Once
<1>9. Once(b, e, h \ {x})
  BY <1>4, <1>5, <1>6, <1>7, <1>8 DEF Once
<1> QED BY <1>1, <1>3, <1>9 DEF e

LEMMA GivenBackOnce ==
  ASSUME NEW b \in Seq(ClipInfos), NEW c \in Seq(ClipInfos), NEW h \in SUBSET ClipInfos,
         c # <<>>, Once(b, c, h)
  PROVE  /\ Append(b, Head(c)) \in Seq(ClipInfos) /\ Tail(c) \in Seq(ClipInfos)
         /\ Len(Append(b, Head(c))) = Len(b) + 1 /\ Len(Tail(c)) = Len(c) - 1
         /\ \A i \in 1 .. Len(c) - 1 : Tail(c)[i] = c[i + 1]
         /\ Once(Append(b, Head(c)), Tail(c), h)
<1> DEFINE e == Append(b, Head(c))
           t == Tail(c)
<1>1. /\ t \in Seq(ClipInfos) /\ Head(c) = c[1] /\ Len(t) = Len(c) - 1 /\ Len(c) \in Nat \ {0}
      /\ DOMAIN t = 1 .. Len(c) - 1 /\ DOMAIN c = 1 .. Len(c) /\ c[1] \in ClipInfos /\ 1 \in DOMAIN c
  OBVIOUS
<1>2. \A i \in DOMAIN t : i + 1 \in DOMAIN c /\ t[i] = c[i + 1] /\ i + 1 # 1 /\ i \in Int
  OBVIOUS
<1>3. e \in Seq(ClipInfos) /\ Len(e) = Len(b) + 1
  BY <1>1
<1>4. \A i \in DOMAIN e : \/ i \in DOMAIN b /\ e[i] = b[i]
                          \/ i = Len(b) + 1 /\ e[i] = c[1]
  BY <1>1
<1> HIDE DEF e, t
<1>5. \A i, j \in DOMAIN e : e[i].buf = e[j].buf => i = j
  BY <1>4, <1>1 DEF Once
<1>6. \A i, j \in DOMAIN t : t[i].buf = t[j].buf => i = j
  <2> SUFFICES ASSUME NEW i \in DOMAIN t, NEW j \in DOMAIN t, t[i].buf = t[j].buf
               PROVE  i = j
    OBVIOUS
  <2>1. i + 1 = j + 1
    BY <1>2 DEF Once
  <2> QED BY <2>1, <1>2
<1>7. \A i \in DOMAIN e, j \in DOMAIN t : e[i].buf # t[j].buf
  BY <1>1, <1>2, <1>4 DEF Once
<1>8. \A i \in DOMAIN e, x \in h : e[i].buf # x.buf
  BY <1>1, <1>4 DEF Once
<1>9. \A j \in DOMAIN t, x \in h : t[j].buf # x.buf
  BY <1>2 DEF Once
<1>10. Once(e, t, h)
  BY <1>5, <1>6, <1>7, <1>8, <1>9 DEF Once
<1>11. \A i \in 1 .. Len(c) - 1 : t[i] = c[i + 1]
  BY <1>1, <1>2
<1> QED BY <1>1, <1>3, <1>10, <1>11 DEF e, t

LEMMA AllGivenBackOnce ==
  ASSUME NEW b \in Seq(ClipInfos), NEW c \in Seq(ClipInfos), NEW h \in SUBSET ClipInfos,
         Once(b, c, h)
  PROVE  /\ b \o c \in Seq(ClipInfos) /\ Len(b \o c) = Len(b) + Len(c)
         /\ Once(b \o c, <<>>, h)
<1> DEFINE e == b \o c
<1>1. e \in Seq(ClipInfos) /\ Len(e) = Len(b) + Len(c) /\ Len(b) \in Nat /\ Len(c) \in Nat
  OBVIOUS
<1>2. \A i \in DOMAIN e : /\ i \in Int
                          /\ \/ i \in DOMAIN b /\ e[i] = b[i]
                             \/ i - Len(b) \in DOMAIN c /\ e[i] = c[i - Len(b)]
  OBVIOUS
<1> HIDE DEF e
<1>3. \A i, j \in DOMAIN e : e[i].buf = e[j].buf => i = j
  <2> SUFFICES ASSUME NEW i \in DOMAIN e, NEW j \in DOMAIN e, e[i].buf = e[j].buf
               PROVE  i = j
    OBVIOUS
  <2>1. CASE i \in DOMAIN b /\ e[i] = b[i]
    BY <2>1, <1>2 DEF Once
  <2>2. CASE i - Len(b) \in DOMAIN c /\ e[i] = c[i - Len(b)]
    <3>1. j - Len(b) \in DOMAIN c /\ e[j] = c[j - Len(b)]
      BY <2>2, <1>2 DEF Once
    <3>2. i - Len(b) = j - Len(b)
      BY <2>2, <3>1 DEF Once
    <3> QED BY <3>2, <1>1, <1>2
  <2> QED BY <2>1, <2>2, <1>2
<1>4. \A i \in DOMAIN e, x \in h : e[i].buf # x.buf
  BY <1>2 DEF Once
<1>5. DOMAIN <<>> = {}
  OBVIOUS
<1>6. \A x, y \in h : x.buf = y.buf => x = y
  BY DEF Once
<1>7. Once(e, <<>>, h)
  BY <1>3, <1>4, <1>5, <1>6 DEF Once
<1> QED BY <1>1, <1>7 DEF e

-----------------------------------------------------------------------------
(* Their counts.                                                            *)

ClipDevs == [open : BOOLEAN, playing : BOOLEAN, sema : Nat, nLeft : Int, nOff : Nat,
             bufq : Seq(ClipInfos), clipq : Seq(ClipInfos)]
ClipHws == [slot : SUBSET ClipBufs, cur : SUBSET ClipBufs]
ClipProcs == [pc : ClipPcs, held : SUBSET ClipInfos, left : Int, eos : BOOLEAN]

\* The semaphore counts the free buffers, and nLeft, of which some may be
\* lost, never counts more; between the reading of nLeft and its writing both
\* values are one too high.
Counted(d, p) ==
  /\ d.sema = Len(d.bufq)
  /\ IsFiniteSet(p.held)
  /\ Len(d.bufq) + Len(d.clipq) + Cardinality(p.held) = ClipSegs
  /\ d.nOff <= Len(d.clipq)
  /\ p.pc # "left" => d.nLeft \in Len(d.bufq) - ClipDrift .. Len(d.bufq)
  /\ p.pc = "left" => /\ p.held # {}
                      /\ d.nLeft \in Len(d.bufq) + 1 - ClipDrift .. Len(d.bufq) + 1
                      /\ p.left \in Len(d.bufq) + 1 - ClipDrift .. Len(d.bufq) + 1
  /\ p.pc = "flush" => d.clipq = <<>> /\ ~d.playing

Kept(d, p) ==
  /\ d \in ClipDevs /\ p \in ClipProcs
  /\ Counted(d, p)
  /\ Once(d.bufq, d.clipq, p.held)

LEMMA SumBounds ==
  ASSUME NEW a \in Nat, NEW b \in Nat, NEW c \in Nat, a + b + c = ClipSegs
  PROVE  a <= ClipSegs /\ b <= ClipSegs /\ (c # 0 => a < ClipSegs)
  OBVIOUS

\* One more buffer, one more counted, within the same drift.
LEMMA CountUp ==
  ASSUME NEW n \in Int, NEW a \in Int, n \in a - ClipDrift .. a, a < ClipSegs
  PROVE  (IF n < ClipSegs THEN n + 1 ELSE ClipSegs) \in a + 1 - ClipDrift .. a + 1
  OBVIOUS

LEMMA LengthsAreNat ==
  ASSUME NEW d, NEW p, Kept(d, p)
  PROVE  Len(d.bufq) \in Nat /\ Len(d.clipq) \in Nat /\ Cardinality(p.held) \in Nat
         /\ Len(d.bufq) <= ClipSegs /\ Len(d.clipq) <= ClipSegs
         /\ (p.held # {} => Len(d.bufq) < ClipSegs)
<1>1. d.bufq \in Seq(ClipInfos) /\ d.clipq \in Seq(ClipInfos) /\ IsFiniteSet(p.held)
  BY DEF Kept, ClipDevs, Counted
<1>2. Len(d.bufq) \in Nat /\ Len(d.clipq) \in Nat
  BY <1>1
<1>3. Cardinality(p.held) \in Nat /\ (p.held # {} => Cardinality(p.held) # 0)
  BY <1>1, FS_CardinalityType, FS_EmptySet
<1>4. Len(d.bufq) + Len(d.clipq) + Cardinality(p.held) = ClipSegs
  BY DEF Kept, Counted
<1> QED BY <1>2, <1>3, <1>4, SumBounds

\* What the type invariant asks for besides the types.
LEMMA KeptIsTyped ==
  ASSUME NEW d, NEW p, Kept(d, p)
  PROVE  /\ d \in [open : BOOLEAN, playing : BOOLEAN,
                   sema : 0 .. ClipSegs, nLeft : -ClipDrift .. ClipSegs,
                   nOff : 0 .. ClipSegs,
                   bufq : Seq(ClipInfos), clipq : Seq(ClipInfos)]
         /\ p.pc \in ClipPcs /\ p.held \subseteq ClipInfos
<1>1. d.sema \in 0 .. ClipSegs /\ d.nOff \in 0 .. ClipSegs /\ d.nLeft \in -ClipDrift .. ClipSegs
  <2>1. d.sema = Len(d.bufq) /\ d.nOff <= Len(d.clipq) /\ d.nOff \in Nat /\ d.nLeft \in Int
    BY DEF Kept, Counted, ClipDevs
  <2>2. \/ d.nLeft \in Len(d.bufq) - ClipDrift .. Len(d.bufq)
        \/ p.held # {} /\ d.nLeft \in Len(d.bufq) + 1 - ClipDrift .. Len(d.bufq) + 1
    BY DEF Kept, Counted
  <2>3. PICK i, j : i = Len(d.bufq) /\ j = Len(d.clipq)
    OBVIOUS
  <2>4. i \in Nat /\ j \in Nat /\ i <= ClipSegs /\ j <= ClipSegs /\ (p.held # {} => i < ClipSegs)
    BY <2>3, LengthsAreNat, Zenon
  <2>5. /\ d.sema = i /\ d.nOff <= j /\ d.nOff \in Nat /\ d.nLeft \in Int
        /\ \/ d.nLeft \in i - ClipDrift .. i
           \/ p.held # {} /\ d.nLeft \in i + 1 - ClipDrift .. i + 1
    BY <2>1, <2>2, <2>3, Zenon
  <2>6. d.sema \in 0 .. ClipSegs /\ d.nOff \in 0 .. ClipSegs
    BY <2>4, <2>5
  <2>7. d.nLeft \in -ClipDrift .. ClipSegs
    BY <2>4, <2>5
  <2> QED BY <2>6, <2>7
<1> QED BY <1>1 DEF Kept, ClipDevs, ClipProcs

LEMMA FreshKept ==
  ASSUME NEW p \in ClipProcs, p.held = {}, p.pc = "idle"
  PROVE  Kept(clipdev_create, p) /\ Kept(clipdev_deleted, p)
<1> DEFINE b == [i \in ClipBufs |-> [buf |-> i, end |-> FALSE]]
<1>1. b \in Seq(ClipInfos) /\ Len(b) = ClipSegs
  <2>1. \A i \in ClipBufs : [buf |-> i, end |-> FALSE] \in ClipInfos
    BY DEF ClipInfos
  <2> QED BY <2>1 DEF ClipBufs
<1>2. \A i \in DOMAIN b : b[i].buf = i
  BY DEF ClipBufs
<1>3. <<>> \in Seq(ClipInfos) /\ Len(<<>>) = 0 /\ DOMAIN <<>> = {}
  OBVIOUS
<1>4. Once(b, <<>>, {})
  BY <1>2, <1>3 DEF Once
<1>5. PICK c : c = b
  OBVIOUS
<1> HIDE DEF b
<1>6. \A o \in BOOLEAN : \A d : d = [open |-> o, playing |-> FALSE, sema |-> ClipSegs,
                     nLeft |-> ClipSegs, nOff |-> 0, bufq |-> c, clipq |-> <<>>]
      => Kept(d, p)
  <2> SUFFICES ASSUME NEW o \in BOOLEAN, NEW d,
                 d = [open |-> o, playing |-> FALSE, sema |-> ClipSegs,
                     nLeft |-> ClipSegs, nOff |-> 0, bufq |-> c, clipq |-> <<>>]
               PROVE  Kept(d, p)
    OBVIOUS
  <2>1. d \in ClipDevs
    BY <1>1, <1>3, <1>5 DEF ClipDevs
  <2>2. IsFiniteSet(p.held) /\ Cardinality(p.held) = 0
    BY FS_EmptySet
  <2>3. Counted(d, p)
    BY <1>1, <1>3, <1>5, <2>2 DEF Counted
  <2> QED BY <2>1, <2>3, <1>4, <1>5 DEF Kept
<1>7. clipdev_create = [open |-> TRUE, playing |-> FALSE, sema |-> ClipSegs,
                     nLeft |-> ClipSegs, nOff |-> 0, bufq |-> c, clipq |-> <<>>]
  BY <1>5 DEF clipdev_create, b
<1>8. clipdev_deleted = [open |-> FALSE, playing |-> FALSE, sema |-> ClipSegs,
                     nLeft |-> ClipSegs, nOff |-> 0, bufq |-> c, clipq |-> <<>>]
  <2>1. PICK d : d = clipdev_create
    OBVIOUS
  <2>2. clipdev_deleted = [d EXCEPT !.open = FALSE]
    BY <2>1 DEF clipdev_deleted
  <2> QED BY <1>7, <2>1, <2>2
<1> QED BY <1>6, <1>7, <1>8

\* The task gives a buffer back, also between the reading and the writing of
\* nLeft, as long as the drift has room.
LEMMA DoneKeeps ==
  ASSUME NEW d, NEW p, Kept(d, p),
         p.pc = "left" => Len(d.bufq) + 1 - p.left < ClipDrift
  PROVE  Kept(clipdev_clipinfo_done(d), p)
<1> DEFINE e == clipdev_clipinfo_done(d)
<1>1. CASE d.clipq = <<>>
  BY <1>1 DEF clipdev_clipinfo_done
<1>2. CASE d.clipq # <<>>
  <2>1. e = [d EXCEPT !.clipq = Tail(@), !.bufq = Append(@, Head(d.clipq)),
                 !.nOff = IF @ > 0 THEN @ - 1 ELSE @,
                 !.nLeft = IF @ < ClipSegs THEN @ + 1 ELSE ClipSegs,
                 !.sema = @ + 1]
    BY <1>2 DEF clipdev_clipinfo_done
  <2>2. /\ d.bufq \in Seq(ClipInfos) /\ d.clipq \in Seq(ClipInfos) /\ p.held \in SUBSET ClipInfos
        /\ Once(d.bufq, d.clipq, p.held)
    BY DEF Kept, ClipDevs, ClipProcs
  <2>3. PICK b, t : b = Append(d.bufq, Head(d.clipq)) /\ t = Tail(d.clipq)
    OBVIOUS
  <2>4. /\ b \in Seq(ClipInfos) /\ t \in Seq(ClipInfos)
        /\ Len(b) = Len(d.bufq) + 1 /\ Len(t) = Len(d.clipq) - 1 /\ Once(b, t, p.held)
    BY <1>2, <2>2, <2>3, GivenBackOnce
  <2>5. e = [d EXCEPT !.clipq = t, !.bufq = b,
                 !.nOff = IF @ > 0 THEN @ - 1 ELSE @,
                 !.nLeft = IF @ < ClipSegs THEN @ + 1 ELSE ClipSegs,
                 !.sema = @ + 1]
    BY <2>1, <2>3 DEF Kept, ClipDevs
  <2> HIDE DEF e
  <2>x. d \in ClipDevs /\ d.nLeft \in Int /\ d.nOff \in Nat /\ d.sema \in Nat
    BY DEF Kept, ClipDevs
  <2>6. e \in ClipDevs /\ e.bufq = b /\ e.clipq = t /\ e.sema = d.sema + 1
        /\ e.nOff = (IF d.nOff > 0 THEN d.nOff - 1 ELSE d.nOff)
        /\ e.nLeft = (IF d.nLeft < ClipSegs THEN d.nLeft + 1 ELSE ClipSegs)
    <3>1. PICK o, l : /\ o = (IF d.nOff > 0 THEN d.nOff - 1 ELSE d.nOff)
                      /\ l = (IF d.nLeft < ClipSegs THEN d.nLeft + 1 ELSE ClipSegs)
      OBVIOUS
    <3>2. o \in Nat /\ l \in Int
      BY <2>x, <3>1
    <3>3. e = [open |-> d.open, playing |-> d.playing, sema |-> d.sema + 1, nLeft |-> l,
               nOff |-> o, bufq |-> b, clipq |-> t]
      BY <2>5, <2>x, <3>1 DEF ClipDevs
    <3>4. d.open \in BOOLEAN /\ d.playing \in BOOLEAN /\ d.sema + 1 \in Nat
      BY <2>x DEF ClipDevs
    <3>5. b \in Seq(ClipInfos) /\ t \in Seq(ClipInfos)
      BY <2>4
    <3>6. e \in ClipDevs
      BY <3>2, <3>3, <3>4, <3>5 DEF ClipDevs
    <3> QED BY <3>1, <3>3, <3>6
  <2>7. Counted(e, p)
    <3>1. Len(t) \in Nat /\ Len(b) \in Nat
      BY <2>4
    <3>2. /\ Len(d.bufq) \in Nat /\ Len(d.clipq) \in Nat /\ Cardinality(p.held) \in Nat
          /\ Len(d.bufq) + Len(d.clipq) + Cardinality(p.held) = ClipSegs
          /\ (p.held # {} => Cardinality(p.held) # 0)
      <4>1. IsFiniteSet(p.held)
        BY DEF Kept, Counted
      <4> QED BY <4>1, LengthsAreNat, FS_EmptySet DEF Kept, Counted
    <3>3. Len(b) + Len(t) + Cardinality(p.held) = ClipSegs
      <4>1. \A x, y, z \in Nat : x + y + z = ClipSegs => (x + 1) + (y - 1) + z = ClipSegs
        OBVIOUS
      <4>2. Len(b) = Len(d.bufq) + 1 /\ Len(t) = Len(d.clipq) - 1
        BY <2>4
      <4>3. (Len(d.bufq) + 1) + (Len(d.clipq) - 1) + Cardinality(p.held) = ClipSegs
        BY <4>1, <3>2, Zenon
      <4> QED BY <4>2, <4>3, Zenon
    <3>4. Len(b) <= ClipSegs /\ (p.held # {} => Len(b) < ClipSegs)
      <4>1. Len(b) <= ClipSegs /\ (Cardinality(p.held) # 0 => Len(b) < ClipSegs)
        BY <3>1, <3>2, <3>3, SumBounds
      <4> QED BY <4>1, <3>2
    <3>e. e.sema = Len(b) /\ IsFiniteSet(p.held)
      BY <2>4, <2>6 DEF Kept, Counted
    <3>o. e.nOff <= Len(t)
      <4>1. d.nOff <= Len(d.clipq)
        BY DEF Kept, Counted
      <4>2. Len(d.clipq) # 0
        BY <2>2, <1>2
      <4> QED BY <4>1, <4>2, <2>4, <2>6, <2>x, <3>2
    <3>5. p.pc # "left" => e.nLeft \in Len(b) - ClipDrift .. Len(b)
      <4> SUFFICES ASSUME p.pc # "left" PROVE e.nLeft \in Len(b) - ClipDrift .. Len(b)
        OBVIOUS
      <4>1. d.nLeft \in Len(d.bufq) - ClipDrift .. Len(d.bufq)
        BY DEF Kept, Counted
      <4>2. Len(d.bufq) < ClipSegs
        BY <2>4, <3>2, <3>4
      <4>3. PICK n, a : n = d.nLeft /\ a = Len(d.bufq)
        OBVIOUS
      <4>4. n \in Int /\ a \in Int /\ n \in a - ClipDrift .. a /\ a < ClipSegs
        BY <4>1, <4>2, <4>3, <2>x, <3>2
      <4>5. PICK m : m = (IF n < ClipSegs THEN n + 1 ELSE ClipSegs)
        OBVIOUS
      <4>6. m \in a + 1 - ClipDrift .. a + 1
        BY <4>4, <4>5, CountUp
      <4>7. Len(b) = a + 1 /\ e.nLeft = m
        BY <4>3, <4>5, <2>4, <2>6, Zenon
      <4>8. PICK x, y : x = e.nLeft /\ y = Len(b)
        OBVIOUS
      <4>9. x \in y - ClipDrift .. y
        <5>1. x = m /\ y = a + 1
          BY <4>7, <4>8, Zenon
        <5> QED BY <4>4, <4>6, <5>1 DEF ClipAssumption
      <4> QED BY <4>8, <4>9, Zenon
    <3>6. p.pc = "left" => /\ p.held # {}
                           /\ e.nLeft \in Len(b) + 1 - ClipDrift .. Len(b) + 1
      <4> SUFFICES ASSUME p.pc = "left"
                   PROVE  p.held # {} /\ e.nLeft \in Len(b) + 1 - ClipDrift .. Len(b) + 1
        OBVIOUS
      <4>1. p.held # {} /\ d.nLeft \in (Len(d.bufq) + 1) - ClipDrift .. (Len(d.bufq) + 1)
        BY DEF Kept, Counted
      <4>2. Len(d.bufq) + 1 < ClipSegs /\ Len(d.bufq) + 1 = Len(b)
        BY <2>4, <3>2, <3>4, <4>1
      <4>3. PICK n, a : n = d.nLeft /\ a = Len(b)
        OBVIOUS
      <4>4. n \in Int /\ a \in Int /\ n \in a - ClipDrift .. a /\ a < ClipSegs
        BY <4>1, <4>2, <4>3, <2>x, <3>1
      <4>5. (IF n < ClipSegs THEN n + 1 ELSE ClipSegs) \in a + 1 - ClipDrift .. a + 1
        BY <4>4, CountUp
      <4> QED BY <4>1, <4>3, <4>5, <2>6, Zenon
    <3>7. p.pc = "left" => p.left \in Len(b) + 1 - ClipDrift .. Len(b) + 1
      <4>1. PICK l, a, y : l = p.left /\ a = Len(d.bufq) /\ y = Len(b)
        OBVIOUS
      <4>2. p.pc = "left" => l \in a + 1 - ClipDrift .. a + 1
        BY <4>1 DEF Kept, Counted
      <4>3. p.pc = "left" => a + 1 - l < ClipDrift
        BY <4>1
      <4>4. a \in Nat /\ y = a + 1
        BY <4>1, <2>4, <3>2, Zenon
      <4>5. p.pc = "left" => l \in y + 1 - ClipDrift .. y + 1
        BY <4>2, <4>3, <4>4 DEF ClipAssumption
      <4> QED BY <4>1, <4>5, Zenon
    <3>8. p.pc # "flush"
      BY <1>2 DEF Kept, Counted
    <3> QED BY <2>6, <3>3, <3>e, <3>o, <3>5, <3>6, <3>7, <3>8 DEF Counted
  <2> QED BY <2>4, <2>6, <2>7 DEF Kept, e
<1> QED BY <1>1, <1>2

LEMMA HwWriteKeeps ==
  ASSUME NEW d, NEW p, NEW h, Kept(d, p)
  PROVE  Kept(clipdev_hw_write(d, h).dev, p)
<1>1. CASE NextUnwritten(d)
  <2>1. [d EXCEPT !.nOff = @ + 1] \in ClipDevs
    <3>1. PICK o : o = d.nOff + 1
      OBVIOUS
    <3>2. d \in ClipDevs /\ o \in Nat
      BY <3>1 DEF Kept, ClipDevs
    <3>3. [d EXCEPT !.nOff = o] \in ClipDevs
      BY <3>2 DEF ClipDevs
    <3> QED BY <3>1, <3>3
  <2>2. Kept([d EXCEPT !.nOff = @ + 1], p)
    BY <1>1, <2>1, LengthsAreNat DEF Kept, Counted, ClipDevs, NextUnwritten
  <2> QED BY <2>2 DEF clipdev_hw_write
<1>2. CASE ~NextUnwritten(d)
  BY <1>2 DEF clipdev_hw_write
<1> QED BY <1>1, <1>2

LEMMA StartKeeps ==
  ASSUME NEW d, NEW p, NEW h, Kept(d, p)
  PROVE  Kept(clipdev_start(d, h).dev, p)
<1> DEFINE e == [d EXCEPT !.playing = TRUE]
           r == clipdev_hw_write(e, h)
<1>1. e \in ClipDevs /\ e.clipq = d.clipq /\ e.bufq = d.bufq /\ e.playing
      /\ e.nOff = d.nOff /\ e.nLeft = d.nLeft /\ e.sema = d.sema
  BY DEF Kept, ClipDevs
<1>2. CASE d.clipq = <<>>
  <2>1. ~NextUnwritten(e) /\ r.ret = -1 /\ r.dev = e
    BY <1>2, <1>1, LengthsAreNat DEF NextUnwritten, clipdev_hw_write, Kept, ClipDevs
  <2>2. clipdev_start(d, h).dev = [e EXCEPT !.playing = FALSE]
    BY <2>1 DEF clipdev_start, clipdev_hw_write
  <2>3. [e EXCEPT !.playing = FALSE] = [d EXCEPT !.playing = FALSE]
    BY DEF Kept, ClipDevs
  <2>4. Kept([d EXCEPT !.playing = FALSE], p)
    <3>1. [d EXCEPT !.playing = FALSE] \in ClipDevs
      BY DEF Kept, ClipDevs
    <3>2. PICK g : g = [d EXCEPT !.playing = FALSE]
      OBVIOUS
    <3>3. /\ g.bufq = d.bufq /\ g.clipq = d.clipq /\ g.sema = d.sema /\ g.nOff = d.nOff
          /\ g.nLeft = d.nLeft /\ ~g.playing
      BY <3>2 DEF Kept, ClipDevs
    <3> QED BY <3>1, <3>2, <3>3 DEF Kept, Counted
  <2> QED BY <2>2, <2>3, <2>4
<1>3. CASE d.clipq # <<>>
  <2>1. p.pc # "flush"
    BY <1>3 DEF Kept, Counted
  <2>2. Kept(e, p)
    BY <1>1, <2>1 DEF Kept, Counted
  <2>3. r.ret = 0
    BY <1>1, <1>3 DEF clipdev_hw_write
  <2>4. clipdev_start(d, h) = r
    BY <2>3 DEF clipdev_start
  <2> QED BY <2>2, <2>4, HwWriteKeeps
<1> QED BY <1>2, <1>3

LEMMA ProcMoves ==
  ASSUME NEW d, NEW p, NEW q \in ClipProcs, Kept(d, p), q.held = p.held,
         p.pc # "left", q.pc \notin {"left", "flush"}
  PROVE  Kept(d, q)
  BY DEF Kept, Counted

LEMMA DevMoves ==
  ASSUME NEW d, NEW g \in ClipDevs, NEW p, Kept(d, p), g.bufq = d.bufq, g.clipq = d.clipq,
         g.sema = d.sema, g.nLeft = d.nLeft, g.nOff <= Len(d.clipq),
         p.pc = "flush" => ~g.playing
  PROVE  Kept(g, p)
  BY DEF Kept, Counted

\* The process takes a free buffer, and has counted it down, or will.
LEMMA TakingKeeps ==
  ASSUME NEW d, NEW p, Kept(d, p), p.pc = "idle", d.bufq # <<>>,
         NEW g \in ClipDevs, NEW q \in ClipProcs,
         g.sema = d.sema - 1, g.bufq = Tail(d.bufq), g.clipq = d.clipq, g.nOff = d.nOff,
         q.held = p.held \cup {Head(d.bufq)},
         \/ q.pc = "idle" /\ g.nLeft = d.nLeft - 1
         \/ q.pc = "left" /\ q.left = d.nLeft /\ g.nLeft = d.nLeft
  PROVE  Kept(g, q)
<1>1. d.bufq \in Seq(ClipInfos) /\ d.clipq \in Seq(ClipInfos) /\ p.held \in SUBSET ClipInfos
      /\ Once(d.bufq, d.clipq, p.held)
  BY DEF Kept, ClipDevs, ClipProcs
<1>2. /\ Tail(d.bufq) \in Seq(ClipInfos) /\ Head(d.bufq) \in ClipInfos \ p.held
      /\ Len(g.bufq) = Len(d.bufq) - 1 /\ Once(g.bufq, g.clipq, q.held)
  <2>1. /\ Tail(d.bufq) \in Seq(ClipInfos) /\ Head(d.bufq) \in ClipInfos \ p.held
        /\ Len(Tail(d.bufq)) = Len(d.bufq) - 1
        /\ Once(Tail(d.bufq), d.clipq, p.held \cup {Head(d.bufq)})
    BY <1>1, TakenOnce, Zenon
  <2> QED BY <2>1, Zenon
<1>3. /\ Len(d.bufq) \in Nat /\ Len(d.clipq) \in Nat /\ Cardinality(p.held) \in Nat
      /\ Len(d.bufq) + Len(d.clipq) + Cardinality(p.held) = ClipSegs
      /\ IsFiniteSet(p.held) /\ d.sema = Len(d.bufq) /\ d.nOff <= Len(d.clipq)
      /\ d.nLeft \in Len(d.bufq) - ClipDrift .. Len(d.bufq) /\ d.nLeft \in Int
  BY LengthsAreNat DEF Kept, Counted, ClipDevs
<1>4. IsFiniteSet(q.held) /\ Cardinality(q.held) = Cardinality(p.held) + 1
  <2>1. PICK x : x = Head(d.bufq)
    OBVIOUS
  <2>2. x \notin p.held /\ q.held = p.held \cup {x}
    BY <1>2, <2>1
  <2>3. PICK h : h = p.held
    OBVIOUS
  <2>4. IsFiniteSet(h) /\ x \notin h
    BY <1>3, <2>2, <2>3, Zenon
  <2>5. IsFiniteSet(h \cup {x}) /\ Cardinality(h \cup {x}) = Cardinality(h) + 1
    BY <2>4, FS_AddElement
  <2> QED BY <2>2, <2>3, <2>5, Zenon
<1>5. Len(g.bufq) + Len(g.clipq) + Cardinality(q.held) = ClipSegs
  <2>1. PICK x, y, z : x = Len(d.bufq) /\ y = Len(d.clipq) /\ z = Cardinality(p.held)
    OBVIOUS
  <2>2. (x - 1) + y + (z + 1) = ClipSegs
    <3>1. x \in Nat /\ y \in Nat /\ z \in Nat /\ x + y + z = ClipSegs
      BY <1>3, <2>1, Zenon
    <3> QED BY <3>1
  <2> QED BY <2>1, <2>2, <1>2, <1>4, Zenon
<1>6. /\ q.pc = "idle" => g.nLeft \in Len(g.bufq) - ClipDrift .. Len(g.bufq)
      /\ q.pc = "left" => /\ g.nLeft \in Len(g.bufq) + 1 - ClipDrift .. Len(g.bufq) + 1
                          /\ q.left \in Len(g.bufq) + 1 - ClipDrift .. Len(g.bufq) + 1
  <2>1. \A x \in Nat, n \in Int : n \in x - ClipDrift .. x =>
           /\ n - 1 \in (x - 1) - ClipDrift .. (x - 1)
           /\ n \in (x - 1) + 1 - ClipDrift .. (x - 1) + 1
    OBVIOUS
  <2>2. /\ d.nLeft - 1 \in (Len(d.bufq) - 1) - ClipDrift .. (Len(d.bufq) - 1)
        /\ d.nLeft \in (Len(d.bufq) - 1) + 1 - ClipDrift .. (Len(d.bufq) - 1) + 1
    BY <2>1, <1>3, Zenon
  <2> QED BY <2>2, <1>2
<1>7. g.sema = Len(g.bufq)
  BY <1>2, <1>3
<1>8. Counted(g, q)
  BY <1>3, <1>4, <1>5, <1>6, <1>7 DEF Counted
<1> QED BY <1>2, <1>8 DEF Kept

\* A buffer held becomes a clip.
LEMMA QueueingKeeps ==
  ASSUME NEW d, NEW p, Kept(d, p), p.pc = "idle",
         NEW x \in p.held, NEW end \in BOOLEAN, NEW g \in ClipDevs, NEW q \in ClipProcs,
         g.sema = d.sema, g.bufq = d.bufq, g.clipq = Append(d.clipq, [x EXCEPT !.end = end]),
         g.nOff = d.nOff, g.nLeft = d.nLeft,
         q.held = p.held \ {x}, q.pc = "start"
  PROVE  Kept(g, q) /\ \A i \in 1 .. Len(d.clipq) : g.clipq[i] = d.clipq[i]
<1>1. d.bufq \in Seq(ClipInfos) /\ d.clipq \in Seq(ClipInfos) /\ p.held \in SUBSET ClipInfos
      /\ Once(d.bufq, d.clipq, p.held)
  BY DEF Kept, ClipDevs, ClipProcs
<1>2. PICK k : k = [x EXCEPT !.end = end]
  OBVIOUS
<1>3. k \in ClipInfos /\ k.buf = x.buf
  BY <1>1, <1>2 DEF ClipInfos
<1>4. /\ Len(g.clipq) = Len(d.clipq) + 1 /\ Once(g.bufq, g.clipq, q.held)
      /\ \A i \in 1 .. Len(d.clipq) : g.clipq[i] = d.clipq[i]
  <2>1. /\ Len(Append(d.clipq, k)) = Len(d.clipq) + 1
        /\ \A i \in 1 .. Len(d.clipq) : Append(d.clipq, k)[i] = d.clipq[i]
        /\ Once(d.bufq, Append(d.clipq, k), p.held \ {x})
    <3>1. x \in p.held /\ k.buf = x.buf /\ k \in ClipInfos
      BY <1>3, Zenon
    <3> QED BY <1>1, <3>1, QueuedOnce
  <2> QED BY <1>2, <2>1, Zenon
<1>5. /\ Len(d.bufq) \in Nat /\ Len(d.clipq) \in Nat /\ Cardinality(p.held) \in Nat
      /\ Len(d.bufq) + Len(d.clipq) + Cardinality(p.held) = ClipSegs
      /\ IsFiniteSet(p.held) /\ d.sema = Len(d.bufq) /\ d.nOff <= Len(d.clipq) /\ d.nOff \in Nat
      /\ d.nLeft \in Len(d.bufq) - ClipDrift .. Len(d.bufq)
  BY LengthsAreNat DEF Kept, Counted, ClipDevs
<1>6. IsFiniteSet(q.held) /\ Cardinality(q.held) = Cardinality(p.held) - 1
  <2>1. PICK s : s = p.held
    OBVIOUS
  <2>2. IsFiniteSet(s) /\ x \in s /\ q.held = s \ {x}
    BY <1>5, <2>1, Zenon
  <2>3. /\ IsFiniteSet(s \ {x})
        /\ Cardinality(s \ {x}) = IF x \in s THEN Cardinality(s) - 1 ELSE Cardinality(s)
    BY <2>2, FS_RemoveElement, Zenon
  <2> QED BY <2>1, <2>2, <2>3
<1>7. Len(g.bufq) + Len(g.clipq) + Cardinality(q.held) = ClipSegs
  <2>1. PICK i, j, l : i = Len(d.bufq) /\ j = Len(d.clipq) /\ l = Cardinality(p.held)
    OBVIOUS
  <2>2. i + (j + 1) + (l - 1) = ClipSegs
    <3>1. i \in Nat /\ j \in Nat /\ l \in Nat /\ i + j + l = ClipSegs
      BY <1>5, <2>1, Zenon
    <3> QED BY <3>1
  <2> QED BY <2>1, <2>2, <1>4, <1>6, Zenon
<1>8. g.nOff <= Len(g.clipq)
  BY <1>4, <1>5
<1>9. Counted(g, q)
  BY <1>5, <1>6, <1>7, <1>8 DEF Counted
<1> QED BY <1>4, <1>9 DEF Kept

\* A flush gives all clips back at once.
LEMMA StopKeeps ==
  ASSUME NEW d, NEW p, Kept(d, p), p.pc = "idle", NEW q \in ClipProcs,
         q.held = p.held, q.pc = "flush"
  PROVE  Kept(clipdev_stop(d), q)
<1>1. /\ d \in ClipDevs /\ d.bufq \in Seq(ClipInfos) /\ d.clipq \in Seq(ClipInfos)
      /\ p.held \in SUBSET ClipInfos /\ Once(d.bufq, d.clipq, p.held)
      /\ d.open \in BOOLEAN /\ d.sema \in Nat /\ d.nOff \in Nat /\ d.nLeft \in Int
  BY DEF Kept, ClipDevs, ClipProcs
<1>2. PICK b, n : b = d.bufq \o d.clipq /\ n = Len(d.clipq)
  OBVIOUS
<1>3. b \in Seq(ClipInfos) /\ Len(b) = Len(d.bufq) + n /\ Once(b, <<>>, q.held)
  BY <1>1, <1>2, AllGivenBackOnce
<1>4. /\ Len(d.bufq) \in Nat /\ n \in Nat /\ Cardinality(p.held) \in Nat
      /\ Len(d.bufq) + n + Cardinality(p.held) = ClipSegs
      /\ IsFiniteSet(p.held) /\ d.sema = Len(d.bufq) /\ d.nOff <= n
      /\ d.nLeft \in Len(d.bufq) - ClipDrift .. Len(d.bufq)
  BY <1>2, LengthsAreNat DEF Kept, Counted
<1>5. PICK l : l = IF d.nLeft + n < ClipSegs THEN d.nLeft + n ELSE ClipSegs
  OBVIOUS
<1>6. clipdev_stop(d) = [open |-> d.open, playing |-> FALSE, sema |-> d.sema + n, nLeft |-> l,
                         nOff |-> 0, bufq |-> b, clipq |-> <<>>]
  <2>1. 0 = IF d.nOff > n THEN d.nOff - n ELSE 0
    <3>1. \A x, y \in Nat : x <= y => ~(x > y)
      OBVIOUS
    <3>2. ~(d.nOff > n)
      BY <3>1, <1>1, <1>4, Zenon
    <3> QED BY <3>2, Zenon
  <2>2. clipdev_stop(d) = [d EXCEPT !.playing = FALSE, !.clipq = <<>>, !.bufq = b,
                                    !.nOff = 0, !.nLeft = l, !.sema = d.sema + n]
    BY <2>1, <1>1, <1>2, <1>5 DEF clipdev_stop, ClipDevs
  <2> QED BY <2>2, <1>1 DEF ClipDevs
<1>7. /\ l \in Len(b) - ClipDrift .. Len(b) /\ l \in Int /\ d.sema + n = Len(b)
      /\ Len(b) \in Nat /\ Len(b) + 0 + Cardinality(p.held) = ClipSegs
  <2>1. PICK a, c, m : a = Len(d.bufq) /\ c = Cardinality(p.held) /\ m = d.nLeft
    OBVIOUS
  <2>2. /\ a \in Nat /\ n \in Nat /\ c \in Nat /\ a + n + c = ClipSegs /\ m \in Int
        /\ m \in a - ClipDrift .. a /\ l = IF m + n < ClipSegs THEN m + n ELSE ClipSegs
    BY <1>1, <1>4, <1>5, <2>1
  <2>3. l \in (a + n) - ClipDrift .. a + n /\ l \in Int /\ (a + n) \in Nat /\ (a + n) + 0 + c = ClipSegs
    BY <2>2
  <2> QED BY <1>3, <1>4, <2>1, <2>3, Zenon
<1>8. clipdev_stop(d) \in ClipDevs
  BY <1>1, <1>3, <1>6, <1>7 DEF ClipDevs
<1>9. Counted(clipdev_stop(d), q)
  BY <1>4, <1>6, <1>7 DEF Counted
<1> QED BY <1>3, <1>6, <1>8, <1>9 DEF Kept

\* The decrement of clipdev_get_buf_wait.
LEMMA CountingKeeps ==
  ASSUME NEW d, NEW p, Kept(d, p), p.pc = "left",
         NEW g \in ClipDevs, NEW q \in ClipProcs,
         g.sema = d.sema, g.bufq = d.bufq, g.clipq = d.clipq, g.nOff = d.nOff,
         g.nLeft = p.left - 1, q.held = p.held, q.pc = "idle"
  PROVE  Kept(g, q)
<1>1. g.nLeft \in Len(g.bufq) - ClipDrift .. Len(g.bufq)
  <2>1. \A x \in Nat, n \in Int : n \in x + 1 - ClipDrift .. x + 1 => n - 1 \in x - ClipDrift .. x
    OBVIOUS
  <2>2. p.left \in Len(d.bufq) + 1 - ClipDrift .. Len(d.bufq) + 1 /\ p.left \in Int
    BY DEF Kept, Counted, ClipProcs
  <2> QED BY <2>1, <2>2, LengthsAreNat
<1> QED BY <1>1 DEF Kept, Counted

\* Whatever the interrupt's moment, the buffers are kept and counted.
ClipInv ==
  /\ clipKind \in ClipKinds
  /\ clipHw \in ClipHws
  /\ Kept(clipDev, clipProc)
  /\ Pc("write") => clipProc.left \in ClipBufs

LEMMA ClipInitKept == ClipInit => ClipInv
<1> SUFFICES ASSUME ClipInit PROVE ClipInv
  OBVIOUS
<1>1. clipHw \in ClipHws /\ clipProc = ClipIdle /\ clipDev = clipdev_deleted /\ clipKind \in ClipKinds
  BY DEF ClipInit, ClipHws
<1>2. ClipIdle \in ClipProcs /\ ClipIdle.held = {} /\ ClipIdle.pc = "idle"
  BY DEF ClipIdle, ClipProcs, ClipPcs
<1>3. Kept(clipdev_deleted, ClipIdle)
  BY <1>2, FreshKept
<1> QED BY <1>1, <1>2, <1>3 DEF ClipInv, Pc

\* A clip's buffer, as the block register takes it.
LEMMA ClipsAreBuffers ==
  ASSUME NEW d \in ClipDevs, NextUnwritten(d)
  PROVE  d.clipq[d.nOff + 1].buf \in ClipBufs /\ d.nOff + 1 \in 1 .. Len(d.clipq)
<1>1. d.clipq \in Seq(ClipInfos) /\ d.nOff \in Nat
  BY DEF ClipDevs
<1>2. d.nOff + 1 \in 1 .. Len(d.clipq)
  BY <1>1 DEF NextUnwritten
<1>3. d.clipq[d.nOff + 1] \in ClipInfos
  BY <1>1, <1>2
<1> QED BY <1>2, <1>3 DEF ClipInfos

LEMMA HwWriteTyped ==
  ASSUME NEW d \in ClipDevs, NEW h \in ClipHws
  PROVE  clipdev_hw_write(d, h).hw \in ClipHws
  BY ClipsAreBuffers DEF clipdev_hw_write, WriteBlock, ClipHws

LEMMA OpenedKeeps == ASSUME ClipInv, ClipOpened \/ ClipClosed PROVE ClipInv'
<1>1. clipHw' \in ClipHws /\ clipProc' = ClipIdle /\ clipKind' = clipKind
      /\ (clipDev' = clipdev_create \/ clipDev' = clipdev_deleted)
  BY DEF ClipOpened, ClipClosed, ClipHws
<1>2. ClipIdle \in ClipProcs /\ ClipIdle.held = {} /\ ClipIdle.pc = "idle"
  BY DEF ClipIdle, ClipProcs, ClipPcs
<1>3. Kept(clipDev', ClipIdle)
  BY <1>1, <1>2, FreshKept
<1> QED BY <1>1, <1>2, <1>3 DEF ClipInv, Pc

LEMMA ResetKeeps == ASSUME ClipInv, ClipReset PROVE ClipInv'
<1>1. clipHw' = clipHw /\ clipKind' = clipKind /\ clipDev' = clipdev_create
      /\ clipProc' = [clipProc EXCEPT !.held = {}] /\ clipProc.pc = "idle" /\ clipProc \in ClipProcs
  BY DEF ClipReset, ClipInv, Kept, Pc
<1>2. clipProc' \in ClipProcs /\ clipProc'.held = {} /\ clipProc'.pc = "idle"
  BY <1>1 DEF ClipProcs
<1>3. Kept(clipDev', clipProc')
  BY <1>1, <1>2, FreshKept
<1> QED BY <1>1, <1>2, <1>3 DEF ClipInv, Pc

LEMMA GetBufKeeps == ASSUME ClipInv, GetBuf \/ GetBufNowait PROVE ClipInv'
<1>1. CASE clipDev.bufq = <<>>
  BY <1>1 DEF GetBuf, GetBufNowait, ClipInv, Pc
<1>2. CASE clipDev.bufq # <<>>
  <2>1. /\ clipDev \in ClipDevs /\ clipProc \in ClipProcs /\ clipProc.pc = "idle"
        /\ Kept(clipDev, clipProc) /\ clipKind' = clipKind /\ clipHw' = clipHw
    BY DEF ClipInv, Kept, GetBuf, GetBufNowait, Pc
  <2>2. PICK t, x : t = Tail(clipDev.bufq) /\ x = Head(clipDev.bufq)
    OBVIOUS
  <2>3. t \in Seq(ClipInfos) /\ x \in ClipInfos /\ clipDev.sema - 1 \in Nat
    <3>1. clipDev.bufq \in Seq(ClipInfos) /\ clipDev.sema = Len(clipDev.bufq)
      BY <2>1 DEF ClipDevs, Kept, Counted
    <3>2. Len(clipDev.bufq) \in Nat \ {0}
      BY <3>1, <1>2
    <3> QED BY <3>1, <3>2, <1>2, <2>2
  <2>4. CASE GetBuf
    <3>1. /\ clipDev' = [clipDev EXCEPT !.sema = @ - 1, !.bufq = t]
          /\ clipProc' = [clipProc EXCEPT !.pc = "left", !.left = clipDev.nLeft,
                                          !.held = @ \cup {x}]
      BY <1>2, <2>1, <2>2, <2>4 DEF GetBuf, ClipDevs
    <3>2. clipDev' \in ClipDevs /\ clipProc' \in ClipProcs
      BY <2>1, <2>3, <3>1 DEF ClipDevs, ClipProcs, ClipPcs
    <3>3. /\ clipDev'.sema = clipDev.sema - 1 /\ clipDev'.bufq = Tail(clipDev.bufq)
          /\ clipDev'.clipq = clipDev.clipq /\ clipDev'.nOff = clipDev.nOff
          /\ clipDev'.nLeft = clipDev.nLeft
      <4>1. clipDev'.sema = clipDev.sema - 1 /\ clipDev'.bufq = t
        BY <2>1, <3>1 DEF ClipDevs
      <4>2. clipDev'.clipq = clipDev.clipq /\ clipDev'.nOff = clipDev.nOff
            /\ clipDev'.nLeft = clipDev.nLeft
        BY <2>1, <3>1 DEF ClipDevs
      <4> QED BY <2>2, <4>1, <4>2
    <3>4. clipProc'.held = clipProc.held \cup {Head(clipDev.bufq)}
          /\ clipProc'.pc = "left" /\ clipProc'.left = clipDev.nLeft
      BY <2>1, <2>2, <3>1 DEF ClipProcs
    <3>5. Kept(clipDev', clipProc')
      BY <1>2, <2>1, <3>2, <3>3, <3>4, TakingKeeps
    <3> QED BY <2>1, <3>4, <3>5 DEF ClipInv, Pc
  <2>5. CASE GetBufNowait
    <3>1. /\ clipDev' = [clipDev EXCEPT !.sema = @ - 1, !.bufq = t, !.nLeft = @ - 1]
          /\ clipProc' = [clipProc EXCEPT !.held = @ \cup {x}]
      BY <2>1, <2>2, <2>5 DEF GetBufNowait, ClipDevs
    <3>2. clipDev' \in ClipDevs /\ clipProc' \in ClipProcs
      <4>1. PICK m, l : m = clipDev.sema - 1 /\ l = clipDev.nLeft - 1
        OBVIOUS
      <4>2. m \in Nat /\ l \in Int
        BY <2>1, <2>3, <4>1 DEF ClipDevs
      <4>3. clipDev' = [clipDev EXCEPT !.sema = m, !.bufq = t, !.nLeft = l]
        BY <2>1, <3>1, <4>1 DEF ClipDevs
      <4>4. clipDev' \in ClipDevs
        BY <2>1, <2>3, <4>2, <4>3 DEF ClipDevs
      <4>5. clipProc' \in ClipProcs
        BY <2>1, <2>3, <3>1 DEF ClipProcs
      <4> QED BY <4>4, <4>5
    <3>3. /\ clipDev'.sema = clipDev.sema - 1 /\ clipDev'.bufq = Tail(clipDev.bufq)
          /\ clipDev'.clipq = clipDev.clipq /\ clipDev'.nOff = clipDev.nOff
          /\ clipDev'.nLeft = clipDev.nLeft - 1
      BY <2>1, <2>2, <3>1 DEF ClipDevs
    <3>4. clipProc'.held = clipProc.held \cup {Head(clipDev.bufq)} /\ clipProc'.pc = "idle"
      BY <2>1, <2>2, <3>1 DEF ClipProcs
    <3>5. Kept(clipDev', clipProc')
      BY <1>2, <2>1, <3>2, <3>3, <3>4, TakingKeeps
    <3> QED BY <2>1, <3>4, <3>5 DEF ClipInv, Pc
  <2> QED BY <2>4, <2>5
<1> QED BY <1>1, <1>2

LEMMA CountDownKeeps == ASSUME ClipInv, CountDown PROVE ClipInv'
<1>1. /\ clipDev \in ClipDevs /\ clipProc \in ClipProcs /\ clipProc.pc = "left"
      /\ Kept(clipDev, clipProc) /\ clipKind' = clipKind /\ clipHw' = clipHw
      /\ clipDev' = [clipDev EXCEPT !.nLeft = clipProc.left - 1]
      /\ clipProc' = [clipProc EXCEPT !.pc = "idle"]
  BY DEF ClipInv, Kept, CountDown, Pc, GoTo
<1>2. /\ clipDev' \in ClipDevs /\ clipDev'.sema = clipDev.sema /\ clipDev'.bufq = clipDev.bufq
      /\ clipDev'.clipq = clipDev.clipq /\ clipDev'.nOff = clipDev.nOff
      /\ clipDev'.nLeft = clipProc.left - 1
  BY <1>1 DEF ClipDevs, ClipProcs
<1>3. clipProc' \in ClipProcs /\ clipProc'.held = clipProc.held /\ clipProc'.pc = "idle"
  BY <1>1 DEF ClipProcs, ClipPcs
<1>4. Kept(clipDev', clipProc')
  <2>1. PICK d, p, g, q : d = clipDev /\ p = clipProc /\ g = clipDev' /\ q = clipProc'
    OBVIOUS
  <2>2. Kept(d, p) /\ p.pc = "left" /\ g \in ClipDevs /\ q \in ClipProcs
        /\ g.sema = d.sema /\ g.bufq = d.bufq /\ g.clipq = d.clipq /\ g.nOff = d.nOff
        /\ g.nLeft = p.left - 1 /\ q.held = p.held /\ q.pc = "idle"
    BY <1>1, <1>2, <1>3, <2>1
  <2>3. Kept(g, q)
    BY <2>2, CountingKeeps
  <2> QED BY <2>1, <2>3
<1> QED BY <1>1, <1>3, <1>4 DEF ClipInv, Pc

LEMMA WriteExKeeps ==
  ASSUME ClipInv, NEW info \in ClipInfos, NEW end \in BOOLEAN, clipdev_write_ex(info, end)
  PROVE  ClipInv' /\ \A i \in 1 .. Len(clipDev.clipq) : clipDev'.clipq[i] = clipDev.clipq[i]
<1>1. /\ clipDev \in ClipDevs /\ clipProc \in ClipProcs /\ clipProc.pc = "idle"
      /\ Kept(clipDev, clipProc) /\ clipKind' = clipKind /\ clipHw' = clipHw
      /\ info \in clipProc.held
      /\ clipDev' = [clipDev EXCEPT !.clipq = Append(@, [info EXCEPT !.end = end])]
      /\ clipProc' = [clipProc EXCEPT !.pc = "start", !.held = @ \ {info}, !.eos = FALSE]
  BY DEF ClipInv, Kept, clipdev_write_ex, Pc
<1>2. PICK k : k = Append(clipDev.clipq, [info EXCEPT !.end = end])
  OBVIOUS
<1>3. k \in Seq(ClipInfos)
  <2>1. [info EXCEPT !.end = end] \in ClipInfos
    BY DEF ClipInfos
  <2> QED BY <1>1, <1>2, <2>1 DEF ClipDevs
<1>4. clipDev' = [clipDev EXCEPT !.clipq = k]
  BY <1>1, <1>2 DEF ClipDevs
<1>5. /\ clipDev' \in ClipDevs /\ clipDev'.sema = clipDev.sema /\ clipDev'.bufq = clipDev.bufq
      /\ clipDev'.clipq = k /\ clipDev'.nOff = clipDev.nOff /\ clipDev'.nLeft = clipDev.nLeft
  BY <1>1, <1>3, <1>4 DEF ClipDevs
<1>6. clipProc' \in ClipProcs /\ clipProc'.held = clipProc.held \ {info} /\ clipProc'.pc = "start"
  BY <1>1 DEF ClipProcs, ClipPcs
<1>7. Kept(clipDev', clipProc') /\ \A i \in 1 .. Len(clipDev.clipq) : clipDev'.clipq[i] = clipDev.clipq[i]
  <2>1. info \in clipProc.held /\ clipProc.pc = "idle" /\ Kept(clipDev, clipProc)
        /\ clipDev'.clipq = Append(clipDev.clipq, [info EXCEPT !.end = end])
    BY <1>1, <1>2, <1>5, Zenon
  <2> QED BY <2>1, <1>5, <1>6, QueueingKeeps
<1> QED BY <1>1, <1>6, <1>7 DEF ClipInv, Pc

LEMMA FlushKeeps == ASSUME ClipInv, ClipFlush PROVE ClipInv'
<1>1. /\ clipProc \in ClipProcs /\ clipProc.pc = "idle"
      /\ Kept(clipDev, clipProc) /\ clipKind' = clipKind /\ clipHw' = clipHw
      /\ clipDev' = clipdev_stop(clipDev) /\ clipProc' = [clipProc EXCEPT !.pc = "flush"]
  BY DEF ClipInv, Kept, ClipFlush, Pc, GoTo
<1>2. clipProc' \in ClipProcs /\ clipProc'.held = clipProc.held /\ clipProc'.pc = "flush"
  BY <1>1 DEF ClipProcs, ClipPcs
<1>3. Kept(clipDev', clipProc')
  BY <1>1, <1>2, StopKeeps
<1> QED BY <1>1, <1>2, <1>3 DEF ClipInv, Pc

\* The steps of the process that leave buffers and counts alone.
LEMMA ProcessStepKeeps ==
  ASSUME ClipInv, EndStream \/ Start \/ HwCheck \/ HwReady \/ HwTake \/ HwWrite \/ FlushHw
  PROVE  ClipInv'
<1>1. /\ clipDev \in ClipDevs /\ clipProc \in ClipProcs /\ clipHw \in ClipHws
      /\ Kept(clipDev, clipProc)
  BY DEF ClipInv, Kept
<1>2. CASE EndStream
  <2>1. clipProc' \in ClipProcs /\ clipProc'.held = clipProc.held
        /\ clipProc.pc = "idle" /\ clipProc'.pc = "idle" /\ clipDev' = clipDev
    BY <1>1, <1>2 DEF EndStream, ClipProcs, ClipPcs, Pc
  <2> QED BY <1>1, <1>2, <2>1, ProcMoves DEF EndStream, ClipInv, Pc
<1>3. CASE Start
  <2>1. clipProc' \in ClipProcs /\ clipProc'.held = clipProc.held
        /\ clipProc.pc = "start" /\ clipProc'.pc = "check"
        /\ clipDev' = [clipDev EXCEPT !.playing = TRUE]
    BY <1>1, <1>3 DEF Start, ClipProcs, ClipPcs, Pc, GoTo
  <2>2. Kept(clipDev', clipProc)
    <3>1. clipDev' \in ClipDevs
      BY <1>1, <2>1 DEF ClipDevs
    <3>2. /\ clipDev'.sema = clipDev.sema /\ clipDev'.bufq = clipDev.bufq
          /\ clipDev'.clipq = clipDev.clipq /\ clipDev'.nOff = clipDev.nOff
          /\ clipDev'.nLeft = clipDev.nLeft
      BY <1>1, <2>1 DEF ClipDevs
    <3>3. clipDev'.nOff <= Len(clipDev.clipq)
      BY <1>1, <3>2 DEF Kept, Counted
    <3> QED BY <1>1, <2>1, <3>1, <3>2, <3>3, DevMoves
  <2> QED BY <1>3, <2>1, <2>2, ProcMoves DEF Start, ClipInv, Pc
<1>4. CASE HwCheck
  <2>1. clipProc' \in ClipProcs /\ clipProc'.held = clipProc.held
        /\ clipProc.pc = "check" /\ clipProc'.pc \in {"ready", "idle"}
        /\ (clipDev' = clipDev \/ clipDev' = [clipDev EXCEPT !.playing = FALSE])
    BY <1>1, <1>4 DEF HwCheck, ClipProcs, ClipPcs, Pc, GoTo
  <2>2. Kept(clipDev', clipProc)
    <3>1. clipDev' \in ClipDevs
      BY <1>1, <2>1 DEF ClipDevs
    <3>2. /\ clipDev'.sema = clipDev.sema /\ clipDev'.bufq = clipDev.bufq
          /\ clipDev'.clipq = clipDev.clipq /\ clipDev'.nOff = clipDev.nOff
          /\ clipDev'.nLeft = clipDev.nLeft
      BY <1>1, <2>1 DEF ClipDevs
    <3>3. clipDev'.nOff <= Len(clipDev.clipq)
      BY <1>1, <3>2 DEF Kept, Counted
    <3> QED BY <1>1, <2>1, <3>1, <3>2, <3>3, DevMoves
  <2> QED BY <1>4, <2>1, <2>2, ProcMoves DEF HwCheck, ClipInv, Pc
<1>5. CASE HwReady
  <2>1. clipProc' \in ClipProcs /\ clipProc'.held = clipProc.held
        /\ clipProc.pc = "ready" /\ clipProc'.pc \in {"take", "idle"} /\ clipDev' = clipDev
    BY <1>1, <1>5 DEF HwReady, ClipProcs, ClipPcs, Pc, GoTo
  <2> QED BY <1>1, <1>5, <2>1, ProcMoves DEF HwReady, ClipInv, Pc
<1>6. CASE HwTake
  <2>1. CASE NextUnwritten(clipDev)
    <3>1. PICK l : l = clipDev.clipq[clipDev.nOff + 1].buf
      OBVIOUS
    <3>2. l \in ClipBufs /\ l \in Int
      BY <1>1, <2>1, <3>1, ClipsAreBuffers DEF ClipBufs
    <3>3. clipProc' = [clipProc EXCEPT !.pc = "write", !.left = l]
          /\ clipDev' = [clipDev EXCEPT !.nOff = @ + 1] /\ clipProc.pc = "take"
      BY <1>6, <2>1, <3>1 DEF HwTake, Pc
    <3>4. clipProc' \in ClipProcs /\ clipProc'.held = clipProc.held
          /\ clipProc'.pc = "write" /\ clipProc'.left = l
      BY <1>1, <3>2, <3>3 DEF ClipProcs, ClipPcs
    <3>5. Kept(clipDev', clipProc)
      <4>2. /\ clipDev' \in ClipDevs /\ clipDev'.sema = clipDev.sema /\ clipDev'.bufq = clipDev.bufq
            /\ clipDev'.clipq = clipDev.clipq /\ clipDev'.nOff = clipDev.nOff + 1
            /\ clipDev'.nLeft = clipDev.nLeft
        BY <1>1, <3>3 DEF ClipDevs
      <4>3. clipDev'.nOff <= Len(clipDev.clipq)
        BY <1>1, <2>1, <4>2, ClipsAreBuffers
      <4> QED BY <1>1, <3>3, <4>2, <4>3, DevMoves
    <3>6. Kept(clipDev', clipProc')
      BY <3>3, <3>4, <3>5, ProcMoves
    <3> QED BY <1>6, <3>2, <3>4, <3>6 DEF HwTake, ClipInv, Pc
  <2>2. CASE ~NextUnwritten(clipDev)
    <3>1. clipProc' \in ClipProcs /\ clipProc'.held = clipProc.held
          /\ clipProc.pc = "take" /\ clipProc'.pc = "idle" /\ clipDev' = clipDev
      BY <1>1, <1>6, <2>2 DEF HwTake, ClipProcs, ClipPcs, Pc, GoTo
    <3> QED BY <1>1, <1>6, <3>1, ProcMoves DEF HwTake, ClipInv, Pc
  <2> QED BY <2>1, <2>2
<1>7. CASE HwWrite
  <2>1. clipProc' \in ClipProcs /\ clipProc'.held = clipProc.held
        /\ clipProc.pc = "write" /\ clipProc'.pc = "ready" /\ clipDev' = clipDev
    BY <1>1, <1>7 DEF HwWrite, ClipProcs, ClipPcs, Pc, GoTo
  <2>2. clipHw' \in ClipHws
    BY <1>1, <1>7 DEF HwWrite, WriteBlock, ClipInv, ClipHws
  <2> QED BY <1>1, <1>7, <2>1, <2>2, ProcMoves DEF HwWrite, ClipInv, Pc
<1>8. CASE FlushHw
  <2>1. clipProc' \in ClipProcs /\ clipProc'.held = clipProc.held
        /\ clipProc.pc = "flush" /\ clipProc'.pc = "idle" /\ clipDev' = clipDev
        /\ clipHw' \in ClipHws
    BY <1>1, <1>8 DEF FlushHw, ClipProcs, ClipPcs, Pc, GoTo, ClipHws
  <2> QED BY <1>1, <1>8, <2>1, ProcMoves DEF FlushHw, ClipInv, Pc
<1> QED BY <1>2, <1>3, <1>4, <1>5, <1>6, <1>7, <1>8

LEMMA DecoderStepKeeps ==
  ASSUME ClipInv, ReadBlock \/ BlockRead
  PROVE  ClipInv'
<1>1. /\ clipDev \in ClipDevs /\ clipProc \in ClipProcs /\ clipHw \in ClipHws
      /\ Kept(clipDev, clipProc)
  BY DEF ClipInv, Kept
<1>2. CASE ReadBlock
  BY <1>1, <1>2 DEF ReadBlock, ClipInv, ClipHws, Pc
<1>3. CASE BlockRead
  <2> DEFINE h == [clipHw EXCEPT !.cur = {}]
             e == clipdev_clipinfo_done(clipDev)
  <2>1. h \in ClipHws
    BY <1>1 DEF ClipHws
  <2>2. clipProc.pc = "left" => Len(clipDev.bufq) + 1 - clipProc.left < ClipDrift
    BY <1>3 DEF BlockRead, Pc
  <2>3. Kept(e, clipProc)
    BY <1>1, <2>2, DoneKeeps
  <2> HIDE DEF h, e
  <2>4. /\ clipProc' = clipProc /\ clipKind' = clipKind
        /\ \/ clipDev' = clipdev_hw_write(e, h).dev /\ clipHw' = clipdev_hw_write(e, h).hw
           \/ clipDev' = clipdev_start(e, h).dev /\ clipHw' = clipdev_start(e, h).hw
    BY <1>3 DEF BlockRead, vid_osi_task, aud_osi_task, h, e
  <2>5. Kept(clipDev', clipProc)
    BY <2>3, <2>4, HwWriteKeeps, StartKeeps
  <2>6. clipHw' \in ClipHws
    <3>1. e \in ClipDevs
      BY <2>3 DEF Kept
    <3>2. [e EXCEPT !.playing = TRUE] \in ClipDevs
      BY <3>1 DEF ClipDevs
    <3>3. clipdev_start(e, h).hw = clipdev_hw_write([e EXCEPT !.playing = TRUE], h).hw
      BY DEF clipdev_start, clipdev_hw_write
    <3> QED BY <2>1, <2>4, <3>1, <3>2, <3>3, HwWriteTyped
  <2> QED BY <2>4, <2>5, <2>6 DEF ClipInv, Pc
<1> QED BY <1>2, <1>3

LEMMA ClipStepKeeps == ClipInv /\ [ClipNext]_clipVars => ClipInv'
<1> SUFFICES ASSUME ClipInv, [ClipNext]_clipVars PROVE ClipInv'
  OBVIOUS
<1>1. CASE AudClipCalls \/ VidClipCalls
  <2>1. CASE \E info \in ClipInfos : aud_osd_write(info) \/ vid_osd_write(info)
    <3>1. PICK info \in ClipInfos : aud_osd_write(info) \/ vid_osd_write(info)
      BY <2>1
    <3>2. clipProc.eos \in BOOLEAN /\ info.end \in BOOLEAN
      BY DEF ClipInv, Kept, ClipProcs, ClipInfos
    <3>3. \E end \in BOOLEAN : clipdev_write_ex(info, end)
      BY <3>1, <3>2 DEF aud_osd_write, vid_osd_write
    <3> QED BY <3>3, WriteExKeeps
  <2>2. CASE ~\E info \in ClipInfos : aud_osd_write(info) \/ vid_osd_write(info)
    <3>1. GetBuf \/ GetBufNowait \/ EndStream \/ ClipReset \/ ClipFlush
      BY <1>1, <2>2 DEF AudClipCalls, VidClipCalls, aud_osi_reset_clipbuf, vid_osi_reset_clipbuf,
                        aud_osi_clip_flush, vid_osi_clip_flush
    <3> QED BY <3>1, GetBufKeeps, ProcessStepKeeps, ResetKeeps, FlushKeeps
  <2> QED BY <2>1, <2>2
<1>2. CASE ClipOpened \/ ClipClosed
  BY <1>2, OpenedKeeps
<1>3. CASE UNCHANGED clipVars
  BY <1>3 DEF clipVars, ClipInv, Pc
<1>4. CASE Start \/ HwCheck \/ HwReady \/ HwTake \/ HwWrite \/ FlushHw
  BY <1>4, ProcessStepKeeps
<1>5. CASE CountDown
  BY <1>5, CountDownKeeps
<1>6. CASE ReadBlock \/ BlockRead
  BY <1>6, DecoderStepKeeps
<1> QED
  BY <1>1, <1>2, <1>3, <1>4, <1>5, <1>6
  DEF ClipNext, AudInitClip, aud_osi_init_mixer, VidInitClip, AudCloseClip,
      aud_osi_close_mixer, VidCloseClip

\* NowaitNeverSleeps and the types follow.
LEMMA KeptIsSafe == ClipInv => ClipTypeOK /\ NowaitNeverSleeps
<1> SUFFICES ASSUME ClipInv PROVE ClipTypeOK /\ NowaitNeverSleeps
  OBVIOUS
<1>1. Kept(clipDev, clipProc)
  BY DEF ClipInv
<1>2. ClipTypeOK
  BY <1>1, KeptIsTyped DEF ClipInv, ClipTypeOK, ClipHws
<1>3. NowaitNeverSleeps
  <2> SUFFICES ASSUME clipProc.pc = "idle", clipDev.nLeft > 0
               PROVE  clipDev.sema > 0 /\ clipDev.bufq # <<>>
    BY DEF NowaitNeverSleeps, Pc
  <2>1. clipDev.nLeft \in Int /\ clipDev.bufq \in Seq(ClipInfos)
    BY <1>1 DEF Kept, ClipDevs
  <2>2. clipDev.nLeft <= Len(clipDev.bufq) /\ clipDev.sema = Len(clipDev.bufq)
    BY <1>1 DEF Kept, Counted
  <2>3. Len(clipDev.bufq) > 0
    BY <2>1, <2>2
  <2> QED BY <2>1, <2>2, <2>3
<1> QED BY <1>2, <1>3

-----------------------------------------------------------------------------
(* The decoder's registers.                                                 *)

\* What the registers may hold: the first n clips, of which the decoder reads
\* at most one and has the address of at most one more.
Shown(d, h, n) ==
  \/ n = 0 /\ h.slot = {} /\ h.cur = {}
  \/ n = 1 /\ h.slot = {} /\ h.cur = {d.clipq[1].buf}
  \/ n = 1 /\ h.slot = {d.clipq[1].buf} /\ h.cur = {}
  \/ n = 2 /\ h.slot = {d.clipq[2].buf} /\ h.cur = {d.clipq[1].buf}

\* A process about to write a block has taken its clip, and found the register
\* free; a flush that has not reached the registers yet may show anything.
BlockInv ==
  /\ ClipInv
  /\ clipProc.pc \in {"take", "write"} => clipHw.slot = {}
  /\ Pc("write") => /\ clipDev.nOff > 0
                    /\ clipProc.left = clipDev.clipq[clipDev.nOff].buf
                    /\ Shown(clipDev, clipHw, clipDev.nOff - 1)
  /\ clipProc.pc \notin {"write", "flush"} => Shown(clipDev, clipHw, clipDev.nOff)

LEMMA ShownMore ==
  ASSUME NEW d \in ClipDevs, NEW g, NEW h, NEW n \in Int, n <= Len(d.clipq), Shown(d, h, n),
         \A i \in 1 .. Len(d.clipq) : g.clipq[i] = d.clipq[i]
  PROVE  Shown(g, h, n)
<1>1. Len(d.clipq) \in Nat
  BY DEF ClipDevs
<1>2. n >= 1 => g.clipq[1] = d.clipq[1]
  BY <1>1
<1>3. n >= 2 => g.clipq[2] = d.clipq[2]
  BY <1>1
<1> QED BY <1>2, <1>3 DEF Shown

\* The block read is the oldest clip's.
LEMMA DoneShows ==
  ASSUME NEW d, NEW p, NEW h \in ClipHws, Kept(d, p), Shown(d, h, d.nOff), h.cur # {}
  PROVE  Shown(clipdev_clipinfo_done(d), [h EXCEPT !.cur = {}], clipdev_clipinfo_done(d).nOff)
<1> DEFINE e == clipdev_clipinfo_done(d)
           k == [h EXCEPT !.cur = {}]
<1>1. d \in ClipDevs /\ d.clipq \in Seq(ClipInfos) /\ d.nOff \in Nat /\ d.nOff <= Len(d.clipq)
  BY DEF Kept, Counted, ClipDevs
<1>2. d.nOff \in {1, 2}
  BY DEF Shown
<1>3. d.clipq # <<>>
  BY <1>1, <1>2
<1>4. e = [d EXCEPT !.clipq = Tail(@), !.bufq = Append(@, Head(d.clipq)),
                 !.nOff = IF @ > 0 THEN @ - 1 ELSE @,
                 !.nLeft = IF @ < ClipSegs THEN @ + 1 ELSE ClipSegs,
                 !.sema = @ + 1]
  BY <1>3 DEF clipdev_clipinfo_done
<1>5. e.nOff = d.nOff - 1 /\ e.clipq = Tail(d.clipq)
  <2>1. e.nOff = IF d.nOff > 0 THEN d.nOff - 1 ELSE d.nOff
    BY <1>1, <1>4 DEF ClipDevs
  <2>2. e.clipq = Tail(d.clipq)
    BY <1>1, <1>4 DEF ClipDevs
  <2> QED BY <2>1, <2>2, <1>2
<1>6. k.cur = {} /\ k.slot = h.slot
  BY DEF ClipHws
<1>7. d.nOff = 2 => e.clipq[1] = d.clipq[2]
  <2> SUFFICES ASSUME d.nOff = 2 PROVE Tail(d.clipq)[1] = d.clipq[2]
    BY <1>5
  <2>1. Len(d.clipq) \in Nat /\ Len(d.clipq) >= 2
    BY <1>1
  <2> QED BY <1>1, <2>1
<1> HIDE DEF e, k
<1>8. CASE d.nOff = 1
  <2>1. h.slot = {}
    BY <1>8 DEF Shown
  <2>2. e.nOff = 0 /\ k.cur = {} /\ k.slot = {}
    <3>1. d.nOff - 1 = 0
      BY <1>8
    <3> QED BY <1>5, <1>6, <2>1, <3>1, Zenon
  <2>3. Shown(e, k, e.nOff)
    BY <2>2 DEF Shown
  <2> QED BY <2>3 DEF e, k
<1>9. CASE d.nOff = 2
  <2>1. h.slot = {d.clipq[2].buf}
    BY <1>9 DEF Shown
  <2>2. e.nOff = 1 /\ k.cur = {} /\ k.slot = {e.clipq[1].buf}
    <3>1. d.nOff - 1 = 1
      BY <1>9
    <3> QED BY <1>5, <1>6, <1>7, <1>9, <2>1, <3>1, Zenon
  <2>3. Shown(e, k, e.nOff)
    BY <2>2 DEF Shown
  <2> QED BY <2>3 DEF e, k
<1> QED BY <1>2, <1>8, <1>9

\* The next block goes to a free register.
LEMMA HwWriteShows ==
  ASSUME NEW d \in ClipDevs, NEW h \in ClipHws, Shown(d, h, d.nOff)
  PROVE  LET r == clipdev_hw_write(d, h) IN Shown(r.dev, r.hw, r.dev.nOff)
<1> DEFINE r == clipdev_hw_write(d, h)
           go == d.playing /\ h.slot = {} /\ NextUnwritten(d)
<1>1. CASE ~go
  <2>1. r.dev = d /\ r.hw = h
    BY <1>1 DEF clipdev_hw_write
  <2> QED BY <2>1
<1>2. CASE go
  <2>1. r.dev = [d EXCEPT !.nOff = @ + 1] /\ r.hw = WriteBlock(h, d.clipq[d.nOff + 1])
    BY <1>2 DEF clipdev_hw_write
  <2>2. r.dev.nOff = d.nOff + 1 /\ r.dev.clipq = d.clipq
    BY <2>1 DEF ClipDevs
  <2>3. r.hw.cur = h.cur /\ r.hw.slot = {d.clipq[d.nOff + 1].buf}
    BY <2>1 DEF WriteBlock, ClipHws
  <2>4. \/ d.nOff = 0 /\ h.cur = {}
        \/ d.nOff = 1 /\ h.cur = {d.clipq[1].buf}
    BY <1>2 DEF Shown, ClipHws
  <2> HIDE DEF r
  <2>5. Shown(r.dev, r.hw, r.dev.nOff)
    BY <2>2, <2>3, <2>4 DEF Shown
  <2> QED BY <2>5 DEF r
<1> QED BY <1>1, <1>2

LEMMA StartShows ==
  ASSUME NEW d \in ClipDevs, NEW h \in ClipHws, Shown(d, h, d.nOff)
  PROVE  LET r == clipdev_start(d, h) IN Shown(r.dev, r.hw, r.dev.nOff)
<1> DEFINE e == [d EXCEPT !.playing = TRUE]
           q == clipdev_hw_write(e, h)
           r == clipdev_start(d, h)
<1>1. e \in ClipDevs /\ e.nOff = d.nOff /\ e.clipq = d.clipq
  BY DEF ClipDevs
<1>2. Shown(e, h, e.nOff)
  BY <1>1 DEF Shown
<1>3. Shown(q.dev, q.hw, q.dev.nOff) /\ q.dev \in ClipDevs
  <2>1. q.dev \in ClipDevs
    <3>1. [e EXCEPT !.nOff = @ + 1] \in ClipDevs
      <4>1. \A x \in ClipDevs : [x EXCEPT !.nOff = @ + 1] \in ClipDevs
        <5> SUFFICES ASSUME NEW x \in ClipDevs PROVE [x EXCEPT !.nOff = @ + 1] \in ClipDevs
          OBVIOUS
        <5>1. PICK o : o = x.nOff + 1
          OBVIOUS
        <5>2. o \in Nat
          BY <5>1 DEF ClipDevs
        <5>3. [x EXCEPT !.nOff = o] \in ClipDevs
          BY <5>2 DEF ClipDevs
        <5> QED BY <5>1, <5>3
      <4> QED BY <1>1, <4>1, Zenon
    <3> QED BY <1>1, <3>1 DEF clipdev_hw_write
  <2> QED BY <1>1, <1>2, <2>1, HwWriteShows
<1>4. r.hw = q.hw /\ (r.dev = q.dev \/ r.dev = [q.dev EXCEPT !.playing = FALSE])
  BY DEF clipdev_start, clipdev_hw_write
<1> HIDE DEF q, r, e
<1>5. r.dev.nOff = q.dev.nOff /\ r.dev.clipq = q.dev.clipq
  BY <1>3, <1>4 DEF ClipDevs
<1>6. Shown(r.dev, r.hw, r.dev.nOff)
  BY <1>3, <1>4, <1>5 DEF Shown
<1> QED BY <1>6 DEF r

LEMMA BlockInitHolds == ClipInit => BlockInv
<1> SUFFICES ASSUME ClipInit PROVE BlockInv
  OBVIOUS
<1>1. ClipInv
  BY ClipInitKept
<1>2. clipHw.slot = {} /\ clipHw.cur = {} /\ clipProc.pc = "idle"
  BY DEF ClipInit, ClipIdle
<1>3. clipDev.nOff = 0
  <2>1. PICK d : d = clipdev_create
    OBVIOUS
  <2>2. d \in ClipDevs /\ d.nOff = 0
    <3>1. Kept(d, ClipIdle)
      <4>1. ClipIdle \in ClipProcs /\ ClipIdle.held = {} /\ ClipIdle.pc = "idle"
        BY DEF ClipIdle, ClipProcs, ClipPcs
      <4> QED BY <2>1, <4>1, FreshKept
    <3> QED BY <2>1, <3>1 DEF Kept, clipdev_create
  <2>3. clipDev = [d EXCEPT !.open = FALSE]
    BY <2>1 DEF ClipInit, clipdev_deleted
  <2> QED BY <2>2, <2>3 DEF ClipDevs
<1> QED BY <1>1, <1>2, <1>3 DEF BlockInv, Shown, Pc

\* A new or a deleted device, and registers that hold nothing.
LEMMA FreshShows ==
  ASSUME NEW d, d = clipdev_create \/ d = clipdev_deleted
  PROVE  d.nOff = 0
<1>1. PICK c : c = clipdev_create
  OBVIOUS
<1>2. c \in ClipDevs /\ c.nOff = 0
  <2>1. ClipIdle \in ClipProcs /\ ClipIdle.held = {} /\ ClipIdle.pc = "idle"
    BY DEF ClipIdle, ClipProcs, ClipPcs
  <2> QED BY <1>1, <2>1, FreshKept DEF Kept, clipdev_create
<1>3. d = c \/ d = [c EXCEPT !.open = FALSE]
  BY <1>1 DEF clipdev_deleted
<1> QED BY <1>2, <1>3 DEF ClipDevs

LEMMA BlockStepHolds ==
  ASSUME ~ClipWindow, BlockInv, [ClipNext]_clipVars
  PROVE  BlockInv'
<1>1. ClipInv'
  BY ClipStepKeeps DEF BlockInv
<1>2. /\ clipDev \in ClipDevs /\ clipProc \in ClipProcs /\ clipHw \in ClipHws
      /\ Kept(clipDev, clipProc) /\ clipDev.nOff \in Nat /\ clipDev.nOff <= Len(clipDev.clipq)
  BY DEF BlockInv, ClipInv, Kept, Counted, ClipDevs
<1>3. CASE UNCHANGED clipVars
  BY <1>1, <1>3 DEF clipVars, BlockInv, Pc
<1>4. CASE ClipOpened \/ ClipClosed \/ ClipReset
  <2>1. clipDev'.nOff = 0
    BY <1>4, FreshShows DEF ClipOpened, ClipClosed, ClipReset
  <2>2. clipHw'.slot = {} /\ clipHw'.cur = {} /\ clipProc'.pc = "idle"
    BY <1>2, <1>4 DEF ClipOpened, ClipClosed, ClipReset, ClipIdle, ClipProcs, Pc
  <2> QED BY <1>1, <2>1, <2>2 DEF BlockInv, Shown, Pc
<1>5. CASE GetBuf \/ GetBufNowait \/ CountDown \/ EndStream
  <2>1. clipHw' = clipHw /\ clipProc.pc \in {"idle", "left"} /\ clipProc'.pc \in {"idle", "left"}
    BY <1>2, <1>5 DEF GetBuf, GetBufNowait, CountDown, EndStream, Pc, GoTo, ClipProcs
  <2>2. clipDev'.nOff = clipDev.nOff /\ clipDev'.clipq = clipDev.clipq
    BY <1>2, <1>5 DEF GetBuf, GetBufNowait, CountDown, EndStream, ClipDevs
  <2> QED BY <1>1, <2>1, <2>2 DEF BlockInv, Shown, Pc
<1>6. CASE \E info \in ClipInfos : aud_osd_write(info) \/ vid_osd_write(info)
  <2>1. PICK info \in ClipInfos : aud_osd_write(info) \/ vid_osd_write(info)
    BY <1>6
  <2>2. clipProc.eos \in BOOLEAN /\ info.end \in BOOLEAN
    BY <1>2 DEF ClipProcs, ClipInfos
  <2>3. PICK end \in BOOLEAN : clipdev_write_ex(info, end)
    BY <2>1, <2>2 DEF aud_osd_write, vid_osd_write
  <2>4. \A i \in 1 .. Len(clipDev.clipq) : clipDev'.clipq[i] = clipDev.clipq[i]
    BY <2>3, WriteExKeeps DEF BlockInv
  <2>5. clipHw' = clipHw /\ clipProc.pc = "idle" /\ clipProc'.pc = "start"
    BY <1>2, <2>3 DEF clipdev_write_ex, Pc, ClipProcs
  <2>6. clipDev'.nOff = clipDev.nOff
    BY <1>2, <2>3 DEF clipdev_write_ex, ClipDevs
  <2>7. Shown(clipDev', clipHw', clipDev'.nOff)
    BY <1>2, <2>4, <2>5, <2>6, ShownMore DEF BlockInv
  <2> QED BY <1>1, <2>5, <2>7 DEF BlockInv, Pc
<1>7. CASE Start \/ HwCheck \/ HwReady
  <2>1. clipHw' = clipHw /\ clipProc.pc \notin {"write", "flush"}
        /\ clipProc'.pc \notin {"write", "flush"}
        /\ (clipProc'.pc = "take" => clipHw.slot = {})
    BY <1>2, <1>7 DEF Start, HwCheck, HwReady, Pc, GoTo, ClipProcs
  <2>2. clipDev'.nOff = clipDev.nOff /\ clipDev'.clipq = clipDev.clipq
    BY <1>2, <1>7 DEF Start, HwCheck, HwReady, ClipDevs
  <2> QED BY <1>1, <2>1, <2>2 DEF BlockInv, Shown, Pc
<1>8. CASE HwTake
  <2>1. clipHw' = clipHw /\ clipProc.pc = "take" /\ clipHw.slot = {}
        /\ Shown(clipDev, clipHw, clipDev.nOff)
    BY <1>8 DEF HwTake, BlockInv, Pc
  <2>2. CASE NextUnwritten(clipDev)
    <3>1. PICK l, o : l = clipDev.clipq[clipDev.nOff + 1].buf /\ o = clipDev.nOff + 1
      OBVIOUS
    <3>2. clipProc' = [clipProc EXCEPT !.pc = "write", !.left = l]
          /\ clipDev' = [clipDev EXCEPT !.nOff = o]
      BY <1>2, <1>8, <2>2, <3>1 DEF HwTake, ClipDevs
    <3>3. /\ clipProc'.pc = "write" /\ clipProc'.left = l
          /\ clipDev'.nOff = o /\ clipDev'.clipq = clipDev.clipq
      BY <1>2, <3>2 DEF ClipProcs, ClipDevs
    <3>4. o > 0 /\ o - 1 = clipDev.nOff
      BY <1>2, <3>1
    <3>5. l = clipDev'.clipq[clipDev'.nOff].buf
      BY <3>1, <3>3
    <3>6. Shown(clipDev', clipHw', clipDev'.nOff - 1)
      BY <2>1, <3>3, <3>4 DEF Shown
    <3> QED BY <1>1, <2>1, <3>3, <3>4, <3>5, <3>6 DEF BlockInv, Pc
  <2>3. CASE ~NextUnwritten(clipDev)
    <3>1. clipProc'.pc = "idle" /\ clipDev' = clipDev
      BY <1>2, <1>8, <2>3 DEF HwTake, GoTo, ClipProcs
    <3> QED BY <1>1, <2>1, <3>1 DEF BlockInv, Pc
  <2> QED BY <2>2, <2>3
<1>9. CASE HwWrite
  <2>1. /\ clipProc.pc = "write" /\ clipDev.nOff > 0 /\ clipHw.slot = {}
        /\ clipProc.left = clipDev.clipq[clipDev.nOff].buf
        /\ Shown(clipDev, clipHw, clipDev.nOff - 1)
    BY <1>9 DEF HwWrite, BlockInv, Pc
  <2>2. clipHw' = [clipHw EXCEPT !.slot = {clipProc.left}] /\ clipDev' = clipDev
        /\ clipProc'.pc = "ready"
    BY <1>2, <1>9 DEF HwWrite, WriteBlock, GoTo, ClipProcs
  <2>3. clipHw'.slot = {clipProc.left} /\ clipHw'.cur = clipHw.cur
    BY <1>2, <2>2 DEF ClipHws
  <2>4. \/ clipDev.nOff = 1 /\ clipHw.cur = {}
        \/ clipDev.nOff = 2 /\ clipHw.cur = {clipDev.clipq[1].buf}
    <3>1. PICK n : n = clipDev.nOff - 1
      OBVIOUS
    <3>2. n \in Int /\ clipDev.nOff = n + 1
      BY <1>2, <3>1
    <3>3. Shown(clipDev, clipHw, n)
      BY <2>1, <3>1
    <3>4. \/ n = 0 /\ clipHw.cur = {}
          \/ n = 1 /\ clipHw.cur = {clipDev.clipq[1].buf}
      BY <2>1, <3>3 DEF Shown
    <3> QED BY <3>2, <3>4
  <2>5. Shown(clipDev', clipHw', clipDev'.nOff)
    BY <2>1, <2>2, <2>3, <2>4 DEF Shown
  <2> QED BY <1>1, <2>2, <2>5 DEF BlockInv, Pc
<1>10. CASE ClipFlush
  <2>1. clipProc'.pc = "flush"
    BY <1>2, <1>10 DEF ClipFlush, GoTo, ClipProcs
  <2> QED BY <1>1, <2>1 DEF BlockInv, Pc
<1>11. CASE FlushHw
  <2>1. clipProc.pc = "flush" /\ clipProc'.pc = "idle" /\ clipDev' = clipDev
        /\ clipHw'.slot = {} /\ clipHw'.cur = {}
    BY <1>2, <1>11 DEF FlushHw, GoTo, ClipProcs, Pc
  <2>2. clipDev.nOff = 0
    <3>1. clipDev.clipq = <<>>
      BY <1>2, <2>1 DEF Kept, Counted
    <3> QED BY <1>2, <3>1
  <2> QED BY <1>1, <2>1, <2>2 DEF BlockInv, Shown, Pc
<1>12. CASE ReadBlock
  <2>1. clipHw' = [slot |-> {}, cur |-> clipHw.slot] /\ clipDev' = clipDev
        /\ clipProc' = clipProc /\ clipHw.cur = {} /\ clipHw.slot # {}
    BY <1>12 DEF ReadBlock
  <2>2. Shown(clipDev, clipHw, clipDev.nOff) => Shown(clipDev', clipHw', clipDev'.nOff)
    BY <2>1 DEF Shown
  <2> QED BY <1>1, <2>1, <2>2 DEF BlockInv, Pc
<1>13. CASE BlockRead
  <2>1. clipProc.pc \notin {"take", "write"} /\ clipHw.cur # {} /\ clipProc' = clipProc
    BY <1>13 DEF BlockRead
  <2>2. CASE clipProc.pc = "flush"
    BY <1>1, <2>1, <2>2 DEF BlockInv, Pc
  <2>3. CASE clipProc.pc # "flush"
    <3> DEFINE h == [clipHw EXCEPT !.cur = {}]
               e == clipdev_clipinfo_done(clipDev)
    <3>1. Shown(e, h, e.nOff)
      BY <1>2, <2>1, <2>3, DoneShows DEF BlockInv
    <3>2. h \in ClipHws
      BY <1>2 DEF ClipHws
    <3>3. e \in ClipDevs
      <4>1. clipProc.pc = "left" => Len(clipDev.bufq) + 1 - clipProc.left < ClipDrift
        BY <1>13 DEF BlockRead, Pc
      <4>2. Kept(e, clipProc)
        BY <1>2, <4>1, DoneKeeps
      <4> QED BY <4>2 DEF Kept
    <3> HIDE DEF h, e
    <3>4. \/ clipDev' = clipdev_hw_write(e, h).dev /\ clipHw' = clipdev_hw_write(e, h).hw
          \/ clipDev' = clipdev_start(e, h).dev /\ clipHw' = clipdev_start(e, h).hw
      BY <1>13 DEF BlockRead, vid_osi_task, aud_osi_task, h, e
    <3>5. Shown(clipDev', clipHw', clipDev'.nOff)
      BY <3>1, <3>2, <3>3, <3>4, HwWriteShows, StartShows
    <3> QED BY <1>1, <2>1, <2>3, <3>5 DEF BlockInv, Pc
  <2> QED BY <2>2, <2>3
<1> QED
  <2>1. CASE AudClipCalls \/ VidClipCalls
    BY <2>1, <1>4, <1>5, <1>6, <1>10
    DEF AudClipCalls, VidClipCalls, aud_osi_reset_clipbuf, vid_osi_reset_clipbuf,
        aud_osi_clip_flush, vid_osi_clip_flush
  <2>2. CASE ~(AudClipCalls \/ VidClipCalls)
    BY <2>2, <1>3, <1>4, <1>5, <1>7, <1>8, <1>9, <1>11, <1>12, <1>13
    DEF ClipNext, AudInitClip, aud_osi_init_mixer, VidInitClip, AudCloseClip,
        aud_osi_close_mixer, VidCloseClip
  <2> QED BY <2>1, <2>2

\* The registers hold only clips, and no clip's buffer is free or held.
LEMMA ShownIsNotFree == BlockInv => NotFilledWhileRead
<1> SUFFICES ASSUME BlockInv, clipProc.pc # "flush",
                    NEW b \in clipHw.slot \cup clipHw.cur
             PROVE  b \notin BufsIn(clipDev.bufq) \cup {i.buf : i \in clipProc.held}
  BY DEF NotFilledWhileRead
<1>1. /\ clipDev \in ClipDevs /\ clipDev.clipq \in Seq(ClipInfos)
      /\ clipDev.nOff \in Nat /\ clipDev.nOff <= Len(clipDev.clipq)
      /\ Once(clipDev.bufq, clipDev.clipq, clipProc.held)
  BY DEF BlockInv, ClipInv, Kept, Counted, ClipDevs
<1>2. \E n \in Int : n <= clipDev.nOff /\ Shown(clipDev, clipHw, n)
  <2>1. CASE Pc("write")
    BY <1>1, <2>1 DEF BlockInv
  <2>2. CASE ~Pc("write")
    <3>1. Shown(clipDev, clipHw, clipDev.nOff)
      BY <2>2 DEF BlockInv, Pc
    <3> QED BY <1>1, <3>1
  <2> QED BY <2>1, <2>2
<1>3. \E j \in DOMAIN clipDev.clipq : b = clipDev.clipq[j].buf
  <2>1. PICK n \in Int : n <= clipDev.nOff /\ Shown(clipDev, clipHw, n)
    BY <1>2
  <2>2. \/ n >= 1 /\ b = clipDev.clipq[1].buf
        \/ n >= 2 /\ b = clipDev.clipq[2].buf
    BY <2>1 DEF Shown
  <2> QED BY <1>1, <2>1, <2>2
<1> QED BY <1>1, <1>3 DEF Once, BufsIn

-----------------------------------------------------------------------------
(* The smart card: sequences of bytes.                                      *)

Bytes == Seq(Int)

LEMMA CatIndexed ==
  ASSUME NEW a \in Bytes, NEW b \in Bytes
  PROVE  /\ a \o b \in Bytes /\ Len(a \o b) = Len(a) + Len(b)
         /\ \A i \in 1 .. Len(a) + Len(b) : (a \o b)[i] = IF i <= Len(a) THEN a[i] ELSE b[i - Len(a)]
  BY DEF Bytes

LEMMA SameBytes ==
  ASSUME NEW a \in Bytes, NEW b \in Bytes, Len(a) = Len(b), \A i \in 1 .. Len(a) : a[i] = b[i]
  PROVE  a = b
  BY DEF Bytes

LEMMA CatAssoc ==
  ASSUME NEW a \in Bytes, NEW b \in Bytes, NEW c \in Bytes
  PROVE  (a \o b) \o c = a \o (b \o c)
<1>1. PICK l, m, n : l = Len(a) /\ m = Len(b) /\ n = Len(c)
  OBVIOUS
<1>2. l \in Nat /\ m \in Nat /\ n \in Nat
  BY <1>1 DEF Bytes
<1>3. PICK x, y, p, q : x = a \o b /\ y = b \o c /\ p = x \o c /\ q = a \o y
  OBVIOUS
<1>4. x \in Bytes /\ Len(x) = l + m /\ \A i \in 1 .. l + m : x[i] = IF i <= l THEN a[i] ELSE b[i - l]
  BY <1>1, <1>3, CatIndexed
<1>5. y \in Bytes /\ Len(y) = m + n /\ \A i \in 1 .. m + n : y[i] = IF i <= m THEN b[i] ELSE c[i - m]
  BY <1>1, <1>3, CatIndexed
<1>6. /\ p \in Bytes /\ Len(p) = (l + m) + n
      /\ \A i \in 1 .. (l + m) + n : p[i] = IF i <= l + m THEN x[i] ELSE c[i - (l + m)]
  BY <1>1, <1>3, <1>4, CatIndexed
<1>7. /\ q \in Bytes /\ Len(q) = l + (m + n)
      /\ \A i \in 1 .. l + (m + n) : q[i] = IF i <= l THEN a[i] ELSE y[i - l]
  BY <1>1, <1>3, <1>5, CatIndexed
<1>8. ASSUME NEW i \in 1 .. (l + m) + n PROVE p[i] = q[i]
  <2>1. CASE i <= l
    BY <1>2, <1>4, <1>6, <1>7, <2>1
  <2>2. CASE l < i /\ i <= l + m
    BY <1>2, <1>4, <1>5, <1>6, <1>7, <2>2
  <2>3. CASE l + m < i
    <3>1. i - l \in 1 .. m + n /\ ~(i - l <= m) /\ (i - l) - m = i - (l + m)
          /\ ~(i <= l) /\ ~(i <= l + m) /\ i \in 1 .. l + (m + n)
      BY <1>2, <2>3
    <3> QED BY <1>5, <1>6, <1>7, <3>1
  <2> QED BY <1>2, <2>1, <2>2, <2>3
<1>9. (l + m) + n = l + (m + n)
  BY <1>2
<1>10. p = q
  BY <1>6, <1>7, <1>8, <1>9, SameBytes
<1> QED BY <1>3, <1>10

LEMMA EmptyCat ==
  ASSUME NEW a \in Bytes
  PROVE  <<>> \in Bytes /\ Len(<<>>) = 0 /\ <<>> \o a = a /\ a \o <<>> = a
  BY DEF Bytes

\* A byte goes from the one to the other.
LEMMA ByteMoves ==
  ASSUME NEW a \in Bytes, NEW b \in Bytes, b # <<>>
  PROVE  /\ Append(a, Head(b)) \in Bytes /\ Tail(b) \in Bytes
         /\ Len(Append(a, Head(b))) = Len(a) + 1 /\ Len(Tail(b)) = Len(b) - 1
         /\ Append(a, Head(b)) \o Tail(b) = a \o b
<1>1. Append(a, Head(b)) \in Bytes /\ Tail(b) \in Bytes
      /\ Len(Append(a, Head(b))) = Len(a) + 1 /\ Len(Tail(b)) = Len(b) - 1
  BY DEF Bytes
<1>2. Append(a, Head(b)) \o Tail(b) = a \o b
  BY DEF Bytes
<1> QED BY <1>1, <1>2

\* The first k bytes go.
LEMMA BytesMove ==
  ASSUME NEW a \in Bytes, NEW b \in Bytes, NEW k \in 0 .. Len(b)
  PROVE  /\ SubSeq(b, 1, k) \in Bytes /\ Len(SubSeq(b, 1, k)) = k
         /\ SubSeq(b, k + 1, Len(b)) \in Bytes /\ Len(SubSeq(b, k + 1, Len(b))) = Len(b) - k
         /\ \A i \in 1 .. Len(b) - k : SubSeq(b, k + 1, Len(b))[i] = b[k + i]
         /\ (a \o SubSeq(b, 1, k)) \o SubSeq(b, k + 1, Len(b)) = a \o b
<1> DEFINE f == SubSeq(b, 1, k)
           r == SubSeq(b, k + 1, Len(b))
<1>1. Len(b) \in Nat /\ k \in Nat /\ k <= Len(b) /\ b \in Seq(Int)
  BY DEF Bytes
<1>2. /\ f \in Bytes /\ Len(f) = k /\ r \in Bytes /\ Len(r) = Len(b) - k
      /\ \A i \in 1 .. k : f[i] = b[i]
      /\ \A i \in 1 .. Len(b) - k : r[i] = b[k + i]
  <2>1. f \in Bytes /\ Len(f) = k /\ \A i \in 1 .. k : f[i] = b[i]
    BY <1>1 DEF Bytes
  <2>2. r \in Bytes /\ Len(r) = Len(b) - k
    BY <1>1 DEF Bytes
  <2>3. \A i \in 1 .. Len(b) - k : r[i] = b[k + i]
    BY <1>1
  <2> QED BY <2>1, <2>2, <2>3
<1> HIDE DEF f, r
<1>3. f \o r = b
  <2>1. /\ f \o r \in Bytes /\ Len(f \o r) = Len(f) + Len(r)
        /\ \A i \in 1 .. Len(f) + Len(r) : (f \o r)[i] = IF i <= Len(f) THEN f[i] ELSE r[i - Len(f)]
    BY <1>2, CatIndexed
  <2>2. Len(f) + Len(r) = Len(b)
    BY <1>1, <1>2
  <2>3. \A i \in 1 .. Len(b) : (f \o r)[i] = b[i]
    <3> SUFFICES ASSUME NEW i \in 1 .. Len(b) PROVE (f \o r)[i] = b[i]
      OBVIOUS
    <3>1. CASE i <= k
      BY <1>1, <1>2, <2>1, <2>2, <3>1
    <3>2. CASE ~(i <= k)
      <4>1. i - k \in 1 .. Len(b) - k /\ k + (i - k) = i
        BY <1>1, <3>2
      <4>2. (f \o r)[i] = r[i - k]
        BY <1>2, <2>1, <2>2, <3>2
      <4> QED BY <1>2, <4>1, <4>2
    <3> QED BY <3>1, <3>2
  <2> QED BY <2>1, <2>2, <2>3, SameBytes
<1>4. (a \o f) \o r = a \o b
  BY <1>2, <1>3, CatAssoc
<1> QED BY <1>2, <1>4 DEF f, r

LEMMA MessageBytes ==
  ASSUME NEW n \in Nat
  PROVE  Message(n) \in Bytes /\ Len(Message(n)) = n
  BY DEF Message, Bytes

\* What a FIFO takes of a buffer.
Taken(b, n, k) == /\ k <= n /\ Fill(b, n) = SubSeq(b, 1, k)
                  /\ hw.present => k = IF Len(b) < n THEN Len(b) ELSE n
LEMMA FillTakes ==
  ASSUME NEW b \in Bytes, NEW n \in Nat, hw.present \in BOOLEAN
  PROVE  \E k \in 0 .. Len(b) : Taken(b, n, k)
<1>1. Len(b) \in Nat
  BY DEF Bytes
<1>2. PICK k : k = IF hw.present THEN IF Len(b) < n THEN Len(b) ELSE n ELSE 0
  OBVIOUS
<1>3. k \in 0 .. Len(b) /\ k <= n
  BY <1>1, <1>2
<1>4. Fill(b, n) = SubSeq(b, 1, k)
  BY <1>2 DEF Fill
<1>5. Taken(b, n, k)
  BY <1>2, <1>3, <1>4 DEF Taken
<1> QED BY <1>3, <1>5

-----------------------------------------------------------------------------
(* The smart card: types.                                                   *)

SciPcs == {"closed", "idle", "wstart", "wfill", "wblock", "wsleep",
           "rdecide", "rblock", "rsleep", "rcopy", "COLD", "WARM"}
SciParas == [T : Nat, WWT : Nat, BWT : Nat, clk_p : Nat]
SciHws == [present : BOOLEAN, powered : BOOLEAN, clocked : BOOLEAN,
           scint : SUBSET SciBits, scinten : SUBSET SciBits,
           mode : {"rx", "tx"}, half : BOOLEAN, rx : Bytes, rxSent : Nat, rxEnded : BOOLEAN,
           tx : Bytes, sctxlen : Nat, wire : Bytes, scbwt : Nat]
SciCbs == [state : {"DEAC", "RX", "TX"}, error : {"OK", "HW", "ABORTED", "KERNEL"},
           waiting : BOOLEAN, rx_complete : BOOLEAN, bytes_expected : Int,
           atr_ready : BOOLEAN, any : BOOLEAN, sync : BOOLEAN, rwAny : BOOLEAN,
           buf : Bytes, taken : Nat, para : SciParas]
SciCalls == [pc : SciPcs, n : Nat, woken : BOOLEAN]

SciTyped == hw \in SciHws /\ cb \in SciCbs /\ sciCall \in SciCalls

USE SciAssumption

LEMMA RxStartCbTyped ==
  ASSUME NEW c \in SciCbs
  PROVE  LET e == RxStartCb(c) IN
         /\ e \in SciCbs /\ e.state = "RX" /\ e.buf = <<>> /\ e.taken = 0
         /\ ~e.rx_complete /\ e.bytes_expected = -1
         /\ e.error = c.error /\ e.waiting = c.waiting
<1>1. PICK s : s = <<>>
  OBVIOUS
<1>2. s \in Bytes
  BY <1>1, EmptyCat DEF Bytes
<1>3. PICK e : e = [c EXCEPT !.state = "RX", !.buf = s, !.taken = 0,
                            !.rx_complete = FALSE, !.bytes_expected = -1]
  OBVIOUS
<1>4. e \in SciCbs
  <2>1. PICK f : f = [c EXCEPT !.state = "RX", !.buf = s, !.taken = 0]
    OBVIOUS
  <2>2. f \in SciCbs
    BY <1>2, <2>1 DEF SciCbs
  <2>3. e = [f EXCEPT !.rx_complete = FALSE, !.bytes_expected = -1]
    BY <1>3, <2>1 DEF SciCbs
  <2>4. PICK g : g = [f EXCEPT !.rx_complete = FALSE]
    OBVIOUS
  <2>5. g \in SciCbs
    BY <2>2, <2>4 DEF SciCbs
  <2>6. PICK l : l = -1
    OBVIOUS
  <2>7. e = [g EXCEPT !.bytes_expected = l]
    BY <2>2, <2>3, <2>4, <2>6 DEF SciCbs
  <2>8. l \in Int
    BY <2>6
  <2> QED BY <2>5, <2>7, <2>8 DEF SciCbs
<1>5. /\ e.state = "RX" /\ e.buf = s /\ e.taken = 0
      /\ e.rx_complete = FALSE /\ e.bytes_expected = -1
  BY <1>3 DEF SciCbs
<1>6. e.error = c.error /\ e.waiting = c.waiting
  BY <1>3 DEF SciCbs
<1> QED BY <1>1, <1>3, <1>4, <1>5, <1>6 DEF RxStartCb

LEMMA RxStartHwTyped ==
  ASSUME NEW h \in SciHws
  PROVE  LET k == RxStartHw(h) IN
         /\ k \in SciHws /\ k.mode = "rx" /\ k.rx = <<>> /\ k.tx = <<>> /\ k.wire = <<>>
         /\ k.rxSent = 0 /\ k.scint = h.scint \cap {"CDI"}
         /\ k.present = h.present /\ k.powered = h.powered
<1>1. <<>> \in Bytes
  BY EmptyCat DEF Bytes
<1>2. RxMask \in SUBSET SciBits
  BY DEF RxMask, SciBits
<1> QED BY <1>1, <1>2 DEF RxStartHw, SciHws

\* All but the bytes, and the interrupt threshold with them.
SameCb(c, e) ==
  /\ e.state = c.state /\ e.error = c.error /\ e.waiting = c.waiting
  /\ e.rx_complete = c.rx_complete /\ e.any = c.any /\ e.taken = c.taken /\ e.para = c.para
SameHw(h, k) ==
  /\ k.present = h.present /\ k.powered = h.powered /\ k.scint = h.scint
  /\ k.scinten = h.scinten /\ k.mode = h.mode /\ k.tx = h.tx /\ k.wire = h.wire
  /\ k.sctxlen = h.sctxlen /\ k.rxSent = h.rxSent

\* sci_atom_read_fifo moves bytes, and counts what is expected down.
LEMMA ReadFifoTyped ==
  ASSUME NEW c \in SciCbs, NEW h \in SciHws
  PROVE  LET r == sci_atom_read_fifo(c, h) IN
         /\ r.cb \in SciCbs /\ r.hw \in SciHws
         /\ r.cb.buf \o r.hw.rx = c.buf \o h.rx
         /\ Len(r.cb.buf) + Len(r.hw.rx) = Len(c.buf) + Len(h.rx)
         /\ Len(r.hw.rx) <= Len(h.rx)
         /\ (c.bytes_expected = -1 => r.cb.bytes_expected = -1)
         /\ (c.bytes_expected # -1 => \/ r.cb.bytes_expected = 0
                                      \/ r.cb.bytes_expected \in 0 .. c.bytes_expected)
         /\ SameCb(c, r.cb) /\ SameHw(h, r.hw)
<1> DEFINE n == IF h.present THEN Len(h.rx) ELSE 0
           left == IF c.bytes_expected = -1 THEN -1
                   ELSE IF c.bytes_expected > n THEN c.bytes_expected - n ELSE 0
           half == h.half /\ ~(n > 0 /\ left # -1 /\ left < SciHalf)
           e == [c EXCEPT !.bytes_expected = left, !.buf = @ \o SubSeq(h.rx, 1, n)]
           k == [h EXCEPT !.rx = SubSeq(@, n + 1, Len(@)),
                          !.half = @ /\ ~(n > 0 /\ left # -1 /\ left < SciHalf)]
<1>1. sci_atom_read_fifo(c, h) = [cb |-> e, hw |-> k]
  BY DEF sci_atom_read_fifo
<1>2. h.rx \in Bytes /\ Len(h.rx) \in Nat /\ c.buf \in Bytes /\ Len(c.buf) \in Nat
      /\ c.bytes_expected \in Int /\ h.present \in BOOLEAN /\ h.half \in BOOLEAN
  BY DEF SciHws, SciCbs, Bytes
<1>3. n \in 0 .. Len(h.rx) /\ n \in Nat
  BY <1>2
<1>4. left \in Int /\ (c.bytes_expected = -1 => left = -1)
      /\ (c.bytes_expected # -1 => left = 0 \/ left \in 0 .. c.bytes_expected)
  BY <1>2, <1>3
<1>5. half \in BOOLEAN
  OBVIOUS
<1>6. PICK m, l, b : m = n /\ l = left /\ b = half
  OBVIOUS
<1>7. PICK f, g : f = SubSeq(h.rx, 1, m) /\ g = SubSeq(h.rx, m + 1, Len(h.rx))
  OBVIOUS
<1>8. /\ f \in Bytes /\ Len(f) = m /\ g \in Bytes /\ Len(g) = Len(h.rx) - m
      /\ (c.buf \o f) \o g = c.buf \o h.rx
  <2>1. m \in 0 .. Len(h.rx)
    BY <1>3, <1>6
  <2>2. PICK a, b2 : a = c.buf /\ b2 = h.rx
    OBVIOUS
  <2>3. a \in Bytes /\ b2 \in Bytes /\ m \in 0 .. Len(b2)
    BY <1>2, <2>1, <2>2
  <2>4. /\ SubSeq(b2, 1, m) \in Bytes /\ Len(SubSeq(b2, 1, m)) = m
        /\ SubSeq(b2, m + 1, Len(b2)) \in Bytes /\ Len(SubSeq(b2, m + 1, Len(b2))) = Len(b2) - m
        /\ (a \o SubSeq(b2, 1, m)) \o SubSeq(b2, m + 1, Len(b2)) = a \o b2
    BY <2>3, BytesMove, Zenon
  <2> QED BY <1>7, <2>2, <2>4, Zenon
<1>9. c.buf \o f \in Bytes /\ Len(c.buf \o f) = Len(c.buf) + m
  BY <1>2, <1>8, CatIndexed
<1>10. e = [c EXCEPT !.bytes_expected = l, !.buf = c.buf \o f]
  BY <1>6, <1>7 DEF SciCbs
<1>11. k = [h EXCEPT !.rx = g, !.half = b]
  BY <1>6, <1>7 DEF SciHws
<1> HIDE DEF n, left, half, e, k
<1>12. e \in SciCbs /\ e.buf = c.buf \o f /\ e.bytes_expected = l
       /\ SameCb(c, e)
  <2>1. l \in Int
    BY <1>4, <1>6
  <2>2. PICK z : z = c.buf \o f
    OBVIOUS
  <2>3. z \in Bytes /\ e = [c EXCEPT !.bytes_expected = l, !.buf = z]
    BY <1>9, <1>10, <2>2
  <2>4. e \in SciCbs /\ e.buf = z /\ e.bytes_expected = l
    BY <2>1, <2>3 DEF SciCbs
  <2>5. SameCb(c, e)
    BY <2>3 DEF SciCbs, SameCb
  <2> QED BY <2>2, <2>4, <2>5
<1>13. k \in SciHws /\ k.rx = g
       /\ SameHw(h, k)
  <2>1. b \in BOOLEAN /\ g \in Bytes
    BY <1>5, <1>6, <1>8
  <2>2. k \in SciHws /\ k.rx = g
    BY <1>11, <2>1 DEF SciHws
  <2>3. SameHw(h, k)
    BY <1>11 DEF SciHws, SameHw
  <2> QED BY <2>2, <2>3
<1>14. Len(e.buf) + Len(k.rx) = Len(c.buf) + Len(h.rx) /\ Len(k.rx) <= Len(h.rx)
  <2>1. PICK x, y, z : x = Len(c.buf) /\ y = Len(h.rx) /\ z = Len(e.buf)
    OBVIOUS
  <2>2. z = x + m /\ Len(k.rx) = y - m /\ x \in Nat /\ y \in Nat /\ m \in 0 .. y
    BY <1>2, <1>3, <1>6, <1>8, <1>9, <1>12, <1>13, <2>1
  <2>3. z + (y - m) = x + y /\ y - m <= y
    BY <2>2
  <2> QED BY <2>1, <2>2, <2>3
<1>15. /\ e.buf \o k.rx = c.buf \o h.rx
       /\ (c.bytes_expected = -1 => e.bytes_expected = -1)
       /\ (c.bytes_expected # -1 => \/ e.bytes_expected = 0
                                    \/ e.bytes_expected \in 0 .. c.bytes_expected)
  BY <1>4, <1>6, <1>8, <1>12, <1>13
<1>16. PICK r : r = [cb |-> e, hw |-> k]
  OBVIOUS
<1>17. r = sci_atom_read_fifo(c, h) /\ r.cb = e /\ r.hw = k
  BY <1>1, <1>16
<1> QED BY <1>12, <1>13, <1>14, <1>15, <1>17, Zenon

-----------------------------------------------------------------------------
(* The smart card: the inductive invariant.                                 *)

Sending == {"wfill", "wblock", "wsleep"}
Reading == {"rdecide", "rblock", "rsleep", "rcopy"}

\* A call works on a length it was given, and expects no more than it.
SciAsked == /\ sciCall.pc \in Sending \cup {"wstart"} => sciCall.n \in SciWrites
            /\ sciCall.pc \in Reading => sciCall.n \in SciReads
SciExpected == cb.bytes_expected = -1 \/ \E n \in SciReads : cb.bytes_expected \in 0 .. n
SciFits == Len(hw.rx) <= SciFifo /\ Len(hw.tx) <= SciFifo

\* Only a card that is there has power; a reception has the transmitter off.
SciPower == hw.powered => hw.present
SciModes == /\ cb.state = "RX" => hw.mode = "rx"
            /\ sciCall.pc = "wstart" => hw.mode = "rx"
            /\ hw.mode = "rx" => hw.wire = <<>>

\* Between the start of a transmission and its first bytes nothing can come
\* but the news that the card has gone.
SciFilling ==
  sciCall.pc = "wfill" =>
    /\ cb.state # "RX" /\ cb.buf = <<>> /\ cb.error = "OK"
    /\ hw.scinten = {"CDI"} /\ "LTXI" \notin hw.scint
    /\ hw.tx = <<>> /\ hw.wire = <<>> /\ hw.sctxlen = sciCall.n

\* Before the rest of the message is in the buffer the transmission cannot
\* end, but with a message that the FIFO has taken whole.
SciBlocking ==
  Calm =>
    /\ "ERR" \notin hw.scint
    /\ sciCall.pc = "wblock" /\ sciCall.n > SciFifo => cb.state # "RX"
    /\ sciCall.pc = "wblock" /\ cb.state = "TX" =>
         /\ cb.error = "OK" /\ hw.sctxlen = sciCall.n /\ cb.buf = <<>>
         /\ Len(hw.wire) + Len(hw.tx) <= SciFifo
         /\ "LTXI" \in hw.scint => Len(hw.wire) >= sciCall.n

\* What the FIFO takes of a message at once.
FifoPart(n) == IF n < SciFifo THEN n ELSE SciFifo

\* The message is whole, on the wire, in the FIFO and in the buffer, as long
\* as the card has had power.
SciMessage ==
  Calm /\ cb.state = "TX" /\ hw.powered =>
    /\ sciCall.pc = "wblock" => hw.wire \o hw.tx = Message(FifoPart(sciCall.n))
    /\ sciCall.pc = "wsleep" => (hw.wire \o hw.tx) \o cb.buf = Message(sciCall.n)

\* What the card has sent and no caller has got is in the buffer and the FIFO.
SciHeard ==
  Calm /\ cb.state = "RX" =>
    /\ Len(cb.buf) + Len(hw.rx) = hw.rxSent - cb.taken
    /\ \A i \in 1 .. Len(cb.buf) + Len(hw.rx) : (cb.buf \o hw.rx)[i] = -(cb.taken + i)

SciInv ==
  /\ SciTyped /\ SciAsked /\ SciExpected /\ SciFits /\ SciPower /\ SciModes
  /\ SciFilling /\ SciBlocking /\ SciMessage /\ SciHeard
  /\ NoSleeperForgotten

\* The reception's part depends on few variables.
LEMMA HeardKept ==
  ASSUME SciHeard, sciEnv' = sciEnv,
         cb'.state = "RX" => /\ cb.state = "RX" /\ cb'.taken = cb.taken /\ hw'.rxSent = hw.rxSent
                             /\ Len(cb'.buf) + Len(hw'.rx) = Len(cb.buf) + Len(hw.rx)
                             /\ cb'.buf \o hw'.rx = cb.buf \o hw.rx
  PROVE  SciHeard'
  BY DEF SciHeard, Calm

\* A step after which the thread neither writes nor sleeps.
LEMMA IdleKeeps ==
  ASSUME SciInv, SciTyped', sciEnv' = sciEnv,
         sciCall'.pc \notin {"wstart", "wfill", "wblock", "wsleep", "rsleep"},
         SciAsked', SciExpected', SciFits', SciPower', SciHeard',
         "ERR" \in hw'.scint => "ERR" \in hw.scint \/ ~Calm,
         cb'.state = "RX" => hw'.mode = "rx",
         hw'.mode = "rx" => hw'.wire = <<>>
  PROVE  SciInv'
<1>1. SciModes' /\ SciFilling' /\ NoSleeperForgotten' /\ SciMessage'
  BY DEF SciModes, SciFilling, NoSleeperForgotten, SciMessage
<1>2. SciBlocking'
  BY DEF SciInv, SciBlocking, Calm
<1> QED BY <1>1, <1>2 DEF SciInv

\* The hardware latches an interrupt, or the card moves.
LEMMA LatchKeeps ==
  ASSUME SciInv, hw' \in SciHws, cb' = cb, sciCall' = sciCall, sciEnv' = sciEnv,
         hw'.powered => hw.powered /\ hw'.present,
         hw'.scinten = hw.scinten, hw'.mode = hw.mode, hw'.rx = hw.rx, hw'.rxSent = hw.rxSent,
         hw'.tx = hw.tx, hw'.wire = hw.wire, hw'.sctxlen = hw.sctxlen,
         "LTXI" \in hw'.scint => "LTXI" \in hw.scint,
         "ERR" \in hw'.scint => "ERR" \in hw.scint \/ ~Calm
  PROVE  SciInv'
<1>1. SciTyped' /\ SciAsked' /\ SciExpected' /\ SciFits' /\ SciPower' /\ SciModes'
  BY DEF SciInv, SciTyped, SciAsked, SciExpected, SciFits, SciPower, SciModes
<1>2. SciFilling' /\ SciBlocking'
  BY DEF SciInv, SciFilling, SciBlocking, Calm
<1>3. SciMessage' /\ NoSleeperForgotten'
  BY DEF SciInv, SciMessage, NoSleeperForgotten, Calm
<1>4. SciHeard'
  BY DEF SciInv, SciHeard, Calm
<1> QED BY <1>1, <1>2, <1>3, <1>4 DEF SciInv

LEMMA BitsLatched ==
  ASSUME NEW h \in SciHws, NEW bits \in SUBSET SciBits
  PROVE  [h EXCEPT !.scint = @ \cup bits] \in SciHws
<1>1. PICK s : s = h.scint \cup bits
  OBVIOUS
<1>2. s \in SUBSET SciBits
  BY <1>1 DEF SciHws
<1>3. [h EXCEPT !.scint = s] \in SciHws
  BY <1>2 DEF SciHws
<1> QED BY <1>1, <1>3

LEMMA ThresholdKeeps ==
  ASSUME SciInv, HwRxThreshold \/ HwTxThreshold \/ HwFault \/ HwRxEnd \/ CardMoves
  PROVE  SciInv'
<1>1. /\ cb' = cb /\ sciCall' = sciCall /\ sciEnv' = sciEnv /\ hw \in SciHws
      /\ {"RFTHI"} \in SUBSET SciBits /\ {"TFHI"} \in SUBSET SciBits /\ {"ERR"} \in SUBSET SciBits
      /\ {"REI"} \in SUBSET SciBits /\ {"REI", "BAD"} \in SUBSET SciBits /\ {"CDI"} \in SUBSET SciBits
  BY DEF SciInv, SciTyped, HwRxThreshold, HwTxThreshold, HwFault, HwRxEnd, CardMoves,
         SciBits, RxMask, TxMask
<1>2. CASE HwRxThreshold \/ HwTxThreshold \/ HwFault
  <2>1. PICK bits \in {{"RFTHI"}, {"TFHI"}, {"ERR"}} :
           /\ hw' = [hw EXCEPT !.scint = @ \cup bits]
           /\ "ERR" \in bits => ~Calm
    BY <1>2 DEF HwRxThreshold, HwTxThreshold, HwFault, HwLatch, Calm
  <2>2. hw' \in SciHws
    BY <1>1, <2>1, BitsLatched
  <2>3. hw'.scint = hw.scint \cup bits
    BY <1>1, <2>1 DEF SciHws
  <2>4. /\ hw'.powered = hw.powered /\ hw'.present = hw.present
        /\ hw'.scinten = hw.scinten /\ hw'.mode = hw.mode /\ hw'.rx = hw.rx /\ hw'.rxSent = hw.rxSent
        /\ hw'.tx = hw.tx /\ hw'.wire = hw.wire /\ hw'.sctxlen = hw.sctxlen
    BY <1>1, <2>1 DEF SciHws
  <2>5. hw'.powered => hw.powered /\ hw'.present
    BY <2>4 DEF SciInv, SciPower
  <2> QED BY <1>1, <2>1, <2>2, <2>3, <2>4, <2>5, LatchKeeps
<1>3. CASE HwRxEnd
  <2>1. PICK bits \in {{"REI"}, {"REI", "BAD"}} :
           hw' = [hw EXCEPT !.scint = @ \cup bits, !.rxEnded = TRUE]
    BY <1>3 DEF HwRxEnd, HwLatch
  <2>2. PICK h : h = [hw EXCEPT !.scint = @ \cup bits]
    OBVIOUS
  <2>3. h \in SciHws
    BY <1>1, <2>2, BitsLatched
  <2>4. hw' = [h EXCEPT !.rxEnded = TRUE]
    BY <1>1, <2>1, <2>2 DEF SciHws
  <2>5. hw' \in SciHws
    BY <2>3, <2>4 DEF SciHws
  <2>6. hw'.scint = hw.scint \cup bits
    BY <1>1, <2>1 DEF SciHws
  <2>7. /\ hw'.powered = hw.powered /\ hw'.present = hw.present
        /\ hw'.scinten = hw.scinten /\ hw'.mode = hw.mode /\ hw'.rx = hw.rx /\ hw'.rxSent = hw.rxSent
        /\ hw'.tx = hw.tx /\ hw'.wire = hw.wire /\ hw'.sctxlen = hw.sctxlen
    BY <1>1, <2>1 DEF SciHws
  <2>8. hw'.powered => hw.powered /\ hw'.present
    BY <2>7 DEF SciInv, SciPower
  <2> QED BY <1>1, <2>1, <2>5, <2>6, <2>7, <2>8, LatchKeeps
<1>4. CASE CardMoves
  <2>1. hw' = [hw EXCEPT !.scint = @ \cup {"CDI"}, !.present = ~@, !.powered = FALSE, !.clocked = FALSE]
    BY <1>1, <1>4 DEF CardMoves, HwLatch, SciHws
  <2>2. PICK h : h = [hw EXCEPT !.scint = @ \cup {"CDI"}]
    OBVIOUS
  <2>3. h \in SciHws
    BY <1>1, <2>2, BitsLatched
  <2>4. PICK b : b = ~hw.present
    OBVIOUS
  <2>5. b \in BOOLEAN /\ hw' = [h EXCEPT !.present = b, !.powered = FALSE, !.clocked = FALSE]
    BY <1>1, <2>1, <2>2, <2>4 DEF SciHws
  <2>6. hw' \in SciHws
    BY <2>3, <2>5 DEF SciHws
  <2>7. hw'.scint = hw.scint \cup {"CDI"} /\ hw'.powered = FALSE
    BY <1>1, <2>1 DEF SciHws
  <2>8. /\ hw'.scinten = hw.scinten /\ hw'.mode = hw.mode /\ hw'.rx = hw.rx /\ hw'.rxSent = hw.rxSent
        /\ hw'.tx = hw.tx /\ hw'.wire = hw.wire /\ hw'.sctxlen = hw.sctxlen
    BY <1>1, <2>1 DEF SciHws
  <2> QED BY <1>1, <2>6, <2>7, <2>8, LatchKeeps
<1> QED BY <1>2, <1>3, <1>4

LEMMA CatAppend ==
  ASSUME NEW a \in Bytes, NEW b \in Bytes, NEW x \in Int
  PROVE  /\ Append(b, x) \in Bytes /\ Len(Append(b, x)) = Len(b) + 1
         /\ \A i \in 1 .. Len(a) + Len(b) : (a \o Append(b, x))[i] = (a \o b)[i]
         /\ (a \o Append(b, x))[Len(a) + Len(b) + 1] = x
  BY DEF Bytes

\* A byte of the card.
LEMMA CardByteKeeps == ASSUME SciInv, CardByte PROVE SciInv'
<1>1. /\ cb' = cb /\ sciCall' = sciCall /\ sciEnv' = sciEnv /\ hw \in SciHws /\ cb \in SciCbs
      /\ hw.mode = "rx" /\ hw.rx \in Bytes /\ cb.buf \in Bytes /\ hw.rxSent \in Nat /\ cb.taken \in Nat
  BY DEF SciInv, SciTyped, CardByte, Receiving, SciHws, SciCbs
<1>2. CASE Len(hw.rx) < SciFifo /\ hw' = [hw EXCEPT !.rx = Append(@, -(hw.rxSent + 1)), !.rxSent = @ + 1]
  <2>1. PICK x, k, r : x = -(hw.rxSent + 1) /\ k = hw.rxSent + 1 /\ r = Append(hw.rx, x)
    OBVIOUS
  <2>2. x \in Int /\ k \in Nat
    BY <1>1, <2>1
  <2>3. /\ r \in Bytes /\ Len(r) = Len(hw.rx) + 1
        /\ \A i \in 1 .. Len(cb.buf) + Len(hw.rx) : (cb.buf \o r)[i] = (cb.buf \o hw.rx)[i]
        /\ (cb.buf \o r)[Len(cb.buf) + Len(hw.rx) + 1] = x
    <3>1. PICK a, b : a = cb.buf /\ b = hw.rx
      OBVIOUS
    <3>2. a \in Bytes /\ b \in Bytes /\ r = Append(b, x)
      BY <1>1, <2>1, <3>1
    <3>3. /\ Append(b, x) \in Bytes /\ Len(Append(b, x)) = Len(b) + 1
          /\ \A i \in 1 .. Len(a) + Len(b) : (a \o Append(b, x))[i] = (a \o b)[i]
          /\ (a \o Append(b, x))[Len(a) + Len(b) + 1] = x
      BY <2>2, <3>2, CatAppend
    <3> QED BY <3>1, <3>2, <3>3, Zenon
  <2>4. hw' = [hw EXCEPT !.rx = r, !.rxSent = k]
    BY <1>1, <1>2, <2>1 DEF SciHws
  <2>5. hw' \in SciHws /\ hw'.rx = r /\ hw'.rxSent = k
    BY <1>1, <2>2, <2>3, <2>4 DEF SciHws
  <2>6. /\ hw'.powered = hw.powered /\ hw'.present = hw.present /\ hw'.scint = hw.scint
        /\ hw'.scinten = hw.scinten /\ hw'.mode = hw.mode
        /\ hw'.tx = hw.tx /\ hw'.wire = hw.wire /\ hw'.sctxlen = hw.sctxlen
    BY <1>1, <2>4 DEF SciHws
  <2>7. SciFits'
    BY <1>1, <1>2, <2>3, <2>5, <2>6 DEF SciInv, SciFits, Bytes
  <2>8. SciTyped' /\ SciAsked' /\ SciExpected' /\ SciPower' /\ SciModes' /\ SciFilling'
        /\ NoSleeperForgotten'
    BY <1>1, <2>5, <2>6 DEF SciInv, SciTyped, SciAsked, SciExpected, SciPower, SciModes, SciFilling,
                            NoSleeperForgotten
  <2>9. SciBlocking' /\ SciMessage'
    BY <1>1, <2>6 DEF SciInv, SciBlocking, SciMessage, Calm
  <2>10. SciHeard'
    <3> SUFFICES ASSUME Calm, cb.state = "RX"
                 PROVE  /\ Len(cb.buf) + Len(r) = k - cb.taken
                        /\ \A i \in 1 .. Len(cb.buf) + Len(r) : (cb.buf \o r)[i] = -(cb.taken + i)
      BY <1>1, <2>5 DEF SciHeard, Calm
    <3>1. PICK l, m : l = Len(cb.buf) /\ m = Len(hw.rx)
      OBVIOUS
    <3>2. l \in Nat /\ m \in Nat /\ Len(r) = m + 1
      BY <1>1, <2>3, <3>1 DEF Bytes
    <3>3. l + m = hw.rxSent - cb.taken /\ \A i \in 1 .. l + m : (cb.buf \o hw.rx)[i] = -(cb.taken + i)
      BY <3>1 DEF SciInv, SciHeard
    <3>4. l + (m + 1) = k - cb.taken /\ x = -(cb.taken + (l + m + 1))
      <4>1. PICK u, v : u = hw.rxSent /\ v = cb.taken
        OBVIOUS
      <4>2. u \in Nat /\ v \in Nat /\ l \in Nat /\ m \in Nat /\ l + m = u - v
            /\ x = -(u + 1) /\ k = u + 1
        BY <1>1, <2>1, <3>2, <3>3, <4>1
      <4>3. l + (m + 1) = k - v /\ x = -(v + (l + m + 1))
        BY <4>2
      <4> QED BY <4>1, <4>3
    <3>6. \A i \in 1 .. l + (m + 1) : (cb.buf \o r)[i] = -(cb.taken + i)
      <4> SUFFICES ASSUME NEW i \in 1 .. l + (m + 1) PROVE (cb.buf \o r)[i] = -(cb.taken + i)
        OBVIOUS
      <4>e. i \in 1 .. l + m \/ i = l + m + 1
        BY <3>2
      <4>1. CASE i \in 1 .. l + m
        BY <2>3, <3>1, <3>3, <4>1
      <4>2. CASE i = l + m + 1
        <5>1. (cb.buf \o r)[l + m + 1] = x
          BY <2>3, <3>1
        <5> QED BY <3>4, <4>2, <5>1
      <4> QED BY <4>e, <4>1, <4>2
    <3> QED BY <3>1, <3>2, <3>4, <3>6
  <2> QED BY <2>7, <2>8, <2>9, <2>10 DEF SciInv
<1>3. CASE "fault" \in sciEnv /\ hw' = [HwLatch({"ERR"}) EXCEPT !.rxSent = @ + 1]
  <2>1. PICK h, k : h = [hw EXCEPT !.scint = @ \cup {"ERR"}] /\ k = hw.rxSent + 1
    OBVIOUS
  <2>2. h \in SciHws /\ k \in Nat
    <3>1. {"ERR"} \in SUBSET SciBits
      BY DEF SciBits, RxMask
    <3>2. h \in SciHws
      BY <1>1, <2>1, <3>1, BitsLatched
    <3> QED BY <1>1, <2>1, <3>2
  <2>3. hw' = [h EXCEPT !.rxSent = k]
    BY <1>1, <1>3, <2>1 DEF HwLatch, SciHws
  <2>4. hw' \in SciHws
    BY <2>2, <2>3 DEF SciHws
  <2>5. /\ hw'.powered = hw.powered /\ hw'.present = hw.present /\ hw'.rx = hw.rx
        /\ hw'.scinten = hw.scinten /\ hw'.mode = hw.mode /\ hw'.scint = hw.scint \cup {"ERR"}
        /\ hw'.tx = hw.tx /\ hw'.wire = hw.wire /\ hw'.sctxlen = hw.sctxlen
    BY <1>1, <2>1, <2>3 DEF SciHws
  <2>6. ~Calm /\ ~Calm'
    BY <1>1, <1>3 DEF Calm
  <2>7. SciTyped' /\ SciAsked' /\ SciExpected' /\ SciFits' /\ SciPower' /\ SciModes' /\ SciFilling'
        /\ NoSleeperForgotten'
    BY <1>1, <2>4, <2>5 DEF SciInv, SciTyped, SciAsked, SciExpected, SciFits, SciPower, SciModes,
                            SciFilling, NoSleeperForgotten
  <2>8. SciBlocking' /\ SciMessage' /\ SciHeard'
    BY <2>6 DEF SciBlocking, SciMessage, SciHeard
  <2> QED BY <2>7, <2>8 DEF SciInv
<1> QED BY <1>2, <1>3 DEF CardByte

\* A byte leaves the transmitter; only the last of a message brings LTXI.
LEMMA HwTxKeeps == ASSUME SciInv, HwTx PROVE SciInv'
<1>1. /\ cb' = cb /\ sciCall' = sciCall /\ sciEnv' = sciEnv /\ hw \in SciHws /\ cb \in SciCbs
      /\ hw.mode = "tx" /\ hw.tx \in Bytes /\ hw.wire \in Bytes /\ cb.buf \in Bytes /\ hw.tx # <<>>
      /\ hw.sctxlen \in Nat /\ sciCall \in SciCalls
  BY DEF SciInv, SciTyped, HwTx, SciHws, SciCbs
<1>2. PICK w, t : w = Append(hw.wire, Head(hw.tx)) /\ t = Tail(hw.tx)
  OBVIOUS
<1>3. /\ w \in Bytes /\ t \in Bytes /\ Len(w) = Len(hw.wire) + 1 /\ Len(t) = Len(hw.tx) - 1
      /\ w \o t = hw.wire \o hw.tx
  BY <1>1, <1>2, ByteMoves
<1>4. PICK s : s = hw.scint \cup IF Len(hw.wire) + 1 = hw.sctxlen THEN {"LTXI"} ELSE {}
  OBVIOUS
<1>5. s \in SUBSET SciBits /\ ("ERR" \in s => "ERR" \in hw.scint)
      /\ ("LTXI" \in s => "LTXI" \in hw.scint \/ Len(w) = hw.sctxlen)
  BY <1>1, <1>3, <1>4 DEF SciHws, SciBits, TxMask
<1>6. hw' = [hw EXCEPT !.wire = w, !.tx = t, !.scint = s]
  BY <1>1, <1>2, <1>4 DEF HwTx, SciHws
<1>7. hw' \in SciHws /\ hw'.wire = w /\ hw'.tx = t /\ hw'.scint = s
  BY <1>1, <1>3, <1>5, <1>6 DEF SciHws
<1>8. /\ hw'.powered = hw.powered /\ hw'.present = hw.present /\ hw'.rx = hw.rx
      /\ hw'.scinten = hw.scinten /\ hw'.mode = hw.mode /\ hw'.rxSent = hw.rxSent
      /\ hw'.sctxlen = hw.sctxlen
  BY <1>1, <1>6 DEF SciHws
<1>9. Len(hw.wire) \in Nat /\ Len(hw.tx) \in Nat
  BY <1>1 DEF Bytes
<1>10. SciFits'
  <2>1. Len(hw.tx) - 1 <= SciFifo /\ Len(hw.rx) <= SciFifo
    BY <1>9 DEF SciInv, SciFits
  <2> QED BY <1>3, <1>7, <1>8, <2>1 DEF SciFits
<1>11. SciTyped' /\ SciAsked' /\ SciExpected' /\ SciPower' /\ SciModes' /\ SciFilling'
       /\ NoSleeperForgotten'
  BY <1>1, <1>7, <1>8 DEF SciInv, SciTyped, SciAsked, SciExpected, SciPower, SciModes,
                          SciFilling, NoSleeperForgotten
<1>12. SciBlocking'
  <2> SUFFICES ASSUME Calm PROVE SciBlocking'
    BY <1>1 DEF SciBlocking, Calm
  <2>1. "ERR" \notin s /\ (sciCall.pc = "wblock" /\ sciCall.n > SciFifo => cb.state # "RX")
    BY <1>5 DEF SciInv, SciBlocking
  <2>2. ASSUME sciCall.pc = "wblock", cb.state = "TX"
        PROVE  /\ cb.error = "OK" /\ hw.sctxlen = sciCall.n /\ cb.buf = <<>>
               /\ Len(w) + Len(t) <= SciFifo
               /\ "LTXI" \in s => Len(w) >= sciCall.n
    <3>1. /\ cb.error = "OK" /\ hw.sctxlen = sciCall.n /\ cb.buf = <<>>
          /\ Len(hw.wire) + Len(hw.tx) <= SciFifo
          /\ "LTXI" \in hw.scint => Len(hw.wire) >= sciCall.n
      BY <2>2 DEF SciInv, SciBlocking
    <3>2. (Len(hw.wire) + 1) + (Len(hw.tx) - 1) <= SciFifo
      <4>1. PICK x, y : x = Len(hw.wire) /\ y = Len(hw.tx)
        OBVIOUS
      <4>2. x \in Nat /\ y \in Nat /\ x + y <= SciFifo
        BY <1>9, <3>1, <4>1
      <4>3. (x + 1) + (y - 1) <= SciFifo
        BY <4>2
      <4> QED BY <4>1, <4>3
    <3>3. "LTXI" \in s => Len(hw.wire) + 1 >= sciCall.n
      BY <1>1, <1>3, <1>5, <1>9, <3>1 DEF SciCalls
    <3> QED BY <1>3, <3>1, <3>2, <3>3
  <2> QED BY <1>1, <1>7, <1>8, <2>1, <2>2 DEF SciBlocking
<1>13. SciMessage'
  BY <1>1, <1>3, <1>7, <1>8 DEF SciInv, SciMessage, Calm
<1>14. SciHeard'
  BY <1>1, <1>8 DEF SciInv, SciHeard, Calm
<1> QED BY <1>10, <1>11, <1>12, <1>13, <1>14 DEF SciInv

\* Who sleeps unawakened is marked as waiting: waking all who wait wakes him.
LEMMA WakeTyped ==
  ASSUME SciInv, NEW waits \in BOOLEAN, WakeIf(waits)
  PROVE  /\ sciCall' \in SciCalls /\ sciCall'.pc = sciCall.pc /\ sciCall'.n = sciCall.n
         /\ (waits => sciCall'.woken) /\ (~waits => sciCall' = sciCall)
<1>1. sciCall \in SciCalls /\ sciCall' = [sciCall EXCEPT !.woken = @ \/ waits]
  BY DEF SciInv, SciTyped, WakeIf
<1>2. PICK b : b = (sciCall.woken \/ waits)
  OBVIOUS
<1>3. b \in BOOLEAN /\ sciCall' = [sciCall EXCEPT !.woken = b]
  BY <1>1, <1>2 DEF SciCalls
<1>4. sciCall' \in SciCalls /\ sciCall'.pc = sciCall.pc /\ sciCall'.n = sciCall.n
      /\ sciCall'.woken = b
  BY <1>1, <1>3 DEF SciCalls
<1>5. waits => sciCall'.woken
  BY <1>2, <1>4
<1>6. ~waits => sciCall' = sciCall
  BY <1>1 DEF SciCalls
<1> QED BY <1>4, <1>5, <1>6

\* A card comes or goes.
LEMMA CardInterruptKeeps == ASSUME SciInv, CardInterrupt, sciEnv' = sciEnv PROVE SciInv'
<1>1. /\ cb \in SciCbs /\ hw \in SciHws /\ cb.waiting \in BOOLEAN
      /\ cb' = [cb EXCEPT !.waiting = FALSE, !.rx_complete = @ \/ cb.waiting,
                          !.atr_ready = FALSE, !.state = "DEAC"]
      /\ hw' = [hw EXCEPT !.scint = {}]
      /\ WakeIf(cb.waiting)
  BY DEF SciInv, SciTyped, CardInterrupt, SciCbs
<1>2. /\ sciCall' \in SciCalls /\ sciCall'.pc = sciCall.pc /\ sciCall'.n = sciCall.n
      /\ (cb.waiting => sciCall'.woken) /\ (~cb.waiting => sciCall' = sciCall)
  BY <1>1, WakeTyped
<1>3. cb' \in SciCbs
  <2>1. PICK b : b = (cb.rx_complete \/ cb.waiting)
    OBVIOUS
  <2>2. PICK c : c = [cb EXCEPT !.waiting = FALSE, !.rx_complete = b]
    OBVIOUS
  <2>3. b \in BOOLEAN
    BY <1>1, <2>1
  <2>4. c \in SciCbs
    BY <1>1, <2>2, <2>3 DEF SciCbs
  <2>5. cb' = [c EXCEPT !.atr_ready = FALSE, !.state = "DEAC"]
    BY <1>1, <2>1, <2>2 DEF SciCbs
  <2> QED BY <2>4, <2>5 DEF SciCbs
<1>4. cb'.state = "DEAC" /\ cb'.buf = cb.buf /\ cb'.error = cb.error
      /\ cb'.bytes_expected = cb.bytes_expected
  BY <1>1 DEF SciCbs
<1>5. /\ hw' \in SciHws /\ hw'.scint = {}
      /\ hw'.powered = hw.powered /\ hw'.present = hw.present /\ hw'.rx = hw.rx
      /\ hw'.scinten = hw.scinten /\ hw'.mode = hw.mode /\ hw'.rxSent = hw.rxSent
      /\ hw'.tx = hw.tx /\ hw'.wire = hw.wire /\ hw'.sctxlen = hw.sctxlen
  BY <1>1 DEF SciHws
<1>6. SciTyped' /\ SciAsked' /\ SciExpected' /\ SciFits' /\ SciPower' /\ SciModes' /\ SciFilling'
  BY <1>2, <1>3, <1>4, <1>5 DEF SciInv, SciTyped, SciAsked, SciExpected, SciFits, SciPower,
     SciModes, SciFilling
<1>7. SciBlocking' /\ SciMessage' /\ SciHeard'
  BY <1>4, <1>5 DEF SciBlocking, SciMessage, SciHeard
<1>8. NoSleeperForgotten'
  BY <1>2 DEF SciInv, NoSleeperForgotten
<1> QED BY <1>6, <1>7, <1>8 DEF SciInv

\* The handler in state RX: bytes come in, and a reader is woken by enough of
\* them or by the end.
LEMMA RxInterruptKeeps ==
  ASSUME SciInv, cb.state = "RX", RxInterrupt, sciEnv' = sciEnv
  PROVE  SciInv'
<1> DEFINE isr == hw.scint
           r == IF isr \cap {"RFTHI", "REI"} # {} THEN sci_atom_read_fifo(cb, hw)
                ELSE [cb |-> cb, hw |-> hw]
           c1 == IF "ERR" \in isr THEN [r.cb EXCEPT !.error = "HW", !.rx_complete = TRUE]
                 ELSE r.cb
           wake == /\ "RFTHI" \in isr /\ "REI" \notin isr /\ c1.waiting
                   /\ c1.any \/ c1.bytes_expected = 0
           c2 == IF wake THEN [c1 EXCEPT !.waiting = FALSE,
                                         !.bytes_expected = IF c1.any THEN @ ELSE -1]
                 ELSE c1
           c3 == IF "REI" \in isr /\ ~c2.rx_complete
                 THEN [c2 EXCEPT !.rx_complete = TRUE,
                                 !.error = IF c2.para.T = 0 \/ "BAD" \in isr THEN "HW" ELSE @]
                 ELSE c2
           clear == IF "REI" \in isr THEN {"ERR", "RFTHI", "REI", "BAD"} ELSE {"ERR", "RFTHI"}
<1>1. cb \in SciCbs /\ hw \in SciHws /\ sciCall \in SciCalls
  BY DEF SciInv, SciTyped
<1>2. /\ cb' = [c3 EXCEPT !.waiting = @ /\ ~c3.rx_complete]
      /\ WakeIf(wake \/ (c3.waiting /\ c3.rx_complete))
      /\ hw' = [r.hw EXCEPT !.scint = @ \ clear]
  BY DEF RxInterrupt
<1>3. /\ r.cb \in SciCbs /\ r.hw \in SciHws
      /\ r.cb.buf \o r.hw.rx = cb.buf \o hw.rx
      /\ Len(r.cb.buf) + Len(r.hw.rx) = Len(cb.buf) + Len(hw.rx)
      /\ Len(r.hw.rx) <= Len(hw.rx)
      /\ (cb.bytes_expected = -1 => r.cb.bytes_expected = -1)
      /\ (cb.bytes_expected # -1 => \/ r.cb.bytes_expected = 0
                                    \/ r.cb.bytes_expected = cb.bytes_expected
                                    \/ r.cb.bytes_expected \in 0 .. cb.bytes_expected)
      /\ SameCb(cb, r.cb) /\ SameHw(hw, r.hw)
  <2>1. CASE isr \cap {"RFTHI", "REI"} # {}
    <3>1. r = sci_atom_read_fifo(cb, hw)
      BY <2>1
    <3> HIDE DEF r
    <3> QED BY <1>1, <3>1, ReadFifoTyped
  <2>2. CASE ~(isr \cap {"RFTHI", "REI"} # {})
    <3>1. r.cb = cb /\ r.hw = hw
      BY <2>2
    <3> HIDE DEF r
    <3>2. SameCb(cb, cb) /\ SameHw(hw, hw) /\ Len(hw.rx) <= Len(hw.rx)
      BY <1>1 DEF SameCb, SameHw, SciHws, Bytes
    <3> QED BY <1>1, <3>1, <3>2
  <2> QED BY <2>1, <2>2
<1>4. \/ r.cb.bytes_expected = -1
      \/ \E n \in SciReads : r.cb.bytes_expected \in 0 .. n
  <2>1. PICK b, e : b = r.cb.bytes_expected /\ e = cb.bytes_expected
    OBVIOUS
  <2>2. e \in Int /\ b \in Int
    BY <1>1, <1>3, <2>1 DEF SciCbs
  <2>3. e = -1 \/ \E n \in SciReads : e \in 0 .. n
    BY <2>1 DEF SciInv, SciExpected
  <2>4. (e = -1 => b = -1) /\ (e # -1 => b = 0 \/ b = e \/ b \in 0 .. e)
    BY <1>3, <2>1
  <2>5. \A n \in SciReads : e \in 0 .. n /\ e # -1 => b \in 0 .. n
    BY <2>2, <2>4
  <2> QED BY <2>1, <2>2, <2>3, <2>4, <2>5
<1> HIDE DEF r
<1>5. /\ c1 \in SciCbs /\ c1.state = "RX" /\ c1.waiting = cb.waiting /\ c1.buf = r.cb.buf
      /\ c1.taken = cb.taken /\ c1.bytes_expected = r.cb.bytes_expected
  BY <1>3 DEF SameCb, SciCbs
<1> HIDE DEF c1
<1>6. /\ c2 \in SciCbs /\ c2.state = "RX" /\ c2.buf = r.cb.buf /\ c2.taken = cb.taken
      /\ (c2.bytes_expected = -1 \/ c2.bytes_expected = r.cb.bytes_expected)
      /\ (~wake => c2.waiting = cb.waiting)
  <2>1. CASE wake
    <3>1. PICK l : l = IF c1.any THEN c1.bytes_expected ELSE -1
      OBVIOUS
    <3>2. l \in Int
      BY <1>5, <3>1 DEF SciCbs
    <3>3. c2 = [c1 EXCEPT !.waiting = FALSE, !.bytes_expected = l]
      BY <1>5, <2>1, <3>1 DEF SciCbs
    <3> HIDE DEF c2
    <3>4. c2 \in SciCbs
      BY <1>5, <3>2, <3>3 DEF SciCbs
    <3>5. c2.state = "RX" /\ c2.buf = r.cb.buf /\ c2.taken = cb.taken /\ c2.bytes_expected = l
      BY <1>5, <3>3 DEF SciCbs
    <3> QED BY <1>5, <2>1, <3>1, <3>4, <3>5
  <2>2. CASE ~wake
    BY <1>5, <2>2
  <2> QED BY <2>1, <2>2
<1>7. wake \in BOOLEAN
  OBVIOUS
<1> HIDE DEF c2, wake
<1>8. /\ c3 \in SciCbs /\ c3.state = "RX" /\ c3.buf = c2.buf /\ c3.taken = c2.taken
      /\ c3.bytes_expected = c2.bytes_expected /\ c3.waiting = c2.waiting
  <2>1. CASE "REI" \in isr /\ ~c2.rx_complete
    <3>1. PICK e : e = IF c2.para.T = 0 \/ "BAD" \in isr THEN "HW" ELSE c2.error
      OBVIOUS
    <3>2. e \in {"OK", "HW", "ABORTED", "KERNEL"}
      BY <1>6, <3>1 DEF SciCbs
    <3>3. c3 = [c2 EXCEPT !.rx_complete = TRUE, !.error = e]
      BY <1>6, <2>1, <3>1 DEF SciCbs
    <3> HIDE DEF c3
    <3>4. c3 \in SciCbs
      BY <1>6, <3>2, <3>3 DEF SciCbs
    <3> QED BY <1>6, <3>3, <3>4 DEF SciCbs
  <2>2. CASE ~("REI" \in isr /\ ~c2.rx_complete)
    BY <1>6, <2>2
  <2> QED BY <2>1, <2>2
<1> HIDE DEF c3
<1>9. /\ cb' \in SciCbs /\ cb'.state = "RX" /\ cb'.buf = r.cb.buf /\ cb'.taken = cb.taken
      /\ cb'.bytes_expected = c3.bytes_expected /\ cb'.rx_complete = c3.rx_complete
      /\ cb'.waiting = (c3.waiting /\ ~c3.rx_complete)
  <2>1. PICK b : b = (c3.waiting /\ ~c3.rx_complete)
    OBVIOUS
  <2>2. b \in BOOLEAN /\ cb' = [c3 EXCEPT !.waiting = b]
    BY <1>2, <1>8, <2>1 DEF SciCbs
  <2>3. cb' \in SciCbs /\ cb'.waiting = b
    BY <1>8, <2>2 DEF SciCbs
  <2>4. cb'.state = "RX" /\ cb'.buf = r.cb.buf /\ cb'.taken = cb.taken
        /\ cb'.bytes_expected = c3.bytes_expected /\ cb'.rx_complete = c3.rx_complete
    BY <1>6, <1>8, <2>2 DEF SciCbs
  <2> QED BY <2>1, <2>3, <2>4
<1>10. /\ hw' \in SciHws /\ hw'.rx = r.hw.rx
       /\ hw'.scint \subseteq hw.scint /\ SameHw(hw, [hw' EXCEPT !.scint = hw.scint])
       /\ hw'.powered = hw.powered /\ hw'.present = hw.present
       /\ hw'.scinten = hw.scinten /\ hw'.mode = hw.mode /\ hw'.rxSent = hw.rxSent
       /\ hw'.tx = hw.tx /\ hw'.wire = hw.wire /\ hw'.sctxlen = hw.sctxlen
  <2>1. PICK s : s = hw.scint \ clear
    OBVIOUS
  <2>2. s \in SUBSET SciBits /\ s \subseteq hw.scint
    BY <1>1, <2>1 DEF SciHws
  <2>3. hw' = [r.hw EXCEPT !.scint = s]
    BY <1>2, <1>3, <2>1 DEF SciHws, SameHw
  <2>4. hw' \in SciHws /\ hw'.scint = s /\ hw'.rx = r.hw.rx
    BY <1>3, <2>2, <2>3 DEF SciHws
  <2>5. /\ hw'.powered = hw.powered /\ hw'.present = hw.present
        /\ hw'.scinten = hw.scinten /\ hw'.mode = hw.mode /\ hw'.rxSent = hw.rxSent
        /\ hw'.tx = hw.tx /\ hw'.wire = hw.wire /\ hw'.sctxlen = hw.sctxlen
    BY <1>3, <2>3 DEF SciHws, SameHw
  <2>6. SameHw(hw, [hw' EXCEPT !.scint = hw.scint])
    BY <2>4, <2>5 DEF SameHw, SciHws
  <2> QED BY <2>2, <2>4, <2>5, <2>6
<1>11. /\ sciCall' \in SciCalls /\ sciCall'.pc = sciCall.pc /\ sciCall'.n = sciCall.n
       /\ (wake \/ (c3.waiting /\ c3.rx_complete) => sciCall'.woken)
       /\ (~(wake \/ (c3.waiting /\ c3.rx_complete)) => sciCall' = sciCall)
  BY <1>2, WakeTyped
<1>12. SciTyped' /\ SciAsked' /\ SciPower' /\ SciModes' /\ SciFilling'
  BY <1>9, <1>10, <1>11 DEF SciInv, SciTyped, SciAsked, SciPower, SciModes, SciFilling
<1>13. SciExpected'
  <2>1. cb'.bytes_expected = -1 \/ cb'.bytes_expected = r.cb.bytes_expected
    BY <1>6, <1>8, <1>9
  <2> QED BY <1>4, <2>1 DEF SciExpected
<1>14. SciFits'
  <2>1. Len(hw.rx) <= SciFifo /\ Len(hw.tx) <= SciFifo
    BY DEF SciInv, SciFits
  <2>2. Len(hw.rx) \in Nat /\ Len(r.hw.rx) \in Nat
    <3>1. hw.rx \in Bytes /\ r.hw.rx \in Bytes
      BY <1>1, <1>3 DEF SciHws
    <3>2. ASSUME NEW s \in Bytes PROVE Len(s) \in Nat
      BY DEF Bytes
    <3> QED BY <3>1, <3>2, Zenon
  <2>3. Len(r.hw.rx) <= SciFifo
    <3>1. PICK x, y : x = Len(hw.rx) /\ y = Len(r.hw.rx)
      OBVIOUS
    <3>2. x \in Nat /\ y \in Nat /\ y <= x /\ x <= SciFifo
      BY <1>3, <2>1, <2>2, <3>1, Zenon
    <3> QED BY <3>1, <3>2
  <2> QED BY <1>10, <2>1, <2>3 DEF SciFits
<1>15. SciBlocking' /\ SciMessage'
  BY <1>9, <1>10, <1>11 DEF SciInv, SciBlocking, SciMessage, Calm
<1>16. SciHeard'
  <2>1. Len(cb'.buf) + Len(hw'.rx) = Len(cb.buf) + Len(hw.rx)
        /\ cb'.buf \o hw'.rx = cb.buf \o hw.rx
    BY <1>3, <1>9, <1>10
  <2>2. SciHeard
    BY DEF SciInv
  <2> QED BY <1>9, <1>10, <2>1, <2>2, HeardKept
<1>17. NoSleeperForgotten'
  <2>1. ASSUME ~sciCall'.woken, sciCall.pc \in {"wsleep", "rsleep"}
        PROVE  cb'.waiting /\ ~cb'.rx_complete /\ sciCall.pc = "rsleep"
    <3>1. ~wake /\ ~(c3.waiting /\ c3.rx_complete) /\ ~sciCall.woken
      BY <1>11, <2>1
    <3>2. cb.waiting /\ sciCall.pc = "rsleep"
      BY <2>1, <3>1 DEF SciInv, NoSleeperForgotten
    <3>3. c3.waiting
      BY <1>6, <1>8, <3>1, <3>2
    <3> QED BY <1>9, <3>1, <3>2, <3>3
  <2> QED BY <1>9, <1>11, <2>1 DEF NoSleeperForgotten
<1> QED BY <1>12, <1>13, <1>14, <1>15, <1>16, <1>17 DEF SciInv

\* A reception that has just begun.
LEMMA StartHears ==
  ASSUME cb'.buf = <<>>, hw'.rx = <<>>, cb'.taken = 0, hw'.rxSent = 0
  PROVE  SciHeard'
<1>1. Len(<<>>) = 0
  BY EmptyCat DEF Bytes
<1> QED BY <1>1 DEF SciHeard

\* The handler in state TX: the FIFO is refilled, and the writer woken at the
\* end of his message.
LEMMA TxInterruptKeeps ==
  ASSUME SciInv, cb.state = "TX", TxInterrupt, sciEnv' = sciEnv,
         hw.scint \cap hw.scinten # {}, "CDI" \notin hw.scint
  PROVE  SciInv'
<1> DEFINE isr == hw.scint
           refill == "TFHI" \in isr /\ Len(hw.tx) < SciHalf
           some == IF refill THEN Fill(cb.buf, SciHalf) ELSE <<>>
           err == IF "ERR" \in isr THEN "HW" ELSE cb.error
           h1 == [hw EXCEPT !.tx = @ \o some, !.scint = @ \ {"TFHI", "ERR"},
                            !.scinten = IF refill /\ Len(cb.buf) <= SciHalf THEN @ \ {"TFHI"} ELSE @]
           c1 == [cb EXCEPT !.error = err, !.buf = SubSeq(@, Len(some) + 1, Len(@))]
           last == err # "OK" \/ "LTXI" \in isr
<1>1. /\ cb \in SciCbs /\ hw \in SciHws /\ sciCall \in SciCalls
      /\ cb.buf \in Bytes /\ hw.tx \in Bytes /\ hw.wire \in Bytes /\ hw.present \in BOOLEAN
      /\ Len(cb.buf) \in Nat /\ Len(hw.tx) \in Nat /\ Len(hw.wire) \in Nat /\ cb.waiting \in BOOLEAN
  BY DEF SciInv, SciTyped, SciCbs, SciHws, Bytes
<1>2. /\ last => /\ cb' = RxStartCb([c1 EXCEPT !.waiting = FALSE]) /\ hw' = RxStartHw(h1)
                 /\ WakeIf(cb.waiting)
      /\ ~last => cb' = c1 /\ hw' = h1 /\ UNCHANGED sciCall
  BY DEF TxInterrupt
<1>3. sciCall.pc # "wfill"
  BY DEF SciInv, SciFilling
<1>4. PICK k \in 0 .. Len(cb.buf) : some = SubSeq(cb.buf, 1, k) /\ k <= SciHalf /\ (~refill => k = 0)
  <2>1. CASE refill
    <3>1. SciHalf \in Nat
      OBVIOUS
    <3>2. PICK j \in 0 .. Len(cb.buf) : j <= SciHalf /\ Fill(cb.buf, SciHalf) = SubSeq(cb.buf, 1, j)
      <4>1. PICK a : a = cb.buf
        OBVIOUS
      <4>2. a \in Bytes /\ hw.present \in BOOLEAN /\ SciHalf \in Nat
        BY <1>1, <3>1, <4>1
      <4>3. PICK j \in 0 .. Len(a) : Taken(a, SciHalf, j)
        BY <4>2, FillTakes, Zenon
      <4> QED BY <4>1, <4>3 DEF Taken
    <3>3. some = Fill(cb.buf, SciHalf)
      BY <2>1
    <3> QED BY <2>1, <3>2, <3>3
  <2>2. CASE ~refill
    <3>1. 0 \in 0 .. Len(cb.buf) /\ SubSeq(cb.buf, 1, 0) = <<>> /\ 0 <= SciHalf
      BY <1>1 DEF Bytes
    <3> QED BY <2>2, <3>1
  <2> QED BY <2>1, <2>2
<1>5. /\ some \in Bytes /\ Len(some) = k
      /\ SubSeq(cb.buf, k + 1, Len(cb.buf)) \in Bytes
      /\ Len(SubSeq(cb.buf, k + 1, Len(cb.buf))) = Len(cb.buf) - k
      /\ (hw.tx \o some) \o SubSeq(cb.buf, k + 1, Len(cb.buf)) = hw.tx \o cb.buf
  <2> HIDE DEF some
  <2>1. PICK a, c : a = hw.tx /\ c = cb.buf
    OBVIOUS
  <2>2. a \in Bytes /\ c \in Bytes /\ k \in 0 .. Len(c)
    BY <1>1, <2>1
  <2>3. /\ SubSeq(c, 1, k) \in Bytes /\ Len(SubSeq(c, 1, k)) = k
        /\ SubSeq(c, k + 1, Len(c)) \in Bytes /\ Len(SubSeq(c, k + 1, Len(c))) = Len(c) - k
        /\ (a \o SubSeq(c, 1, k)) \o SubSeq(c, k + 1, Len(c)) = a \o c
    BY <2>2, BytesMove, Zenon
  <2> QED BY <1>4, <2>1, <2>3, Zenon
<1>6. PICK t, b, e, s, m : /\ t = hw.tx \o some /\ b = SubSeq(cb.buf, Len(some) + 1, Len(cb.buf)) /\ e = err
                           /\ s = hw.scint \ {"TFHI", "ERR"}
                           /\ m = IF refill /\ Len(cb.buf) <= SciHalf THEN hw.scinten \ {"TFHI"} ELSE hw.scinten
  OBVIOUS
<1>7. h1 = [hw EXCEPT !.tx = t, !.scint = s, !.scinten = m] /\ c1 = [cb EXCEPT !.error = e, !.buf = b]
  BY <1>1, <1>6 DEF SciHws, SciCbs
<1>8. /\ t \in Bytes /\ Len(t) = Len(hw.tx) + k /\ b \in Bytes /\ Len(b) = Len(cb.buf) - k
      /\ t \o b = hw.tx \o cb.buf
  <2> HIDE DEF some
  <2>1. t \in Bytes /\ Len(t) = Len(hw.tx) + k
    BY <1>1, <1>5, <1>6, CatIndexed
  <2> QED BY <1>5, <1>6, <2>1
<1>9. Len(t) <= SciFifo
  <2>1. PICK x, y : x = Len(hw.tx) /\ y = Len(t)
    OBVIOUS
  <2>2. CASE refill
    BY <1>1, <1>4, <1>8, <2>1, <2>2
  <2>3. CASE ~refill
    <3>1. k = 0
      BY <1>4, <2>3
    <3> QED BY <1>1, <1>8, <2>1, <3>1 DEF SciInv, SciFits
  <2> QED BY <2>2, <2>3
<1>10. cb.buf = <<>> => k = 0 /\ b = <<>> /\ t = hw.tx
  <2>1. SUFFICES ASSUME cb.buf = <<>> PROVE k = 0 /\ b = <<>> /\ t = hw.tx
    OBVIOUS
  <2>2. Len(cb.buf) = 0
    BY <2>1, EmptyCat DEF Bytes
  <2>3. k = 0
    BY <2>2
  <2>e. SubSeq(<<>>, 1, 0) = <<>> /\ Len(<<>>) = 0
    OBVIOUS
  <2> HIDE DEF some
  <2>4. some = <<>>
    BY <1>4, <2>1, <2>3, <2>e
  <2>5. b = <<>>
    <3>1. b = SubSeq(cb.buf, 0 + 1, 0)
      BY <1>6, <2>2, <2>4, <2>e
    <3> QED BY <2>1, <2>e, <3>1
  <2>6. t = hw.tx
    BY <1>1, <1>6, <2>4, EmptyCat
  <2> QED BY <2>3, <2>5, <2>6
<1>11. /\ e \in {"OK", "HW", "ABORTED", "KERNEL"} /\ s \in SUBSET SciBits /\ m \in SUBSET SciBits
       /\ "ERR" \notin s /\ ("LTXI" \in s => "LTXI" \in hw.scint)
  BY <1>1, <1>6 DEF SciHws, SciCbs
<1> HIDE DEF some, refill, err, h1, c1, last
<1>12. /\ h1 \in SciHws /\ h1.tx = t /\ h1.scint = s
       /\ h1.powered = hw.powered /\ h1.present = hw.present /\ h1.rx = hw.rx
       /\ h1.mode = hw.mode /\ h1.rxSent = hw.rxSent /\ h1.wire = hw.wire /\ h1.sctxlen = hw.sctxlen
  <2>1. h1 \in SciHws /\ h1.tx = t /\ h1.scint = s
    BY <1>1, <1>7, <1>8, <1>11 DEF SciHws
  <2>2. /\ h1.powered = hw.powered /\ h1.present = hw.present /\ h1.rx = hw.rx
        /\ h1.mode = hw.mode /\ h1.rxSent = hw.rxSent /\ h1.wire = hw.wire /\ h1.sctxlen = hw.sctxlen
    BY <1>1, <1>7 DEF SciHws
  <2> QED BY <2>1, <2>2
<1>13. /\ c1 \in SciCbs /\ c1.buf = b /\ c1.error = e
       /\ c1.state = "TX" /\ c1.waiting = cb.waiting /\ c1.rx_complete = cb.rx_complete
       /\ c1.bytes_expected = cb.bytes_expected
  BY <1>1, <1>7, <1>8, <1>11 DEF SciCbs
<1>14. CASE last
  <2>1. PICK c : c = [c1 EXCEPT !.waiting = FALSE]
    OBVIOUS
  <2>2. c \in SciCbs
    BY <1>13, <2>1 DEF SciCbs
  <2>3. cb' = RxStartCb(c) /\ hw' = RxStartHw(h1) /\ WakeIf(cb.waiting)
    BY <1>2, <1>14, <2>1
  <2>4. /\ cb' \in SciCbs /\ cb'.state = "RX" /\ cb'.buf = <<>> /\ cb'.taken = 0
        /\ ~cb'.rx_complete /\ cb'.bytes_expected = -1
    BY <2>2, <2>3, RxStartCbTyped
  <2>5. /\ hw' \in SciHws /\ hw'.mode = "rx" /\ hw'.rx = <<>> /\ hw'.tx = <<>> /\ hw'.wire = <<>>
        /\ hw'.rxSent = 0 /\ hw'.scint = s \cap {"CDI"}
        /\ hw'.present = hw.present /\ hw'.powered = hw.powered
    BY <1>12, <2>3, RxStartHwTyped
  <2>6. /\ sciCall' \in SciCalls /\ sciCall'.pc = sciCall.pc /\ sciCall'.n = sciCall.n
        /\ (cb.waiting => sciCall'.woken) /\ (~cb.waiting => sciCall' = sciCall)
    BY <1>1, <2>3, WakeTyped
  <2>7. SciFits'
    <3>1. Len(<<>>) = 0 /\ 0 <= SciFifo
      BY EmptyCat DEF Bytes
    <3> QED BY <2>5, <3>1 DEF SciFits
  <2>8. SciTyped' /\ SciAsked' /\ SciExpected' /\ SciPower' /\ SciModes' /\ SciFilling' /\ SciMessage'
    BY <1>3, <2>4, <2>5, <2>6 DEF SciInv, SciTyped, SciAsked, SciExpected, SciPower, SciModes, SciFilling,
       SciMessage
  <2>9. SciHeard'
    BY <2>4, <2>5, StartHears
  <2>10. NoSleeperForgotten'
    BY <2>6 DEF SciInv, NoSleeperForgotten
  <2>11. ASSUME Calm, sciCall.pc = "wblock", sciCall.n > SciFifo PROVE FALSE
    <3>1. /\ "ERR" \notin hw.scint /\ cb.error = "OK"
          /\ Len(hw.wire) + Len(hw.tx) <= SciFifo
          /\ "LTXI" \in hw.scint => Len(hw.wire) >= sciCall.n
      BY <2>11 DEF SciInv, SciBlocking
    <3>2. "LTXI" \in hw.scint
      BY <1>14, <3>1 DEF last, err
    <3>3. sciCall.n \in Nat
      BY <1>1 DEF SciCalls
    <3>4. PICK x, y, z : x = Len(hw.wire) /\ y = Len(hw.tx) /\ z = sciCall.n
      OBVIOUS
    <3>5. x \in Nat /\ y \in Nat /\ z \in Nat /\ x + y <= SciFifo /\ x >= z /\ z > SciFifo
      BY <1>1, <2>11, <3>1, <3>2, <3>3, <3>4
    <3> QED BY <3>5
  <2>12. SciBlocking'
    BY <2>4, <2>5, <2>6, <2>11 DEF SciBlocking, Calm
  <2> QED BY <2>7, <2>8, <2>9, <2>10, <2>12 DEF SciInv
<1>15. CASE ~last
  <2>1. cb' = c1 /\ hw' = h1 /\ sciCall' = sciCall
    BY <1>2, <1>15
  <2>2. SciFits'
    BY <1>9, <1>12, <2>1 DEF SciInv, SciFits
  <2>3. /\ SciTyped' /\ SciAsked' /\ SciExpected' /\ SciPower' /\ SciModes' /\ SciFilling' /\ SciHeard'
        /\ NoSleeperForgotten'
    BY <1>1, <1>3, <1>12, <1>13, <2>1 DEF SciInv, SciTyped, SciAsked, SciExpected, SciPower, SciModes,
       SciFilling, SciHeard, NoSleeperForgotten
  <2>4. SciBlocking'
    <3> SUFFICES ASSUME Calm PROVE SciBlocking'
      BY DEF SciBlocking, Calm
    <3>1. ASSUME sciCall.pc = "wblock"
          PROVE  /\ cb'.error = "OK" /\ hw'.sctxlen = sciCall.n /\ cb'.buf = <<>>
                 /\ Len(hw'.wire) + Len(hw'.tx) <= SciFifo
                 /\ "LTXI" \in hw'.scint => Len(hw'.wire) >= sciCall.n
      <4>1. /\ hw.sctxlen = sciCall.n /\ cb.buf = <<>>
            /\ Len(hw.wire) + Len(hw.tx) <= SciFifo
            /\ "LTXI" \in hw.scint => Len(hw.wire) >= sciCall.n
        BY <3>1 DEF SciInv, SciBlocking
      <4>2. b = <<>> /\ t = hw.tx
        BY <1>10, <4>1
      <4>3. e = "OK"
        BY <1>6, <1>15 DEF last
      <4> QED BY <1>11, <1>12, <1>13, <2>1, <4>1, <4>2, <4>3
    <3>2. "ERR" \notin hw'.scint /\ cb'.state = "TX"
      BY <1>11, <1>12, <1>13, <2>1
    <3> QED BY <2>1, <3>1, <3>2 DEF SciBlocking
  <2>5. SciMessage'
    <3> SUFFICES ASSUME Calm, hw.powered PROVE SciMessage'
      BY <1>12, <2>1 DEF SciMessage, Calm
    <3>1. ASSUME sciCall.pc = "wblock" PROVE hw'.wire \o hw'.tx = Message(FifoPart(sciCall.n))
      <4>1. cb.buf = <<>> /\ hw.wire \o hw.tx = Message(FifoPart(sciCall.n))
        BY <3>1 DEF SciInv, SciBlocking, SciMessage
      <4> QED BY <1>10, <1>12, <2>1, <4>1
    <3>2. ASSUME sciCall.pc = "wsleep" PROVE (hw'.wire \o hw'.tx) \o cb'.buf = Message(sciCall.n)
      <4>1. (hw.wire \o hw.tx) \o cb.buf = Message(sciCall.n)
        BY <3>2 DEF SciInv, SciMessage
      <4>a. PICK w, y, c : w = hw.wire /\ y = hw.tx /\ c = cb.buf
        OBVIOUS
      <4>b. w \in Bytes /\ y \in Bytes /\ c \in Bytes /\ t \in Bytes /\ b \in Bytes
        BY <1>1, <1>8, <4>a, Zenon
      <4>2. (hw.wire \o t) \o b = hw.wire \o (t \o b)
        <5>1. (w \o t) \o b = w \o (t \o b)
          BY <4>b, CatAssoc, ZenonT(40)
        <5> QED BY <4>a, <5>1, Zenon
      <4>3. (hw.wire \o hw.tx) \o cb.buf = hw.wire \o (hw.tx \o cb.buf)
        <5>1. (w \o y) \o c = w \o (y \o c)
          BY <4>b, CatAssoc, ZenonT(40)
        <5> QED BY <4>a, <5>1, Zenon
      <4>4. (hw.wire \o t) \o b = Message(sciCall.n)
        BY <1>8, <4>1, <4>2, <4>3
      <4> QED BY <1>12, <1>13, <2>1, <4>4
    <3> QED BY <2>1, <3>1, <3>2 DEF SciMessage
  <2> QED BY <2>2, <2>3, <2>4, <2>5 DEF SciInv
<1> QED BY <1>14, <1>15

\* The handler.
LEMMA InterruptKeeps == ASSUME SciInv, sci_osd_irq_handler PROVE SciInv'
  BY CardInterruptKeeps, RxInterruptKeeps, TxInterruptKeeps DEF sci_osd_irq_handler

-----------------------------------------------------------------------------
(* The smart card: a caller writes.                                         *)

LEMMA MessageStart ==
  ASSUME NEW n \in Nat, NEW k \in 0 .. n
  PROVE  SubSeq(Message(n), 1, k) = Message(k)
<1>1. k \in Nat /\ Message(n) \in Bytes /\ Len(Message(n)) = n /\ Message(k) \in Bytes /\ Len(Message(k)) = k
  BY MessageBytes
<1>2. SubSeq(Message(n), 1, k) \in Bytes /\ Len(SubSeq(Message(n), 1, k)) = k
  BY <1>1, BytesMove
<1>3. \A i \in 1 .. k : SubSeq(Message(n), 1, k)[i] = Message(k)[i]
  BY <1>1 DEF Message
<1> QED BY <1>1, <1>2, <1>3, SameBytes

\* A call goes on at another place.
LEMMA GotoTyped ==
  ASSUME sciCall \in SciCalls, NEW p \in SciPcs, SciGoto(p)
  PROVE  /\ sciCall' \in SciCalls /\ sciCall'.pc = p /\ sciCall'.woken = sciCall.woken
         /\ (p # "idle" => sciCall'.n = sciCall.n)
<1>1. PICK m : m = IF p = "idle" THEN 0 ELSE sciCall.n
  OBVIOUS
<1>2. m \in Nat
  BY <1>1 DEF SciCalls
<1>3. sciCall' = [sciCall EXCEPT !.pc = p, !.n = m]
  BY <1>1 DEF SciGoto, SciCalls
<1>4. sciCall' \in SciCalls /\ sciCall'.pc = p /\ sciCall'.woken = sciCall.woken /\ sciCall'.n = m
  BY <1>2, <1>3 DEF SciCalls
<1> QED BY <1>1, <1>4

LEMMA WriteKeeps == ASSUME SciInv, NEW n \in SciWrites, sci_inf_write(n) PROVE SciInv'
<1>1. /\ cb \in SciCbs /\ hw \in SciHws /\ sciCall \in SciCalls /\ n \in Nat
      /\ sciCall.pc = "idle" /\ hw' = hw /\ sciEnv' = sciEnv
  BY DEF SciInv, SciTyped, sci_inf_write
<1>2. CASE sci_osi_is_card_activated /\ cb.atr_ready /\ cb.state # "TX"
  <2>1. sciCall' = [sciCall EXCEPT !.pc = "wstart", !.n = n] /\ cb' = cb
    BY <1>2 DEF sci_inf_write
  <2>2. sciCall' \in SciCalls /\ sciCall'.pc = "wstart" /\ sciCall'.n = n
    BY <1>1, <2>1 DEF SciCalls, SciPcs
  <2>3. cb.state = "RX"
    BY <1>2 DEF sci_osi_is_card_activated
  <2>4. SciTyped' /\ SciAsked' /\ SciExpected' /\ SciFits' /\ SciPower' /\ SciModes' /\ SciFilling'
    BY <1>1, <2>1, <2>2, <2>3 DEF SciInv, SciTyped, SciAsked, SciExpected, SciFits, SciPower, SciModes,
       SciFilling, Sending, Reading
  <2>5. SciBlocking' /\ SciMessage' /\ SciHeard' /\ NoSleeperForgotten'
    BY <1>1, <2>1, <2>2 DEF SciInv, SciBlocking, SciMessage, SciHeard, NoSleeperForgotten, Calm
  <2> QED BY <2>4, <2>5 DEF SciInv
<1>3. CASE ~(sci_osi_is_card_activated /\ cb.atr_ready /\ cb.state # "TX")
  <2>1. /\ sciCall' = sciCall
        /\ cb' = IF cb.state = "TX" /\ cb.sync
                 THEN [cb EXCEPT !.buf = [i \in DOMAIN cb.buf |-> Foreign]] ELSE cb
    BY <1>3 DEF sci_inf_write
  <2>2. cb' \in SciCbs /\ cb'.state = cb.state /\ cb'.bytes_expected = cb.bytes_expected
        /\ (cb.state # "TX" => cb' = cb)
    <3>1. CASE cb.state = "TX" /\ cb.sync
      <4>1. PICK b : b = [i \in DOMAIN cb.buf |-> Foreign]
        OBVIOUS
      <4>2. b \in Bytes
        BY <1>1, <4>1 DEF SciCbs, Bytes, Foreign
      <4>3. cb' = [cb EXCEPT !.buf = b]
        BY <2>1, <3>1, <4>1
      <4> QED BY <1>1, <3>1, <4>2, <4>3 DEF SciCbs
    <3>2. CASE ~(cb.state = "TX" /\ cb.sync)
      BY <1>1, <2>1, <3>2
    <3> QED BY <3>1, <3>2
  <2>3. /\ SciTyped' /\ SciAsked' /\ SciExpected' /\ SciFits' /\ SciPower'
        /\ (cb'.state = "RX" => hw'.mode = "rx") /\ (hw'.mode = "rx" => hw'.wire = <<>>)
    BY <1>1, <2>1, <2>2 DEF SciInv, SciTyped, SciAsked, SciExpected, SciFits, SciPower, SciModes
  <2>4. SciHeard'
    BY <1>1, <2>2 DEF SciInv, SciHeard, Calm
  <2> QED BY <1>1, <2>1, <2>3, <2>4, IdleKeeps
<1> QED BY <1>2, <1>3

LEMMA TxStartKeeps == ASSUME SciInv, sci_osi_tx_start PROVE SciInv'
<1>1. /\ cb \in SciCbs /\ hw \in SciHws /\ sciCall \in SciCalls /\ sciCall.pc = "wstart"
      /\ sciEnv' = sciEnv /\ SciGoto("wfill") /\ hw.wire = <<>> /\ sciCall.n \in SciWrites
      /\ sciCall.n \in Nat
  BY DEF SciInv, SciTyped, SciAsked, SciModes, sci_osi_tx_start
<1>2. PICK z, m, d, s : z = <<>> /\ m = sciCall.n /\ d = {"CDI"} /\ s = hw.scint \cap {"CDI"}
  OBVIOUS
<1>3. z \in Bytes /\ Len(z) = 0 /\ m \in Nat /\ d \in SUBSET SciBits /\ s \in SUBSET SciBits
  BY <1>1, <1>2, EmptyCat DEF Bytes, SciBits, RxMask, SciHws
<1>4. /\ cb' = [cb EXCEPT !.state = "TX", !.error = "OK", !.buf = z, !.taken = 0]
      /\ hw' = [hw EXCEPT !.mode = "tx", !.tx = z, !.rx = z, !.rxSent = 0, !.rxEnded = TRUE,
                          !.scinten = d, !.scint = s, !.sctxlen = m]
  BY <1>1, <1>2 DEF sci_osi_tx_start, SciHws
<1>5. /\ cb' \in SciCbs /\ cb'.state = "TX" /\ cb'.error = "OK" /\ cb'.buf = z
      /\ cb'.bytes_expected = cb.bytes_expected
  <2>1. PICK c : c = [cb EXCEPT !.state = "TX", !.error = "OK"]
    OBVIOUS
  <2>2. c \in SciCbs
    BY <1>1, <2>1 DEF SciCbs
  <2>3. cb' = [c EXCEPT !.buf = z, !.taken = 0]
    BY <1>1, <1>4, <2>1 DEF SciCbs
  <2>4. cb' \in SciCbs
    BY <1>3, <2>2, <2>3 DEF SciCbs
  <2> QED BY <1>1, <1>4, <2>4 DEF SciCbs
<1>6. hw' \in SciHws
  <2>1. PICK f : f = [hw EXCEPT !.mode = "tx", !.tx = z, !.rx = z]
    OBVIOUS
  <2>2. PICK g : g = [f EXCEPT !.rxSent = 0, !.rxEnded = TRUE, !.scinten = d]
    OBVIOUS
  <2>3. f \in SciHws
    BY <1>1, <1>3, <2>1 DEF SciHws
  <2>4. g \in SciHws
    BY <1>3, <2>2, <2>3 DEF SciHws
  <2>5. hw' = [g EXCEPT !.scint = s, !.sctxlen = m]
    BY <1>1, <1>4, <2>1, <2>2 DEF SciHws
  <2> QED BY <1>3, <2>4, <2>5 DEF SciHws
<1>7. /\ hw'.powered = hw.powered /\ hw'.present = hw.present /\ hw'.mode = "tx"
      /\ hw'.scinten = {"CDI"} /\ hw'.scint = s /\ hw'.tx = <<>> /\ hw'.rx = <<>>
      /\ hw'.wire = hw.wire /\ hw'.sctxlen = sciCall.n
  BY <1>1, <1>2, <1>4 DEF SciHws
<1>8. sciCall' \in SciCalls /\ sciCall'.pc = "wfill" /\ sciCall'.n = sciCall.n
  <2>1. "wfill" \in SciPcs
    BY DEF SciPcs
  <2> QED BY <1>1, <2>1, GotoTyped
<1>9. SciFits'
  BY <1>2, <1>3, <1>7 DEF SciFits
<1>10. SciTyped' /\ SciAsked' /\ SciExpected' /\ SciPower' /\ SciModes' /\ SciFilling'
  BY <1>1, <1>2, <1>5, <1>6, <1>7, <1>8 DEF SciInv, SciTyped, SciAsked, SciExpected, SciPower, SciModes,
     SciFilling, Sending, Reading
<1>11. SciBlocking' /\ SciMessage' /\ SciHeard' /\ NoSleeperForgotten'
  BY <1>2, <1>5, <1>7, <1>8 DEF SciBlocking, SciMessage, SciHeard, NoSleeperForgotten
<1> QED BY <1>9, <1>10, <1>11 DEF SciInv

\* The first bytes of the message.
LEMMA WriteFifoKeeps == ASSUME SciInv, WriteFifo PROVE SciInv'
<1>1. /\ cb \in SciCbs /\ hw \in SciHws /\ sciCall \in SciCalls /\ sciCall.pc = "wfill"
      /\ sciEnv' = sciEnv /\ SciGoto("wblock") /\ cb' = cb
      /\ hw.present \in BOOLEAN /\ sciCall.n \in Nat /\ sciCall.n \in SciWrites
  BY DEF SciInv, SciTyped, SciAsked, WriteFifo, SciHws, SciCalls, Sending
<1>2. /\ cb.state # "RX" /\ cb.buf = <<>> /\ cb.error = "OK" /\ "LTXI" \notin hw.scint
      /\ hw.tx = <<>> /\ hw.wire = <<>> /\ hw.sctxlen = sciCall.n
  BY <1>1 DEF SciInv, SciFilling
<1>3. PICK n : n = sciCall.n
  OBVIOUS
<1>4. n \in Nat /\ Message(n) \in Bytes /\ Len(Message(n)) = n
  BY <1>1, <1>3, MessageBytes
<1>5. PICK k \in 0 .. n : Taken(Message(n), SciFifo, k)
  <2>1. PICK a : a = Message(n)
    OBVIOUS
  <2>2. a \in Bytes /\ Len(a) = n /\ SciFifo \in Nat
    BY <1>4, <2>1
  <2>3. PICK k \in 0 .. Len(a) : Taken(a, SciFifo, k)
    BY <1>1, <2>2, FillTakes, Zenon
  <2> QED BY <2>1, <2>2, <2>3
<1>6. /\ k <= SciFifo /\ Fill(Message(n), SciFifo) = Message(k) /\ k \in Nat
      /\ hw.present => k = FifoPart(n)
  <2>1. SubSeq(Message(n), 1, k) = Message(k)
    BY <1>4, MessageStart
  <2> QED BY <1>4, <1>5, <2>1 DEF Taken, FifoPart
<1>7. PICK t, m : t = Message(k) /\ m = TxMask
  OBVIOUS
<1>8. t \in Bytes /\ Len(t) = k /\ m \in SUBSET SciBits /\ <<>> \o t = t
  <2>1. t \in Bytes /\ Len(t) = k
    BY <1>6, <1>7, MessageBytes
  <2> QED BY <1>7, <2>1, EmptyCat DEF SciBits
<1>9. hw' = [hw EXCEPT !.tx = t, !.scinten = m]
  BY <1>1, <1>2, <1>3, <1>6, <1>7, <1>8 DEF WriteFifo, SciHws
<1>10. hw' \in SciHws /\ hw'.tx = t
  BY <1>1, <1>8, <1>9 DEF SciHws
<1>11. /\ hw'.powered = hw.powered /\ hw'.present = hw.present /\ hw'.mode = hw.mode
       /\ hw'.scint = hw.scint /\ hw'.rx = hw.rx /\ hw'.rxSent = hw.rxSent
       /\ hw'.wire = hw.wire /\ hw'.sctxlen = hw.sctxlen
  BY <1>1, <1>9 DEF SciHws
<1>12. sciCall' \in SciCalls /\ sciCall'.pc = "wblock" /\ sciCall'.n = n
  <2>1. "wblock" \in SciPcs
    BY DEF SciPcs
  <2> QED BY <1>1, <1>3, <2>1, GotoTyped
<1>13. SciFits'
  BY <1>6, <1>8, <1>10, <1>11 DEF SciInv, SciFits
<1>14. SciTyped' /\ SciAsked' /\ SciExpected' /\ SciPower' /\ SciModes' /\ SciFilling' /\ SciHeard'
       /\ NoSleeperForgotten'
  BY <1>1, <1>2, <1>3, <1>10, <1>11, <1>12 DEF SciInv, SciTyped, SciAsked, SciExpected, SciPower,
     SciModes, SciFilling, SciHeard, NoSleeperForgotten, Sending, Reading
<1>15. SciBlocking'
  <2>1. Len(<<>>) = 0 /\ 0 + k <= SciFifo
    BY <1>6, EmptyCat DEF Bytes
  <2> QED BY <1>1, <1>2, <1>3, <1>8, <1>10, <1>11, <1>12, <2>1 DEF SciInv, SciBlocking, Calm
<1>16. SciMessage'
  BY <1>2, <1>6, <1>7, <1>8, <1>10, <1>11, <1>12 DEF SciInv, SciPower, SciMessage
<1> QED BY <1>13, <1>14, <1>15, <1>16 DEF SciInv

\* The rest of the message is left to the handler.
LEMMA WriteBlockKeeps == ASSUME SciInv, SciWriteBlock PROVE SciInv'
<1> DEFINE n == sciCall.n
           c1 == IF n > SciFifo THEN [cb EXCEPT !.buf = SubSeq(Message(n), SciFifo + 1, n)] ELSE cb
           sleeps == cb.sync /\ cb.state = "TX"
<1>1. /\ cb \in SciCbs /\ hw \in SciHws /\ sciCall \in SciCalls /\ sciCall.pc = "wblock"
      /\ sciEnv' = sciEnv /\ n \in Nat /\ n \in SciWrites
      /\ hw' = IF n > SciFifo THEN [hw EXCEPT !.scinten = @ \cup {"TFHI"}] ELSE hw
      /\ sleeps => /\ cb' = [c1 EXCEPT !.waiting = TRUE]
                   /\ sciCall' = [sciCall EXCEPT !.pc = "wsleep", !.woken = FALSE]
      /\ ~sleeps => SciGoto("idle") /\ cb' = c1
      /\ hw.wire \in Bytes /\ hw.tx \in Bytes
  BY DEF SciInv, SciTyped, SciAsked, SciWriteBlock, SciHws, SciCalls, Sending
<1>2. /\ hw' \in SciHws /\ hw'.powered = hw.powered /\ hw'.present = hw.present /\ hw'.mode = hw.mode
      /\ hw'.scint = hw.scint /\ hw'.rx = hw.rx /\ hw'.tx = hw.tx /\ hw'.rxSent = hw.rxSent
      /\ hw'.wire = hw.wire /\ hw'.sctxlen = hw.sctxlen
  <2>1. CASE n > SciFifo
    <3>1. PICK m : m = hw.scinten \cup {"TFHI"}
      OBVIOUS
    <3>2. m \in SUBSET SciBits /\ hw' = [hw EXCEPT !.scinten = m]
      BY <1>1, <2>1, <3>1 DEF SciHws, SciBits
    <3>3. hw' \in SciHws
      BY <1>1, <3>2 DEF SciHws
    <3> QED BY <1>1, <3>2, <3>3 DEF SciHws
  <2>2. CASE ~(n > SciFifo)
    BY <1>1, <2>2
  <2> QED BY <2>1, <2>2
<1>3. Message(n) \in Bytes /\ Len(Message(n)) = n
  BY <1>1, MessageBytes
<1>4. n > SciFifo => /\ SubSeq(Message(n), SciFifo + 1, n) \in Bytes
                     /\ Message(SciFifo) \o SubSeq(Message(n), SciFifo + 1, n) = Message(n)
  <2> SUFFICES ASSUME n > SciFifo
               PROVE  /\ SubSeq(Message(n), SciFifo + 1, n) \in Bytes
                      /\ Message(SciFifo) \o SubSeq(Message(n), SciFifo + 1, n) = Message(n)
    OBVIOUS
  <2>1. PICK a, z : a = Message(n) /\ z = <<>>
    OBVIOUS
  <2>2. a \in Bytes /\ Len(a) = n /\ z \in Bytes /\ SciFifo \in 0 .. Len(a)
    BY <1>1, <1>3, <2>1, EmptyCat DEF Bytes
  <2>3. /\ SubSeq(a, 1, SciFifo) \in Bytes /\ SubSeq(a, SciFifo + 1, Len(a)) \in Bytes
        /\ (z \o SubSeq(a, 1, SciFifo)) \o SubSeq(a, SciFifo + 1, Len(a)) = z \o a
    BY <2>2, BytesMove
  <2>4. z \o SubSeq(a, 1, SciFifo) = SubSeq(a, 1, SciFifo) /\ z \o a = a
    BY <2>1, <2>2, <2>3, EmptyCat
  <2>5. SubSeq(a, 1, SciFifo) = Message(SciFifo)
    <3>1. SciFifo \in 0 .. n
      BY <2>2
    <3> QED BY <1>1, <2>1, <3>1, MessageStart
  <2> QED BY <2>1, <2>2, <2>3, <2>4, <2>5
<1>5. /\ c1 \in SciCbs /\ c1.state = cb.state /\ c1.bytes_expected = cb.bytes_expected
      /\ (n > SciFifo => c1.buf = SubSeq(Message(n), SciFifo + 1, n)) /\ (~(n > SciFifo) => c1 = cb)
  <2>1. CASE n > SciFifo
    <3>1. PICK b : b = SubSeq(Message(n), SciFifo + 1, n)
      OBVIOUS
    <3>2. c1 = [cb EXCEPT !.buf = b] /\ b \in Bytes
      BY <1>4, <2>1, <3>1
    <3> HIDE DEF c1
    <3>3. c1 \in SciCbs /\ c1.buf = b
      BY <1>1, <3>2 DEF SciCbs
    <3> QED BY <1>1, <2>1, <3>1, <3>2, <3>3 DEF SciCbs
  <2>2. CASE ~(n > SciFifo)
    BY <1>1, <2>2
  <2> QED BY <2>1, <2>2
<1> HIDE DEF c1
<1>6. /\ cb' \in SciCbs /\ cb'.state = cb.state /\ cb'.bytes_expected = cb.bytes_expected
      /\ cb'.buf = c1.buf /\ (sleeps => cb'.waiting) /\ (~sleeps => cb' = c1)
  BY <1>1, <1>5 DEF SciCbs
<1>7. /\ sciCall' \in SciCalls
      /\ sleeps => sciCall'.pc = "wsleep" /\ sciCall'.n = n
      /\ ~sleeps => sciCall'.pc = "idle"
  <2>1. CASE sleeps
    BY <1>1, <2>1 DEF SciCalls, SciPcs
  <2>2. CASE ~sleeps
    <3>1. "idle" \in SciPcs
      BY DEF SciPcs
    <3> QED BY <1>1, <2>2, <3>1, GotoTyped
  <2> QED BY <2>1, <2>2
<1>8. SciTyped' /\ SciAsked' /\ SciExpected' /\ SciFits' /\ SciPower' /\ SciModes' /\ SciFilling'
  BY <1>1, <1>2, <1>6, <1>7 DEF SciInv, SciTyped, SciAsked, SciExpected, SciFits, SciPower,
     SciModes, SciFilling, Sending, Reading
<1>9. SciBlocking' /\ NoSleeperForgotten'
  BY <1>1, <1>2, <1>6, <1>7 DEF SciInv, SciBlocking, NoSleeperForgotten, Calm
<1>10. SciHeard'
  <2> SUFFICES ASSUME Calm, cb.state = "RX" PROVE SciHeard'
    BY <1>1, <1>6 DEF SciHeard, Calm
  <2>1. ~(n > SciFifo)
    BY <1>1 DEF SciInv, SciBlocking
  <2>2. cb' = cb
    BY <1>5, <1>6, <2>1
  <2> QED BY <1>1, <1>2, <2>2 DEF SciInv, SciHeard, Calm
<1>11. SciMessage'
  <2> SUFFICES ASSUME Calm, cb.state = "TX", hw.powered, sleeps
               PROVE  (hw.wire \o hw.tx) \o c1.buf = Message(n)
    BY <1>1, <1>2, <1>6, <1>7 DEF SciMessage, Calm
  <2>1. hw.wire \o hw.tx = Message(FifoPart(n)) /\ cb.buf = <<>>
    BY <1>1 DEF SciInv, SciMessage, SciBlocking
  <2>2. CASE n > SciFifo
    <3>1. FifoPart(n) = SciFifo
      BY <1>1, <2>2 DEF FifoPart
    <3> QED BY <1>4, <1>5, <2>1, <2>2, <3>1
  <2>3. CASE ~(n > SciFifo)
    <3>1. FifoPart(n) = n /\ c1.buf = <<>>
      BY <1>1, <1>5, <2>1, <2>3 DEF FifoPart
    <3>2. Message(n) \o <<>> = Message(n)
      BY <1>3, EmptyCat
    <3> QED BY <2>1, <3>1, <3>2
  <2> QED BY <2>2, <2>3
<1> QED BY <1>8, <1>9, <1>10, <1>11 DEF SciInv

-----------------------------------------------------------------------------
(* The smart card: a caller reads.                                          *)

\* A step of the thread after which it neither writes nor sleeps, on the
\* control block only.
LEMMA ReadStepKeeps ==
  ASSUME SciInv, cb' \in SciCbs, hw' = hw, sciEnv' = sciEnv, sciCall' \in SciCalls,
         sciCall'.pc \notin {"wstart", "wfill", "wblock", "wsleep", "rsleep"},
         sciCall'.pc \in Reading => sciCall'.n \in SciReads,
         SciExpected', cb'.state = cb.state, SciHeard'
  PROVE  SciInv'
<1>1. SciTyped' /\ SciAsked' /\ SciFits' /\ SciPower'
      /\ (cb'.state = "RX" => hw'.mode = "rx") /\ (hw'.mode = "rx" => hw'.wire = <<>>)
  BY DEF SciInv, SciTyped, SciAsked, SciFits, SciPower, SciModes, Sending
<1> QED BY <1>1, IdleKeeps

LEMMA ReadKeeps == ASSUME SciInv, NEW n \in SciReads, sci_osd_read(n) PROVE SciInv'
<1>1. PICK h, p, a : /\ h = (IF cb.sync THEN n >= SciHalf ELSE hw.half)
                     /\ p = (IF cb.sync THEN "rdecide" ELSE "rcopy")
                     /\ a = cb.rwAny
  OBVIOUS
<1>2. /\ cb \in SciCbs /\ hw \in SciHws /\ sciCall \in SciCalls /\ n \in Nat
      /\ sciEnv' = sciEnv /\ h \in BOOLEAN /\ a \in BOOLEAN /\ p \in {"rdecide", "rcopy"}
      /\ cb' = [cb EXCEPT !.any = a] /\ hw' = [hw EXCEPT !.half = h]
      /\ sciCall' = [sciCall EXCEPT !.pc = p, !.n = n]
  <2>1. /\ cb \in SciCbs /\ hw \in SciHws /\ sciCall \in SciCalls /\ n \in Nat
        /\ sciEnv' = sciEnv /\ cb' = [cb EXCEPT !.any = cb.rwAny]
        /\ hw' = [hw EXCEPT !.half = IF cb.sync THEN n >= SciHalf ELSE @]
        /\ sciCall' = [sciCall EXCEPT !.pc = IF cb.sync THEN "rdecide" ELSE "rcopy", !.n = n]
    BY DEF SciInv, SciTyped, sci_osd_read
  <2>2. cb.rwAny \in BOOLEAN /\ hw.half \in BOOLEAN
    BY <2>1 DEF SciCbs, SciHws
  <2>3. h \in BOOLEAN /\ a \in BOOLEAN /\ p \in {"rdecide", "rcopy"}
    <3>1. CASE cb.sync
      BY <1>1, <2>2, <3>1
    <3>2. CASE ~cb.sync
      BY <1>1, <2>2, <3>2
    <3> QED BY <3>1, <3>2
  <2>4. hw' = [hw EXCEPT !.half = h]
    BY <1>1, <2>1
  <2>5. sciCall' = [sciCall EXCEPT !.pc = p, !.n = n]
    BY <1>1, <2>1
  <2> QED BY <1>1, <2>1, <2>3, <2>4, <2>5
<1>3. sciCall' \in SciCalls /\ sciCall'.pc = p /\ sciCall'.n = n
  BY <1>2 DEF SciCalls, SciPcs
<1>4. /\ cb' \in SciCbs /\ cb'.state = cb.state /\ cb'.bytes_expected = cb.bytes_expected
      /\ cb'.buf = cb.buf /\ cb'.taken = cb.taken
  BY <1>2 DEF SciCbs
<1>5. /\ hw' \in SciHws /\ hw'.powered = hw.powered /\ hw'.present = hw.present /\ hw'.mode = hw.mode
      /\ hw'.scint = hw.scint /\ hw'.rx = hw.rx /\ hw'.tx = hw.tx /\ hw'.rxSent = hw.rxSent
      /\ hw'.wire = hw.wire
  BY <1>2 DEF SciHws
<1>6. /\ SciTyped' /\ SciAsked' /\ SciExpected' /\ SciFits' /\ SciPower' /\ SciHeard'
      /\ (cb'.state = "RX" => hw'.mode = "rx") /\ (hw'.mode = "rx" => hw'.wire = <<>>)
  <2>1. SciTyped' /\ SciAsked' /\ SciExpected'
    BY <1>2, <1>3, <1>4, <1>5 DEF SciInv, SciTyped, SciAsked, SciExpected, Sending
  <2>2. /\ SciFits' /\ SciPower'
        /\ (cb'.state = "RX" => hw'.mode = "rx") /\ (hw'.mode = "rx" => hw'.wire = <<>>)
    BY <1>4, <1>5 DEF SciInv, SciFits, SciPower, SciModes
  <2>3. SciHeard'
    BY <1>2, <1>4, <1>5 DEF SciInv, SciHeard, Calm
  <2> QED BY <2>1, <2>2, <2>3
<1> QED BY <1>2, <1>3, <1>5, <1>6, IdleKeeps

LEMMA DecideKeeps == ASSUME SciInv, ReadDecide PROVE SciInv'
<1>1. PICK e, p : /\ e = (IF /\ cb.state # "TX" /\ ~cb.any
                             /\ ~cb.rx_complete /\ Len(cb.buf) < sciCall.n
                          THEN sciCall.n ELSE cb.bytes_expected)
                  /\ p \in {"rblock", "rcopy"} /\ SciGoto(p)
  BY DEF ReadDecide
<1>2. /\ cb \in SciCbs /\ sciCall \in SciCalls /\ sciCall.pc = "rdecide" /\ sciCall.n \in Nat
      /\ sciCall.n \in SciReads /\ sciEnv' = sciEnv /\ hw' = hw
      /\ e \in Int /\ (e = sciCall.n \/ e = cb.bytes_expected)
  BY <1>1 DEF SciInv, SciTyped, SciAsked, ReadDecide, SciCbs, SciCalls, Reading
<1>3. cb' = [cb EXCEPT !.bytes_expected = e]
  BY <1>1, <1>2 DEF ReadDecide, SciCbs
<1>4. /\ cb' \in SciCbs /\ cb'.state = cb.state /\ cb'.bytes_expected = e
      /\ cb'.buf = cb.buf /\ cb'.taken = cb.taken
  BY <1>2, <1>3 DEF SciCbs
<1>5. sciCall' \in SciCalls /\ sciCall'.pc = p /\ sciCall'.n = sciCall.n
  <2>1. p \in SciPcs /\ p # "idle"
    BY <1>1 DEF SciPcs
  <2> QED BY <1>1, <1>2, <2>1, GotoTyped
<1>6. SciExpected'
  <2>1. sciCall.n \in 0 .. sciCall.n
    BY <1>2
  <2> QED BY <1>2, <1>4, <2>1 DEF SciInv, SciExpected
<1>7. SciHeard'
  BY <1>2, <1>4 DEF SciInv, SciHeard, Calm
<1> QED BY <1>1, <1>2, <1>4, <1>5, <1>6, <1>7, ReadStepKeeps

\* The sleep of a reader begins with its marks set.
LEMMA ReadBlockKeeps == ASSUME SciInv, SciReadBlock PROVE SciInv'
<1>1. /\ cb \in SciCbs /\ hw \in SciHws /\ sciCall \in SciCalls /\ sciCall.pc = "rblock"
      /\ sciCall.n \in SciReads /\ sciEnv' = sciEnv /\ hw' = hw
  BY DEF SciInv, SciTyped, SciAsked, SciReadBlock, Reading
<1>2. CASE ~cb.rx_complete /\ sci_osi_is_card_activated
  <2>1. cb' = [cb EXCEPT !.waiting = TRUE] /\ sciCall' = [sciCall EXCEPT !.pc = "rsleep", !.woken = FALSE]
    BY <1>2 DEF SciReadBlock
  <2>2. /\ cb' \in SciCbs /\ cb'.state = cb.state /\ cb'.bytes_expected = cb.bytes_expected
        /\ cb'.buf = cb.buf /\ cb'.taken = cb.taken /\ cb'.waiting /\ cb'.rx_complete = cb.rx_complete
        /\ cb'.error = cb.error
    BY <1>1, <2>1 DEF SciCbs
  <2>3. sciCall' \in SciCalls /\ sciCall'.pc = "rsleep" /\ sciCall'.n = sciCall.n
    BY <1>1, <2>1 DEF SciCalls, SciPcs
  <2>4. SciTyped' /\ SciAsked' /\ SciExpected' /\ SciFits' /\ SciPower' /\ SciModes' /\ SciFilling'
    BY <1>1, <2>2, <2>3 DEF SciInv, SciTyped, SciAsked, SciExpected, SciFits, SciPower, SciModes,
       SciFilling, Sending
  <2>5. SciBlocking' /\ SciMessage' /\ SciHeard'
    BY <1>1, <2>2, <2>3 DEF SciInv, SciBlocking, SciMessage, SciHeard, Calm
  <2>6. NoSleeperForgotten'
    BY <1>2, <2>2, <2>3 DEF NoSleeperForgotten, sci_osi_is_card_activated
  <2> QED BY <2>4, <2>5, <2>6 DEF SciInv
<1>3. CASE ~(~cb.rx_complete /\ sci_osi_is_card_activated)
  <2>1. SciGoto("rcopy") /\ cb' = cb
    BY <1>3 DEF SciReadBlock
  <2>2. sciCall' \in SciCalls /\ sciCall'.pc = "rcopy" /\ sciCall'.n = sciCall.n
    <3>1. "rcopy" \in SciPcs
      BY DEF SciPcs
    <3> QED BY <1>1, <2>1, <3>1, GotoTyped
  <2>3. SciExpected' /\ SciHeard'
    BY <1>1, <2>1 DEF SciInv, SciExpected, SciHeard, Calm
  <2> QED BY <1>1, <2>1, <2>2, <2>3, ReadStepKeeps
<1> QED BY <1>2, <1>3

\* What the caller gets are the first bytes of those he has not got.
LEMMA ReadCopyKeeps == ASSUME SciInv, ReadCopy PROVE SciInv'
<1> DEFINE n == IF Len(cb.buf) > sciCall.n THEN sciCall.n ELSE Len(cb.buf)
<1>1. /\ cb \in SciCbs /\ hw \in SciHws /\ sciCall \in SciCalls /\ sciCall.n \in Nat
      /\ cb.buf \in Bytes /\ hw.rx \in Bytes /\ Len(cb.buf) \in Nat /\ Len(hw.rx) \in Nat
      /\ cb.taken \in Nat /\ hw.rxSent \in Nat
      /\ sciEnv' = sciEnv /\ hw' = hw /\ SciGoto("idle")
      /\ cb' = [cb EXCEPT !.buf = SubSeq(@, n + 1, Len(@)), !.error = "OK",
                          !.taken = IF cb.state = "RX" THEN @ + n ELSE @]
  <2>1. cb \in SciCbs /\ hw \in SciHws /\ sciCall \in SciCalls
    BY DEF SciInv, SciTyped
  <2>2. /\ sciCall.n \in Nat /\ cb.buf \in Bytes /\ hw.rx \in Bytes
        /\ cb.taken \in Nat /\ hw.rxSent \in Nat
    BY <2>1 DEF SciCbs, SciHws, SciCalls
  <2>3. Len(cb.buf) \in Nat /\ Len(hw.rx) \in Nat
    BY <2>2 DEF Bytes
  <2>4. /\ sciEnv' = sciEnv /\ hw' = hw /\ SciGoto("idle")
        /\ cb' = [cb EXCEPT !.buf = SubSeq(@, n + 1, Len(@)), !.error = "OK",
                            !.taken = IF cb.state = "RX" THEN @ + n ELSE @]
    BY DEF ReadCopy
  <2> QED BY <2>1, <2>2, <2>3, <2>4, Zenon
<1>2. PICK k, b, t, l : /\ k = n /\ b = SubSeq(cb.buf, k + 1, Len(cb.buf))
                        /\ t = (IF cb.state = "RX" THEN cb.taken + k ELSE cb.taken)
                        /\ l = Len(cb.buf)
  OBVIOUS
<1>3. k \in 0 .. l /\ l \in Nat /\ t \in Nat
  <2>1. PICK w, v : w = sciCall.n /\ v = cb.taken
    OBVIOUS
  <2>2. w \in Nat /\ v \in Nat /\ l \in Nat /\ k = IF l > w THEN w ELSE l
    BY <1>1, <1>2, <2>1
  <2>3. k \in 0 .. l
    BY <2>2
  <2>4. t = v + k \/ t = v
    BY <1>2, <2>1
  <2> QED BY <2>2, <2>3, <2>4
<1>4. b \in Bytes /\ Len(b) = l - k /\ \A i \in 1 .. l - k : b[i] = cb.buf[k + i]
  <2>1. PICK a, z : a = cb.buf /\ z = <<>>
    OBVIOUS
  <2>2. a \in Bytes /\ z \in Bytes /\ k \in 0 .. Len(a)
    BY <1>1, <1>2, <1>3, <2>1, EmptyCat DEF Bytes
  <2>3. /\ SubSeq(a, k + 1, Len(a)) \in Bytes /\ Len(SubSeq(a, k + 1, Len(a))) = Len(a) - k
        /\ \A i \in 1 .. Len(a) - k : SubSeq(a, k + 1, Len(a))[i] = a[k + i]
    BY <2>2, BytesMove
  <2> QED BY <1>2, <2>1, <2>3
<1>5. cb' = [cb EXCEPT !.buf = b, !.error = "OK", !.taken = t]
  BY <1>1, <1>2 DEF SciCbs
<1>6. /\ cb' \in SciCbs /\ cb'.buf = b /\ cb'.taken = t /\ cb'.state = cb.state
      /\ cb'.bytes_expected = cb.bytes_expected
  <2>1. PICK c : c = [cb EXCEPT !.buf = b, !.error = "OK"]
    OBVIOUS
  <2>2. c \in SciCbs
    BY <1>1, <1>4, <2>1 DEF SciCbs
  <2>3. cb' = [c EXCEPT !.taken = t]
    BY <1>1, <1>5, <2>1 DEF SciCbs
  <2>4. cb' \in SciCbs
    BY <1>3, <2>2, <2>3 DEF SciCbs
  <2> QED BY <1>1, <1>5, <2>4 DEF SciCbs
<1>7. sciCall' \in SciCalls /\ sciCall'.pc = "idle"
  <2>1. "idle" \in SciPcs
    BY DEF SciPcs
  <2> QED BY <1>1, <2>1, GotoTyped
<1>8. SciHeard'
  <2> SUFFICES ASSUME Calm, cb.state = "RX"
               PROVE  /\ Len(b) + Len(hw.rx) = hw.rxSent - t
                      /\ \A i \in 1 .. Len(b) + Len(hw.rx) : (b \o hw.rx)[i] = -(t + i)
    BY <1>1, <1>6 DEF SciHeard, Calm
  <2>1. PICK m, s, v, r : m = Len(hw.rx) /\ s = hw.rxSent /\ v = cb.taken /\ r = hw.rx
    OBVIOUS
  <2>2. /\ m \in Nat /\ s \in Nat /\ v \in Nat /\ t = v + k /\ r \in Bytes /\ Len(r) = m
        /\ l + m = s - v /\ \A i \in 1 .. l + m : (cb.buf \o r)[i] = -(v + i)
    BY <1>1, <1>2, <2>1 DEF SciInv, SciHeard
  <2>3. (l - k) + m = s - t
    BY <1>3, <2>2
  <2>4. \A i \in 1 .. l + m : (cb.buf \o r)[i] = IF i <= l THEN cb.buf[i] ELSE r[i - l]
    <3>1. PICK a : a = cb.buf
      OBVIOUS
    <3>2. a \in Bytes /\ Len(a) = l
      BY <1>1, <1>2, <3>1
    <3>3. \A i \in 1 .. Len(a) + Len(r) : (a \o r)[i] = IF i <= Len(a) THEN a[i] ELSE r[i - Len(a)]
      BY <2>2, <3>2, CatIndexed
    <3> QED BY <2>2, <3>1, <3>2, <3>3
  <2>5. \A i \in 1 .. (l - k) + m : (b \o r)[i] = IF i <= l - k THEN b[i] ELSE r[i - (l - k)]
    <3>1. PICK a, z : a = Len(b) /\ z = b
      OBVIOUS
    <3>2. z \in Bytes /\ Len(z) = a /\ a = l - k
      BY <1>4, <3>1
    <3>3. \A i \in 1 .. Len(z) + Len(r) : (z \o r)[i] = IF i <= Len(z) THEN z[i] ELSE r[i - Len(z)]
      BY <2>2, <3>2, CatIndexed
    <3>4. \A i \in 1 .. a + m : (z \o r)[i] = IF i <= a THEN z[i] ELSE r[i - a]
      BY <2>2, <3>2, <3>3
    <3> QED BY <3>1, <3>2, <3>4
  <2>6. ASSUME NEW i \in 1 .. (l - k) + m PROVE (b \o r)[i] = -(t + i)
    <3>1. PICK j : j = k + i
      OBVIOUS
    <3>2. j \in 1 .. l + m /\ i \in Nat /\ j \in Nat /\ -(v + j) = -(t + i)
      BY <1>3, <2>2, <3>1
    <3>3. (cb.buf \o r)[j] = -(v + j)
      BY <2>2, <3>2
    <3>4. CASE i <= l - k
      <4>1. j <= l /\ i \in 1 .. l - k
        BY <1>3, <3>1, <3>2, <3>4
      <4>2. (b \o r)[i] = cb.buf[j]
        BY <1>4, <2>5, <3>1, <3>4, <4>1
      <4> QED BY <2>4, <3>2, <3>3, <4>1, <4>2
    <3>5. CASE ~(i <= l - k)
      <4>1. ~(j <= l) /\ j - l = i - (l - k)
        BY <1>3, <3>1, <3>2, <3>5
      <4> QED BY <2>4, <2>5, <3>2, <3>3, <3>5, <4>1
    <3> QED BY <3>4, <3>5
  <2> QED BY <1>4, <2>1, <2>3, <2>6
<1>9. SciExpected'
  BY <1>6 DEF SciInv, SciExpected
<1> QED BY <1>1, <1>6, <1>7, <1>8, <1>9, ReadStepKeeps DEF Reading

\* A sleep ends, by the handler, a signal or its time.
LEMMA WakeUpKeeps ==
  ASSUME SciInv, NEW err \in {"", "ABORTED", "KERNEL"}, SciWakeUp(err), UNCHANGED <<sciEnv, hw>>
  PROVE  SciInv'
<1>1. PICK p, e, m : /\ p = (IF sciCall.pc = "wsleep" THEN "idle" ELSE "rcopy")
                     /\ e = (IF sciCall.pc = "wsleep" THEN "OK" ELSE IF err = "" THEN cb.error ELSE err)
                     /\ m = (IF sciCall.pc = "wsleep" THEN 0 ELSE sciCall.n)
  OBVIOUS
<1>2. /\ cb \in SciCbs /\ sciCall \in SciCalls /\ sciEnv' = sciEnv /\ hw' = hw
      /\ cb' = [cb EXCEPT !.error = e]
      /\ sciCall' = [sciCall EXCEPT !.pc = p, !.woken = FALSE, !.n = m]
      /\ p \in {"idle", "rcopy"} /\ m \in Nat /\ (p = "rcopy" => m \in SciReads)
      /\ e \in {"OK", "HW", "ABORTED", "KERNEL"}
  BY <1>1 DEF SciInv, SciTyped, SciAsked, SciWakeUp, SciCbs, SciCalls, Reading
<1>3. /\ cb' \in SciCbs /\ cb'.state = cb.state /\ cb'.bytes_expected = cb.bytes_expected
      /\ cb'.buf = cb.buf /\ cb'.taken = cb.taken
  BY <1>2 DEF SciCbs
<1>4. sciCall' \in SciCalls /\ sciCall'.pc = p /\ sciCall'.n = m
  BY <1>2 DEF SciCalls, SciPcs
<1>5. SciExpected' /\ SciHeard'
  BY <1>2, <1>3 DEF SciInv, SciExpected, SciHeard, Calm
<1> QED BY <1>2, <1>3, <1>4, <1>5, ReadStepKeeps DEF Reading

-----------------------------------------------------------------------------
(* The smart card: parameters, activation, reset.                           *)

\* A step of a thread that is not in a call, which leaves the bytes alone.
LEMMA PlainStepKeeps ==
  ASSUME SciInv, cb' \in SciCbs, hw' \in SciHws, sciEnv' = sciEnv, sciCall' \in SciCalls,
         sciCall'.pc \in {"idle", "closed"},
         hw'.powered => hw'.present,
         hw'.mode = hw.mode, hw'.wire = hw.wire, hw'.tx = hw.tx, hw'.rx = hw.rx,
         hw'.rxSent = hw.rxSent, hw'.scint \subseteq hw.scint,
         cb'.buf = cb.buf, cb'.taken = cb.taken, cb'.bytes_expected = cb.bytes_expected,
         cb'.state = cb.state \/ cb'.state = "DEAC"
  PROVE  SciInv'
<1>1. /\ SciTyped' /\ SciAsked' /\ SciExpected' /\ SciFits' /\ SciPower'
      /\ (cb'.state = "RX" => hw'.mode = "rx") /\ (hw'.mode = "rx" => hw'.wire = <<>>)
  BY DEF SciInv, SciTyped, SciAsked, SciExpected, SciFits, SciPower, SciModes, Sending, Reading
<1>2. SciHeard'
  BY DEF SciInv, SciHeard, Calm
<1> QED BY <1>1, <1>2, IdleKeeps

LEMMA ParasTaken ==
  ASSUME NEW old \in SciParas, NEW p \in SciParas
  PROVE  sci_osi_set_para(old, p) \in SciParas
  BY DEF sci_osi_set_para, SciParas, AcceptT, AcceptTime, AcceptClk

LEMMA ParasWritten ==
  ASSUME NEW h \in SciHws, NEW old \in SciParas, NEW p \in SciParas
  PROVE  LET k == sci_atom_set_para(h, old, p) IN
         /\ k \in SciHws
         /\ k.powered = h.powered /\ k.present = h.present /\ k.mode = h.mode /\ k.wire = h.wire
         /\ k.tx = h.tx /\ k.rx = h.rx /\ k.rxSent = h.rxSent /\ k.scint = h.scint
<1>1. PICK q : q = sci_osi_set_para(old, p)
  OBVIOUS
<1>2. PICK b, w : /\ b = (IF q.T # old.T THEN p.T = 1 ELSE h.half)
                  /\ w = (IF p.T = 0 /\ q.WWT # old.WWT THEN p.WWT
                          ELSE IF p.T = 1 /\ q.BWT # old.BWT THEN p.BWT ELSE h.scbwt)
  OBVIOUS
<1>3. h.half \in BOOLEAN /\ h.scbwt \in Nat /\ p.WWT \in Nat /\ p.BWT \in Nat
  BY DEF SciHws, SciParas
<1>4. b \in BOOLEAN
  <2>1. CASE q.T # old.T
    BY <1>2, <2>1
  <2>2. CASE ~(q.T # old.T)
    BY <1>2, <1>3, <2>2
  <2> QED BY <2>1, <2>2
<1>5. w \in Nat
  BY <1>2, <1>3
<1>6. PICK k : k = [h EXCEPT !.half = b, !.scbwt = w]
  OBVIOUS
<1>7. k = sci_atom_set_para(h, old, p)
  BY <1>1, <1>2, <1>6 DEF sci_atom_set_para
<1>8. k \in SciHws
  BY <1>4, <1>5, <1>6 DEF SciHws
<1>9. /\ k.powered = h.powered /\ k.present = h.present /\ k.mode = h.mode /\ k.wire = h.wire
      /\ k.tx = h.tx /\ k.rx = h.rx /\ k.rxSent = h.rxSent /\ k.scint = h.scint
  BY <1>6 DEF SciHws
<1> QED BY <1>7, <1>8, <1>9

LEMMA ParametersKeep ==
  ASSUME SciInv, NEW p \in SciParams, sci_osi_set_parameters(p)
  PROVE  SciInv'
<1>1. PICK q : q = sci_osi_set_para(cb.para, p)
  OBVIOUS
<1>2. /\ cb \in SciCbs /\ hw \in SciHws /\ sciCall \in SciCalls /\ cb.para \in SciParas /\ p \in SciParas
      /\ sciCall.pc = "idle" /\ sciCall' = sciCall /\ sciEnv' = sciEnv
      /\ cb' = [cb EXCEPT !.para = q] /\ hw' = sci_atom_set_para(hw, cb.para, p)
  BY <1>1 DEF SciInv, SciTyped, sci_osi_set_parameters, SciCbs, SciParas
<1>3. q \in SciParas
  BY <1>1, <1>2, ParasTaken
<1>4. /\ cb' \in SciCbs /\ cb'.buf = cb.buf /\ cb'.taken = cb.taken
      /\ cb'.bytes_expected = cb.bytes_expected /\ cb'.state = cb.state
  BY <1>2, <1>3 DEF SciCbs
<1>5. /\ hw' \in SciHws /\ hw'.powered = hw.powered /\ hw'.present = hw.present
      /\ hw'.mode = hw.mode /\ hw'.wire = hw.wire /\ hw'.tx = hw.tx /\ hw'.rx = hw.rx
      /\ hw'.rxSent = hw.rxSent /\ hw'.scint = hw.scint
  BY <1>2, ParasWritten
<1>6. hw'.powered => hw'.present
  BY <1>5 DEF SciInv, SciPower
<1> QED BY <1>2, <1>4, <1>5, <1>6, PlainStepKeeps

LEMMA CardResetKeeps == ASSUME SciInv, sci_osd_reset PROVE SciInv'
<1>1. PICK q, w, k, p : /\ q = sci_osi_set_para(cb.para, AtrParams)
                        /\ w = (cb.waiting /\ cb.state = "DEAC")
                        /\ k = sci_atom_set_para(hw, cb.para, AtrParams)
                        /\ p = IF cb.state = "DEAC" THEN "COLD" ELSE "WARM"
  OBVIOUS
<1>2. PICK c : c = [cb EXCEPT !.error = "OK", !.waiting = w, !.para = q]
  OBVIOUS
<1>3. /\ cb \in SciCbs /\ hw \in SciHws /\ sciCall \in SciCalls /\ cb.para \in SciParas
      /\ cb.waiting \in BOOLEAN /\ sciEnv' = sciEnv
      /\ hw' = RxStartHw(k) /\ SciGoto(p)
  BY <1>1 DEF SciInv, SciTyped, sci_osd_reset, SciCbs
<1>4. cb' = RxStartCb(c)
  <2>1. PICK d : d = [cb EXCEPT !.error = "OK", !.waiting = @ /\ cb.state = "DEAC"]
    OBVIOUS
  <2>2. d = [cb EXCEPT !.error = "OK", !.waiting = w] /\ d.para = cb.para
    BY <1>1, <1>3, <2>1 DEF SciCbs
  <2>3. cb' = RxStartCb([d EXCEPT !.para = sci_osi_set_para(@, AtrParams)])
    BY <2>1 DEF sci_osd_reset
  <2>4. [d EXCEPT !.para = sci_osi_set_para(@, AtrParams)] = [d EXCEPT !.para = q]
    BY <1>1, <2>2
  <2>5. [d EXCEPT !.para = q] = c
    BY <1>2, <1>3, <2>2 DEF SciCbs
  <2> QED BY <2>3, <2>4, <2>5
<1>5. AtrParams \in SciParas
  BY DEF AtrParams, SciParas
<1>6. q \in SciParas
  BY <1>1, <1>3, <1>5, ParasTaken
<1>7. c \in SciCbs
  <2>1. w \in BOOLEAN
    BY <1>1, <1>3
  <2> QED BY <1>2, <1>3, <1>6, <2>1 DEF SciCbs
<1>8. cb' \in SciCbs /\ cb'.state = "RX" /\ cb'.buf = <<>> /\ cb'.taken = 0 /\ cb'.bytes_expected = -1
  BY <1>4, <1>7, RxStartCbTyped
<1>9. k \in SciHws /\ k.powered = hw.powered /\ k.present = hw.present /\ k.scint = hw.scint
  BY <1>1, <1>3, <1>5, ParasWritten
<1>10. /\ hw' \in SciHws /\ hw'.mode = "rx" /\ hw'.rx = <<>> /\ hw'.tx = <<>> /\ hw'.wire = <<>>
       /\ hw'.rxSent = 0 /\ hw'.scint = hw.scint \cap {"CDI"}
       /\ hw'.present = hw.present /\ hw'.powered = hw.powered
  BY <1>3, <1>9, RxStartHwTyped
<1>11. sciCall' \in SciCalls /\ sciCall'.pc \in {"COLD", "WARM"}
  <2>1. p \in SciPcs /\ p \in {"COLD", "WARM"}
    BY <1>1 DEF SciPcs
  <2> QED BY <1>3, <2>1, GotoTyped
<1>12. SciFits'
  <2>1. Len(<<>>) = 0 /\ 0 <= SciFifo
    BY EmptyCat DEF Bytes
  <2> QED BY <1>10, <2>1 DEF SciFits
<1>13. SciHeard'
  BY <1>8, <1>10, StartHears
<1>14. /\ SciTyped' /\ SciAsked' /\ SciExpected' /\ SciPower'
  BY <1>8, <1>10, <1>11 DEF SciInv, SciTyped, SciAsked, SciExpected, SciPower, Sending, Reading
<1> QED BY <1>3, <1>8, <1>10, <1>11, <1>12, <1>13, <1>14, IdleKeeps

LEMMA HwResetKeeps == ASSUME SciInv, sci_atom_HW_reset PROVE SciInv'
<1>1. /\ cb \in SciCbs /\ hw \in SciHws /\ sciCall \in SciCalls /\ sciEnv' = sciEnv /\ cb' = cb
      /\ SciGoto("idle") /\ hw.present \in BOOLEAN
      /\ hw' = IF sciCall.pc = "COLD" THEN [hw EXCEPT !.powered = hw.present, !.clocked = hw.present]
               ELSE hw
  BY DEF SciInv, SciTyped, sci_atom_HW_reset, SciHws
<1>2. /\ hw' \in SciHws /\ hw'.powered \in {hw.powered, hw.present} /\ hw'.present = hw.present
      /\ hw'.mode = hw.mode /\ hw'.wire = hw.wire /\ hw'.tx = hw.tx /\ hw'.rx = hw.rx
      /\ hw'.rxSent = hw.rxSent /\ hw'.scint = hw.scint
  <2>1. CASE sciCall.pc = "COLD"
    <3>1. PICK b : b = hw.present
      OBVIOUS
    <3>2. hw' = [hw EXCEPT !.powered = b, !.clocked = b] /\ b \in BOOLEAN
      BY <1>1, <2>1, <3>1
    <3>3. hw' \in SciHws /\ hw'.powered = b
      BY <1>1, <3>2 DEF SciHws
    <3>4. /\ hw'.present = hw.present
          /\ hw'.mode = hw.mode /\ hw'.wire = hw.wire /\ hw'.tx = hw.tx /\ hw'.rx = hw.rx
          /\ hw'.rxSent = hw.rxSent /\ hw'.scint = hw.scint
      BY <1>1, <3>2 DEF SciHws
    <3> QED BY <3>1, <3>3, <3>4
  <2>2. CASE sciCall.pc # "COLD"
    BY <1>1, <2>2
  <2> QED BY <2>1, <2>2
<1>3. sciCall' \in SciCalls /\ sciCall'.pc = "idle"
  <2>1. "idle" \in SciPcs
    BY DEF SciPcs
  <2> QED BY <1>1, <2>1, GotoTyped
<1>4. hw'.powered => hw'.present
  BY <1>2 DEF SciInv, SciPower
<1> QED BY <1>1, <1>2, <1>3, <1>4, PlainStepKeeps

\* sci_osd_deactivate, which a release calls too.
LEMMA DeactivateKeeps ==
  ASSUME SciInv, cb' = DeactivateCb, hw' = DeactivateHw, sciEnv' = sciEnv, sciCall' \in SciCalls,
         sciCall'.pc \in {"idle", "closed"}
  PROVE  SciInv'
<1>1. cb \in SciCbs /\ hw \in SciHws /\ cb.waiting \in BOOLEAN /\ cb.rx_complete \in BOOLEAN
      /\ cb.error \in {"OK", "HW", "ABORTED", "KERNEL"} /\ hw.powered \in BOOLEAN
      /\ hw.clocked \in BOOLEAN /\ cb.atr_ready \in BOOLEAN
  BY DEF SciInv, SciTyped, SciCbs, SciHws
<1>2. CASE cb.state = "DEAC"
  <2>1. cb' = cb /\ hw' = hw
    BY <1>2 DEF DeactivateCb, DeactivateHw
  <2>2. hw.powered => hw.present
    BY DEF SciInv, SciPower
  <2> QED BY <1>1, <2>1, <2>2, PlainStepKeeps
<1>3. CASE cb.state # "DEAC"
  <2>1. PICK b, e, d, s, p, l : /\ b = (cb.rx_complete \/ cb.waiting)
                                /\ e = (IF cb.waiting THEN "ABORTED" ELSE cb.error)
                                /\ d = {"CDI"} /\ s = hw.scint \cap {"CDI"}
                                /\ p = (hw.powered /\ ~cb.atr_ready)
                                /\ l = (hw.clocked /\ ~cb.atr_ready)
    OBVIOUS
  <2>2. /\ b \in BOOLEAN /\ d \in SUBSET SciBits /\ s \in SUBSET SciBits /\ s \subseteq hw.scint
        /\ p \in BOOLEAN /\ l \in BOOLEAN /\ (p => hw.powered)
    BY <1>1, <2>1 DEF SciHws, SciBits, RxMask
  <2>3. e \in {"OK", "HW", "ABORTED", "KERNEL"}
    BY <1>1, <2>1
  <2>4. cb' = [cb EXCEPT !.state = "DEAC", !.waiting = FALSE, !.rx_complete = b, !.error = e]
    BY <1>1, <1>3, <2>1 DEF DeactivateCb, SciCbs
  <2>5. hw' = [hw EXCEPT !.scinten = d, !.scint = s, !.powered = p, !.clocked = l]
    BY <1>1, <1>3, <2>1 DEF DeactivateHw, SciHws
  <2>6. cb' \in SciCbs
    <3>1. PICK c : c = [cb EXCEPT !.state = "DEAC", !.waiting = FALSE]
      OBVIOUS
    <3>2. c \in SciCbs
      BY <1>1, <3>1 DEF SciCbs
    <3>3. cb' = [c EXCEPT !.rx_complete = b, !.error = e]
      BY <1>1, <2>4, <3>1 DEF SciCbs
    <3> QED BY <2>2, <2>3, <3>2, <3>3 DEF SciCbs
  <2>7. cb'.buf = cb.buf /\ cb'.taken = cb.taken /\ cb'.bytes_expected = cb.bytes_expected
        /\ cb'.state = "DEAC"
    BY <1>1, <2>4 DEF SciCbs
  <2>8. hw' \in SciHws
    <3>1. PICK h : h = [hw EXCEPT !.scinten = d, !.scint = s]
      OBVIOUS
    <3>2. h \in SciHws
      BY <1>1, <2>2, <3>1 DEF SciHws
    <3>3. hw' = [h EXCEPT !.powered = p, !.clocked = l]
      BY <1>1, <2>5, <3>1 DEF SciHws
    <3> QED BY <2>2, <3>2, <3>3 DEF SciHws
  <2>9. /\ hw'.powered = p /\ hw'.present = hw.present /\ hw'.scint = s
        /\ hw'.mode = hw.mode /\ hw'.wire = hw.wire /\ hw'.tx = hw.tx /\ hw'.rx = hw.rx
        /\ hw'.rxSent = hw.rxSent
    BY <1>1, <2>5 DEF SciHws
  <2>10. (hw'.powered => hw'.present) /\ hw'.scint \subseteq hw.scint
    BY <2>2, <2>9 DEF SciInv, SciPower
  <2> QED BY <2>6, <2>7, <2>8, <2>9, <2>10, PlainStepKeeps
<1> QED BY <1>2, <1>3

\* Clock, modes, the answer to reset, open.
LEMMA SettingsKeep ==
  ASSUME SciInv,
         sci_osi_clock_stop \/ sci_osi_clock_start \/ sci_osi_set_modes \/ SetAtrReady \/ sci_inf_open
  PROVE  SciInv'
<1>1. cb \in SciCbs /\ hw \in SciHws /\ sciCall \in SciCalls /\ (hw.powered => hw.present)
  BY DEF SciInv, SciTyped, SciPower
<1>2. CASE sci_osi_clock_stop \/ sci_osi_clock_start
  <2>1. PICK b \in BOOLEAN : hw' = [hw EXCEPT !.clocked = b]
    BY <1>2 DEF sci_osi_clock_stop, sci_osi_clock_start
  <2>2. cb' = cb /\ sciCall' = sciCall /\ sciEnv' = sciEnv /\ sciCall.pc = "idle"
    BY <1>2 DEF sci_osi_clock_stop, sci_osi_clock_start
  <2>3. hw' \in SciHws
    BY <1>1, <2>1 DEF SciHws
  <2>4. /\ hw'.powered = hw.powered /\ hw'.present = hw.present /\ hw'.scint = hw.scint
        /\ hw'.mode = hw.mode /\ hw'.wire = hw.wire /\ hw'.tx = hw.tx /\ hw'.rx = hw.rx
        /\ hw'.rxSent = hw.rxSent
    BY <1>1, <2>1 DEF SciHws
  <2> QED BY <1>1, <2>2, <2>3, <2>4, PlainStepKeeps
<1>3. CASE sci_osi_set_modes \/ SetAtrReady
  <2>1. /\ hw' = hw /\ sciCall' = sciCall /\ sciEnv' = sciEnv /\ sciCall.pc = "idle"
        /\ \/ \E s, a \in BOOLEAN : cb' = [cb EXCEPT !.sync = s, !.rwAny = a]
           \/ cb' = [cb EXCEPT !.atr_ready = TRUE]
    BY <1>3 DEF sci_osi_set_modes, SetAtrReady
  <2>2. /\ cb' \in SciCbs /\ cb'.buf = cb.buf /\ cb'.taken = cb.taken
        /\ cb'.bytes_expected = cb.bytes_expected /\ cb'.state = cb.state
    <3>1. CASE cb' = [cb EXCEPT !.atr_ready = TRUE]
      BY <1>1, <3>1 DEF SciCbs
    <3>2. CASE \E s, a \in BOOLEAN : cb' = [cb EXCEPT !.sync = s, !.rwAny = a]
      <4>1. PICK s, a \in BOOLEAN : cb' = [cb EXCEPT !.sync = s, !.rwAny = a]
        BY <3>2
      <4>2. cb' \in SciCbs
        BY <1>1, <4>1 DEF SciCbs
      <4> QED BY <1>1, <4>1, <4>2 DEF SciCbs
    <3> QED BY <2>1, <3>1, <3>2
  <2> QED BY <1>1, <2>1, <2>2, PlainStepKeeps
<1>4. CASE sci_inf_open
  <2>1. hw' = hw /\ cb' = cb /\ sciEnv' = sciEnv /\ SciGoto("idle") /\ "idle" \in SciPcs
    BY <1>4 DEF sci_inf_open, SciPcs
  <2>2. sciCall' \in SciCalls /\ sciCall'.pc = "idle"
    BY <1>1, <2>1, GotoTyped
  <2> QED BY <1>1, <2>1, <2>2, PlainStepKeeps
<1> QED BY <1>2, <1>3, <1>4

\* The end of a call.
LEMMA ReleaseKeeps == ASSUME SciInv, sci_osd_deactivate \/ sci_inf_release PROVE SciInv'
<1>1. /\ sciCall \in SciCalls /\ cb' = DeactivateCb /\ hw' = DeactivateHw /\ sciEnv' = sciEnv
      /\ (sciCall' = sciCall /\ sciCall.pc = "idle") \/ SciGoto("closed")
  BY DEF SciInv, SciTyped, sci_osd_deactivate, sci_inf_release
<1>2. sciCall' \in SciCalls /\ sciCall'.pc \in {"idle", "closed"}
  <2>1. "closed" \in SciPcs
    BY DEF SciPcs
  <2> QED BY <1>1, <2>1, GotoTyped
<1> QED BY <1>1, <1>2, DeactivateKeeps

-----------------------------------------------------------------------------
(* The smart card: every step.                                              *)

LEMMA SciInitHolds == SciInit => SciInv
<1> SUFFICES ASSUME SciInit PROVE SciInv
  OBVIOUS
<1>1. PICK z, l : z = <<>> /\ l = -1
  OBVIOUS
<1>2. z \in Bytes /\ Len(z) = 0 /\ l \in Int /\ {"CDI"} \in SUBSET SciBits
  BY <1>1, EmptyCat DEF Bytes, SciBits, RxMask
<1>3. PICK p \in BOOLEAN :
         hw = [present |-> p, powered |-> FALSE, clocked |-> FALSE,
               scint |-> {}, scinten |-> {"CDI"},
               mode |-> "rx", half |-> FALSE, rx |-> z, rxSent |-> 0, rxEnded |-> TRUE,
               tx |-> z, sctxlen |-> 0, wire |-> z, scbwt |-> 0]
  BY <1>1 DEF SciInit
<1>4. PICK a : a = [T |-> 0, WWT |-> 0, BWT |-> 0, clk_p |-> 0]
  OBVIOUS
<1>5. cb = [state |-> "DEAC", error |-> "OK", waiting |-> FALSE, rx_complete |-> FALSE,
            bytes_expected |-> l, atr_ready |-> FALSE, any |-> FALSE,
            sync |-> TRUE, rwAny |-> FALSE, buf |-> z, taken |-> 0, para |-> a]
  BY <1>1, <1>4 DEF SciInit
<1>6. hw \in SciHws /\ hw.rx = z /\ hw.tx = z /\ hw.wire = z /\ ~hw.powered /\ hw.scint = {}
  BY <1>2, <1>3 DEF SciHws
<1>7. cb \in SciCbs /\ cb.state = "DEAC" /\ cb.bytes_expected = l
  BY <1>2, <1>4, <1>5 DEF SciCbs, SciParas
<1>8. sciCall \in SciCalls /\ sciCall.pc = "closed"
  BY DEF SciInit, SciCalls, SciPcs
<1>9. SciTyped /\ SciAsked /\ SciExpected /\ SciPower /\ SciModes /\ SciFilling
  BY <1>1, <1>6, <1>7, <1>8 DEF SciTyped, SciAsked, SciExpected, SciPower, SciModes, SciFilling,
     Sending, Reading
<1>10. SciFits
  BY <1>2, <1>6 DEF SciFits
<1>11. SciBlocking /\ SciMessage /\ SciHeard /\ NoSleeperForgotten
  BY <1>6, <1>7, <1>8 DEF SciBlocking, SciMessage, SciHeard, NoSleeperForgotten
<1> QED BY <1>9, <1>10, <1>11 DEF SciInv

LEMMA SciStepHolds == SciInv /\ [SciNext]_sciVars => SciInv'
<1> SUFFICES ASSUME SciInv, [SciNext]_sciVars PROVE SciInv'
  OBVIOUS
<1>1. CASE UNCHANGED sciVars
  <2>1. cb' = cb /\ hw' = hw /\ sciCall' = sciCall /\ sciEnv' = sciEnv
    BY <1>1 DEF sciVars
  <2>2. SciTyped' /\ SciAsked' /\ SciExpected' /\ SciFits' /\ SciPower' /\ SciModes' /\ SciFilling'
    BY <2>1 DEF SciInv, SciTyped, SciAsked, SciExpected, SciFits, SciPower, SciModes, SciFilling
  <2>3. SciBlocking' /\ SciMessage' /\ SciHeard' /\ NoSleeperForgotten'
    BY <2>1 DEF SciInv, SciBlocking, SciMessage, SciHeard, NoSleeperForgotten, Calm
  <2> QED BY <2>2, <2>3 DEF SciInv
<1>2. CASE SciThread
  <2>1. CASE SciResume
    BY <2>1, WakeUpKeeps DEF SciResume
  <2> QED BY <1>2, <2>1, TxStartKeeps, WriteFifoKeeps, WriteBlockKeeps, DecideKeeps, ReadBlockKeeps,
             ReadCopyKeeps, HwResetKeeps DEF SciThread
<1>3. CASE SciHardware \/ CardMoves \/ CardByte \/ HwFault
  BY <1>3, HwTxKeeps, ThresholdKeeps, CardByteKeeps DEF SciHardware
<1>4. CASE SciTimeout \/ SciSignal
  <2>1. CASE SciTimeout
    <3>1. PICK err \in {"", "ABORTED", "KERNEL"} : SciWakeUp(err)
      BY <2>1 DEF SciTimeout
    <3> QED BY <2>1, <3>1, WakeUpKeeps DEF SciTimeout
  <2>2. CASE SciSignal
    BY <2>2, WakeUpKeeps DEF SciSignal
  <2> QED BY <1>4, <2>1, <2>2
<1>5. CASE \/ \E n \in SciWrites : sci_inf_write(n)
           \/ \E n \in SciReads : sci_osd_read(n)
           \/ \E p \in SciParams : sci_osi_set_parameters(p)
  <2>1. CASE \E n \in SciWrites : sci_inf_write(n)
    BY <2>1, WriteKeeps
  <2>2. CASE \E n \in SciReads : sci_osd_read(n)
    BY <2>2, ReadKeeps
  <2>3. CASE \E p \in SciParams : sci_osi_set_parameters(p)
    BY <2>3, ParametersKeep
  <2> QED BY <1>5, <2>1, <2>2, <2>3
<1>6. CASE \/ sci_osd_reset \/ sci_osd_deactivate \/ sci_inf_release
           \/ sci_osi_clock_stop \/ sci_osi_clock_start
           \/ sci_osi_set_modes \/ SetAtrReady \/ sci_inf_open
  BY <1>6, CardResetKeeps, ReleaseKeeps, SettingsKeep
<1>7. CASE sci_osd_irq_handler
  BY <1>7, InterruptKeeps
<1> QED BY <1>1, <1>2, <1>3, <1>4, <1>5, <1>6, <1>7 DEF SciNext

\* What the invariant says of a message and of a reception.
LEMMA SciIsSafe == SciInv => BytesAndSleepers
<1> SUFFICES ASSUME SciInv PROVE BytesAndSleepers
  OBVIOUS
<1>1. /\ cb \in SciCbs /\ hw \in SciHws /\ sciCall \in SciCalls
      /\ cb.buf \in Bytes /\ hw.rx \in Bytes /\ Len(cb.buf) \in Nat /\ Len(hw.rx) \in Nat
      /\ cb.taken \in Nat /\ hw.rxSent \in Nat
  BY DEF SciInv, SciTyped, SciCbs, SciHws, Bytes
<1>2. SciTypeOK
  BY <1>1 DEF SciInv, SciFits, SciExpected, SciTypeOK, SciHws, SciCbs, SciCalls, SciPcs
<1>3. ASSUME Calm, Running, cb.state = "TX", sciCall.pc = "wsleep"
      PROVE  hw.wire \o hw.tx \o cb.buf = Message(sciCall.n)
  BY <1>3 DEF SciInv, SciMessage, Running
<1>4. ASSUME Calm, cb.state = "RX"
      PROVE  cb.buf \o hw.rx = [i \in 1 .. (hw.rxSent - cb.taken) |-> -(cb.taken + i)]
  <2>1. PICK b, r, t, m : /\ b = cb.buf /\ r = hw.rx /\ t = cb.taken
                          /\ m = hw.rxSent - cb.taken
    OBVIOUS
  <2>2. /\ b \in Bytes /\ r \in Bytes /\ t \in Nat /\ Len(b) + Len(r) = m
        /\ \A i \in 1 .. m : (b \o r)[i] = -(t + i)
    BY <1>1, <1>4, <2>1 DEF SciInv, SciHeard
  <2>3. b \o r \in Bytes /\ Len(b \o r) = m /\ m \in Nat
    <3>1. b \o r \in Bytes /\ Len(b \o r) = Len(b) + Len(r)
      BY <2>2, CatIndexed
    <3>2. Len(b) \in Nat /\ Len(r) \in Nat
      BY <1>1, <2>1
    <3> QED BY <2>2, <3>1, <3>2
  <2>4. PICK f : f = [i \in 1 .. m |-> -(t + i)]
    OBVIOUS
  <2>5. f \in Bytes /\ Len(f) = m /\ \A i \in 1 .. m : f[i] = -(t + i)
    BY <2>2, <2>3, <2>4 DEF Bytes
  <2>6. b \o r = f
    BY <2>2, <2>3, <2>5, SameBytes
  <2> QED BY <2>1, <2>4, <2>6
<1>5. BytesInOrder
  BY <1>3, <1>4 DEF BytesInOrder
<1>6. NoSleeperForgotten
  BY DEF SciInv
<1> QED BY <1>2, <1>5, <1>6 DEF BytesAndSleepers

-----------------------------------------------------------------------------
(* The video decoder: what its variables may be.                            *)

USE VidAssumption

VidDs == [count : 0 .. 1, open : BOOLEAN, src : {"NO", "DEMUX", "MEMORY"}, isrc : {-1, 0, 1},
          state : VidStates, still : BOOLEAN, sfm : FieldModes,
          mode : VidModes \cup {"NORM"}, wide : BOOLEAN, seqend : BOOLEAN, fmt : Formats]
VidRegs == [svd : BOOLEAN, clip : BOOLEAN, blank : BOOLEAN, sync : BOOLEAN,
            master : {"audio", "video"}, mode : VidModes \cup {"NORM"}, wide : BOOLEAN,
            sfm : FieldModes, mask : SUBSET {"PSTART", "SEND"}, seen : SUBSET {"PSTART", "SEND"},
            denc : [0 .. 1 -> Formats], fmt : Formats, fbadr : Formats]
VidInts == [pending : SUBSET Pendings, ff : BOOLEAN, cc : BOOLEAN, ps : BOOLEAN,
            play : SUBSET {"picture", "freeze"}]

\* The steps of a call: those without parts, and those that hold what is done
\* when a command fails or a source is free, a list of steps of S.
NeutralKinds ==
  {"syncoff", "first", "blank", "stop", "svdon", "advance", "syncon", "getmask", "sendon",
   "sendoff", "armplay", "ffarm", "ccarm", "ffwait", "pswait", "ccwait", "sfwait", "psclear"}
SourceKinds == {"srcno", "clipoff", "clipon", "memory", "enter", "closed", "unstill"}
Plain == [k : NeutralKinds \cup SourceKinds] \cup [k : {"state"}, state : VidStates]
         \cup [k : {"isrc"}, isrc : {0, 1}]
With(S) == Plain \cup [k : {"cmd"}, fail : Seq(S)]
           \cup [k : {"inittv", "initclip", "initstill"}, ok : Seq(S)]

\* A still picture that follows a source is the deepest: the freeze that ends
\* the source holds its start, which holds another freeze.
VidSteps1 == With(Plain)
VidSteps2 == With(VidSteps1)
VidSteps3 == With(VidSteps2)
VidSteps == With(VidSteps3)

Rising(S) == Plain \subseteq S /\ S \subseteq With(S)

LEMMA SeqGrows ==
  ASSUME NEW S, NEW T, S \subseteq T, NEW s \in Seq(S) PROVE s \in Seq(T)
  OBVIOUS

LEMMA WithGrows ==
  ASSUME NEW S, Rising(S) PROVE Rising(With(S))
<1>1. Seq(S) \subseteq Seq(With(S))
  <2>1. S \subseteq With(S)
    BY DEF Rising
  <2> HIDE DEF With
  <2> QED BY <2>1, SeqGrows
<1>2. Plain \subseteq With(S)
  BY DEF With
<1>3. With(S) \subseteq With(With(S))
  <2> SUFFICES ASSUME NEW x \in With(S) PROVE x \in With(With(S))
    OBVIOUS
  <2>0. PICK T : T = With(S)
    OBVIOUS
  <2>1. CASE x \in Plain
    BY <2>1 DEF With
  <2>2. CASE x \in [k : {"cmd"}, fail : Seq(S)]
    <3>1. x \in [k : {"cmd"}, fail : Seq(T)]
      BY <2>2, <2>0, <1>1
    <3>2. x \in With(T)
      BY <3>1 DEF With
    <3> QED BY <3>2, <2>0, Zenon
  <2>3. CASE x \in [k : {"inittv", "initclip", "initstill"}, ok : Seq(S)]
    <3>1. x \in [k : {"inittv", "initclip", "initstill"}, ok : Seq(T)]
      BY <2>3, <2>0, <1>1
    <3>2. x \in With(T)
      BY <3>1 DEF With
    <3> QED BY <3>2, <2>0, Zenon
  <2> QED BY <2>1, <2>2, <2>3 DEF With
<1> QED BY <1>2, <1>3 DEF Rising

LEMMA VidStepsRise ==
  /\ Rising(Plain) /\ Rising(VidSteps1) /\ Rising(VidSteps2) /\ Rising(VidSteps3)
  /\ Rising(VidSteps)
<1>1. Rising(Plain)
  BY DEF Rising, With
<1>2. Rising(VidSteps1)
  BY <1>1, WithGrows DEF VidSteps1
<1>3. Rising(VidSteps2)
  BY <1>2, WithGrows DEF VidSteps2
<1>4. Rising(VidSteps3)
  BY <1>3, WithGrows DEF VidSteps3
<1>5. Rising(VidSteps)
  BY <1>4, WithGrows DEF VidSteps
<1> QED BY <1>1, <1>2, <1>3, <1>4, <1>5

-----------------------------------------------------------------------------
(* Lists of steps.                                                          *)

LEMMA ListsOfSteps ==
  ASSUME NEW S
  PROVE  /\ <<>> \in Seq(S)
         /\ \A s, t \in Seq(S) : s \o t \in Seq(S)
         /\ \A a \in S : <<a>> \in Seq(S)
         /\ \A a, b \in S : <<a, b>> \in Seq(S)
         /\ \A a, b, c \in S : <<a, b, c>> \in Seq(S)
         /\ \A a, b, c, d \in S : <<a, b, c, d>> \in Seq(S)
         /\ \A a, b, c, d, e \in S : <<a, b, c, d, e>> \in Seq(S)
         /\ \A s \in Seq(S) : s # <<>> => Head(s) \in S /\ Tail(s) \in Seq(S)
  OBVIOUS

LEMMA StepIn ==
  ASSUME NEW S, Plain \subseteq S, NEW k \in NeutralKinds \cup SourceKinds PROVE Step(k) \in S
  BY DEF Plain, Step

LEMMA StateIn ==
  ASSUME NEW S, Plain \subseteq S, NEW s \in VidStates PROVE SetState(s) \in S
  BY DEF Plain, SetState

LEMMA CmdIn ==
  ASSUME NEW S, NEW s \in Seq(S) PROVE Cmd(s) \in With(S)
  BY DEF With, Cmd

\* A list of five and a rest.
LEMMA FreezeIn ==
  ASSUME NEW S, Rising(S), NEW r \in Seq(S) PROVE vid_atom_freeze(r) \in Seq(With(S))
<1>1. PICK T : T = With(S)
  OBVIOUS
<1>2. S \subseteq T /\ Plain \subseteq T /\ Cmd(r) \in T
  BY <1>1, CmdIn DEF Rising
<1>3. r \in Seq(T)
  BY <1>2, SeqGrows
<1>4. \A k \in NeutralKinds \cup SourceKinds : Step(k) \in T
  BY <1>2, StepIn
<1>5. <<Step("syncoff"), Step("first"), Cmd(r), Step("ffarm"), Step("ffwait")>> \in Seq(T)
  <2>1. Step("syncoff") \in T /\ Step("first") \in T /\ Step("ffarm") \in T /\ Step("ffwait") \in T
    BY <1>4 DEF NeutralKinds
  <2> QED BY <1>2, <2>1, ListsOfSteps, Zenon
<1>6. vid_atom_freeze(r) \in Seq(T)
  BY <1>3, <1>5, ListsOfSteps, Zenon DEF vid_atom_freeze
<1> QED BY <1>1, <1>6, Zenon

-----------------------------------------------------------------------------
(* A call is a plan between steps that leave the source alone.              *)

NeutralSteps == {s \in VidSteps : \/ s.k \in NeutralKinds \cup {"cmd"}
                                  \/ s.k = "state" /\ s.state # "STILLP"}

\* The lists of T after any neutral steps; of these, those that begin with x.
After(T) == {v \in Seq(VidSteps) : \E a \in Seq(NeutralSteps), t \in T : v = a \o t}
Weave(x, T) == After({<<x>> \o t : t \in T})

LEMMA HeadIn ==
  ASSUME NEW S, NEW s \in Seq(S), s # <<>>
  PROVE  Head(s) \in S /\ Tail(s) \in Seq(S) /\ s = <<Head(s)>> \o Tail(s)
<1>1. Head(s) \in S /\ Tail(s) \in Seq(S) /\ Len(s) \in Nat \ {0}
  OBVIOUS
<1>2. PICK t : t = <<Head(s)>> \o Tail(s)
  OBVIOUS
<1>3. t \in Seq(S) /\ Len(t) = Len(s)
  BY <1>1, <1>2
<1>4. \A i \in 1 .. Len(s) : t[i] = s[i]
  BY <1>1, <1>2
<1>5. s = t
  BY <1>3, <1>4, SeqEqual
<1> QED BY <1>1, <1>2, <1>5, Zenon

LEMMA Fronted ==
  ASSUME NEW S, NEW h \in S, NEW u \in Seq(S)
  PROVE  /\ <<h>> \o u \in Seq(S) /\ <<h>> \o u # <<>>
         /\ Head(<<h>> \o u) = h /\ Tail(<<h>> \o u) = u
<1>1. PICK t : t = <<h>> \o u
  OBVIOUS
<1>2. t \in Seq(S) /\ Len(t) = Len(u) + 1 /\ t[1] = h /\ Len(u) \in Nat
      /\ \A i \in 1 .. Len(u) : t[i + 1] = u[i]
  BY <1>1
<1>3. t # <<>> /\ Head(t) = h
  BY <1>2
<1>4. Tail(t) \in Seq(S) /\ Len(Tail(t)) = Len(u) /\ \A i \in 1 .. Len(u) : Tail(t)[i] = u[i]
  BY <1>2, <1>3
<1>5. Tail(t) = u
  BY <1>4, SeqEqual
<1> QED BY <1>1, <1>2, <1>3, <1>5, Zenon

LEMMA Regrouped ==
  ASSUME NEW S, NEW a \in Seq(S), NEW b \in Seq(S), NEW c \in Seq(S)
  PROVE  (a \o b) \o c = a \o (b \o c)
<1>1. PICK l, m : l = (a \o b) \o c /\ m = a \o (b \o c)
  OBVIOUS
<1>2. l \in Seq(S) /\ m \in Seq(S) /\ Len(l) = Len(m)
  BY <1>1
<1>3. \A i \in 1 .. Len(l) : l[i] = m[i]
  BY <1>1, <1>2
<1>4. l = m
  BY <1>2, <1>3, SeqEqual
<1> QED BY <1>1, <1>4, Zenon

LEMMA AfterStep ==
  ASSUME NEW T, T \subseteq Seq(VidSteps), NEW v \in After(T)
  PROVE  /\ v \in Seq(VidSteps)
         /\ \/ v \in T
            \/ v # <<>> /\ Head(v) \in NeutralSteps /\ Tail(v) \in After(T)
<1>1. PICK a \in Seq(NeutralSteps), t \in T : v = a \o t
  BY DEF After
<1>2. a \in Seq(VidSteps) /\ t \in Seq(VidSteps)
  <2>1. NeutralSteps \subseteq VidSteps
    BY DEF NeutralSteps
  <2> QED BY <2>1, SeqGrows
<1>3. v \in Seq(VidSteps)
  BY <1>1, <1>2, ListsOfSteps, Zenon
<1>4. CASE a = <<>>
  <2>1. <<>> \o t = t
    BY <1>2, ConcatEmptySeq, Zenon
  <2> QED BY <1>1, <1>3, <1>4, <2>1
<1>5. CASE a # <<>>
  <2>1. Head(a) \in NeutralSteps /\ Tail(a) \in Seq(NeutralSteps)
    BY <1>5, HeadIn
  <2>2. a = <<Head(a)>> \o Tail(a)
    BY <1>1, <1>5, HeadIn, Zenon
  <2>3. PICK h, r : h = Head(a) /\ r = Tail(a)
    OBVIOUS
  <2>4. <<h>> \in Seq(VidSteps) /\ r \in Seq(VidSteps) /\ h \in VidSteps
    <3>1. h \in VidSteps
      BY <2>1, <2>3 DEF NeutralSteps
    <3>2. r \in Seq(VidSteps)
      BY <1>2, <1>5, <2>3, HeadIn, Zenon
    <3> QED BY <3>1, <3>2, ListsOfSteps, Zenon
  <2>5. v = <<h>> \o (r \o t)
    <3>1. PICK x : x = <<h>>
      OBVIOUS
    <3>2. (x \o r) \o t = x \o (r \o t)
      <4>1. x \in Seq(VidSteps) /\ r \in Seq(VidSteps) /\ t \in Seq(VidSteps)
        BY <1>2, <2>4, <3>1
      <4>2. PICK S : S = VidSteps
        OBVIOUS
      <4>3. x \in Seq(S) /\ r \in Seq(S) /\ t \in Seq(S)
        BY <4>1, <4>2
      <4> QED BY <4>3, Regrouped
    <3> QED BY <1>1, <2>2, <2>3, <3>1, <3>2, Zenon
  <2>6. PICK u : u = r \o t
    OBVIOUS
  <2>7. u \in Seq(VidSteps)
    BY <1>2, <2>4, <2>6, ListsOfSteps, Zenon
  <2>8. <<h>> \o u # <<>> /\ Head(<<h>> \o u) = h /\ Tail(<<h>> \o u) = u
    BY <2>4, <2>7, Fronted, Zenon
  <2>9. u \in After(T)
    BY <1>1, <2>1, <2>3, <2>6, <2>7 DEF After
  <2> QED BY <1>3, <2>1, <2>3, <2>5, <2>6, <2>8, <2>9
<1> QED BY <1>4, <1>5

LEMMA AfterNone ==
  ASSUME NEW T, T \subseteq Seq(VidSteps), NEW t \in T PROVE t \in After(T)
<1>1. <<>> \in Seq(NeutralSteps) /\ <<>> \o t = t
  BY ConcatEmptySeq
<1>2. t \in Seq(VidSteps)
  OBVIOUS
<1> QED BY <1>1, <1>2, Zenon DEF After

LEMMA AfterMore ==
  ASSUME NEW T, T \subseteq Seq(VidSteps), NEW v \in After(T), NEW b \in Seq(NeutralSteps)
  PROVE  b \o v \in After(T)
<1>1. PICK a \in Seq(NeutralSteps), t \in T : v = a \o t
  BY DEF After
<1>2. a \in Seq(VidSteps) /\ t \in Seq(VidSteps) /\ b \in Seq(VidSteps)
  <2>1. NeutralSteps \subseteq VidSteps
    BY DEF NeutralSteps
  <2> QED BY <2>1, SeqGrows
<1>3. b \o v = (b \o a) \o t
  <2>1. (b \o a) \o t = b \o (a \o t)
    <3>1. PICK S : S = VidSteps
      OBVIOUS
    <3>2. b \in Seq(S) /\ a \in Seq(S) /\ t \in Seq(S)
      BY <1>2, <3>1
    <3> QED BY <3>2, Regrouped
  <2> QED BY <1>1, <2>1
<1>4. b \o a \in Seq(NeutralSteps)
  BY <1>1, ListsOfSteps, Zenon
<1>5. b \o v \in Seq(VidSteps)
  <2>1. v \in Seq(VidSteps)
    BY DEF After
  <2> QED BY <1>2, <2>1, ListsOfSteps, Zenon
<1> QED BY <1>1, <1>3, <1>4, <1>5, Zenon DEF After

\* A woven list goes on with its step or with a neutral one.
LEMMA WeaveStep ==
  ASSUME NEW T, T \subseteq Seq(VidSteps), NEW x \in VidSteps, NEW v \in Weave(x, T)
  PROVE  /\ v \in Seq(VidSteps) /\ v # <<>>
         /\ \/ Head(v) = x /\ Tail(v) \in T
            \/ Head(v) \in NeutralSteps /\ Tail(v) \in Weave(x, T)
<1>1. PICK R : R = {<<x>> \o t : t \in T}
  OBVIOUS
<1>2. ASSUME NEW t \in T PROVE /\ <<x>> \o t \in Seq(VidSteps) /\ <<x>> \o t # <<>>
                               /\ Head(<<x>> \o t) = x /\ Tail(<<x>> \o t) = t
  BY Fronted
<1>3. R \subseteq Seq(VidSteps)
  BY <1>1, <1>2
<1>4. v \in After(R) /\ Weave(x, T) = After(R)
  BY <1>1 DEF Weave
<1>5. v \in Seq(VidSteps) /\ (v \in R \/ (v # <<>> /\ Head(v) \in NeutralSteps /\ Tail(v) \in After(R)))
  BY <1>3, <1>4, AfterStep
<1>6. CASE v \in R
  BY <1>1, <1>2, <1>5, <1>6
<1> QED BY <1>4, <1>5, <1>6

LEMMA WeaveIn ==
  ASSUME NEW T, T \subseteq Seq(VidSteps), NEW x \in VidSteps
  PROVE  /\ Weave(x, T) \subseteq Seq(VidSteps)
         /\ \A t \in T : <<x>> \o t \in Weave(x, T)
         /\ \A b \in Seq(NeutralSteps), v \in Weave(x, T) : b \o v \in Weave(x, T)
<1>1. PICK R : R = {<<x>> \o t : t \in T}
  OBVIOUS
<1>2. R \subseteq Seq(VidSteps)
  BY <1>1
<1>3. Weave(x, T) = After(R)
  BY <1>1 DEF Weave
<1>4. Weave(x, T) \subseteq Seq(VidSteps)
  BY WeaveStep
<1>5. \A t \in T : <<x>> \o t \in After(R)
  BY <1>1, <1>2, AfterNone
<1>6. \A b \in Seq(NeutralSteps), v \in After(R) : b \o v \in After(R)
  BY <1>2, AfterMore
<1> QED BY <1>3, <1>4, <1>5, <1>6

-----------------------------------------------------------------------------
(* The lists of calls.                                                      *)

Quiet == Seq(NeutralSteps)
LastStep(x) == Weave(x, Quiet)

Isrc(p) == [k |-> "isrc", isrc |-> p]
Src(p) == IF p = -1 THEN "NO" ELSE IF p = 0 THEN "DEMUX" ELSE "MEMORY"
InitTv == [k |-> "inittv", ok |-> <<Isrc(0)>>]
InitClip == [k |-> "initclip", ok |-> <<Cmd(<<>>), Step("memory")>> \o <<Isrc(1)>>]
InitStill ==
  [k |-> "initstill",
   ok |-> vid_atom_freeze(<<Step("clipon"), Cmd(<<Step("enter")>>), Step("enter")>>)]
Inits == {InitTv, InitClip, InitStill}
Ends == Inits \cup {Step("closed"), Step("unstill")}

LEMMA Shallower == VidSteps3 \subseteq VidSteps /\ VidSteps2 \subseteq VidSteps3 /\ VidSteps1 \subseteq VidSteps2
                   /\ Plain \subseteq VidSteps1 /\ Plain \subseteq VidSteps3 /\ Plain \subseteq VidSteps
<1> HIDE DEF With
<1>1. VidSteps3 \subseteq VidSteps
  BY VidStepsRise DEF Rising, VidSteps
<1>2. VidSteps2 \subseteq VidSteps3
  BY VidStepsRise DEF Rising, VidSteps3
<1>3. VidSteps1 \subseteq VidSteps2
  BY VidStepsRise DEF Rising, VidSteps2
<1>4. Plain \subseteq VidSteps1
  BY VidStepsRise DEF Rising
<1> QED BY <1>1, <1>2, <1>3, <1>4

LEMMA NeutralIn ==
  /\ NeutralSteps \subseteq VidSteps
  /\ \A k \in NeutralKinds : Step(k) \in NeutralSteps
  /\ \A s \in VidStates \ {"STILLP"} : SetState(s) \in NeutralSteps
  /\ \A r \in Seq(VidSteps3) : Cmd(r) \in NeutralSteps
<1>1. NeutralSteps \subseteq VidSteps
  BY DEF NeutralSteps
<1>2. ASSUME NEW k \in NeutralKinds PROVE Step(k) \in NeutralSteps
  <2>1. Step(k) \in VidSteps
    BY Shallower, StepIn
  <2>2. Step(k).k = k
    BY DEF Step
  <2> QED BY <2>1, <2>2 DEF NeutralSteps
<1>3. ASSUME NEW s \in VidStates \ {"STILLP"} PROVE SetState(s) \in NeutralSteps
  <2>1. SetState(s) \in VidSteps
    BY Shallower, StateIn
  <2>2. SetState(s).k = "state" /\ SetState(s).state = s
    BY DEF SetState
  <2> QED BY <2>1, <2>2 DEF NeutralSteps
<1>4. ASSUME NEW r \in Seq(VidSteps3) PROVE Cmd(r) \in NeutralSteps
  <2>1. Cmd(r) \in VidSteps
    BY CmdIn DEF VidSteps
  <2>2. Cmd(r).k = "cmd"
    BY DEF Cmd
  <2> QED BY <2>1, <2>2 DEF NeutralSteps
<1> QED BY <1>1, <1>2, <1>3, <1>4, Zenon

\* Two steps and a rest.
LEMMA Joined ==
  ASSUME NEW S, NEW a \in S, NEW b \in S, NEW r \in Seq(S)
  PROVE  <<a, b>> \o r = <<a>> \o (<<b>> \o r)
<1>1. PICK x, y : x = <<a>> /\ y = <<b>>
  OBVIOUS
<1>2. x \in Seq(S) /\ y \in Seq(S)
  BY <1>1
<1>3. <<a, b>> = x \o y
  <2>1. PICK l, m : l = <<a, b>> /\ m = x \o y
    OBVIOUS
  <2>2. l \in Seq(S) /\ m \in Seq(S) /\ Len(l) = 2 /\ Len(m) = 2
    BY <1>1, <2>1
  <2>3. l[1] = a /\ l[2] = b /\ m[1] = a /\ m[2] = b
    BY <1>1, <2>1
  <2>4. l = m
    BY <2>2, <2>3, SeqEqual
  <2> QED BY <2>1, <2>4
<1>4. (x \o y) \o r = x \o (y \o r)
  BY <1>2, Regrouped
<1> QED BY <1>1, <1>3, <1>4, Zenon

\* The steps of sources, and where they are allowed.
LEMMA SourceSteps ==
  /\ \A k \in SourceKinds : Step(k) \in VidSteps3
  /\ SetState("STILLP") \in VidSteps3
  /\ \A p \in {0, 1} : Isrc(p) \in VidSteps3
  /\ Ends \subseteq VidSteps3
<1>1. \A k \in SourceKinds : Step(k) \in Plain /\ Step(k) \in VidSteps3
  BY Shallower, StepIn
<1>2. SetState("STILLP") \in Plain
  BY StateIn DEF VidStates
<1>3. \A p \in {0, 1} : Isrc(p) \in Plain
  BY DEF Plain, Isrc
<1>4. InitTv \in VidSteps1
  <2>1. <<Isrc(0)>> \in Seq(Plain)
    BY <1>3, ListsOfSteps
  <2> QED BY <2>1 DEF InitTv, VidSteps1, With
<1>5. Cmd(<<>>) \in VidSteps1 /\ Cmd(<<Step("enter")>>) \in VidSteps1
  <2>1. <<>> \in Seq(Plain) /\ <<Step("enter")>> \in Seq(Plain)
    BY <1>1, ListsOfSteps DEF SourceKinds
  <2> QED BY <2>1, CmdIn DEF VidSteps1
<1>6. InitClip \in VidSteps2
  <2>1. Cmd(<<>>) \in VidSteps1 /\ Step("memory") \in VidSteps1 /\ Isrc(1) \in VidSteps1
    BY <1>1, <1>3, <1>5, Shallower DEF SourceKinds
  <2>2. <<Cmd(<<>>), Step("memory")>> \in Seq(VidSteps1) /\ <<Isrc(1)>> \in Seq(VidSteps1)
    BY <2>1, ListsOfSteps, Zenon
  <2>3. PICK o : o = <<Cmd(<<>>), Step("memory")>> \o <<Isrc(1)>>
    OBVIOUS
  <2>4. o \in Seq(VidSteps1)
    BY <2>2, <2>3, ListsOfSteps, Zenon
  <2>5. InitClip = [k |-> "initclip", ok |-> o]
    BY <2>3 DEF InitClip
  <2> QED BY <2>4, <2>5 DEF VidSteps2, With
<1>7. InitStill \in VidSteps3
  <2>1. Step("clipon") \in VidSteps1 /\ Step("enter") \in VidSteps1
    BY <1>1, Shallower DEF SourceKinds
  <2>2. <<Step("clipon"), Cmd(<<Step("enter")>>), Step("enter")>> \in Seq(VidSteps1)
    BY <1>5, <2>1, ListsOfSteps, Zenon
  <2>3. PICK o : o = vid_atom_freeze(<<Step("clipon"), Cmd(<<Step("enter")>>), Step("enter")>>)
    OBVIOUS
  <2>4. o \in Seq(VidSteps2)
    BY <2>2, <2>3, VidStepsRise, FreezeIn, Zenon DEF VidSteps2
  <2>5. InitStill = [k |-> "initstill", ok |-> o]
    BY <2>3 DEF InitStill
  <2> QED BY <2>4, <2>5 DEF VidSteps3, With
<1> QED BY <1>1, <1>2, <1>3, <1>4, <1>6, <1>7, Shallower DEF Ends, Inits, SourceKinds

LEMMA LastIn ==
  ASSUME NEW x \in VidSteps PROVE <<x>> \in LastStep(x) /\ LastStep(x) \subseteq Seq(VidSteps)
<1>1. Quiet \subseteq Seq(VidSteps)
  BY NeutralIn, SeqGrows DEF Quiet
<1>2. <<>> \in Quiet
  BY DEF Quiet
<1>3. <<x>> \o <<>> = <<x>>
  OBVIOUS
<1>4. PICK T : T = Quiet
  OBVIOUS
<1>5. <<x>> \o <<>> \in Weave(x, T) /\ Weave(x, T) \subseteq Seq(VidSteps)
  BY <1>1, <1>2, <1>4, WeaveIn, Zenon
<1> QED BY <1>3, <1>4, <1>5, Zenon DEF LastStep

\* What comes before r in a freeze, a pause, a single frame or a stop only
\* concerns the picture.
LEMMA FrozenBefore ==
  ASSUME NEW r \in Seq(VidSteps3)
  PROVE  /\ \E p \in Quiet : vid_atom_freeze(r) = p \o r
         /\ \E p \in Quiet : vid_atom_pause(r) = p \o r
         /\ \E p \in Quiet : vid_atom_single_frame(r) = p \o r
<1>1. Cmd(r) \in NeutralSteps
  BY NeutralIn
<1>2. \A k \in NeutralKinds : Step(k) \in NeutralSteps
  BY NeutralIn
<1>3. /\ Step("syncoff") \in NeutralSteps /\ Step("first") \in NeutralSteps
      /\ Step("ffarm") \in NeutralSteps /\ Step("ffwait") \in NeutralSteps
      /\ Step("psclear") \in NeutralSteps /\ Step("pswait") \in NeutralSteps
      /\ Step("sfwait") \in NeutralSteps
  BY <1>2 DEF NeutralKinds
<1>4. <<Step("syncoff"), Step("first"), Cmd(r), Step("ffarm"), Step("ffwait")>> \in Quiet
  BY <1>1, <1>3, ListsOfSteps, Zenon DEF Quiet
<1>5. <<Step("syncoff"), Step("first"), Step("psclear"), Cmd(r), Step("pswait")>> \in Quiet
  BY <1>1, <1>3, ListsOfSteps, Zenon DEF Quiet
<1>6. <<Step("first"), Cmd(r), Step("sfwait")>> \in Quiet
  BY <1>1, <1>3, ListsOfSteps, Zenon DEF Quiet
<1>7. \E p \in Quiet : vid_atom_freeze(r) = p \o r
  BY <1>4, Zenon DEF vid_atom_freeze
<1>8. \E p \in Quiet : vid_atom_pause(r) = p \o r
  BY <1>5, Zenon DEF vid_atom_pause
<1>9. \E p \in Quiet : vid_atom_single_frame(r) = p \o r
  BY <1>6, Zenon DEF vid_atom_single_frame
<1> QED BY <1>7, <1>8, <1>9, Zenon

LEMMA QuietJoins ==
  /\ Quiet \subseteq Seq(VidSteps) /\ <<>> \in Quiet
  /\ \A a, b \in Quiet : a \o b \in Quiet
<1>1. Quiet \subseteq Seq(VidSteps)
  BY NeutralIn, SeqGrows DEF Quiet
<1>2. <<>> \in Quiet
  BY DEF Quiet
<1>3. \A a, b \in Quiet : a \o b \in Quiet
  BY ListsOfSteps, Zenon DEF Quiet
<1> QED BY <1>1, <1>2, <1>3, Zenon

LEMMA StoppedBefore ==
  ASSUME NEW r \in Seq(VidSteps3), NEW d, NEW b \in BOOLEAN
  PROVE  \E p \in Quiet : vid_osi_stop(d, b, r) = p \o r
<1>1. r \in Seq(VidSteps)
  BY Shallower, SeqGrows
<1>2. CASE d.state = "STOPPED"
  <2>1. <<>> \o r = r
    BY <1>1, ConcatEmptySeq, Zenon
  <2> QED BY <1>2, <2>1, QuietJoins, Zenon DEF vid_osi_stop
<1>3. CASE d.state # "STOPPED"
  <2>1. PICK e : e = <<Step("stop"), SetState("STOPPED")>>
    OBVIOUS
  <2>2. e \in Quiet /\ e \in Seq(VidSteps3)
    <3>1. Step("stop") \in NeutralSteps /\ SetState("STOPPED") \in NeutralSteps
      BY NeutralIn DEF NeutralKinds, VidStates
    <3>2. Step("stop") \in VidSteps3 /\ SetState("STOPPED") \in VidSteps3
      <4>1. Step("stop") \in Plain
        BY StepIn DEF NeutralKinds
      <4>2. SetState("STOPPED") \in Plain
        BY StateIn DEF VidStates
      <4> QED BY <4>1, <4>2, Shallower
    <3> QED BY <2>1, <3>1, <3>2, ListsOfSteps, Zenon DEF Quiet
  <2>3. e \o r \in Seq(VidSteps3)
    BY <2>2, ListsOfSteps, Zenon
  <2>4. PICK f \in Quiet : vid_atom_freeze(e \o r) = f \o (e \o r)
    BY <2>3, FrozenBefore, Zenon
  <2>5. PICK m : m = <<Step("syncoff")>> \o (IF b THEN <<Step("blank")>> ELSE <<>>)
    OBVIOUS
  <2>6. m \in Quiet
    <3>1. PICK s, t : s = <<Step("syncoff")>> /\ t = (IF b THEN <<Step("blank")>> ELSE <<>>)
      OBVIOUS
    <3>2. Step("syncoff") \in NeutralSteps /\ Step("blank") \in NeutralSteps
      BY NeutralIn DEF NeutralKinds
    <3>3. <<Step("syncoff")>> \in Quiet /\ <<Step("blank")>> \in Quiet
      BY <3>2, ListsOfSteps, Zenon DEF Quiet
    <3>4. s \in Quiet /\ t \in Quiet
      BY <3>1, <3>3, QuietJoins
    <3> QED BY <2>5, <3>1, <3>4, QuietJoins, Zenon
  <2>7. vid_osi_stop(d, b, r) = m \o (f \o (e \o r))
    BY <1>3, <2>1, <2>4, <2>5, Zenon DEF vid_osi_stop
  <2>8. m \o (f \o (e \o r)) = (m \o (f \o e)) \o r
    <3>1. PICK S : S = VidSteps
      OBVIOUS
    <3>2. m \in Seq(S) /\ f \in Seq(S) /\ e \in Seq(S) /\ r \in Seq(S)
      BY <1>1, <2>2, <2>6, <3>1, QuietJoins
    <3>3. f \o (e \o r) = (f \o e) \o r /\ f \o e \in Seq(S)
      BY <3>2, Regrouped
    <3>4. m \o ((f \o e) \o r) = (m \o (f \o e)) \o r
      BY <3>2, <3>3, Regrouped
    <3> QED BY <3>3, <3>4, Zenon
  <2>9. m \o (f \o e) \in Quiet
    BY <2>2, <2>6, QuietJoins, Zenon
  <2> QED BY <2>7, <2>8, <2>9, Zenon
<1> QED BY <1>2, <1>3

\* After a stop, what was to come comes still.
LEMMA StopWeaves ==
  ASSUME NEW r \in Seq(VidSteps3), NEW d, NEW x \in VidSteps, NEW T, T \subseteq Seq(VidSteps),
         r \in Weave(x, T)
  PROVE  vid_osi_stop(d, TRUE, r) \in Weave(x, T)
<1>1. PICK p \in Quiet : vid_osi_stop(d, TRUE, r) = p \o r
  BY StoppedBefore, Zenon
<1>2. p \in Seq(NeutralSteps)
  BY <1>1 DEF Quiet
<1>3. p \o r \in Weave(x, T)
  BY <1>2, WeaveIn
<1> QED BY <1>1, <1>3

\* The source is closed, and i done.
LEMMA Closes ==
  ASSUME NEW i \in Ends, NEW d
  PROVE  /\ vid_osi_close_tv(d, <<i>>) \in Weave(Step("srcno"), LastStep(i))
         /\ vid_osi_close_clip(d, <<i>>) \in Weave(Step("clipoff"), Weave(Step("srcno"), LastStep(i)))
<1>1. /\ i \in VidSteps3 /\ i \in VidSteps
      /\ Step("srcno") \in VidSteps3 /\ Step("srcno") \in VidSteps
      /\ Step("clipoff") \in VidSteps3 /\ Step("clipoff") \in VidSteps
  BY SourceSteps, Shallower DEF SourceKinds
<1>2. PICK T : T = LastStep(i)
  OBVIOUS
<1>3. <<i>> \in T /\ T \subseteq Seq(VidSteps)
  BY <1>1, <1>2, LastIn
<1>4. PICK a, b : a = <<Step("srcno")>> \o <<i>> /\ b = <<Step("clipoff")>> \o a
  OBVIOUS
<1>5. a \in Weave(Step("srcno"), T) /\ Weave(Step("srcno"), T) \subseteq Seq(VidSteps)
  BY <1>1, <1>3, <1>4, WeaveIn, Zenon
<1>6. PICK R : R = Weave(Step("srcno"), T)
  OBVIOUS
<1>7. b \in Weave(Step("clipoff"), R)
  BY <1>1, <1>4, <1>5, <1>6, WeaveIn, Zenon
<1>8. a \in Seq(VidSteps3) /\ b \in Seq(VidSteps3)
  BY <1>1, <1>4, ListsOfSteps, Zenon
<1>9. <<Step("clipoff"), Step("srcno")>> \o <<i>> = b
  <2>1. <<i>> \in Seq(VidSteps)
    BY <1>1, ListsOfSteps, Zenon
  <2>2. PICK S, x, y, r : S = VidSteps /\ x = Step("clipoff") /\ y = Step("srcno") /\ r = <<i>>
    OBVIOUS
  <2>3. x \in S /\ y \in S /\ r \in Seq(S)
    BY <1>1, <2>1, <2>2
  <2>4. <<x, y>> \o r = <<x>> \o (<<y>> \o r)
    BY <2>3, Joined
  <2> QED BY <1>4, <2>2, <2>4, Zenon
<1>10. vid_osi_stop(d, TRUE, a) \in Weave(Step("srcno"), T)
  BY <1>1, <1>3, <1>5, <1>8, StopWeaves, Zenon
<1>11. vid_osi_stop(d, TRUE, b) \in Weave(Step("clipoff"), R)
  BY <1>1, <1>5, <1>6, <1>7, <1>8, StopWeaves, Zenon
<1>12. vid_osi_close_tv(d, <<i>>) = vid_osi_stop(d, TRUE, a)
  BY <1>4, Zenon DEF vid_osi_close_tv
<1>13. vid_osi_close_clip(d, <<i>>) = vid_osi_stop(d, TRUE, b)
  BY <1>9, Zenon DEF vid_osi_close_clip
<1> QED BY <1>2, <1>6, <1>10, <1>11, <1>12, <1>13, Zenon

\* Three steps, five and seven, taken apart.
LEMMA JoinedThree ==
  ASSUME NEW S, NEW a \in S, NEW b \in S, NEW c \in S,
         NEW r \in Seq(S)
  PROVE  <<a, b, c>> \o r = <<a>> \o (<<b, c>> \o r)
<1>1. PICK l, x, y : l = <<a, b, c>> /\ x = <<a>> /\ y = <<b, c>>
  OBVIOUS
<1>2. x \in Seq(S) /\ y \in Seq(S) /\ r \in Seq(S)
  BY <1>1
<1>3. PICK m : m = x \o y
  OBVIOUS
<1>4. l \in Seq(S) /\ m \in Seq(S) /\ Len(l) = 3 /\ Len(m) = 3
  BY <1>1, <1>3
<1>5. \A i \in 1 .. 3 : l[i] = m[i]
  BY <1>1, <1>3
<1>6. l = m
  BY <1>4, <1>5, SeqEqual
<1>7. (x \o y) \o r = x \o (y \o r)
  BY <1>2, Regrouped
<1> QED BY <1>1, <1>3, <1>6, <1>7, Zenon

\* One step, and two, among neutral ones.
LEMMA WeavesOne ==
  ASSUME NEW x \in VidSteps, NEW t \in Quiet PROVE <<x>> \o t \in LastStep(x)
<1>1. PICK T : T = Quiet
  OBVIOUS
<1>2. <<x>> \o t \in Weave(x, T)
  BY <1>1, WeaveIn, QuietJoins, Zenon
<1> QED BY <1>1, <1>2, Zenon DEF LastStep

LEMMA WeavesTwo ==
  ASSUME NEW x \in VidSteps, NEW y \in VidSteps, NEW p \in Quiet, NEW q \in Quiet, NEW t \in Quiet
  PROVE  p \o (<<x>> \o (q \o (<<y>> \o t))) \in Weave(x, LastStep(y))
<1>1. PICK T, R : T = Quiet /\ R = LastStep(y)
  OBVIOUS
<1>2. <<y>> \o t \in R /\ R = Weave(y, T) /\ R \subseteq Seq(VidSteps)
  BY <1>1, WeavesOne, LastIn, Zenon DEF LastStep
<1>3. q \o (<<y>> \o t) \in R
  <2>1. T \subseteq Seq(VidSteps) /\ q \in Seq(NeutralSteps)
    BY <1>1, QuietJoins DEF Quiet
  <2>2. \A b \in Seq(NeutralSteps), v \in Weave(y, T) : b \o v \in Weave(y, T)
    BY <2>1, WeaveIn, Zenon
  <2> QED BY <1>2, <2>1, <2>2
<1>4. <<x>> \o (q \o (<<y>> \o t)) \in Weave(x, R)
  BY <1>2, <1>3, WeaveIn, Zenon
<1>5. p \o (<<x>> \o (q \o (<<y>> \o t))) \in Weave(x, R)
  BY <1>2, <1>4, WeaveIn, Zenon DEF Quiet
<1> QED BY <1>1, <1>5, Zenon

\* What follows when a source may be opened or a still picture is entered,
\* with the rest t of the list.
LEMMA Enters ==
  ASSUME NEW t \in Quiet
  PROVE  /\ InitTv.ok \o t \in LastStep(Isrc(0))
         /\ InitClip.ok \o t \in Weave(Step("memory"), LastStep(Isrc(1)))
         /\ InitStill.ok \o t \in Weave(Step("clipon"), LastStep(Step("enter")))
         /\ vid_atom_enter_stillp(t) \in Weave(Step("memory"), LastStep(SetState("STILLP")))
<1>1. PICK S, m, i, n, c, C, e, z :
        /\ S = VidSteps /\ m = Step("memory") /\ i = Isrc(1) /\ n = Cmd(<<>>)
        /\ c = Step("clipon") /\ C = Cmd(<<Step("enter")>>) /\ e = Step("enter")
        /\ z = SetState("STILLP")
  OBVIOUS
<1>2. /\ m \in VidSteps3 /\ i \in VidSteps3 /\ c \in VidSteps3 /\ e \in VidSteps3
      /\ z \in VidSteps3 /\ Isrc(0) \in S
  BY <1>1, SourceSteps, Shallower DEF SourceKinds
<1>3. m \in S /\ i \in S /\ c \in S /\ e \in S /\ z \in S
  BY <1>1, <1>2, Shallower
<1>4. n \in NeutralSteps /\ C \in NeutralSteps
  <2>1. <<>> \in Seq(VidSteps3) /\ <<e>> \in Seq(VidSteps3)
    BY <1>2
  <2> QED BY <1>1, <2>1, NeutralIn
<1>5. n \in S /\ C \in S /\ t \in Seq(S) /\ t \in Quiet
  BY <1>1, <1>4, NeutralIn, QuietJoins
<1>6. <<n>> \in Quiet /\ <<C>> \in Quiet
  BY <1>4, ListsOfSteps, Zenon DEF Quiet
<1>7. InitTv.ok \o t \in LastStep(Isrc(0))
  BY <1>1, <1>2, WeavesOne DEF InitTv
<1>8. InitClip.ok \o t \in Weave(m, LastStep(i))
  <2>1. PICK x, y : x = <<n, m>> /\ y = <<i>>
    OBVIOUS
  <2>2. x \in Seq(S) /\ y \in Seq(S) /\ y \o t \in Seq(S)
    BY <1>3, <1>5, <2>1
  <2>3. (x \o y) \o t = x \o (y \o t)
    BY <1>5, <2>2, Regrouped
  <2>4. <<n, m>> \o (y \o t) = <<n>> \o (<<m>> \o (y \o t))
    <3>1. PICK u : u = y \o t
      OBVIOUS
    <3>2. n \in S /\ m \in S /\ u \in Seq(S)
      BY <1>3, <1>5, <2>2, <3>1
    <3>3. <<n, m>> \o u = <<n>> \o (<<m>> \o u)
      BY <3>2, Joined, SMTT(20)
    <3> QED BY <3>1, <3>3
  <2>5. <<>> \o (<<i>> \o t) = <<i>> \o t
    BY <2>1, <2>2, ConcatEmptySeq, Zenon
  <2>6. <<n>> \o (<<m>> \o (<<>> \o (<<i>> \o t))) \in Weave(m, LastStep(i))
    BY <1>1, <1>3, <1>6, QuietJoins, WeavesTwo, Zenon
  <2>7. InitClip.ok = x \o y
    BY <1>1, <2>1 DEF InitClip
  <2> QED BY <2>1, <2>3, <2>4, <2>5, <2>6, <2>7, Zenon
<1>9. InitStill.ok \o t \in Weave(c, LastStep(e))
  <2>1. PICK l : l = <<c, C, e>>
    OBVIOUS
  <2>2. l \in Seq(VidSteps3) /\ l \in Seq(S)
    <3>1. C \in VidSteps3
      <4>1. <<e>> \in Seq(Plain)
        BY <1>1, StepIn, ListsOfSteps DEF SourceKinds
      <4>2. C \in VidSteps1
        BY <1>1, <4>1, CmdIn DEF VidSteps1
      <4> QED BY <4>2, Shallower
    <3> QED BY <1>2, <1>3, <1>5, <2>1, <3>1
  <2>3. PICK f \in Quiet : vid_atom_freeze(l) = f \o l
    BY <2>2, FrozenBefore, Zenon
  <2>4. f \in Seq(S)
    BY <1>1, <2>3, QuietJoins
  <2>5. (f \o l) \o t = f \o (l \o t)
    BY <1>5, <2>2, <2>4, Regrouped
  <2>6. l \o t = <<c>> \o (<<C>> \o (<<e>> \o t))
    <3>1. c \in S /\ C \in S /\ e \in S /\ t \in Seq(S)
      BY <1>3, <1>5
    <3>2. <<c, C, e>> \o t = <<c>> \o (<<C, e>> \o t)
      BY <3>1, JoinedThree, SMTT(20)
    <3>3. <<C, e>> \o t = <<C>> \o (<<e>> \o t)
      BY <3>1, Joined, SMTT(20)
    <3>4. l \o t = <<c>> \o (<<C, e>> \o t)
      BY <2>1, <3>2
    <3> QED BY <3>3, <3>4
  <2>7. f \o (<<c>> \o (<<C>> \o (<<e>> \o t))) \in Weave(c, LastStep(e))
    BY <1>1, <1>3, <1>6, <2>3, WeavesTwo, Zenon
  <2>8. InitStill.ok = vid_atom_freeze(l)
    BY <1>1, <2>1 DEF InitStill
  <2> QED BY <2>3, <2>5, <2>6, <2>7, <2>8, Zenon
<1>10. vid_atom_enter_stillp(t) \in Weave(m, LastStep(z))
  <2>1. PICK g, s : g = Step("getmask") /\ s = Step("sendon")
    OBVIOUS
  <2>2. g \in NeutralSteps /\ s \in NeutralSteps /\ g \in S /\ s \in S
    BY <1>1, <2>1, NeutralIn DEF NeutralKinds
  <2>3. PICK q : q = <<n, n, n, g, s>>
    OBVIOUS
  <2>4. q \in Quiet
    BY <1>4, <2>2, <2>3, ListsOfSteps, Zenon DEF Quiet
  <2>5. <<n, n, n, g, s, m, z>> \o t = q \o (<<m>> \o (<<z>> \o t))
    <3>1. n \in S /\ g \in S /\ s \in S /\ m \in S /\ z \in S /\ t \in Seq(S)
      BY <1>3, <1>5, <2>2
    <3>2. <<n, n, n, g, s, m, z>> \o t = <<n, n, n, g, s>> \o (<<m, z>> \o t)
      <4>1. PICK l, x, y : l = <<n, n, n, g, s, m, z>> /\ x = <<n, n, n, g, s>> /\ y = <<m, z>>
        OBVIOUS
      <4>2. x \in Seq(S) /\ y \in Seq(S) /\ t \in Seq(S)
        BY <3>1, <4>1
      <4>3. PICK k : k = x \o y
        OBVIOUS
      <4>4. l \in Seq(S) /\ k \in Seq(S) /\ Len(l) = 7 /\ Len(k) = 7
        BY <3>1, <4>1, <4>3
      <4>5. \A j \in 1 .. 7 : l[j] = k[j]
        BY <3>1, <4>1, <4>3
      <4>6. l = k
        BY <4>4, <4>5, SeqEqual
      <4>7. (x \o y) \o t = x \o (y \o t)
        BY <4>2, Regrouped
      <4> QED BY <4>1, <4>3, <4>6, <4>7, Zenon
    <3>3. <<m, z>> \o t = <<m>> \o (<<z>> \o t)
      BY <3>1, Joined, SMTT(20)
    <3> QED BY <2>3, <3>2, <3>3, Zenon
  <2>6. <<>> \o (<<z>> \o t) = <<z>> \o t
    <3>1. <<z>> \o t \in Seq(S)
      BY <1>3, <1>5
    <3> QED BY <3>1, ConcatEmptySeq, Zenon
  <2>7. q \o (<<m>> \o (<<>> \o (<<z>> \o t))) \in Weave(m, LastStep(z))
    BY <1>1, <1>3, <2>4, QuietJoins, WeavesTwo, Zenon
  <2>8. vid_atom_enter_stillp(t) = <<n, n, n, g, s, m, z>> \o t
    BY <1>1, <2>1 DEF vid_atom_enter_stillp
  <2> QED BY <2>5, <2>6, <2>7, <2>8, Zenon
<1> QED BY <1>1, <1>7, <1>8, <1>9, <1>10, Zenon

\* A still picture is left.
LEMMA Leaves ==
  vid_osi_close_stillp(<<Step("unstill")>>)
    \in Weave(Step("clipoff"), Weave(Step("srcno"), LastStep(Step("unstill"))))
<1>1. PICK S, g, s, o, n, u :
        /\ S = VidSteps /\ g = Step("getmask") /\ s = Step("sendoff") /\ o = Step("clipoff")
        /\ n = Step("srcno") /\ u = Step("unstill")
  OBVIOUS
<1>2. o \in VidSteps3 /\ n \in VidSteps3 /\ u \in VidSteps3 /\ o \in S /\ n \in S /\ u \in S
  BY <1>1, SourceSteps, Shallower DEF SourceKinds
<1>3. g \in NeutralSteps /\ s \in NeutralSteps /\ g \in S /\ s \in S
  BY <1>1, NeutralIn DEF NeutralKinds
<1>4. PICK r, c : r = <<n>> \o <<u>> /\ c = Cmd(r)
  OBVIOUS
<1>5. r \in Seq(VidSteps3) /\ r \in Seq(S)
  <2>1. <<n>> \in Seq(VidSteps3) /\ <<u>> \in Seq(VidSteps3) /\ <<n>> \in Seq(S) /\ <<u>> \in Seq(S)
    BY <1>2, ListsOfSteps, Zenon
  <2> QED BY <1>4, <2>1, ListsOfSteps, Zenon
<1>6. c \in NeutralSteps /\ c \in S
  BY <1>1, <1>4, <1>5, NeutralIn
<1>7. PICK T : T = LastStep(u)
  OBVIOUS
<1>8. r \in Weave(n, T) /\ T \subseteq Seq(VidSteps) /\ Weave(n, T) \subseteq Seq(VidSteps)
  <2>1. <<u>> \in T /\ T \subseteq Seq(VidSteps)
    BY <1>1, <1>2, <1>7, LastIn
  <2> QED BY <1>1, <1>2, <1>4, <2>1, WeaveIn, Zenon
<1>9. PICK R : R = Weave(n, T)
  OBVIOUS
<1>10. <<c, c>> \o r \in R
  <2>1. <<c, c>> \in Seq(NeutralSteps)
    BY <1>6, ListsOfSteps, Zenon
  <2> QED BY <1>1, <1>2, <1>8, <1>9, <2>1, WeaveIn, Zenon
<1>11. <<g, s>> \o (<<o>> \o (<<c, c>> \o r)) \in Weave(o, R)
  <2>1. <<g, s>> \in Seq(NeutralSteps)
    BY <1>3, ListsOfSteps, Zenon
  <2>2. R \subseteq Seq(VidSteps) /\ o \in VidSteps
    BY <1>1, <1>2, <1>8, <1>9
  <2>3. <<o>> \o (<<c, c>> \o r) \in Weave(o, R)
    BY <1>10, <2>2, WeaveIn, Zenon
  <2> QED BY <2>1, <2>2, <2>3, WeaveIn, Zenon
<1>12. <<g, s, o, c, c>> \o r = <<g, s>> \o (<<o>> \o (<<c, c>> \o r))
  <2>1. g \in S /\ s \in S /\ o \in S /\ c \in S /\ r \in Seq(S)
    BY <1>2, <1>3, <1>5, <1>6
  <2>2. <<g, s, o, c, c>> \o r = <<g, s>> \o (<<o, c, c>> \o r)
    <3>1. PICK l, x, y : l = <<g, s, o, c, c>> /\ x = <<g, s>> /\ y = <<o, c, c>>
      OBVIOUS
    <3>2. x \in Seq(S) /\ y \in Seq(S) /\ r \in Seq(S)
      BY <2>1, <3>1
    <3>3. PICK k : k = x \o y
      OBVIOUS
    <3>4. l \in Seq(S) /\ k \in Seq(S) /\ Len(l) = 5 /\ Len(k) = 5
      BY <2>1, <3>1, <3>3
    <3>5. \A j \in 1 .. 5 : l[j] = k[j]
      BY <2>1, <3>1, <3>3
    <3>6. l = k
      BY <3>4, <3>5, SeqEqual
    <3>7. (x \o y) \o r = x \o (y \o r)
      BY <3>2, Regrouped
    <3> QED BY <3>1, <3>3, <3>6, <3>7, Zenon
  <2>3. <<o, c, c>> \o r = <<o>> \o (<<c, c>> \o r)
    <3>1. PICK d : d = c
      OBVIOUS
    <3>2. <<o, c, d>> \o r = <<o>> \o (<<c, d>> \o r)
      BY <2>1, <3>1, JoinedThree, SMTT(20)
    <3>3. <<o, c, d>> = <<o, c, c>> /\ <<c, d>> = <<c, c>>
      BY <3>1
    <3> QED BY <3>2, <3>3, Zenon
  <2> QED BY <2>2, <2>3, Zenon
<1>13. vid_osi_close_stillp(<<Step("unstill")>>) = <<g, s, o, c, c>> \o r
  BY <1>1, <1>4, Zenon DEF vid_osi_close_stillp, vid_atom_exit_stillp
<1> QED BY <1>1, <1>7, <1>9, <1>11, <1>12, <1>13, Zenon

-----------------------------------------------------------------------------
(* What the video decoder keeps.                                            *)

\* What is left of vid_osi_set_sfm: the mode asked for is written while no
\* mode is locked, and locked when it is the one displayed.
SfmStep(k, f) == [k |-> k, sfm |-> f]
Locking(v, d, r) ==
  \E f \in FieldModes :
     \/ v = <<SfmStep("unlock", f), SfmStep("field", f), SfmStep("lock", f)>>
     \/ v = <<SfmStep("field", f), SfmStep("lock", f)>> /\ d.sfm = "NORMAL"
     \/ v = <<SfmStep("lock", f)>> /\ d.sfm = "NORMAL" /\ r.sfm = f

\* Node, decoder and clip mode agree, ...
Settled(d, c) ==
  d.src = Src(d.isrc) /\ (c <=> d.src = "MEMORY") /\ (d.count = 0 => d.isrc = -1)

\* ... or the steps that are left make them agree: a source is recorded, ...
Recording(v, d, c) ==
  \/ \E p \in {0, 1} : v \in LastStep(Isrc(p)) /\ d.src = Src(p) /\ (c <=> p = 1)
  \/ v \in Weave(Step("memory"), LastStep(Isrc(1))) /\ c

\* ... or closed, ...
Closing(v, d, c) ==
  \E i \in Ends :
     \/ v \in LastStep(i) /\ d.src = "NO" /\ (i \notin Inits => ~c)
     \/ v \in Weave(Step("srcno"), LastStep(i)) /\ (i \notin Inits => ~c)
     \/ v \in Weave(Step("clipoff"), Weave(Step("srcno"), LastStep(i)))

\* ... or a still picture entered.
Entering(v, d, c) ==
  \/ v \in Weave(Step("clipon"), LastStep(Step("enter")))
  \/ v \in LastStep(Step("enter")) /\ c
  \/ v \in Weave(Step("memory"), LastStep(SetState("STILLP"))) /\ c
  \/ v \in LastStep(SetState("STILLP")) /\ c /\ d.src = "MEMORY"

Sourced(v, d, r) ==
  \/ (v \in Quiet \/ Locking(v, d, r)) /\ Settled(d, r.clip)
  \/ d.count = 1 /\ (Recording(v, d, r.clip) \/ Closing(v, d, r.clip) \/ Entering(v, d, r.clip))

SameFormat(d, r) ==
  (\A i \in 0 .. 1 : r.denc[i] = r.fmt) /\ r.fbadr = r.fmt /\ d.fmt = r.fmt

FieldKept(d, r) == d.sfm # "NORMAL" => r.sfm = d.sfm

VidKept(v, d, r) ==
  /\ d \in VidDs /\ r \in VidRegs /\ FieldKept(d, r) /\ SameFormat(d, r)
  /\ v \in Seq(VidSteps) \/ Locking(v, d, r)
  /\ ~May("fail") => Sourced(v, d, r)

VidInv == VidKept(vcall, vd, vreg) /\ vint \in VidInts

\* Nothing the source, the format and the field mode depend on changes.
SameSource(d, r, e, s) ==
  e.src = d.src /\ e.isrc = d.isrc /\ e.count = d.count /\ s.clip = r.clip

LEMMA SettledOn ==
  ASSUME NEW v, NEW d, NEW r, NEW e \in VidDs, NEW s \in VidRegs, VidKept(v, d, r),
         SameSource(d, r, e, s), SameFormat(e, s), FieldKept(e, s),
         Locking(v, d, r) => Locking(v, e, s)
  PROVE  VidKept(v, e, s)
<1>1. ASSUME Sourced(v, d, r) PROVE Sourced(v, e, s)
  <2>1. CASE (v \in Quiet \/ Locking(v, d, r)) /\ Settled(d, r.clip)
    BY <2>1 DEF Sourced, Settled, SameSource
  <2>2. CASE d.count = 1 /\ Recording(v, d, r.clip)
    BY <2>2 DEF Sourced, Recording, SameSource
  <2>3. CASE d.count = 1 /\ Closing(v, d, r.clip)
    BY <2>3 DEF Sourced, Closing, SameSource
  <2>4. CASE d.count = 1 /\ Entering(v, d, r.clip)
    BY <2>4 DEF Sourced, Entering, SameSource
  <2> QED BY <1>1, <2>1, <2>2, <2>3, <2>4 DEF Sourced
<1> QED BY <1>1 DEF VidKept

\* Between calls.
LEMMA IdleSettled ==
  ASSUME NEW d, NEW r, VidKept(<<>>, d, r), ~May("fail")
  PROVE  Settled(d, r.clip)
<1>1. ASSUME NEW x \in VidSteps, NEW T, T \subseteq Seq(VidSteps) PROVE <<>> \notin Weave(x, T)
  <2>1. ASSUME NEW v \in Weave(x, T) PROVE v # <<>>
    BY <1>1, WeaveStep
  <2> QED BY <2>1
<1>2. \A x \in VidSteps : <<>> \notin LastStep(x) /\ LastStep(x) \subseteq Seq(VidSteps)
  BY <1>1, LastIn, QuietJoins DEF LastStep
<1>3. \A i \in Ends : i \in VidSteps
  BY SourceSteps, Shallower
<1>4. /\ \A k \in SourceKinds : Step(k) \in VidSteps
      /\ \A p \in {0, 1} : Isrc(p) \in VidSteps
      /\ SetState("STILLP") \in VidSteps
  BY SourceSteps, Shallower
<1>5. /\ Step("srcno") \in VidSteps /\ Step("clipoff") \in VidSteps /\ Step("clipon") \in VidSteps
      /\ Step("memory") \in VidSteps /\ Step("enter") \in VidSteps
  BY <1>4 DEF SourceKinds
<1>6. ~Recording(<<>>, d, r.clip)
  BY <1>1, <1>2, <1>4, <1>5 DEF Recording
<1>7. ~Entering(<<>>, d, r.clip)
  BY <1>1, <1>2, <1>4, <1>5 DEF Entering
<1>8. ~Closing(<<>>, d, r.clip)
  <2> SUFFICES ASSUME NEW i \in Ends
               PROVE  /\ <<>> \notin LastStep(i) /\ <<>> \notin Weave(Step("srcno"), LastStep(i))
                      /\ <<>> \notin Weave(Step("clipoff"), Weave(Step("srcno"), LastStep(i)))
    BY DEF Closing
  <2>1. <<>> \notin LastStep(i) /\ LastStep(i) \subseteq Seq(VidSteps)
    BY <1>2, <1>3
  <2>2. PICK W : W = Weave(Step("srcno"), LastStep(i))
    OBVIOUS
  <2>3. <<>> \notin W /\ W \subseteq Seq(VidSteps)
    BY <1>1, <1>5, <2>1, <2>2, WeaveIn, Zenon
  <2>4. <<>> \notin Weave(Step("clipoff"), W)
    BY <1>1, <1>5, <2>3
  <2> QED BY <2>1, <2>2, <2>3, <2>4, Zenon
<1> QED BY <1>6, <1>7, <1>8 DEF VidKept, Sourced

LEMMA VidInitKept == VidInit => VidInv
<1> SUFFICES ASSUME VidInit PROVE VidInv
  OBVIOUS
<1>1. VidFmtInit \in Formats
  BY VidAssumption DEF Formats
<1>2. PICK z : z = [i \in 0 .. 1 |-> VidFmtInit]
  OBVIOUS
<1>3. z \in [0 .. 1 -> Formats] /\ \A i \in 0 .. 1 : z[i] = VidFmtInit
  BY <1>1, <1>2
<1>4. vreg = [svd |-> FALSE, clip |-> FALSE, blank |-> TRUE, sync |-> FALSE,
              master |-> "audio", mode |-> "NORM", wide |-> FALSE, sfm |-> "NORMAL",
              mask |-> {}, seen |-> {}, denc |-> z, fmt |-> VidFmtInit, fbadr |-> VidFmtInit]
  BY <1>2 DEF VidInit, scrman_osi_init
<1>5. vreg \in VidRegs
  BY <1>1, <1>3, <1>4 DEF VidRegs, FieldModes
<1>6. vd \in VidDs
  BY <1>1 DEF VidInit, VidDs, FieldModes, VidStates
<1>7. vint \in VidInts
  BY DEF VidInit, VidInts
<1>8. SameFormat(vd, vreg) /\ FieldKept(vd, vreg)
  BY <1>3, <1>4 DEF VidInit, SameFormat, FieldKept
<1>9. vcall = <<>> /\ vcall \in Quiet
  BY QuietJoins DEF VidInit
<1>10. Settled(vd, vreg.clip)
  BY <1>4 DEF VidInit, Settled, Src
<1>11. VidKept(vcall, vd, vreg)
  BY <1>5, <1>6, <1>8, <1>9, <1>10, QuietJoins DEF VidKept, Sourced
<1> QED BY <1>7, <1>11 DEF VidInv

LEMMA VidIsSafe == VidInv => VideoAgrees
<1> SUFFICES ASSUME VidInv PROVE VideoAgrees
  OBVIOUS
<1>1. VidTypeOK
  BY DEF VidInv, VidKept, VidTypeOK, VidDs, VidRegs, VidInts
<1>2. FieldModeLocked
  BY DEF VidInv, VidKept, FieldKept, FieldModeLocked
<1>3. FormatAgrees
  BY DEF VidInv, VidKept, SameFormat, FormatAgrees
<1>4. SourceAgrees
  <2> SUFFICES ASSUME VidIdle, ~May("fail")
               PROVE  /\ vd.src = CASE vd.isrc = -1 -> "NO" [] vd.isrc = 0 -> "DEMUX" [] OTHER -> "MEMORY"
                      /\ vreg.clip = (vd.src = "MEMORY")
    BY DEF SourceAgrees
  <2>1. Settled(vd, vreg.clip)
    BY IdleSettled DEF VidInv, VidIdle
  <2>2. vreg.clip \in BOOLEAN
    BY DEF VidInv, VidKept, VidRegs
  <2> QED BY <2>1, <2>2 DEF Settled, Src
<1> QED BY <1>1, <1>2, <1>3, <1>4 DEF VideoAgrees

-----------------------------------------------------------------------------
(* Calls.                                                                   *)

\* A call begins from a settled state.
LEMMA BeginsKept ==
  ASSUME VidInv, VidIdle, vcall' \in Seq(VidSteps), UNCHANGED <<vd, vreg, vint, vidEnv>>,
         ~May("fail") /\ Settled(vd, vreg.clip) => Sourced(vcall', vd, vreg)
  PROVE  VidInv'
<1>1. VidKept(vcall, vd, vreg) /\ vcall = <<>>
  BY DEF VidInv, VidIdle
<1>2. ~May("fail") => Sourced(vcall', vd, vreg)
  BY <1>1, IdleSettled
<1>3. VidKept(vcall', vd, vreg)
  BY <1>1, <1>2 DEF VidKept
<1>4. vd' = vd /\ vreg' = vreg /\ vint' = vint /\ vidEnv' = vidEnv
  OBVIOUS
<1>5. VidKept(vcall, vd, vreg)'
  BY <1>3, <1>4 DEF VidKept, May, Sourced, Locking
<1> QED BY <1>4, <1>5 DEF VidInv

\* The calls that play leave the source alone.
LEMMA PlayingQuiet == \A c \in DOMAIN PlayCalls : PlayCalls[c] \in Quiet
<1>1. /\ \A s \in VidStates \ {"STILLP"} : SetState(s) \in NeutralSteps /\ SetState(s) \in VidSteps3
      /\ \A k \in NeutralKinds : Step(k) \in NeutralSteps
      /\ Cmd(<<>>) \in NeutralSteps
  <2>1. <<>> \in Seq(VidSteps3)
    OBVIOUS
  <2>2. \A s \in VidStates : SetState(s) \in VidSteps3
    BY StateIn, Shallower
  <2> QED BY <2>1, <2>2, NeutralIn
<1>2. \A a, b \in NeutralSteps : <<a>> \in Quiet /\ <<a, b>> \in Quiet
  BY ListsOfSteps, Zenon DEF Quiet
<1>3. \A a, b, c, d \in NeutralSteps : <<a, b, c, d>> \in Quiet
  BY ListsOfSteps, Zenon DEF Quiet
<1>4. ASSUME NEW s \in VidStates \ {"STILLP"}
      PROVE  /\ vid_atom_freeze(<<SetState(s)>>) \in Quiet
             /\ vid_atom_pause(<<SetState(s)>>) \in Quiet
             /\ vid_atom_single_frame(<<SetState(s)>>) \in Quiet
  <2>1. PICK r : r = <<SetState(s)>>
    OBVIOUS
  <2>2. r \in Quiet /\ r \in Seq(VidSteps3)
    BY <1>1, <2>1, ListsOfSteps DEF Quiet
  <2>3. PICK p \in Quiet : vid_atom_freeze(r) = p \o r
    BY <2>2, FrozenBefore, Zenon
  <2>4. PICK p2 \in Quiet : vid_atom_pause(r) = p2 \o r
    BY <2>2, FrozenBefore, Zenon
  <2>5. PICK p3 \in Quiet : vid_atom_single_frame(r) = p3 \o r
    BY <2>2, FrozenBefore, Zenon
  <2> QED BY <2>1, <2>2, <2>3, <2>4, <2>5, QuietJoins
<1>5. vid_osi_play(vd) \in Quiet
  <2>1. PICK a, b : /\ a = <<Step("armplay")>>
                    /\ b = (IF vd.src = "NO" \/ vd.state = "PLAYING" THEN <<>>
                            ELSE <<Cmd(<<>>), Step("svdon"), Step("syncon"), SetState("PLAYING")>>)
    OBVIOUS
  <2>2. a \in Quiet /\ b \in Quiet
    <3>1. /\ Step("armplay") \in NeutralSteps /\ Step("svdon") \in NeutralSteps
          /\ Step("syncon") \in NeutralSteps /\ SetState("PLAYING") \in NeutralSteps
      BY <1>1 DEF NeutralKinds, VidStates
    <3>2. <<Cmd(<<>>), Step("svdon"), Step("syncon"), SetState("PLAYING")>> \in Quiet
      BY <1>1, <1>3, <3>1, Zenon
    <3>3. a \in Quiet
      BY <1>2, <2>1, <3>1, Zenon
    <3> QED BY <2>1, <3>2, <3>3, QuietJoins
  <2>3. a \o b \in Quiet
    BY <2>2, QuietJoins, Zenon
  <2> QED BY <2>1, <2>3, Zenon DEF vid_osi_play
<1>6. vid_osi_stop(vd, TRUE, <<>>) \in Quiet /\ vid_osi_stop(vd, FALSE, <<>>) \in Quiet
  <2>1. <<>> \in Seq(VidSteps3)
    OBVIOUS
  <2>2. PICK p \in Quiet : vid_osi_stop(vd, TRUE, <<>>) = p \o <<>>
    BY <2>1, StoppedBefore, Zenon
  <2>3. PICK q \in Quiet : vid_osi_stop(vd, FALSE, <<>>) = q \o <<>>
    BY <2>1, StoppedBefore, Zenon
  <2> QED BY <2>2, <2>3, QuietJoins, Zenon
<1>7. vid_osi_freeze(vd) \in Quiet
  BY <1>4, QuietJoins DEF vid_osi_freeze, VidStates
<1>8. vid_osi_pause(vd) \in Quiet
  BY <1>4, QuietJoins DEF vid_osi_pause, VidStates
<1>9. vid_osi_single_frame(vd) \in Quiet
  BY <1>1, <1>2, <1>4 DEF vid_osi_single_frame, VidStates, NeutralKinds
<1>10. vid_osi_fast_forward \in Quiet /\ vid_osi_slow_motion \in Quiet
  <2>1. SetState("FASTFORWORD") \in NeutralSteps /\ SetState("SLOWMOTION") \in NeutralSteps
    BY <1>1 DEF VidStates
  <2> QED BY <1>1, <1>2, <2>1, Zenon DEF vid_osi_fast_forward, vid_osi_slow_motion
<1>11. vid_osd_cc_complete \in Quiet
  <2>1. Step("ccarm") \in NeutralSteps /\ Step("ccwait") \in NeutralSteps
    BY <1>1 DEF NeutralKinds
  <2> QED BY <1>2, <2>1, Zenon DEF vid_osd_cc_complete
<1>12. PICK a, b, c, d, e, f, g, h, i :
         /\ a = vid_osi_play(vd) /\ b = vid_osi_stop(vd, TRUE, <<>>)
         /\ c = vid_osi_stop(vd, FALSE, <<>>) /\ d = vid_osi_freeze(vd)
         /\ e = vid_osi_pause(vd) /\ f = vid_osi_single_frame(vd)
         /\ g = vid_osi_fast_forward /\ h = vid_osi_slow_motion /\ i = vid_osd_cc_complete
  OBVIOUS
<1>13. PlayCalls = [play |-> a, stop |-> b, hold |-> c, freeze |-> d, pause |-> e, single |-> f,
                    forward |-> g, slow |-> h, complete |-> i]
  BY <1>12 DEF PlayCalls
<1>14. /\ a \in Quiet /\ b \in Quiet /\ c \in Quiet /\ d \in Quiet /\ e \in Quiet
       /\ f \in Quiet /\ g \in Quiet /\ h \in Quiet /\ i \in Quiet
  BY <1>5, <1>6, <1>7, <1>8, <1>9, <1>10, <1>11, <1>12
<1> QED BY <1>13, <1>14

LEMMA PlayCallKeeps == ASSUME VidInv, NEW c \in DOMAIN PlayCalls, PlayCall(c) PROVE VidInv'
<1>1. vcall' \in Quiet
  BY PlayingQuiet DEF PlayCall
<1>2. VidIdle /\ UNCHANGED <<vd, vreg, vint, vidEnv>>
  BY DEF PlayCall
<1> QED BY <1>1, <1>2, BeginsKept, QuietJoins DEF Sourced

\* A list that leads to the end of the call, or to a source that is opened.
LEMMA LeadsTo ==
  ASSUME NEW x \in VidSteps, NEW y \in VidSteps, NEW z \in VidSteps
  PROVE  /\ LastStep(x) \subseteq Seq(VidSteps) /\ Weave(y, LastStep(x)) \subseteq Seq(VidSteps)
         /\ Weave(z, Weave(y, LastStep(x))) \subseteq Seq(VidSteps)
<1>1. LastStep(x) \subseteq Seq(VidSteps)
  BY LastIn
<1>2. PICK T : T = LastStep(x)
  OBVIOUS
<1>3. Weave(y, T) \subseteq Seq(VidSteps)
  BY <1>1, <1>2, WeaveIn
<1>4. PICK R : R = Weave(y, T)
  OBVIOUS
<1>5. Weave(z, R) \subseteq Seq(VidSteps)
  BY <1>3, <1>4, WeaveIn
<1> QED BY <1>1, <1>2, <1>3, <1>4, <1>5, Zenon

LEMMA EndsAre ==
  /\ vid_osi_init_tv(<<Isrc(0)>>) = <<InitTv>> /\ vid_osi_init_clip(<<Isrc(1)>>) = <<InitClip>>
  /\ vid_osi_init_stillp(<<>>) = <<InitStill>>
  /\ Step("srcno") \in VidSteps /\ Step("clipoff") \in VidSteps /\ Step("memory") \in VidSteps
  /\ Step("clipon") \in VidSteps /\ Step("enter") \in VidSteps /\ SetState("STILLP") \in VidSteps
  /\ \A p \in {0, 1} : Isrc(p) \in VidSteps
  /\ Ends \subseteq VidSteps
<1>1. vid_osi_init_tv(<<Isrc(0)>>) = <<InitTv>> /\ vid_osi_init_clip(<<Isrc(1)>>) = <<InitClip>>
  BY Zenon DEF vid_osi_init_tv, vid_osi_init_clip, InitTv, InitClip
<1>2. vid_osi_init_stillp(<<>>) = <<InitStill>>
  <2>1. vid_osi_init_stillp(<<>>) = <<InitStill>> \o <<>>
    BY Zenon DEF vid_osi_init_stillp, InitStill
  <2>2. PICK x, y : x = InitStill /\ y = <<x>> \o <<>>
    OBVIOUS
  <2>3. y = <<x>>
    BY <2>2
  <2> QED BY <2>1, <2>2, <2>3, Zenon
<1>3. Ends \subseteq VidSteps /\ (\A k \in SourceKinds : Step(k) \in VidSteps)
      /\ SetState("STILLP") \in VidSteps /\ (\A p \in {0, 1} : Isrc(p) \in VidSteps)
  BY SourceSteps, Shallower
<1> QED BY <1>1, <1>2, <1>3 DEF SourceKinds

\* A source that is in use is closed before i; without one, i comes at once.
LEMMA EndsSourced ==
  ASSUME NEW i \in Ends, vd.count = 1, Settled(vd, vreg.clip)
  PROVE  /\ vd.src = "DEMUX" => Sourced(vid_osi_close_tv(vd, <<i>>), vd, vreg)
         /\ vd.src = "MEMORY" => Sourced(vid_osi_close_clip(vd, <<i>>), vd, vreg)
         /\ vd.src = "NO" => Sourced(<<i>>, vd, vreg)
<1>1. <<i>> \in LastStep(i)
  BY LastIn, EndsAre
<1>2. vd.src # "MEMORY" => ~vreg.clip
  BY DEF Settled
<1>3. vd.src = "DEMUX" => Closing(vid_osi_close_tv(vd, <<i>>), vd, vreg.clip)
  BY <1>2, Closes DEF Closing
<1>4. vd.src = "MEMORY" => Closing(vid_osi_close_clip(vd, <<i>>), vd, vreg.clip)
  BY Closes DEF Closing
<1>5. vd.src = "NO" => Closing(<<i>>, vd, vreg.clip)
  BY <1>1, <1>2 DEF Closing
<1> QED BY <1>3, <1>4, <1>5 DEF Sourced

LEMMA EndsListed ==
  ASSUME NEW i \in Ends
  PROVE  /\ vid_osi_close_tv(vd, <<i>>) \in Seq(VidSteps)
         /\ vid_osi_close_clip(vd, <<i>>) \in Seq(VidSteps)
         /\ <<i>> \in Seq(VidSteps)
<1>1. PICK x, y, z : x = i /\ y = Step("srcno") /\ z = Step("clipoff")
  OBVIOUS
<1>2. x \in VidSteps /\ y \in VidSteps /\ z \in VidSteps
  BY <1>1, EndsAre
<1>3. /\ LastStep(x) \subseteq Seq(VidSteps) /\ Weave(y, LastStep(x)) \subseteq Seq(VidSteps)
      /\ Weave(z, Weave(y, LastStep(x))) \subseteq Seq(VidSteps)
  BY <1>2, LeadsTo
<1>4. <<x>> \in LastStep(x)
  BY <1>2, LastIn
<1>5. /\ vid_osi_close_tv(vd, <<i>>) \in Weave(y, LastStep(x))
      /\ vid_osi_close_clip(vd, <<i>>) \in Weave(z, Weave(y, LastStep(x)))
  BY <1>1, Closes
<1> QED BY <1>1, <1>3, <1>4, <1>5

LEMMA ReleaseKept == ASSUME VidInv, vid_inf_release PROVE VidInv'
<1>1. PICK i : i = Step("closed")
  OBVIOUS
<1>2. i \in Ends
  BY <1>1 DEF Ends
<1>3. VidIdle /\ UNCHANGED <<vd, vreg, vint, vidEnv>> /\ vd.count = 1
      /\ vcall' = CASE vd.src = "DEMUX" -> vid_osi_close_tv(vd, <<i>>)
                    [] vd.src = "MEMORY" -> vid_osi_close_clip(vd, <<i>>)
                    [] OTHER -> <<i>>
  BY <1>1 DEF vid_inf_release, VidIdle
<1>4. vcall' \in Seq(VidSteps)
  BY <1>2, <1>3, EndsListed
<1>5. vd.src \in {"NO", "DEMUX", "MEMORY"}
  BY DEF VidInv, VidKept, VidDs
<1>6. ASSUME Settled(vd, vreg.clip) PROVE Sourced(vcall', vd, vreg)
  BY <1>2, <1>3, <1>5, <1>6, EndsSourced
<1> QED BY <1>3, <1>4, <1>6, BeginsKept

LEMMA SelectKept == ASSUME VidInv, NEW p \in {0, 1}, SelectSource(p) PROVE VidInv'
<1>1. PICK i : i = (IF p = 0 THEN InitTv ELSE InitClip)
  OBVIOUS
<1>2. i \in Ends
  BY <1>1 DEF Ends, Inits
<1>3. (IF p = 0 THEN vid_osi_init_tv(<<[k |-> "isrc", isrc |-> p]>>)
       ELSE vid_osi_init_clip(<<[k |-> "isrc", isrc |-> p]>>)) = <<i>>
  BY <1>1, EndsAre DEF Isrc
<1>4. VidIdle /\ UNCHANGED <<vd, vreg, vint, vidEnv>> /\ vd.count = 1
      /\ vcall' = CASE vd.isrc = p -> <<Isrc(p)>>
                    [] vd.isrc = -1 -> <<i>>
                    [] vd.isrc = 0 /\ p = 1 -> vid_osi_close_tv(vd, <<i>>)
                    [] OTHER -> vid_osi_close_clip(vd, <<i>>)
  BY <1>3, Zenon DEF SelectSource, VidIdle, Isrc
<1>5. Isrc(p) \in VidSteps /\ <<Isrc(p)>> \in Seq(VidSteps) /\ <<Isrc(p)>> \in LastStep(Isrc(p))
  BY EndsAre, LastIn
<1>6. vcall' \in Seq(VidSteps)
  BY <1>2, <1>4, <1>5, EndsListed
<1>7. vd.isrc \in {-1, 0, 1}
  BY DEF VidInv, VidKept, VidDs
<1>8. ASSUME Settled(vd, vreg.clip) PROVE Sourced(vcall', vd, vreg)
  <2>1. CASE vd.isrc = p
    <3>1. vcall' = <<Isrc(p)>>
      BY <1>4, <2>1
    <3>2. vd.src = Src(p) /\ (vreg.clip <=> p = 1)
      BY <1>8, <2>1 DEF Settled, Src
    <3> QED BY <1>4, <1>5, <3>1, <3>2 DEF Sourced, Recording
  <2>2. CASE vd.isrc # p
    <3>1. vd.src = Src(vd.isrc)
      BY <1>8 DEF Settled
    <3>2. CASE vd.isrc = -1
      BY <1>2, <1>4, <1>8, <2>2, <3>1, <3>2, EndsSourced DEF Src
    <3>3. CASE vd.isrc = 0
      BY <1>2, <1>4, <1>8, <2>2, <3>1, <3>3, EndsSourced DEF Src
    <3>4. CASE vd.isrc = 1
      BY <1>2, <1>4, <1>8, <2>2, <3>1, <3>4, EndsSourced DEF Src
    <3> QED BY <1>7, <3>2, <3>3, <3>4
  <2> QED BY <2>1, <2>2
<1> QED BY <1>4, <1>6, <1>8, BeginsKept

LEMMA StillpKept == ASSUME VidInv, StartStillp \/ StopStillp PROVE VidInv'
<1>1. CASE StartStillp
  <2>1. PICK i : i = InitStill
    OBVIOUS
  <2>2. i \in Ends
    BY <2>1 DEF Ends, Inits
  <2>3. VidIdle /\ UNCHANGED <<vd, vreg, vint, vidEnv>> /\ vd.count = 1
        /\ vcall' = CASE vd.isrc = 1 -> vid_osi_close_clip(vd, <<i>>)
                      [] vd.isrc = 0 -> vid_osi_close_tv(vd, <<i>>)
                      [] OTHER -> <<i>>
    BY <1>1, <2>1, EndsAre, Zenon DEF StartStillp, VidIdle
  <2>4. vcall' \in Seq(VidSteps)
    BY <2>2, <2>3, EndsListed
  <2>5. vd.isrc \in {-1, 0, 1}
    BY DEF VidInv, VidKept, VidDs
  <2>6. ASSUME Settled(vd, vreg.clip) PROVE Sourced(vcall', vd, vreg)
    <3>1. vd.src = Src(vd.isrc)
      BY <2>6 DEF Settled
    <3>2. CASE vd.isrc = -1
      BY <2>2, <2>3, <2>6, <3>1, <3>2, EndsSourced DEF Src
    <3>3. CASE vd.isrc = 0
      BY <2>2, <2>3, <2>6, <3>1, <3>3, EndsSourced DEF Src
    <3>4. CASE vd.isrc = 1
      BY <2>2, <2>3, <2>6, <3>1, <3>4, EndsSourced DEF Src
    <3> QED BY <2>5, <3>2, <3>3, <3>4
  <2> QED BY <2>3, <2>4, <2>6, BeginsKept
<1>2. CASE StopStillp
  <2>1. PICK x, y, z : x = Step("unstill") /\ y = Step("srcno") /\ z = Step("clipoff")
    OBVIOUS
  <2>2. x \in Ends /\ x \in VidSteps /\ y \in VidSteps /\ z \in VidSteps
    BY <2>1, EndsAre DEF Ends
  <2>3. VidIdle /\ UNCHANGED <<vd, vreg, vint, vidEnv>> /\ vd.count = 1
        /\ vcall' = vid_osi_close_stillp(<<Step("unstill")>>)
    BY <1>2 DEF StopStillp, VidIdle
  <2>4. vcall' \in Weave(z, Weave(y, LastStep(x)))
    BY <2>1, <2>3, Leaves
  <2>5. vcall' \in Seq(VidSteps)
    BY <2>2, <2>4, LeadsTo
  <2>6. Sourced(vcall', vd, vreg)
    BY <2>1, <2>2, <2>3, <2>4 DEF Sourced, Closing
  <2> QED BY <2>3, <2>5, <2>6, BeginsKept
<1> QED BY <1>1, <1>2

\* The steps of set_sfm end with the mode locked.
LEMMA SetSfmKept == ASSUME VidInv, NEW f \in FieldModes, SetSfm(f) PROVE VidInv'
<1>1. VidIdle /\ UNCHANGED <<vd, vreg, vint, vidEnv>>
  BY DEF SetSfm
<1>2. Locking(vcall', vd, vreg)
  BY DEF SetSfm, vid_osi_set_sfm, Locking, SfmStep
<1>3. VidKept(vcall, vd, vreg) /\ vcall = <<>>
  BY <1>1 DEF VidInv, VidIdle
<1>4. ~May("fail") => Settled(vd, vreg.clip)
  BY <1>3, IdleSettled
<1>5. VidKept(vcall', vd, vreg)
  BY <1>2, <1>3, <1>4 DEF VidKept, Sourced
<1>6. VidKept(vcall, vd, vreg)'
  BY <1>1, <1>5 DEF VidKept, May, Sourced, Locking
<1> QED BY <1>1, <1>6 DEF VidInv

\* Nothing that is being done depends on what changes.
LEMMA SettledStep ==
  ASSUME VidInv, vd' \in VidDs, vreg' \in VidRegs, vint' \in VidInts, UNCHANGED <<vcall, vidEnv>>,
         SameSource(vd, vreg, vd', vreg'), SameFormat(vd', vreg'), FieldKept(vd', vreg'),
         Locking(vcall, vd, vreg) => Locking(vcall, vd', vreg')
  PROVE  VidInv'
<1>1. VidKept(vcall, vd, vreg)
  BY DEF VidInv
<1>2. VidKept(vcall, vd', vreg')
  BY <1>1, SettledOn
<1>3. VidKept(vcall, vd, vreg)'
  BY <1>2 DEF VidKept, May, Sourced, Locking
<1> QED BY <1>3 DEF VidInv

LEMMA NotLocking == ASSUME NEW d, NEW r PROVE ~Locking(<<>>, d, r)
  BY DEF Locking

LEMMA DisplayKept ==
  ASSUME VidInv, \/ ScaleOff
                 \/ \E on \in BOOLEAN, master \in {"audio", "video"} : SetSync(on, master)
                 \/ \E m \in VidModes, w \in BOOLEAN : SetDisp(m, w)
  PROVE  VidInv'
<1>1. vd \in VidDs /\ vreg \in VidRegs /\ vint \in VidInts /\ SameFormat(vd, vreg) /\ FieldKept(vd, vreg)
  BY DEF VidInv, VidKept
<1>2. CASE ScaleOff
  <2>1. vd' = vd /\ vint' = vint /\ UNCHANGED <<vcall, vidEnv>> /\ vcall = <<>>
        /\ vreg' = [vreg EXCEPT !.mode = "NORM"]
    BY <1>2 DEF ScaleOff, VidIdle
  <2>2. vreg' \in VidRegs /\ SameFormat(vd', vreg') /\ SameSource(vd, vreg, vd', vreg')
        /\ FieldKept(vd', vreg')
    BY <1>1, <2>1 DEF VidRegs, SameFormat, SameSource, FieldKept
  <2> QED BY <1>1, <2>1, <2>2, SettledStep, NotLocking
<1>3. ASSUME NEW on \in BOOLEAN, NEW master \in {"audio", "video"}, SetSync(on, master)
      PROVE  VidInv'
  <2>1. vd' = vd /\ vint' = vint /\ UNCHANGED <<vcall, vidEnv>> /\ vcall = <<>>
        /\ \/ vreg' = [vreg EXCEPT !.sync = FALSE]
           \/ vreg' = [vreg EXCEPT !.sync = TRUE, !.master = master]
    BY <1>3 DEF SetSync, VidIdle, vid_atom_enable_sync
  <2>2. vreg' \in VidRegs /\ SameFormat(vd', vreg') /\ SameSource(vd, vreg, vd', vreg')
        /\ FieldKept(vd', vreg')
    <3>1. CASE vreg' = [vreg EXCEPT !.sync = FALSE]
      BY <1>1, <2>1, <3>1 DEF VidRegs, SameFormat, SameSource, FieldKept
    <3>2. CASE vreg' = [vreg EXCEPT !.sync = TRUE, !.master = master]
      BY <1>1, <2>1, <3>2 DEF VidRegs, SameFormat, SameSource, FieldKept
    <3> QED BY <2>1, <3>1, <3>2
  <2> QED BY <1>1, <2>1, <2>2, SettledStep, NotLocking
<1>4. ASSUME NEW m \in VidModes, NEW w \in BOOLEAN, SetDisp(m, w) PROVE VidInv'
  <2>1. /\ vd' = [vd EXCEPT !.mode = m, !.wide = w] /\ vint' = vint
        /\ UNCHANGED <<vcall, vidEnv>> /\ vcall = <<>>
        /\ vreg' = [vreg EXCEPT !.mode = vd'.mode, !.wide = vd'.wide]
    BY <1>4 DEF SetDisp, VidIdle, vid_atom_set_dispmode
  <2>2. vd' \in VidDs /\ vd'.mode = m /\ vd'.wide = w /\ vd'.src = vd.src /\ vd'.isrc = vd.isrc
        /\ vd'.count = vd.count /\ vd'.sfm = vd.sfm /\ vd'.fmt = vd.fmt
    BY <1>1, <2>1 DEF VidDs
  <2>3. vreg' \in VidRegs /\ SameFormat(vd', vreg') /\ SameSource(vd, vreg, vd', vreg')
        /\ FieldKept(vd', vreg')
    BY <1>1, <2>1, <2>2 DEF VidRegs, SameFormat, SameSource, FieldKept
  <2> QED BY <1>1, <2>1, <2>2, <2>3, SettledStep, NotLocking
<1> QED BY <1>2, <1>3, <1>4

\* The format is toggled for encoders, decoder and record at once.
LEMMA SetDispFmtKept == ASSUME VidInv, NEW f \in Formats, SetDispFmt(f) PROVE VidInv'
<1>1. vd \in VidDs /\ vreg \in VidRegs /\ vint \in VidInts /\ SameFormat(vd, vreg) /\ FieldKept(vd, vreg)
  BY DEF VidInv, VidKept
<1>2. PICK to \in Formats : to = (IF vd.fmt = "NTSC" THEN "PAL" ELSE "NTSC")
  BY DEF Formats
<1>3. /\ VidIdle /\ vreg' = scrman_osi_set_fmt(vreg, to) /\ vd' = [vd EXCEPT !.fmt = to]
      /\ vcall' = <<Cmd(<<>>)>> /\ vint' = vint /\ vidEnv' = vidEnv
  BY <1>2, Zenon DEF SetDispFmt
<1>4. PICK a, b : a = [vreg EXCEPT !.denc[0] = to] /\ b = [a EXCEPT !.denc[1] = to]
  OBVIOUS
<1>5. vreg' = [b EXCEPT !.fmt = to, !.fbadr = to]
  BY <1>3, <1>4 DEF scrman_osi_set_fmt, vid_atom_set_dispfmt, denc_atom_set_dispfmt
<1>6. /\ a \in VidRegs /\ a.denc[0] = to /\ a.sfm = vreg.sfm /\ a.clip = vreg.clip
  BY <1>1, <1>4 DEF VidRegs
<1>7. /\ b \in VidRegs /\ b.denc[0] = to /\ b.denc[1] = to /\ b.sfm = vreg.sfm /\ b.clip = vreg.clip
  <2>1. PICK x : x = [a.denc EXCEPT ![1] = to]
    OBVIOUS
  <2>2. a.denc \in [0 .. 1 -> Formats]
    BY <1>6 DEF VidRegs
  <2>3. x \in [0 .. 1 -> Formats] /\ x[0] = to /\ x[1] = to
    BY <1>6, <2>1, <2>2
  <2>4. b = [a EXCEPT !.denc = x]
    BY <1>4, <2>1
  <2> QED BY <1>6, <2>3, <2>4 DEF VidRegs
<1>8. /\ vreg' \in VidRegs /\ vreg'.denc = b.denc /\ vreg'.fmt = to /\ vreg'.fbadr = to
      /\ vreg'.sfm = vreg.sfm /\ vreg'.clip = vreg.clip
  BY <1>5, <1>7 DEF VidRegs
<1>9. vd' \in VidDs /\ vd'.fmt = to /\ vd'.sfm = vd.sfm /\ vd'.src = vd.src /\ vd'.isrc = vd.isrc
      /\ vd'.count = vd.count
  BY <1>1, <1>3 DEF VidDs
<1>10. SameFormat(vd', vreg') /\ FieldKept(vd', vreg')
  BY <1>1, <1>7, <1>8, <1>9 DEF SameFormat, FieldKept
<1>11. VidKept(vcall, vd, vreg) /\ vcall = <<>>
  BY <1>3 DEF VidInv, VidIdle
<1>12. ~May("fail") => Settled(vd', vreg'.clip)
  BY <1>8, <1>9, <1>11, IdleSettled DEF Settled
<1>13. vcall' \in Quiet
  <2>1. <<>> \in Seq(VidSteps3)
    OBVIOUS
  <2>2. Cmd(<<>>) \in NeutralSteps
    BY <2>1, NeutralIn
  <2> QED BY <1>3, <2>2, ListsOfSteps, Zenon DEF Quiet
<1>14. VidKept(vcall', vd', vreg')
  BY <1>8, <1>9, <1>10, <1>12, <1>13, QuietJoins DEF VidKept, Sourced
<1>15. VidKept(vcall, vd, vreg)'
  BY <1>3, <1>14 DEF VidKept, May, Sourced, Locking
<1> QED BY <1>1, <1>3, <1>15 DEF VidInv

\* The decoder is configured, unlocked and without a source.
LEMMA OpenKept == ASSUME VidInv, vid_inf_open PROVE VidInv'
<1>1. /\ vd \in VidDs /\ vreg \in VidRegs /\ vint \in VidInts /\ SameFormat(vd, vreg)
      /\ VidKept(vcall, vd, vreg) /\ vcall = <<>> /\ vd.count = 0
  BY DEF VidInv, VidKept, vid_inf_open
<1>2. PICK d : d = [vd EXCEPT !.open = TRUE, !.src = "NO", !.state = "STOPPED"]
  OBVIOUS
<1>3. d \in VidDs /\ d.src = "NO" /\ d.isrc = vd.isrc /\ d.fmt = vd.fmt
  BY <1>1, <1>2 DEF VidDs, VidStates
<1>4. PICK e : e = [d EXCEPT !.sfm = "NORMAL", !.mode = "NORM", !.wide = FALSE]
  OBVIOUS
<1>5. e \in VidDs /\ e.src = "NO" /\ e.isrc = vd.isrc /\ e.fmt = vd.fmt /\ e.sfm = "NORMAL"
  BY <1>3, <1>4 DEF VidDs, FieldModes
<1>6. vd' = [e EXCEPT !.count = 1]
  <2>1. vid_osi_init(vd) = e
    BY <1>2, <1>4 DEF vid_osi_init
  <2> QED BY <2>1 DEF vid_inf_open
<1>7. vd' \in VidDs /\ vd'.src = "NO" /\ vd'.isrc = vd.isrc /\ vd'.fmt = vd.fmt /\ vd'.sfm = "NORMAL"
      /\ vd'.count = 1
  BY <1>5, <1>6 DEF VidDs
<1>8. PICK r : r = vid_atom_config_vdec(vreg)
  OBVIOUS
<1>9. r \in VidRegs /\ ~r.clip /\ r.denc = vreg.denc /\ r.fmt = vreg.fmt /\ r.fbadr = vreg.fbadr
  <2>1. PICK a : a = [vreg EXCEPT !.svd = FALSE, !.clip = FALSE]
    OBVIOUS
  <2>2. a \in VidRegs /\ ~a.clip /\ a.denc = vreg.denc /\ a.fmt = vreg.fmt /\ a.fbadr = vreg.fbadr
    BY <1>1, <2>1 DEF VidRegs
  <2>3. r = [a EXCEPT !.sync = FALSE, !.blank = FALSE]
    BY <1>8, <2>1 DEF vid_atom_config_vdec
  <2> QED BY <2>2, <2>3 DEF VidRegs
<1>10. vreg' = [r EXCEPT !.mode = vd'.mode, !.wide = vd'.wide, !.mask = {}]
  <2>1. vreg' = [vid_atom_set_dispmode(vd', r) EXCEPT !.mask = {}]
    BY <1>8, Zenon DEF vid_inf_open
  <2>2. PICK m, w : m = vd'.mode /\ w = vd'.wide
    OBVIOUS
  <2>3. vid_atom_set_dispmode(vd', r) = [r EXCEPT !.mode = m, !.wide = w]
    BY <2>2, Zenon DEF vid_atom_set_dispmode
  <2>4. [[r EXCEPT !.mode = m, !.wide = w] EXCEPT !.mask = {}]
          = [r EXCEPT !.mode = m, !.wide = w, !.mask = {}]
    BY <1>9 DEF VidRegs
  <2> QED BY <2>1, <2>2, <2>3, <2>4, Zenon
<1>11. vreg' \in VidRegs /\ ~vreg'.clip /\ vreg'.denc = vreg.denc /\ vreg'.fmt = vreg.fmt
       /\ vreg'.fbadr = vreg.fbadr
  <2>1. vd'.mode \in VidModes \cup {"NORM"} /\ vd'.wide \in BOOLEAN
    BY <1>7 DEF VidDs
  <2> QED BY <1>9, <1>10, <2>1 DEF VidRegs
<1>12. vint' \in VidInts /\ vcall' = vcall /\ vidEnv' = vidEnv
  BY <1>1 DEF vid_inf_open, VidInts
<1>13. ~May("fail") => Settled(vd', vreg'.clip)
  <2>1. ~May("fail") => vd.isrc = -1
    BY <1>1, IdleSettled DEF Settled
  <2> QED BY <1>7, <1>11, <2>1 DEF Settled, Src
<1>14. SameFormat(vd', vreg') /\ FieldKept(vd', vreg')
  BY <1>1, <1>7, <1>11 DEF SameFormat, FieldKept
<1>15. VidKept(vcall', vd', vreg')
  BY <1>1, <1>7, <1>11, <1>12, <1>13, <1>14, QuietJoins DEF VidKept, Sourced
<1>16. VidKept(vcall, vd, vreg)'
  BY <1>12, <1>15 DEF VidKept, May, Sourced, Locking
<1> QED BY <1>12, <1>16 DEF VidInv

-----------------------------------------------------------------------------
(* The interrupt handler, and calls about the status.                       *)

LEMMA StatusKept ==
  ASSUME VidInv, StillpReady \/ PlayStatus \/ ChannelChanged \/ PauseReached \/ SequenceEnd
  PROVE  VidInv'
<1>1. vd \in VidDs /\ vreg \in VidRegs /\ vint \in VidInts /\ SameFormat(vd, vreg) /\ FieldKept(vd, vreg)
  BY DEF VidInv, VidKept
<1>2. vcall' = vcall /\ vidEnv' = vidEnv
  BY DEF StillpReady, PlayStatus, ChannelChanged, PauseReached, SequenceEnd
<1>3. vd' \in VidDs /\ vd'.sfm = vd.sfm /\ vd'.fmt = vd.fmt /\ vd'.src = vd.src
      /\ vd'.isrc = vd.isrc /\ vd'.count = vd.count
  <2>1. vd' = vd \/ vd' = [vd EXCEPT !.seqend = FALSE] \/ vd' = [vd EXCEPT !.seqend = TRUE]
    BY DEF StillpReady, PlayStatus, ChannelChanged, PauseReached, SequenceEnd
  <2>2. \A b \in BOOLEAN :
          vd' = [vd EXCEPT !.seqend = b]
            => vd' \in VidDs /\ vd'.sfm = vd.sfm /\ vd'.fmt = vd.fmt /\ vd'.src = vd.src
               /\ vd'.isrc = vd.isrc /\ vd'.count = vd.count
    BY <1>1 DEF VidDs
  <2>3. CASE vd' = vd
    BY <1>1, <2>3
  <2> QED BY <2>1, <2>2, <2>3
<1>4. vreg' \in VidRegs /\ vreg'.sfm = vreg.sfm /\ vreg'.fmt = vreg.fmt /\ vreg'.fbadr = vreg.fbadr
      /\ vreg'.denc = vreg.denc /\ vreg'.clip = vreg.clip
  <2>1. PICK m : m = vreg.mask \cup {"PSTART"}
    OBVIOUS
  <2>2. m \in SUBSET {"PSTART", "SEND"}
    BY <1>1, <2>1 DEF VidRegs
  <2>3. vreg' = vreg \/ vreg' = [vreg EXCEPT !.mask = m]
    BY <2>1 DEF StillpReady, PlayStatus, ChannelChanged, PauseReached, SequenceEnd
  <2> QED BY <1>1, <2>2, <2>3 DEF VidRegs
<1>5. vint' \in VidInts
  <2>1. PICK p, q, y : /\ p = vint.pending \cup {"PLAY"} /\ q = vint.pending \cup {"ACC"}
                       /\ y = (IF "picture" \in vint.play THEN {} ELSE vint.play)
    OBVIOUS
  <2>2. p \in SUBSET Pendings /\ q \in SUBSET Pendings /\ y \in SUBSET {"picture", "freeze"}
    BY <1>1, <2>1 DEF VidInts, Pendings
  <2>3. \/ vint' = vint \/ vint' = [vint EXCEPT !.pending = p, !.play = y]
        \/ vint' = [vint EXCEPT !.pending = q] \/ vint' = [vint EXCEPT !.ps = TRUE]
    BY <2>1 DEF StillpReady, PlayStatus, ChannelChanged, PauseReached, SequenceEnd
  <2> QED BY <1>1, <2>2, <2>3 DEF VidInts
<1>6. SameSource(vd, vreg, vd', vreg') /\ SameFormat(vd', vreg') /\ FieldKept(vd', vreg')
  BY <1>1, <1>3, <1>4 DEF SameSource, SameFormat, FieldKept
<1>7. Locking(vcall, vd, vreg) => Locking(vcall, vd', vreg')
  BY <1>3, <1>4 DEF Locking
<1> QED BY <1>2, <1>3, <1>4, <1>5, <1>6, <1>7, SettledStep

\* A picture starts: the single-field display ends, if the user has locked
\* nothing and is not about to.
LEMMA PictureKept ==
  ASSUME ~VidWindow, VidInv, NEW frozen \in BOOLEAN, PictureStart(frozen) PROVE VidInv'
<1>1. vd \in VidDs /\ vreg \in VidRegs /\ vint \in VidInts /\ SameFormat(vd, vreg) /\ FieldKept(vd, vreg)
  BY DEF VidInv, VidKept
<1>2. vcall' = vcall /\ vidEnv' = vidEnv /\ vd' = vd /\ ~InWindow
  BY DEF PictureStart
<1>3. PICK left, mask, r :
        /\ left = vint.pending \ SeenBy(vint.pending, frozen)
        /\ mask \in SUBSET {"PSTART", "SEND"}
        /\ r = vreg \/ r = vid_atom_set_sfm(vd, vreg, "NORMAL")
        /\ vreg' = [r EXCEPT !.mask = mask]
  <2>1. PICK seen, left : /\ seen = SeenBy(vint.pending, frozen) /\ left = vint.pending \ seen
    OBVIOUS
  <2>2. PICK r : r = (IF seen \cap {"PLAY", "CC", "ACC"} # {}
                      THEN vid_atom_set_sfm(vd, vreg, "NORMAL") ELSE vreg)
    OBVIOUS
  <2>3. vreg' = [r EXCEPT !.mask = MaskAfter(@, left)]
    BY <2>1, <2>2, Zenon DEF PictureStart
  <2>4. MaskAfter(r.mask, left) \in SUBSET {"PSTART", "SEND"}
    <3>1. r.mask \in SUBSET {"PSTART", "SEND"}
      BY <1>1, <2>2 DEF VidRegs, vid_atom_set_sfm
    <3> QED BY <3>1 DEF MaskAfter
  <2> QED BY <2>1, <2>2, <2>3, <2>4
<1>4. r \in VidRegs /\ r.fmt = vreg.fmt /\ r.fbadr = vreg.fbadr /\ r.denc = vreg.denc
      /\ r.clip = vreg.clip /\ (r.sfm = vreg.sfm \/ (vd.sfm = "NORMAL" /\ r.sfm = "NORMAL"))
  BY <1>1, <1>3 DEF VidRegs, vid_atom_set_sfm, FieldModes
<1>5. vreg' \in VidRegs /\ vreg'.fmt = vreg.fmt /\ vreg'.fbadr = vreg.fbadr /\ vreg'.denc = vreg.denc
      /\ vreg'.clip = vreg.clip /\ vreg'.sfm = r.sfm
  BY <1>3, <1>4 DEF VidRegs
<1>6. vint' \in VidInts
  <2>1. PICK f, c, y : /\ f = (vint.ff \/ "FF" \in SeenBy(vint.pending, frozen))
                       /\ c = (vint.cc \/ "CC" \in SeenBy(vint.pending, frozen))
                       /\ y = (IF "PLAY" \notin vint.pending THEN vint.play
                               ELSE {"picture"} \cup
                                    (IF frozen /\ "picture" \notin vint.play THEN {"freeze"}
                                     ELSE vint.play))
    OBVIOUS
  <2>2. left \in SUBSET Pendings /\ f \in BOOLEAN /\ c \in BOOLEAN
        /\ y \in SUBSET {"picture", "freeze"}
    BY <1>1, <1>3, <2>1 DEF VidInts
  <2>3. vint' = [vint EXCEPT !.pending = left, !.ff = f, !.cc = c, !.play = y]
    BY <1>3, <2>1 DEF PictureStart
  <2>4. PICK v : v = [vint EXCEPT !.pending = left, !.ff = f]
    OBVIOUS
  <2>5. v \in VidInts
    BY <1>1, <2>2, <2>4 DEF VidInts
  <2>6. vint' = [v EXCEPT !.cc = c, !.play = y]
    BY <2>3, <2>4
  <2> QED BY <2>2, <2>5, <2>6 DEF VidInts
<1>7. SameSource(vd, vreg, vd', vreg') /\ SameFormat(vd', vreg') /\ FieldKept(vd', vreg')
  BY <1>1, <1>2, <1>4, <1>5 DEF SameSource, SameFormat, FieldKept
<1>8. ASSUME Locking(vcall, vd, vreg) PROVE Locking(vcall, vd', vreg')
  <2>1. PICK f \in FieldModes :
           \/ vcall = <<SfmStep("unlock", f), SfmStep("field", f), SfmStep("lock", f)>>
           \/ vcall = <<SfmStep("field", f), SfmStep("lock", f)>> /\ vd.sfm = "NORMAL"
           \/ vcall = <<SfmStep("lock", f)>> /\ vd.sfm = "NORMAL" /\ vreg.sfm = f
    BY <1>8 DEF Locking
  <2>2. vcall # <<SfmStep("lock", f)>>
    <3>1. PICK s : s = SfmStep("lock", f)
      OBVIOUS
    <3>2. <<s>> # <<>> /\ Head(<<s>>) = s /\ s.k = "lock"
      BY <3>1 DEF SfmStep
    <3> QED BY <1>2, <3>1, <3>2 DEF InWindow
  <2> QED BY <1>2, <2>1, <2>2 DEF Locking
<1> QED BY <1>1, <1>2, <1>5, <1>6, <1>7, <1>8, SettledStep

-----------------------------------------------------------------------------
(* The steps: types, format and field mode.                                 *)

LEMMA StepParts ==
  ASSUME NEW s \in VidSteps
  PROVE  /\ s.k = "cmd" => s.fail \in Seq(VidSteps)
         /\ s.k \in {"inittv", "initclip", "initstill"} => s.ok \in Seq(VidSteps)
         /\ s.k = "state" => s.state \in VidStates
         /\ s.k = "isrc" => s.isrc \in {0, 1}
         /\ s.k \notin {"unlock", "field", "lock"}
<1>1. \A r \in Seq(VidSteps3) : r \in Seq(VidSteps)
  BY Shallower, SeqGrows
<1>2. CASE s \in Plain
  BY <1>2 DEF Plain, NeutralKinds, SourceKinds
<1>3. CASE s \in [k : {"cmd"}, fail : Seq(VidSteps3)]
  BY <1>1, <1>3
<1>4. CASE s \in [k : {"inittv", "initclip", "initstill"}, ok : Seq(VidSteps3)]
  BY <1>1, <1>4
<1> QED BY <1>2, <1>3, <1>4 DEF VidSteps, With

Stepped ==
  /\ vd' \in VidDs /\ vreg' \in VidRegs /\ vint' \in VidInts /\ vcall' \in Seq(VidSteps)
  /\ SameFormat(vd', vreg') /\ FieldKept(vd', vreg')

\* What a step does to the source it says by its kind.
Moves(s) ==
  /\ vd'.count = (IF s.k = "closed" THEN 0 ELSE vd.count)
  /\ vd'.isrc = (IF s.k = "isrc" THEN s.isrc
                 ELSE IF s.k \in {"unstill", "closed"} THEN -1
                 ELSE IF s.k = "state" /\ s.state = "STILLP" THEN 1 ELSE vd.isrc)
  /\ vd'.src = (IF s.k = "srcno" THEN "NO" ELSE IF s.k = "memory" THEN "MEMORY"
                ELSE IF s.k = "inittv" /\ vd.src = "NO" THEN "DEMUX" ELSE vd.src)
  /\ vreg'.clip = (IF s.k = "clipoff" \/ (s.k = "inittv" /\ vd.src = "NO") THEN FALSE
                   ELSE IF s.k = "clipon" \/ (s.k = "initclip" /\ vd.src = "NO") THEN TRUE
                   ELSE vreg.clip)

LEMMA CmdSteps ==
  ASSUME VidInv, vcall \in Seq(VidSteps), vcall # <<>>, NEW s, s = Head(vcall), s.k = "cmd",
         NEW failed \in BOOLEAN, RunCmd(s, failed)
  PROVE  Stepped /\ Moves(s) /\ (~May("fail") => vcall' = Tail(vcall))
<1>1. vd \in VidDs /\ vreg \in VidRegs /\ vint \in VidInts /\ SameFormat(vd, vreg) /\ FieldKept(vd, vreg)
  BY DEF VidInv, VidKept
<1>2. s \in VidSteps /\ Tail(vcall) \in Seq(VidSteps)
  BY ListsOfSteps, Zenon
<1>3. s.fail \in Seq(VidSteps)
  BY <1>2, StepParts
<1>4. vd' = vd /\ vreg' = vreg /\ vint' = vint /\ vcall' = (IF failed THEN s.fail ELSE Tail(vcall))
  BY DEF RunCmd
<1>5. ~May("fail") => ~failed
  BY DEF RunCmd
<1> QED BY <1>1, <1>2, <1>3, <1>4, <1>5 DEF Stepped, Moves

LEMMA RecordSteps ==
  ASSUME VidInv, vcall \in Seq(VidSteps), vcall # <<>>, NEW s, s = Head(vcall), RunRecord(s)
  PROVE  Stepped /\ Moves(s) /\ vcall' = Tail(vcall)
<1>1. vd \in VidDs /\ vreg \in VidRegs /\ vint \in VidInts /\ SameFormat(vd, vreg) /\ FieldKept(vd, vreg)
  BY DEF VidInv, VidKept
<1>2. s \in VidSteps /\ Tail(vcall) \in Seq(VidSteps)
  BY ListsOfSteps, Zenon
<1>3. vcall' = Tail(vcall) /\ vreg' = vreg /\ vint' = vint
      /\ s.k \in {"state", "isrc", "srcno", "memory", "unstill", "closed"}
  BY <1>2, StepParts DEF RunRecord
<1>4. vd' \in VidDs /\ vd'.sfm = vd.sfm /\ vd'.fmt = vd.fmt /\ Moves(s)
  <2>1. CASE s.k = "state"
    <3>1. PICK t, i, q, z : /\ t = (vd.still \/ s.state = "STILLP")
                            /\ i = (IF s.state = "STILLP" THEN 1 ELSE vd.isrc)
                            /\ q = (vd.seqend \/ s.state = "STILLP") /\ z = s.state
      OBVIOUS
    <3>2. t \in BOOLEAN /\ i \in {-1, 0, 1} /\ q \in BOOLEAN /\ z \in VidStates
      BY <1>1, <1>2, <2>1, <3>1, StepParts DEF VidDs
    <3>3. vd' = [vd EXCEPT !.state = z, !.still = t, !.isrc = i, !.seqend = q]
      BY <2>1, <3>1 DEF RunRecord
    <3>4. PICK e : e = [vd EXCEPT !.state = z, !.still = t]
      OBVIOUS
    <3>5. e \in VidDs /\ e.sfm = vd.sfm /\ e.fmt = vd.fmt /\ e.src = vd.src /\ e.count = vd.count
      BY <1>1, <3>2, <3>4 DEF VidDs
    <3>6. vd' = [e EXCEPT !.isrc = i, !.seqend = q]
      BY <3>3, <3>4
    <3>7. vd' \in VidDs /\ vd'.sfm = vd.sfm /\ vd'.fmt = vd.fmt /\ vd'.src = vd.src
          /\ vd'.count = vd.count /\ vd'.isrc = i
      BY <3>2, <3>5, <3>6 DEF VidDs
    <3> QED BY <1>3, <2>1, <3>1, <3>7 DEF Moves
  <2>2. CASE s.k = "isrc"
    <3>1. vd' = [vd EXCEPT !.isrc = s.isrc] /\ s.isrc \in {0, 1}
      BY <1>2, <2>2, StepParts DEF RunRecord
    <3>2. PICK i \in {0, 1} : i = s.isrc
      BY <3>1
    <3>3. vd' = [vd EXCEPT !.isrc = i]
      BY <3>1, <3>2
    <3>4. vd' \in VidDs /\ vd'.sfm = vd.sfm /\ vd'.fmt = vd.fmt /\ vd'.src = vd.src
          /\ vd'.count = vd.count /\ vd'.isrc = i
      BY <1>1, <3>3 DEF VidDs
    <3> QED BY <1>3, <2>2, <3>2, <3>4 DEF Moves
  <2>3. CASE s.k = "srcno"
    <3>1. vd' = [vd EXCEPT !.src = "NO"]
      BY <2>3 DEF RunRecord
    <3> QED BY <1>1, <1>3, <2>3, <3>1 DEF VidDs, Moves
  <2>4. CASE s.k = "memory"
    <3>1. vd' = [vd EXCEPT !.src = "MEMORY"]
      BY <2>4 DEF RunRecord
    <3> QED BY <1>1, <1>3, <2>4, <3>1 DEF VidDs, Moves
  <2>5. CASE s.k = "unstill"
    <3>1. vd' = [vd EXCEPT !.still = FALSE, !.isrc = -1]
      BY <2>5 DEF RunRecord
    <3> QED BY <1>1, <1>3, <2>5, <3>1 DEF VidDs, Moves
  <2>6. CASE s.k = "closed"
    <3>1. vd' = [vd EXCEPT !.count = 0, !.open = FALSE, !.isrc = -1]
      BY <2>6 DEF RunRecord, vid_osi_close
    <3>2. vd' \in VidDs /\ vd'.sfm = vd.sfm /\ vd'.fmt = vd.fmt /\ vd'.src = vd.src
          /\ vd'.count = 0 /\ vd'.isrc = -1
      <4>1. PICK e : e = [vd EXCEPT !.count = 0, !.open = FALSE]
        OBVIOUS
      <4>2. e \in VidDs /\ e.sfm = vd.sfm /\ e.fmt = vd.fmt /\ e.src = vd.src /\ e.count = 0
        <5>1. PICK n \in 0 .. 1 : n = 0
          OBVIOUS
        <5>2. e = [vd EXCEPT !.count = n, !.open = FALSE]
          BY <4>1, <5>1
        <5> QED BY <1>1, <5>1, <5>2 DEF VidDs
      <4>3. vd' = [e EXCEPT !.isrc = -1]
        BY <3>1, <4>1
      <4> QED BY <4>2, <4>3 DEF VidDs
    <3> QED BY <1>3, <2>6, <3>2 DEF Moves
  <2> QED BY <1>3, <2>1, <2>2, <2>3, <2>4, <2>5, <2>6
<1>5. SameFormat(vd', vreg') /\ FieldKept(vd', vreg')
  BY <1>1, <1>3, <1>4 DEF SameFormat, FieldKept
<1> QED BY <1>1, <1>2, <1>3, <1>4, <1>5 DEF Stepped

LEMMA RegisterSteps ==
  ASSUME VidInv, vcall \in Seq(VidSteps), vcall # <<>>, NEW s, s = Head(vcall), RunRegister(s)
  PROVE  Stepped /\ Moves(s) /\ vcall' = Tail(vcall)
<1>1. vd \in VidDs /\ vreg \in VidRegs /\ vint \in VidInts /\ SameFormat(vd, vreg) /\ FieldKept(vd, vreg)
  BY DEF VidInv, VidKept
<1>2. s \in VidSteps /\ Tail(vcall) \in Seq(VidSteps)
  BY ListsOfSteps, Zenon
<1>3. vcall' = Tail(vcall) /\ vd' = vd /\ vint' = vint
      /\ s.k \in {"syncoff", "first", "blank", "stop", "svdon", "advance", "syncon",
                  "clipoff", "clipon", "getmask", "sendon", "sendoff"}
  BY <1>2, StepParts DEF RunRegister
<1>4. PICK m, n, o : m = vreg.mask /\ n = vreg.seen \cup {"SEND"} /\ o = vreg.seen \ {"SEND"}
  OBVIOUS
<1>5. m \in SUBSET {"PSTART", "SEND"} /\ n \in SUBSET {"PSTART", "SEND"} /\ o \in SUBSET {"PSTART", "SEND"}
  BY <1>1, <1>4 DEF VidRegs
<1>6. /\ s.k = "syncoff" => vreg' = [vreg EXCEPT !.sync = FALSE]
      /\ s.k = "first" => vreg' = IF vd.sfm # "NORMAL" THEN vreg ELSE [vreg EXCEPT !.sfm = "FIRST_ONLY"]
      /\ s.k = "blank" => vreg' = [vreg EXCEPT !.blank = TRUE]
      /\ s.k = "stop" => vreg' = [vreg EXCEPT !.sync = FALSE, !.svd = FALSE]
      /\ s.k = "svdon" => vreg' = [vreg EXCEPT !.svd = TRUE, !.blank = FALSE]
      /\ s.k = "advance" => vreg' = [vreg EXCEPT !.svd = TRUE]
      /\ s.k = "syncon" => vreg' = [vreg EXCEPT !.sync = TRUE, !.master = vreg.master]
      /\ s.k = "clipoff" => vreg' = [vreg EXCEPT !.clip = FALSE]
      /\ s.k = "clipon" => vreg' = [vreg EXCEPT !.clip = TRUE, !.svd = TRUE]
      /\ s.k = "getmask" => vreg' = [vreg EXCEPT !.seen = m]
      /\ s.k = "sendon" => vreg' = [vreg EXCEPT !.mask = n]
      /\ s.k = "sendoff" => vreg' = [vreg EXCEPT !.mask = o]
  BY <1>3, <1>4 DEF RunRegister, vid_atom_set_sfm, vid_atom_stop, vid_atom_enable_sync, ClipMode
<1>7. vreg' \in VidRegs /\ vreg'.fmt = vreg.fmt /\ vreg'.fbadr = vreg.fbadr /\ vreg'.denc = vreg.denc
      /\ (vd.sfm # "NORMAL" => vreg'.sfm = vreg.sfm)
      /\ vreg'.clip = (IF s.k = "clipoff" THEN FALSE ELSE IF s.k = "clipon" THEN TRUE ELSE vreg.clip)
  <2>1. CASE s.k = "syncoff"
    <3>1. vreg' = [vreg EXCEPT !.sync = FALSE]
      BY <1>6, <2>1
    <3> QED BY <1>1, <1>5, <2>1, <3>1 DEF VidRegs
  <2>2. CASE s.k = "first"
    <3>1. vreg' = vreg \/ (vd.sfm = "NORMAL" /\ vreg' = [vreg EXCEPT !.sfm = "FIRST_ONLY"])
      BY <1>6, <2>2
    <3> QED BY <1>1, <2>2, <3>1 DEF VidRegs, FieldModes
  <2>3. CASE s.k = "blank"
    <3>1. vreg' = [vreg EXCEPT !.blank = TRUE]
      BY <1>6, <2>3
    <3> QED BY <1>1, <1>5, <2>3, <3>1 DEF VidRegs
  <2>4. CASE s.k = "stop"
    <3>1. vreg' = [vreg EXCEPT !.sync = FALSE, !.svd = FALSE]
      BY <1>6, <2>4
    <3> QED BY <1>1, <1>5, <2>4, <3>1 DEF VidRegs
  <2>5. CASE s.k = "svdon"
    <3>1. vreg' = [vreg EXCEPT !.svd = TRUE, !.blank = FALSE]
      BY <1>6, <2>5
    <3> QED BY <1>1, <1>5, <2>5, <3>1 DEF VidRegs
  <2>6. CASE s.k = "advance"
    <3>1. vreg' = [vreg EXCEPT !.svd = TRUE]
      BY <1>6, <2>6
    <3> QED BY <1>1, <1>5, <2>6, <3>1 DEF VidRegs
  <2>7. CASE s.k = "syncon"
    <3>1. vreg' = [vreg EXCEPT !.sync = TRUE, !.master = vreg.master]
      BY <1>6, <2>7
    <3> QED BY <1>1, <1>5, <2>7, <3>1 DEF VidRegs
  <2>8. CASE s.k = "clipoff"
    <3>1. vreg' = [vreg EXCEPT !.clip = FALSE]
      BY <1>6, <2>8
    <3> QED BY <1>1, <1>5, <2>8, <3>1 DEF VidRegs
  <2>9. CASE s.k = "clipon"
    <3>1. vreg' = [vreg EXCEPT !.clip = TRUE, !.svd = TRUE]
      BY <1>6, <2>9
    <3> QED BY <1>1, <1>5, <2>9, <3>1 DEF VidRegs
  <2>10. CASE s.k = "getmask"
    <3>1. vreg' = [vreg EXCEPT !.seen = m]
      BY <1>6, <2>10
    <3> QED BY <1>1, <1>5, <2>10, <3>1 DEF VidRegs
  <2>11. CASE s.k = "sendon"
    <3>1. vreg' = [vreg EXCEPT !.mask = n]
      BY <1>6, <2>11
    <3> QED BY <1>1, <1>5, <2>11, <3>1 DEF VidRegs
  <2>12. CASE s.k = "sendoff"
    <3>1. vreg' = [vreg EXCEPT !.mask = o]
      BY <1>6, <2>12
    <3> QED BY <1>1, <1>5, <2>12, <3>1 DEF VidRegs
  <2> QED BY <1>3, <2>1, <2>2, <2>3, <2>4, <2>5, <2>6, <2>7, <2>8, <2>9, <2>10, <2>11, <2>12
<1>8. SameFormat(vd', vreg') /\ FieldKept(vd', vreg')
  BY <1>1, <1>3, <1>7 DEF SameFormat, FieldKept
<1>9. Moves(s)
  BY <1>3, <1>7 DEF Moves
<1> QED BY <1>1, <1>2, <1>3, <1>7, <1>8, <1>9 DEF Stepped

LEMMA WaitSteps ==
  ASSUME VidInv, vcall \in Seq(VidSteps), vcall # <<>>, NEW s, s = Head(vcall),
         RunArm(s) \/ \E late \in BOOLEAN : RunWait(s, late)
  PROVE  Stepped /\ Moves(s) /\ vcall' = Tail(vcall)
<1>1. vd \in VidDs /\ vreg \in VidRegs /\ vint \in VidInts /\ SameFormat(vd, vreg) /\ FieldKept(vd, vreg)
  BY DEF VidInv, VidKept
<1>2. s \in VidSteps /\ Tail(vcall) \in Seq(VidSteps)
  BY ListsOfSteps, Zenon
<1>3. vcall' = Tail(vcall) /\ vd' = vd
      /\ s.k \in {"armplay", "ffarm", "ccarm", "ffwait", "pswait", "ccwait", "sfwait", "psclear"}
  BY DEF RunArm, RunWait
<1>4. vreg' \in VidRegs /\ vreg'.sfm = vreg.sfm /\ vreg'.fmt = vreg.fmt /\ vreg'.fbadr = vreg.fbadr
      /\ vreg'.denc = vreg.denc /\ vreg'.clip = vreg.clip
  <2>1. PICK m : m = vreg.mask \cup {"PSTART"}
    OBVIOUS
  <2>2. m \in SUBSET {"PSTART", "SEND"}
    BY <1>1, <2>1 DEF VidRegs
  <2>3. vreg' = vreg \/ vreg' = [vreg EXCEPT !.mask = m] \/ vreg' = [vreg EXCEPT !.svd = FALSE]
    BY <2>1 DEF RunArm, RunWait
  <2>4. CASE vreg' = [vreg EXCEPT !.svd = FALSE]
    BY <1>1, <2>4 DEF VidRegs
  <2>5. CASE vreg' = [vreg EXCEPT !.mask = m]
    BY <1>1, <2>2, <2>5 DEF VidRegs
  <2> QED BY <1>1, <2>3, <2>4, <2>5
<1>5. vint' \in VidInts
  <2>1. CASE RunArm(s)
    <3>1. PICK q, f, c, y :
            /\ q = vint.pending \cup {[armplay |-> "PLAY", ffarm |-> "FF", ccarm |-> "CC"][s.k]}
            /\ f = (vint.ff /\ s.k # "ffarm") /\ c = (vint.cc /\ s.k # "ccarm")
            /\ y = (IF s.k = "armplay" THEN {} ELSE vint.play)
      OBVIOUS
    <3>2. s.k \in {"armplay", "ffarm", "ccarm"}
      BY <2>1 DEF RunArm
    <3>3. q \in SUBSET Pendings /\ f \in BOOLEAN /\ c \in BOOLEAN /\ y \in SUBSET {"picture", "freeze"}
      BY <1>1, <3>1, <3>2 DEF VidInts, Pendings
    <3>4. vint' = [vint EXCEPT !.pending = q, !.ff = f, !.cc = c, !.play = y]
      BY <2>1, <3>1 DEF RunArm
    <3>5. PICK v : v = [vint EXCEPT !.pending = q, !.ff = f]
      OBVIOUS
    <3>6. v \in VidInts
      BY <1>1, <3>3, <3>5 DEF VidInts
    <3>7. vint' = [v EXCEPT !.cc = c, !.play = y]
      BY <3>4, <3>5
    <3> QED BY <3>3, <3>6, <3>7 DEF VidInts
  <2>2. ASSUME NEW late \in BOOLEAN, RunWait(s, late) PROVE vint' \in VidInts
    <3>1. PICK a, b : a = vint.pending \ {"FF"} /\ b = vint.pending \ {"CC"}
      OBVIOUS
    <3>2. a \in SUBSET Pendings /\ b \in SUBSET Pendings
      BY <1>1, <3>1 DEF VidInts
    <3>3. \/ vint' = vint \/ vint' = [vint EXCEPT !.pending = a, !.ff = FALSE]
          \/ vint' = [vint EXCEPT !.pending = b, !.cc = FALSE] \/ vint' = [vint EXCEPT !.ps = FALSE]
      BY <2>2, <3>1 DEF RunWait, vid_atom_ff_wait, CcWait, vid_atom_ps_wait
    <3> QED BY <1>1, <3>2, <3>3 DEF VidInts
  <2> QED BY <2>1, <2>2
<1>6. SameFormat(vd', vreg') /\ FieldKept(vd', vreg')
  BY <1>1, <1>3, <1>4 DEF SameFormat, FieldKept
<1>7. Moves(s)
  BY <1>3, <1>4 DEF Moves
<1> QED BY <1>1, <1>2, <1>3, <1>4, <1>5, <1>6, <1>7 DEF Stepped

\* What is done when a source is opened, or a still picture entered.
LEMMA EntersListed ==
  ASSUME NEW t \in Seq(VidSteps) PROVE vid_atom_enter_stillp(t) \in Seq(VidSteps)
<1>1. PICK S, m, n, g, s, z :
        /\ S = VidSteps /\ m = Step("memory") /\ n = Cmd(<<>>) /\ g = Step("getmask")
        /\ s = Step("sendon") /\ z = SetState("STILLP")
  OBVIOUS
<1>2. m \in S /\ z \in S
  BY <1>1, EndsAre
<1>3. n \in S /\ g \in S /\ s \in S
  <2>1. <<>> \in Seq(VidSteps3)
    OBVIOUS
  <2> QED BY <1>1, <2>1, NeutralIn DEF NeutralKinds
<1>4. PICK l : l = <<n, n, n, g, s, m, z>>
  OBVIOUS
<1>5. l \in Seq(S)
  BY <1>2, <1>3, <1>4
<1>6. l \o t \in Seq(VidSteps)
  BY <1>1, <1>5, ListsOfSteps, Zenon
<1> QED BY <1>1, <1>4, <1>6, Zenon DEF vid_atom_enter_stillp

LEMMA InitSteps ==
  ASSUME VidInv, vcall \in Seq(VidSteps), vcall # <<>>, NEW s, s = Head(vcall), RunInit(s)
  PROVE  /\ Stepped /\ Moves(s)
         /\ vcall' = (IF s.k = "enter" THEN vid_atom_enter_stillp(Tail(vcall))
                      ELSE IF vd.src # "NO" THEN <<>> ELSE s.ok \o Tail(vcall))
<1>1. vd \in VidDs /\ vreg \in VidRegs /\ vint \in VidInts /\ SameFormat(vd, vreg) /\ FieldKept(vd, vreg)
  BY DEF VidInv, VidKept
<1>2. s \in VidSteps /\ Tail(vcall) \in Seq(VidSteps)
  BY ListsOfSteps, Zenon
<1>3. vint' = vint /\ s.k \in {"inittv", "initclip", "initstill", "enter"}
  BY DEF RunInit
<1>4. vcall' = (IF s.k = "enter" THEN vid_atom_enter_stillp(Tail(vcall))
                ELSE IF vd.src # "NO" THEN <<>> ELSE s.ok \o Tail(vcall))
  BY DEF RunInit
<1>5. vcall' \in Seq(VidSteps)
  <2>1. CASE s.k = "enter"
    BY <1>2, <1>4, <2>1, EntersListed
  <2>2. CASE s.k # "enter"
    <3>1. s.ok \in Seq(VidSteps)
      BY <1>2, <1>3, <2>2, StepParts
    <3>2. <<>> \in Seq(VidSteps) /\ s.ok \o Tail(vcall) \in Seq(VidSteps)
      BY <1>2, <3>1, ListsOfSteps, Zenon
    <3> QED BY <1>4, <2>2, <3>2
  <2> QED BY <2>1, <2>2
<1>6. \/ /\ vd' = vd /\ vreg' = vreg
         /\ s.k \in {"enter", "initstill"} \/ (s.k \in {"inittv", "initclip"} /\ vd.src # "NO")
      \/ /\ s.k = "inittv" /\ vd.src = "NO"
         /\ vd' = [vd EXCEPT !.src = "DEMUX"] /\ vreg' = [vreg EXCEPT !.clip = FALSE]
      \/ /\ s.k = "initclip" /\ vd.src = "NO"
         /\ vd' = vd /\ vreg' = [vreg EXCEPT !.clip = TRUE, !.svd = TRUE, !.blank = FALSE]
  <2>1. [[vreg EXCEPT !.clip = TRUE, !.svd = TRUE] EXCEPT !.blank = FALSE]
          = [vreg EXCEPT !.clip = TRUE, !.svd = TRUE, !.blank = FALSE]
    BY <1>1 DEF VidRegs
  <2> QED BY <1>3, <2>1 DEF RunInit, ClipMode
<1>7. /\ vd' \in VidDs /\ vreg' \in VidRegs /\ vd'.sfm = vd.sfm /\ vd'.fmt = vd.fmt
      /\ vreg'.sfm = vreg.sfm /\ vreg'.fmt = vreg.fmt /\ vreg'.fbadr = vreg.fbadr
      /\ vreg'.denc = vreg.denc /\ Moves(s)
  <2>1. CASE /\ vd' = vd /\ vreg' = vreg
             /\ s.k \in {"enter", "initstill"} \/ (s.k \in {"inittv", "initclip"} /\ vd.src # "NO")
    <3>1. Moves(s)
      BY <2>1 DEF Moves
    <3> QED BY <1>1, <2>1, <3>1
  <2>2. CASE s.k = "inittv" /\ vd' = [vd EXCEPT !.src = "DEMUX"] /\ vreg' = [vreg EXCEPT !.clip = FALSE]
             /\ vd.src = "NO"
    <3>1. vd' \in VidDs /\ vd'.sfm = vd.sfm /\ vd'.fmt = vd.fmt /\ vd'.src = "DEMUX"
          /\ vd'.isrc = vd.isrc /\ vd'.count = vd.count
      BY <1>1, <2>2 DEF VidDs
    <3>2. vreg' \in VidRegs /\ vreg'.sfm = vreg.sfm /\ vreg'.fmt = vreg.fmt
          /\ vreg'.fbadr = vreg.fbadr /\ vreg'.denc = vreg.denc /\ vreg'.clip = FALSE
      BY <1>1, <2>2 DEF VidRegs
    <3> QED BY <2>2, <3>1, <3>2 DEF Moves
  <2>3. CASE s.k = "initclip" /\ vd' = vd /\ vd.src = "NO"
             /\ vreg' = [vreg EXCEPT !.clip = TRUE, !.svd = TRUE, !.blank = FALSE]
    <3>1. vreg' \in VidRegs /\ vreg'.sfm = vreg.sfm /\ vreg'.fmt = vreg.fmt
          /\ vreg'.fbadr = vreg.fbadr /\ vreg'.denc = vreg.denc /\ vreg'.clip = TRUE
      BY <1>1, <2>3 DEF VidRegs
    <3> QED BY <1>1, <2>3, <3>1 DEF Moves
  <2> QED BY <1>6, <2>1, <2>2, <2>3
<1>8. SameFormat(vd', vreg') /\ FieldKept(vd', vreg')
  BY <1>1, <1>7 DEF SameFormat, FieldKept
<1> QED BY <1>1, <1>3, <1>4, <1>5, <1>7, <1>8 DEF Stepped

\* A step, whatever its kind.
LEMMA StepMoves ==
  ASSUME VidInv, vcall \in Seq(VidSteps), vcall # <<>>, RunStep
  PROVE  /\ Stepped /\ Moves(Head(vcall)) /\ vidEnv' = vidEnv
         /\ \/ Head(vcall).k \notin {"inittv", "initclip", "initstill", "enter"}
               /\ (~May("fail") => vcall' = Tail(vcall))
            \/ vcall' = (IF Head(vcall).k = "enter" THEN vid_atom_enter_stillp(Tail(vcall))
                         ELSE IF vd.src # "NO" THEN <<>> ELSE Head(vcall).ok \o Tail(vcall))
               /\ Head(vcall).k \in {"inittv", "initclip", "initstill", "enter"}
<1>1. PICK s : s = Head(vcall)
  OBVIOUS
<1>2. vidEnv' = vidEnv
        /\ \/ s.k = "cmd" /\ \E failed \in BOOLEAN : RunCmd(s, failed)
           \/ RunRecord(s) \/ RunRegister(s) \/ RunArm(s) \/ RunInit(s)
           \/ \E late \in BOOLEAN : RunWait(s, late)
  BY <1>1, Zenon DEF RunStep
<1>3. CASE s.k = "cmd" /\ \E failed \in BOOLEAN : RunCmd(s, failed)
  <2>1. PICK failed \in BOOLEAN : RunCmd(s, failed)
    BY <1>3
  <2> QED BY <1>1, <1>2, <1>3, <2>1, CmdSteps
<1>4. CASE RunRecord(s)
  <2>1. s.k \notin {"inittv", "initclip", "initstill", "enter"}
    BY <1>4 DEF RunRecord
  <2> QED BY <1>1, <1>2, <1>4, <2>1, RecordSteps
<1>5. CASE RunRegister(s)
  <2>1. s.k \notin {"inittv", "initclip", "initstill", "enter"}
    BY <1>5 DEF RunRegister
  <2> QED BY <1>1, <1>2, <1>5, <2>1, RegisterSteps
<1>6. CASE RunArm(s) \/ \E late \in BOOLEAN : RunWait(s, late)
  <2>1. s.k \notin {"inittv", "initclip", "initstill", "enter"}
    BY <1>6 DEF RunArm, RunWait
  <2> QED BY <1>1, <1>2, <1>6, <2>1, WaitSteps
<1>7. CASE RunInit(s)
  <2>1. s.k \in {"inittv", "initclip", "initstill", "enter"}
    BY <1>7 DEF RunInit
  <2> QED BY <1>1, <1>2, <1>7, <2>1, InitSteps
<1> QED BY <1>2, <1>3, <1>4, <1>5, <1>6, <1>7

-----------------------------------------------------------------------------
(* The steps: the locking of the field mode.                                *)

LEMMA LockingApart ==
  ASSUME NEW v, NEW d, NEW r, Locking(v, d, r) PROVE v \notin Seq(VidSteps) /\ v # <<>>
<1>1. PICK f \in FieldModes :
         \/ v = <<SfmStep("unlock", f), SfmStep("field", f), SfmStep("lock", f)>>
         \/ v = <<SfmStep("field", f), SfmStep("lock", f)>>
         \/ v = <<SfmStep("lock", f)>>
  BY DEF Locking
<1>2. PICK a, b, c : a = SfmStep("unlock", f) /\ b = SfmStep("field", f) /\ c = SfmStep("lock", f)
  OBVIOUS
<1>3. a.k = "unlock" /\ b.k = "field" /\ c.k = "lock"
  BY <1>2 DEF SfmStep
<1>4. v # <<>> /\ Head(v) \in {a, b, c}
  BY <1>1, <1>2
<1>5. Head(v).k \in {"unlock", "field", "lock"}
  BY <1>3, <1>4
<1>6. v \in Seq(VidSteps) => Head(v) \in VidSteps
  BY <1>4, ListsOfSteps, Zenon
<1> QED BY <1>4, <1>5, <1>6, StepParts

LEMMA LockingSettled ==
  ASSUME NEW v, NEW d, NEW r, VidKept(v, d, r), Locking(v, d, r), ~May("fail")
  PROVE  Settled(d, r.clip)
<1>1. v \notin Seq(VidSteps)
  BY LockingApart
<1>2. /\ \A p \in {0, 1} : LastStep(Isrc(p)) \subseteq Seq(VidSteps)
      /\ Weave(Step("memory"), LastStep(Isrc(1))) \subseteq Seq(VidSteps)
      /\ Weave(Step("memory"), LastStep(SetState("STILLP"))) \subseteq Seq(VidSteps)
      /\ LastStep(SetState("STILLP")) \subseteq Seq(VidSteps)
      /\ Weave(Step("clipon"), LastStep(Step("enter"))) \subseteq Seq(VidSteps)
      /\ LastStep(Step("enter")) \subseteq Seq(VidSteps)
  <2>1. PICK m, c, e, z, i : /\ m = Step("memory") /\ c = Step("clipon") /\ e = Step("enter")
                             /\ z = SetState("STILLP") /\ i = Isrc(1)
    OBVIOUS
  <2>2. m \in VidSteps /\ c \in VidSteps /\ e \in VidSteps /\ z \in VidSteps /\ i \in VidSteps
        /\ \A p \in {0, 1} : Isrc(p) \in VidSteps
    BY <2>1, EndsAre
  <2>3. Weave(m, LastStep(i)) \subseteq Seq(VidSteps) /\ Weave(m, LastStep(z)) \subseteq Seq(VidSteps)
        /\ Weave(c, LastStep(e)) \subseteq Seq(VidSteps)
    BY <2>2, LeadsTo, Zenon
  <2>4. \A p \in {0, 1} : LastStep(Isrc(p)) \subseteq Seq(VidSteps)
    BY <2>2, LastIn
  <2>5. LastStep(z) \subseteq Seq(VidSteps) /\ LastStep(e) \subseteq Seq(VidSteps)
    BY <2>2, LastIn
  <2> QED BY <2>1, <2>3, <2>4, <2>5
<1>3. ASSUME NEW i \in Ends
      PROVE  /\ LastStep(i) \subseteq Seq(VidSteps) /\ Weave(Step("srcno"), LastStep(i)) \subseteq Seq(VidSteps)
             /\ Weave(Step("clipoff"), Weave(Step("srcno"), LastStep(i))) \subseteq Seq(VidSteps)
  BY EndsAre, LeadsTo
<1>4. ~Recording(v, d, r.clip) /\ ~Closing(v, d, r.clip) /\ ~Entering(v, d, r.clip)
  BY <1>1, <1>2, <1>3 DEF Recording, Closing, Entering
<1> QED BY <1>4 DEF VidKept, Sourced

LEMMA LockSteps == ASSUME VidInv, Locking(vcall, vd, vreg), RunStep PROVE VidInv'
<1>1. vd \in VidDs /\ vreg \in VidRegs /\ vint \in VidInts /\ SameFormat(vd, vreg) /\ FieldKept(vd, vreg)
      /\ VidKept(vcall, vd, vreg)
  BY DEF VidInv, VidKept
<1>2. PICK f \in FieldModes :
         \/ vcall = <<SfmStep("unlock", f), SfmStep("field", f), SfmStep("lock", f)>>
         \/ vcall = <<SfmStep("field", f), SfmStep("lock", f)>> /\ vd.sfm = "NORMAL"
         \/ vcall = <<SfmStep("lock", f)>> /\ vd.sfm = "NORMAL" /\ vreg.sfm = f
  BY DEF Locking
<1>3. PICK a, b, c : a = SfmStep("unlock", f) /\ b = SfmStep("field", f) /\ c = SfmStep("lock", f)
  OBVIOUS
<1>4. a.k = "unlock" /\ b.k = "field" /\ c.k = "lock" /\ b.sfm = f /\ c.sfm = f
  BY <1>3 DEF SfmStep
<1>5. PICK s : s = Head(vcall)
  OBVIOUS
<1>6. vidEnv' = vidEnv
        /\ \/ s.k = "cmd" /\ \E failed \in BOOLEAN : RunCmd(s, failed)
           \/ RunRecord(s) \/ RunRegister(s) \/ RunArm(s) \/ RunInit(s)
           \/ \E late \in BOOLEAN : RunWait(s, late)
  BY <1>5, Zenon DEF RunStep
<1>7. /\ vd' \in VidDs /\ vreg' \in VidRegs /\ vint' = vint /\ SameSource(vd, vreg, vd', vreg')
      /\ vd'.fmt = vd.fmt /\ vreg'.fmt = vreg.fmt /\ vreg'.fbadr = vreg.fbadr
      /\ vreg'.denc = vreg.denc /\ FieldKept(vd', vreg')
      /\ vcall' = <<>> \/ Locking(vcall', vd', vreg')
  <2>1. CASE vcall = <<a, b, c>>
    <3>1. s = a /\ Tail(vcall) = <<b, c>>
      BY <1>5, <2>1
    <3>2. RunRecord(s)
      BY <1>4, <1>6, <3>1 DEF RunRegister, RunArm, RunInit, RunWait
    <3>3. vd' = [vd EXCEPT !.sfm = "NORMAL"] /\ vreg' = vreg /\ vint' = vint /\ vcall' = <<b, c>>
      BY <1>4, <3>1, <3>2 DEF RunRecord
    <3>4. vd' \in VidDs /\ vd'.sfm = "NORMAL" /\ vd'.fmt = vd.fmt /\ vd'.src = vd.src
          /\ vd'.isrc = vd.isrc /\ vd'.count = vd.count
      BY <1>1, <3>3 DEF VidDs, FieldModes
    <3> QED BY <1>1, <1>3, <3>3, <3>4 DEF SameSource, FieldKept, Locking
  <2>2. CASE vcall = <<b, c>> /\ vd.sfm = "NORMAL"
    <3>1. s = b /\ Tail(vcall) = <<c>>
      BY <1>5, <2>2
    <3>2. RunRegister(s)
      BY <1>4, <1>6, <3>1 DEF RunRecord, RunArm, RunInit, RunWait
    <3>3. vd' = vd /\ vreg' = [vreg EXCEPT !.sfm = f] /\ vint' = vint /\ vcall' = <<c>>
      BY <1>4, <2>2, <3>1, <3>2 DEF RunRegister, vid_atom_set_sfm
    <3>4. vreg' \in VidRegs /\ vreg'.sfm = f /\ vreg'.fmt = vreg.fmt /\ vreg'.fbadr = vreg.fbadr
          /\ vreg'.denc = vreg.denc /\ vreg'.clip = vreg.clip
      BY <1>1, <3>3 DEF VidRegs
    <3> QED BY <1>1, <1>3, <2>2, <3>3, <3>4 DEF SameSource, FieldKept, Locking
  <2>3. CASE vcall = <<c>> /\ vd.sfm = "NORMAL" /\ vreg.sfm = f
    <3>1. s = c /\ Tail(vcall) = <<>>
      BY <1>5, <2>3
    <3>2. RunRecord(s)
      BY <1>4, <1>6, <3>1 DEF RunRegister, RunArm, RunInit, RunWait
    <3>3. vd' = [vd EXCEPT !.sfm = f] /\ vreg' = vreg /\ vint' = vint /\ vcall' = <<>>
      BY <1>4, <3>1, <3>2 DEF RunRecord
    <3>4. vd' \in VidDs /\ vd'.sfm = f /\ vd'.fmt = vd.fmt /\ vd'.src = vd.src
          /\ vd'.isrc = vd.isrc /\ vd'.count = vd.count
      BY <1>1, <3>3 DEF VidDs
    <3> QED BY <1>1, <2>3, <3>3, <3>4 DEF SameSource, FieldKept
  <2> QED BY <1>2, <1>3, <2>1, <2>2, <2>3
<1>8. SameFormat(vd', vreg')
  BY <1>1, <1>7 DEF SameFormat
<1>9. ~May("fail") => Settled(vd', vreg'.clip)
  BY <1>1, <1>7, LockingSettled DEF Settled, SameSource
<1>10. VidKept(vcall', vd', vreg')
  BY <1>7, <1>8, <1>9, QuietJoins DEF VidKept, Sourced
<1>11. VidKept(vcall, vd, vreg)'
  BY <1>6, <1>10 DEF VidKept, May, Sourced, Locking
<1> QED BY <1>1, <1>7, <1>11 DEF VidInv

-----------------------------------------------------------------------------
(* The steps: the source.                                                   *)

LEMMA NeutralMoves ==
  ASSUME NEW s \in NeutralSteps, Moves(s)
  PROVE  /\ SameSource(vd, vreg, vd', vreg')
         /\ s.k \notin {"inittv", "initclip", "initstill", "enter"}
<1>1. s.k \in NeutralKinds \cup {"cmd"} \/ (s.k = "state" /\ s.state # "STILLP")
  BY DEF NeutralSteps
<1> QED BY <1>1 DEF NeutralKinds, Moves, SameSource

LEMMA WeavedStep ==
  ASSUME VidInv, RunStep, ~May("fail"), NEW x \in VidSteps, NEW T, T \subseteq Seq(VidSteps),
         vcall \in Weave(x, T)
  PROVE  \/ /\ Tail(vcall) \in T /\ Moves(x)
            /\ IF x.k \notin {"inittv", "initclip", "initstill", "enter"} THEN vcall' = Tail(vcall)
               ELSE vcall' = (IF x.k = "enter" THEN vid_atom_enter_stillp(Tail(vcall))
                              ELSE IF vd.src # "NO" THEN <<>> ELSE x.ok \o Tail(vcall))
         \/ SameSource(vd, vreg, vd', vreg') /\ vcall' \in Weave(x, T)
<1>1. /\ vcall \in Seq(VidSteps) /\ vcall # <<>>
      /\ \/ Head(vcall) = x /\ Tail(vcall) \in T
         \/ Head(vcall) \in NeutralSteps /\ Tail(vcall) \in Weave(x, T)
  BY WeaveStep
<1>2. CASE Head(vcall) = x /\ Tail(vcall) \in T
  BY <1>1, <1>2, StepMoves
<1>3. CASE Head(vcall) \in NeutralSteps /\ Tail(vcall) \in Weave(x, T)
  <2>1. Moves(Head(vcall))
    BY <1>1, StepMoves
  <2>2. SameSource(vd, vreg, vd', vreg') /\ Head(vcall).k \notin {"inittv", "initclip", "initstill", "enter"}
    BY <1>3, <2>1, NeutralMoves
  <2>3. vcall' = Tail(vcall)
    BY <1>1, <2>2, StepMoves
  <2> QED BY <1>3, <2>2, <2>3
<1> QED BY <1>1, <1>2, <1>3

LEMMA QuietStep ==
  ASSUME VidInv, RunStep, ~May("fail"), vcall \in Quiet, Settled(vd, vreg.clip)
  PROVE  Sourced(vcall', vd', vreg')
<1>1. vcall # <<>>
  BY DEF RunStep
<1>2. PICK s : s = Head(vcall)
  OBVIOUS
<1>3. s \in NeutralSteps /\ Tail(vcall) \in Quiet
  BY <1>1, <1>2, ListsOfSteps, Zenon DEF Quiet
<1>4. Moves(s) /\ vcall \in Seq(VidSteps)
  BY <1>1, <1>2, QuietJoins, StepMoves
<1>5. SameSource(vd, vreg, vd', vreg') /\ s.k \notin {"inittv", "initclip", "initstill", "enter"}
  BY <1>3, <1>4, NeutralMoves
<1>6. vcall' = Tail(vcall)
  BY <1>1, <1>2, <1>4, <1>5, StepMoves
<1>7. Settled(vd', vreg'.clip)
  BY <1>5 DEF Settled, SameSource
<1> QED BY <1>3, <1>6, <1>7 DEF Sourced

LEMMA RecordingStep ==
  ASSUME VidInv, RunStep, ~May("fail"), vd.count = 1, Recording(vcall, vd, vreg.clip)
  PROVE  Sourced(vcall', vd', vreg')
<1>1. ASSUME NEW p \in {0, 1}, vcall \in LastStep(Isrc(p)), vd.src = Src(p), vreg.clip <=> p = 1
      PROVE  Sourced(vcall', vd', vreg')
  <2>1. PICK x, T : x = Isrc(p) /\ T = Quiet
    OBVIOUS
  <2>2. x \in VidSteps /\ T \subseteq Seq(VidSteps) /\ vcall \in Weave(x, T) /\ x.k = "isrc" /\ x.isrc = p
    BY <1>1, <2>1, EndsAre, QuietJoins DEF LastStep, Isrc
  <2>3. CASE SameSource(vd, vreg, vd', vreg') /\ vcall' \in Weave(x, T)
    BY <1>1, <2>1, <2>3 DEF Sourced, Recording, SameSource, LastStep
  <2>4. CASE Tail(vcall) \in T /\ Moves(x) /\ vcall' = Tail(vcall)
    <3>1. vd'.count = 1 /\ vd'.isrc = p /\ vd'.src = vd.src /\ vreg'.clip = vreg.clip
      BY <2>2, <2>4 DEF Moves
    <3>2. Settled(vd', vreg'.clip)
      BY <1>1, <3>1 DEF Settled, Src
    <3> QED BY <2>1, <2>4, <3>2 DEF Sourced
  <2> QED BY <2>2, <2>3, <2>4, WeavedStep
<1>2. ASSUME vcall \in Weave(Step("memory"), LastStep(Isrc(1))), vreg.clip
      PROVE  Sourced(vcall', vd', vreg')
  <2>1. PICK x, T : x = Step("memory") /\ T = LastStep(Isrc(1))
    OBVIOUS
  <2>2. x \in VidSteps /\ T \subseteq Seq(VidSteps) /\ vcall \in Weave(x, T) /\ x.k = "memory"
    BY <1>2, <2>1, EndsAre, LastIn DEF Step
  <2>3. CASE SameSource(vd, vreg, vd', vreg') /\ vcall' \in Weave(x, T)
    BY <1>2, <2>1, <2>3 DEF Sourced, Recording, SameSource
  <2>4. CASE Tail(vcall) \in T /\ Moves(x) /\ vcall' = Tail(vcall)
    <3>1. vd'.count = 1 /\ vd'.src = "MEMORY" /\ vreg'.clip = vreg.clip
      BY <2>2, <2>4 DEF Moves
    <3>2. PICK p \in {0, 1} : p = 1
      OBVIOUS
    <3>3. vcall' \in LastStep(Isrc(p)) /\ vd'.src = Src(p) /\ (vreg'.clip <=> p = 1)
      BY <1>2, <2>1, <2>4, <3>1, <3>2 DEF Src
    <3> QED BY <3>1, <3>3 DEF Sourced, Recording
  <2> QED BY <2>2, <2>3, <2>4, WeavedStep
<1> QED BY <1>1, <1>2 DEF Recording

LEMMA EnteringStep ==
  ASSUME VidInv, RunStep, ~May("fail"), vd.count = 1, Entering(vcall, vd, vreg.clip)
  PROVE  Sourced(vcall', vd', vreg')
<1>1. ASSUME vcall \in Weave(Step("clipon"), LastStep(Step("enter")))
      PROVE  Sourced(vcall', vd', vreg')
  <2>1. PICK x, T : x = Step("clipon") /\ T = LastStep(Step("enter"))
    OBVIOUS
  <2>2. x \in VidSteps /\ T \subseteq Seq(VidSteps) /\ vcall \in Weave(x, T) /\ x.k = "clipon"
    BY <1>1, <2>1, EndsAre, LastIn DEF Step
  <2>3. CASE SameSource(vd, vreg, vd', vreg') /\ vcall' \in Weave(x, T)
    BY <2>1, <2>3 DEF Sourced, Entering, SameSource
  <2>4. CASE Tail(vcall) \in T /\ Moves(x) /\ vcall' = Tail(vcall)
    <3>1. vd'.count = 1 /\ vreg'.clip
      BY <2>2, <2>4 DEF Moves
    <3> QED BY <2>1, <2>4, <3>1 DEF Sourced, Entering
  <2> QED BY <2>2, <2>3, <2>4, WeavedStep
<1>2. ASSUME vcall \in LastStep(Step("enter")), vreg.clip
      PROVE  Sourced(vcall', vd', vreg')
  <2>1. PICK x, T : x = Step("enter") /\ T = Quiet
    OBVIOUS
  <2>2. x \in VidSteps /\ T \subseteq Seq(VidSteps) /\ vcall \in Weave(x, T) /\ x.k = "enter"
    BY <1>2, <2>1, EndsAre, QuietJoins DEF Step, LastStep
  <2>3. CASE SameSource(vd, vreg, vd', vreg') /\ vcall' \in Weave(x, T)
    BY <1>2, <2>1, <2>3 DEF Sourced, Entering, SameSource, LastStep
  <2>4. CASE Tail(vcall) \in T /\ Moves(x) /\ vcall' = vid_atom_enter_stillp(Tail(vcall))
    <3>1. vd'.count = 1 /\ vreg'.clip
      BY <1>2, <2>2, <2>4 DEF Moves
    <3>2. vcall' \in Weave(Step("memory"), LastStep(SetState("STILLP")))
      BY <2>1, <2>4, Enters
    <3> QED BY <3>1, <3>2 DEF Sourced, Entering
  <2> QED BY <2>2, <2>3, <2>4, WeavedStep
<1>3. ASSUME vcall \in Weave(Step("memory"), LastStep(SetState("STILLP"))), vreg.clip
      PROVE  Sourced(vcall', vd', vreg')
  <2>1. PICK x, T : x = Step("memory") /\ T = LastStep(SetState("STILLP"))
    OBVIOUS
  <2>2. x \in VidSteps /\ T \subseteq Seq(VidSteps) /\ vcall \in Weave(x, T) /\ x.k = "memory"
    BY <1>3, <2>1, EndsAre, LastIn DEF Step
  <2>3. CASE SameSource(vd, vreg, vd', vreg') /\ vcall' \in Weave(x, T)
    BY <1>3, <2>1, <2>3 DEF Sourced, Entering, SameSource
  <2>4. CASE Tail(vcall) \in T /\ Moves(x) /\ vcall' = Tail(vcall)
    <3>1. vd'.count = 1 /\ vreg'.clip /\ vd'.src = "MEMORY"
      BY <1>3, <2>2, <2>4 DEF Moves
    <3> QED BY <2>1, <2>4, <3>1 DEF Sourced, Entering
  <2> QED BY <2>2, <2>3, <2>4, WeavedStep
<1>4. ASSUME vcall \in LastStep(SetState("STILLP")), vreg.clip, vd.src = "MEMORY"
      PROVE  Sourced(vcall', vd', vreg')
  <2>1. PICK x, T : x = SetState("STILLP") /\ T = Quiet
    OBVIOUS
  <2>2. x \in VidSteps /\ T \subseteq Seq(VidSteps) /\ vcall \in Weave(x, T)
        /\ x.k = "state" /\ x.state = "STILLP"
    BY <1>4, <2>1, EndsAre, QuietJoins DEF SetState, LastStep
  <2>3. CASE SameSource(vd, vreg, vd', vreg') /\ vcall' \in Weave(x, T)
    BY <1>4, <2>1, <2>3 DEF Sourced, Entering, SameSource, LastStep
  <2>4. CASE Tail(vcall) \in T /\ Moves(x) /\ vcall' = Tail(vcall)
    <3>1. vd'.count = 1 /\ vreg'.clip /\ vd'.src = "MEMORY" /\ vd'.isrc = 1
      BY <1>4, <2>2, <2>4 DEF Moves
    <3>2. Settled(vd', vreg'.clip)
      BY <3>1 DEF Settled, Src
    <3> QED BY <2>1, <2>4, <3>2 DEF Sourced
  <2> QED BY <2>2, <2>3, <2>4, WeavedStep
<1> QED BY <1>1, <1>2, <1>3, <1>4 DEF Entering

LEMMA ClosingStep ==
  ASSUME VidInv, RunStep, ~May("fail"), vd.count = 1, Closing(vcall, vd, vreg.clip)
  PROVE  Sourced(vcall', vd', vreg')
<1>1. PICK i \in Ends :
         \/ vcall \in LastStep(i) /\ vd.src = "NO" /\ (i \notin Inits => ~vreg.clip)
         \/ vcall \in Weave(Step("srcno"), LastStep(i)) /\ (i \notin Inits => ~vreg.clip)
         \/ vcall \in Weave(Step("clipoff"), Weave(Step("srcno"), LastStep(i)))
  BY DEF Closing
<1>2. i \in VidSteps /\ LastStep(i) \subseteq Seq(VidSteps)
  BY EndsAre, LastIn
<1>3. ASSUME vcall \in Weave(Step("clipoff"), Weave(Step("srcno"), LastStep(i)))
      PROVE  Sourced(vcall', vd', vreg')
  <2>1. PICK x, T : x = Step("clipoff") /\ T = Weave(Step("srcno"), LastStep(i))
    OBVIOUS
  <2>2. x \in VidSteps /\ T \subseteq Seq(VidSteps) /\ vcall \in Weave(x, T) /\ x.k = "clipoff"
    <3>1. T \subseteq Seq(VidSteps)
      BY <1>2, <2>1, EndsAre, LeadsTo, Zenon
    <3> QED BY <1>3, <2>1, <3>1, EndsAre DEF Step
  <2>3. CASE SameSource(vd, vreg, vd', vreg') /\ vcall' \in Weave(x, T)
    BY <2>1, <2>3 DEF Sourced, Closing, SameSource
  <2>4. CASE Tail(vcall) \in T /\ Moves(x) /\ vcall' = Tail(vcall)
    <3>1. vd'.count = 1 /\ ~vreg'.clip
      BY <2>2, <2>4 DEF Moves
    <3> QED BY <2>1, <2>4, <3>1 DEF Sourced, Closing
  <2> QED BY <2>2, <2>3, <2>4, WeavedStep
<1>4. ASSUME vcall \in Weave(Step("srcno"), LastStep(i)), i \notin Inits => ~vreg.clip
      PROVE  Sourced(vcall', vd', vreg')
  <2>1. PICK x, T : x = Step("srcno") /\ T = LastStep(i)
    OBVIOUS
  <2>2. x \in VidSteps /\ T \subseteq Seq(VidSteps) /\ vcall \in Weave(x, T) /\ x.k = "srcno"
    BY <1>2, <1>4, <2>1, EndsAre DEF Step
  <2>3. CASE SameSource(vd, vreg, vd', vreg') /\ vcall' \in Weave(x, T)
    BY <1>4, <2>1, <2>3 DEF Sourced, Closing, SameSource
  <2>4. CASE Tail(vcall) \in T /\ Moves(x) /\ vcall' = Tail(vcall)
    <3>1. vd'.count = 1 /\ vd'.src = "NO" /\ vreg'.clip = vreg.clip
      BY <2>2, <2>4 DEF Moves
    <3> QED BY <1>4, <2>1, <2>4, <3>1 DEF Sourced, Closing
  <2> QED BY <2>2, <2>3, <2>4, WeavedStep
<1>5. ASSUME vcall \in LastStep(i), vd.src = "NO", i \notin Inits => ~vreg.clip
      PROVE  Sourced(vcall', vd', vreg')
  <2>1. PICK T : T = Quiet
    OBVIOUS
  <2>2. T \subseteq Seq(VidSteps) /\ vcall \in Weave(i, T)
    BY <1>5, <2>1, QuietJoins DEF LastStep
  <2>3. CASE SameSource(vd, vreg, vd', vreg') /\ vcall' \in Weave(i, T)
    BY <1>5, <2>1, <2>3 DEF Sourced, Closing, SameSource, LastStep
  <2>4. CASE /\ Tail(vcall) \in T /\ Moves(i)
             /\ IF i.k \notin {"inittv", "initclip", "initstill", "enter"} THEN vcall' = Tail(vcall)
                ELSE vcall' = (IF i.k = "enter" THEN vid_atom_enter_stillp(Tail(vcall))
                               ELSE IF vd.src # "NO" THEN <<>> ELSE i.ok \o Tail(vcall))
    <3>1. Tail(vcall) \in Quiet
      BY <2>1, <2>4
    <3>2. CASE i = InitTv
      <4>1. i.k = "inittv"
        BY <3>2 DEF InitTv
      <4>2. vcall' \in LastStep(Isrc(0))
        BY <1>5, <2>4, <3>1, <3>2, <4>1, Enters
      <4>3. vd'.count = 1 /\ vd'.src = "DEMUX" /\ ~vreg'.clip
        BY <1>5, <2>4, <4>1 DEF Moves
      <4> QED BY <4>2, <4>3 DEF Sourced, Recording, Src
    <3>3. CASE i = InitClip
      <4>1. i.k = "initclip"
        BY <3>3 DEF InitClip
      <4>2. vcall' \in Weave(Step("memory"), LastStep(Isrc(1)))
        BY <1>5, <2>4, <3>1, <3>3, <4>1, Enters
      <4>3. vd'.count = 1 /\ vreg'.clip
        BY <1>5, <2>4, <4>1 DEF Moves
      <4> QED BY <4>2, <4>3 DEF Sourced, Recording
    <3>4. CASE i = InitStill
      <4>1. i.k = "initstill"
        BY <3>4 DEF InitStill
      <4>2. vcall' \in Weave(Step("clipon"), LastStep(Step("enter")))
        BY <1>5, <2>4, <3>1, <3>4, <4>1, Enters
      <4>3. vd'.count = 1
        BY <2>4, <4>1 DEF Moves
      <4> QED BY <4>2, <4>3 DEF Sourced, Entering
    <3>5. CASE i \in {Step("closed"), Step("unstill")}
      <4>1. i.k \in {"closed", "unstill"}
        BY <3>5 DEF Step
      <4>2. i \notin Inits
        <5>1. InitTv.k = "inittv" /\ InitClip.k = "initclip" /\ InitStill.k = "initstill"
          BY DEF InitTv, InitClip, InitStill
        <5> QED BY <4>1, <5>1 DEF Inits
      <4>3. vcall' = Tail(vcall) /\ vd'.isrc = -1 /\ vd'.src = "NO" /\ ~vreg'.clip
        BY <1>5, <2>4, <4>1, <4>2 DEF Moves
      <4>4. Settled(vd', vreg'.clip)
        BY <4>3 DEF Settled, Src
      <4> QED BY <3>1, <4>3, <4>4 DEF Sourced
    <3> QED BY <3>2, <3>3, <3>4, <3>5 DEF Ends, Inits
  <2> QED BY <1>2, <2>2, <2>3, <2>4, WeavedStep
<1> QED BY <1>1, <1>3, <1>4, <1>5

LEMMA RunStepKeeps == ASSUME VidInv, RunStep PROVE VidInv'
<1>1. VidKept(vcall, vd, vreg) /\ vcall # <<>>
  BY DEF VidInv, RunStep
<1>2. CASE Locking(vcall, vd, vreg)
  BY <1>2, LockSteps
<1>3. CASE ~Locking(vcall, vd, vreg)
  <2>1. vcall \in Seq(VidSteps)
    BY <1>1, <1>3 DEF VidKept
  <2>2. Stepped /\ vidEnv' = vidEnv
    BY <1>1, <2>1, StepMoves
  <2>3. ASSUME ~May("fail") PROVE Sourced(vcall', vd', vreg')
    <3>1. Sourced(vcall, vd, vreg)
      BY <1>1, <2>3 DEF VidKept
    <3> QED BY <1>3, <2>3, <3>1, QuietStep, RecordingStep, ClosingStep, EnteringStep DEF Sourced
  <2>4. VidKept(vcall', vd', vreg')
    BY <2>2, <2>3 DEF VidKept, Stepped
  <2>5. VidKept(vcall, vd, vreg)'
    BY <2>2, <2>4 DEF VidKept, May, Sourced, Locking
  <2> QED BY <2>2, <2>5 DEF VidInv, Stepped
<1> QED BY <1>2, <1>3

LEMMA VidStepKeeps == ASSUME ~VidWindow, VidInv, [VidNext]_vidVars PROVE VidInv'
<1>1. CASE UNCHANGED vidVars
  <2>1. vd' = vd /\ vreg' = vreg /\ vint' = vint /\ vcall' = vcall /\ vidEnv' = vidEnv
    BY <1>1 DEF vidVars
  <2> QED BY <2>1 DEF VidInv, VidKept, May, Sourced, Locking
<1>2. CASE vid_inf_open \/ vid_inf_release
  BY <1>2, OpenKept, ReleaseKept
<1>3. CASE VidPlayCalls
  BY <1>3, PlayCallKeeps, SelectKept DEF VidPlayCalls
<1>4. CASE VidDisplayCalls
  <2>1. CASE \E f \in Formats : SetDispFmt(f)
    BY <2>1, SetDispFmtKept
  <2> QED BY <1>4, <2>1, DisplayKept DEF VidDisplayCalls
<1>5. CASE VidStillCalls
  BY <1>5, StillpKept, StatusKept DEF VidStillCalls
<1>6. CASE VidStatusCalls
  BY <1>6, StatusKept, SetSfmKept DEF VidStatusCalls
<1>7. CASE RunStep
  BY <1>7, RunStepKeeps
<1>8. CASE ChannelChanged \/ PauseReached \/ SequenceEnd
  BY <1>8, StatusKept
<1>9. CASE \E frozen \in BOOLEAN : PictureStart(frozen)
  BY <1>9, PictureKept
<1> QED BY <1>1, <1>2, <1>3, <1>4, <1>5, <1>6, <1>7, <1>8, <1>9 DEF VidNext

-----------------------------------------------------------------------------
(* Theorems.                                                                *)

\* A step of the devices is a step of the clip player or leaves it alone.
LEMMA DevicesMoveClip ==
  ASSUME [DevicesNext]_<<part, heapVars, sciVars, clipVars, vidVars, segVars, audVars>>
  PROVE  [ClipNext]_clipVars
  BY DEF DevicesNext

\* Whenever the interrupt comes, a process that may not sleep is let in only
\* when a buffer is there, and the counts stay within their bounds
\* (clipdev_get_buf_wait, clipdev_get_buf_nowait, clipdev_clipinfo_done).
THEOREM BuffersAreCounted == DevicesSpec => [](ClipTypeOK /\ NowaitNeverSleeps)
<1>1. DevicesInit => ClipInv
  BY ClipInitKept DEF DevicesInit
<1>2. ClipInv /\ [DevicesNext]_<<part, heapVars, sciVars, clipVars, vidVars, segVars, audVars>>
      => ClipInv'
  BY DevicesMoveClip, ClipStepKeeps
<1> QED BY <1>1, <1>2, KeptIsSafe, PTL DEF DevicesSpec

\* Where the block register is written before the next interrupt, no buffer
\* is filled while the decoder reads it or has its address
\* (clipdev_hw_write, clipdev_clipinfo_done, clipdev_stop).
THEOREM BuffersTakeTurns ==
  ASSUME ~ClipWindow PROVE DevicesSpec => []BuffersInTurn
<1>1. DevicesInit => BlockInv
  BY BlockInitHolds DEF DevicesInit
<1>2. BlockInv /\ [DevicesNext]_<<part, heapVars, sciVars, clipVars, vidVars, segVars, audVars>>
      => BlockInv'
  BY DevicesMoveClip, BlockStepHolds
<1>3. BlockInv => BuffersInTurn
  BY ShownIsNotFree, KeptIsSafe DEF BlockInv, BuffersInTurn
<1> QED BY <1>1, <1>2, <1>3, PTL DEF DevicesSpec

\* A step of the devices is a step of the smart card or leaves it alone.
LEMMA DevicesMoveCard ==
  ASSUME [DevicesNext]_<<part, heapVars, sciVars, clipVars, vidVars, segVars, audVars>>
  PROVE  [SciNext]_sciVars
  BY DEF DevicesNext

\* Whatever the interrupts, the card and the timeouts do, a thread that sleeps
\* is marked and can still be woken; and without faults, signals and early
\* timeouts a message goes out once and whole and what the card sends is
\* handed out once and in order, for every FIFO, length and parameter
\* (sci_osd_write, sci_osd_read, sci_osd_irq_handler).
THEOREM CardCallsAreSound == DevicesSpec => []BytesAndSleepers
<1>1. DevicesInit => SciInv
  BY SciInitHolds DEF DevicesInit
<1>2. SciInv /\ [DevicesNext]_<<part, heapVars, sciVars, clipVars, vidVars, segVars, audVars>>
      => SciInv'
  BY DevicesMoveCard, SciStepHolds
<1> QED BY <1>1, <1>2, SciIsSafe, PTL DEF DevicesSpec

\* A step of the devices is a step of the video decoder or leaves it alone.
LEMMA DevicesMoveVideo ==
  ASSUME [DevicesNext]_<<part, heapVars, sciVars, clipVars, vidVars, segVars, audVars>>
  PROVE  [VidNext]_vidVars
  BY DEF DevicesNext

\* Where the interrupt handler does not come between a register's reading and
\* its writing: whenever no call is under way, the field mode the user has
\* locked is the one displayed, encoders, decoder, frame buffers and record have
\* one television format, and the source on record is the decoder's, if no
\* command failed; whatever calls, pictures, commands and interrupts came before
\* (vid_inf_ioctl, vid_osi_set_sfm, scrman_osi_set_fmt).
THEOREM NodeAndDecoderAgree ==
  ASSUME ~VidWindow PROVE DevicesSpec => []VideoAgrees
<1>1. DevicesInit => VidInv
  BY VidInitKept DEF DevicesInit
<1>2. VidInv /\ [DevicesNext]_<<part, heapVars, sciVars, clipVars, vidVars, segVars, audVars>>
      => VidInv'
  BY DevicesMoveVideo, VidStepKeeps
<1> QED BY <1>1, <1>2, VidIsSafe, PTL DEF DevicesSpec
==============================================================================
