------------------------- MODULE DemuxBufferProofs -------------------------
(***************************************************************************)
(* For every set of buffer sizes and chunk lengths: the slot's record      *)
(* counts what is stored, no callback overwrites an unread byte, a section *)
(* read returns one whole section and no reader sleeps over data -         *)
(* provided a buffer is only replaced when it is empty.                    *)
(***************************************************************************)
EXTENDS DemuxBuffer, SequenceTheorems, TLAPS

\* Indices are never as large as twice the ring.
LEMMA ModBelowTwice ==
    ASSUME NEW n \in Nat \ {0}, NEW x \in 0 .. 2 * n - 1
    PROVE  x % n = IF x < n THEN x ELSE x - n
OBVIOUS

Byte == [tag : 0 .. Tags, k : Nat, len : Nat]

Typed ==
  /\ buf = [plData |-> buf.plData, ulSize |-> buf.ulSize,
            count |-> buf.count, ulRead |-> buf.ulRead,
            ulWrite |-> buf.ulWrite]
  /\ buf.plData # NULL => buf.plData \in [0 .. buf.ulSize - 1 -> Byte]
  /\ rd \in [left : Nat, got : Seq(Byte)]
  /\ unread \in Seq(Byte)
  /\ tag \in 0 .. Tags - 1

\* Bytes copied out which the read pointer has not passed.
Ahead == IF pc = "update" THEN rd.left ELSE 0

\* The byte of the ring d places after the read position.
Place(d) == (buf.ulRead + Ahead + d) % buf.ulSize

\* Where the next byte is stored.
WritePlace == IF buf.ulWrite = Word - 1 THEN 0
              ELSE (buf.ulWrite + 1) % buf.ulSize

WriteFollows == /\ Len(unread) + Ahead <= buf.ulSize
                /\ WritePlace = Place(Len(unread))

\* What a read relies on from one of its steps to the next.
ReadUnderWay ==
  /\ pc # "idle" \/ states # "SET" => buf.plData # NULL
  /\ pc \in {"loop", "byte"} => type = "SEC"
  /\ pc \in {"copy", "update"} => type = "PES"
  /\ pc = "ready" => buf.count > 0
  /\ pc = "copy" => rd.left \in 1 .. Len(unread)
  /\ states = "SET" => unread = << >>

\* Whole sections one after the other, from unread byte i on.
SectionFrom(i) ==
  LET b == unread[i]
  IN  /\ b.k \in 1 .. b.len
      /\ i + (b.len - b.k) <= Len(unread)
      /\ \A j \in 0 .. (b.len - b.k) :
           unread[i + j] = [tag |-> b.tag, k |-> b.k + j, len |-> b.len]
      /\ b.k = b.len /\ i < Len(unread) => unread[i + 1].k = 1

Begun(s, n) == [i \in 1 .. n |-> [tag |-> s.tag, k |-> i, len |-> s.len]]

\* Only a read in its loop has part of a section.
Sections ==
  type = "SEC" =>
    /\ \A i \in 1 .. Len(unread) : SectionFrom(i)
    /\ pc \in {"loop", "byte"} =>
         /\ unread # << >>
         /\ rd.left = unread[1].len - unread[1].k + 1
         /\ rd.got = Begun(unread[1], unread[1].k - 1)
    /\ pc \notin {"loop", "byte"} =>
         /\ unread # << >> => unread[1].k = 1
         /\ rd.got # << >> => rd.got = Begun(rd.got[1], rd.got[1].len)

UnreadInPlace ==
  \A i \in 1 .. Len(unread) : unread[i] = buf.plData[Place(i - 1)]

IInv == /\ Typed /\ TypeOK /\ CountIsContents /\ WriteFollows
        /\ ReadUnderWay /\ UnreadInPlace /\ Sections /\ NoLostWakeup


----------------------------------------------------------------------------
\* Arithmetic of the ring: places are distinct, and counting on from a place
\* is counting from the start.
LEMMA ModLower ==
    ASSUME NEW n \in Nat \ {0}, NEW x \in 0 .. n - 1
    PROVE  x % n = x
OBVIOUS

LEMMA ModUpper ==
    ASSUME NEW n \in Nat \ {0}, NEW x \in n .. 2 * n - 1
    PROVE  x % n = x - n
OBVIOUS

LEMMA RingValue ==
    ASSUME NEW n \in Nat \ {0}, NEW s \in 0 .. n - 1, NEW d \in 0 .. n
    PROVE  (s + d) % n = IF s + d < n THEN s + d ELSE s + d - n
<1> DEFINE x == s + d
<1>1. x \in 0 .. 2 * n - 1
  OBVIOUS
<1> HIDE DEF x
<1>2. x % n = IF x < n THEN x ELSE x - n
  BY <1>1, ModBelowTwice
<1> QED
  BY <1>2 DEF x

LEMMA RingDistinct ==
    ASSUME NEW n \in Nat \ {0}, NEW s \in 0 .. n - 1,
           NEW d \in 0 .. n - 1, NEW e \in 0 .. n - 1
    PROVE  (s + d) % n = (s + e) % n => d = e
<1> DEFINE x == (s + d) % n
           y == (s + e) % n
<1>0. d \in 0 .. n /\ e \in 0 .. n
  OBVIOUS
<1>1. x = IF s + d < n THEN s + d ELSE s + d - n
  BY <1>0, RingValue, Zenon
<1>2. y = IF s + e < n THEN s + e ELSE s + e - n
  BY <1>0, RingValue, Zenon
<1> HIDE DEF x, y
<1>3. x = y => d = e
  BY <1>1, <1>2
<1> QED
  BY <1>3 DEF x, y

LEMMA RingOn ==
    ASSUME NEW n \in Nat \ {0}, NEW s \in 0 .. n - 1,
           NEW d \in 0 .. n, NEW e \in 0 .. n
    PROVE  s + d + e < 2 * n => (((s + d) % n) + e) % n = (s + d + e) % n
<1> SUFFICES ASSUME s + d + e < 2 * n
             PROVE  (((s + d) % n) + e) % n = (s + d + e) % n
  OBVIOUS
<1>0. (s + d) % n = IF s + d < n THEN s + d ELSE s + d - n
  BY RingValue, Zenon
<1>1. CASE s + d < n
  <2>1. (s + d) % n = s + d
    BY <1>0, <1>1, Zenon
  <2> QED
    BY <2>1, Zenon
<1>2. CASE s + d >= n
  <2> DEFINE t == s + d - n
             x == s + d + e
  <2>1. (s + d) % n = t
    <3>1. ~(s + d < n)
      BY <1>2
    <3> QED
      BY <1>0, <3>1, Zenon
  <2>2. t \in 0 .. n - 1 /\ t + e \in 0 .. n - 1 /\ x = t + e + n
        /\ x \in 0 .. 2 * n - 1
    BY <1>2
  <2> HIDE DEF t, x
  <2>3. (t + e) % n = t + e
    <3>1. (t + e) % n = IF t + e < n THEN t + e ELSE t + e - n
      BY <2>2, RingValue
    <3> QED
      BY <2>2, <3>1
  <2>4. x % n = t + e
    <3>1. x % n = IF x < n THEN x ELSE x - n
      BY <2>2, ModBelowTwice
    <3> QED
      BY <2>2, <3>1
  <2>5. (((s + d) % n) + e) % n = x % n
    BY <2>1, <2>3, <2>4
  <2> QED
    BY <2>5 DEF x
<1> QED
  BY <1>1, <1>2

LEMMA InitIInv == Init => IInv
<1> SUFFICES ASSUME Init PROVE IInv
  OBVIOUS
<1> USE BufferAssumption DEF Init
<1>1. PICK n \in Sizes : buf = [plData |-> NULL, ulSize |-> n, count |-> 0,
                               ulRead |-> 0, ulWrite |-> Word - 1]
  OBVIOUS
<1>2. /\ buf.plData = NULL /\ buf.ulSize = n /\ n \in Nat \ {0}
      /\ buf.count = 0 /\ buf.ulRead = 0 /\ buf.ulWrite = Word - 1
  BY <1>1
<1>3. Typed
  BY <1>1, <1>2 DEF Typed
<1>4. TypeOK
  BY <1>1, <1>2 DEF TypeOK
<1>5. Len(unread) = 0
  OBVIOUS
<1>6. CountIsContents /\ UnreadInPlace /\ NoLostWakeup
  BY <1>2, <1>5 DEF CountIsContents, UnreadInPlace, NoLostWakeup
<1>7. WriteFollows
  <2>1. 0 % buf.ulSize = 0
    BY <1>2
  <2> QED
    BY <1>2, <1>5, <2>1 DEF WriteFollows, WritePlace, Place, Ahead
<1>8. ReadUnderWay
  BY <1>2 DEF ReadUnderWay
<1>9. Sections
  BY <1>5 DEF Sections
<1> QED
  BY <1>3, <1>4, <1>6, <1>7, <1>8, <1>9 DEF IInv

----------------------------------------------------------------------------
\* What the conjuncts of the invariant say of the ring's numbers.
LEMMA Shape ==
    ASSUME IInv
    PROVE  /\ buf.ulSize \in Nat \ {0}
           /\ buf.ulRead \in 0 .. buf.ulSize - 1
           /\ buf.count \in 0 .. buf.ulSize
           /\ Len(unread) \in Nat
           /\ Ahead \in Nat
           /\ Ahead + Len(unread) <= buf.ulSize
           /\ WritePlace \in 0 .. buf.ulSize - 1
<1> USE BufferAssumption DEF IInv
<1>1. /\ buf.ulSize \in Nat \ {0}
      /\ buf.ulRead \in 0 .. buf.ulSize - 1
      /\ buf.count \in 0 .. buf.ulSize
  BY DEF TypeOK
<1>2. Len(unread) \in Nat /\ Ahead \in Nat
  BY DEF Typed, Ahead
<1>3. Ahead + Len(unread) <= buf.ulSize /\ WritePlace = Place(Len(unread))
  BY <1>1, <1>2 DEF WriteFollows
<1>4. Place(Len(unread)) \in 0 .. buf.ulSize - 1
  BY <1>1, <1>2 DEF Place
<1> QED
  BY <1>1, <1>2, <1>3, <1>4

LEMMA PlaceInRing ==
    ASSUME IInv, NEW d \in Nat
    PROVE  Place(d) \in 0 .. buf.ulSize - 1
<1>1. buf.ulRead + Ahead + d \in Nat /\ buf.ulSize \in Nat \ {0}
  BY Shape
<1> QED
  BY <1>1 DEF Place

LEMMA PlaceOn ==
    ASSUME IInv, NEW d \in Nat, NEW e \in Nat, Ahead + d + e <= buf.ulSize
    PROVE  (Place(d) + e) % buf.ulSize = Place(d + e)
<1> DEFINE n == buf.ulSize
           s == buf.ulRead
           a == Ahead + d
<1>1. /\ n \in Nat \ {0} /\ s \in 0 .. n - 1
      /\ a \in 0 .. n /\ e \in 0 .. n /\ s + a + e < 2 * n
  <2>1. /\ n \in Nat \ {0} /\ s \in 0 .. n - 1
        /\ a \in Nat /\ a + e <= n
    BY Shape
  <2> HIDE DEF n, s, a
  <2> QED
    BY <2>1
<1>2. Place(d) = (s + a) % n /\ Place(d + e) = (s + a + e) % n
  <2>1. /\ s + Ahead + d = s + a
        /\ s + Ahead + (d + e) = s + a + e
    BY Shape
  <2> QED
    BY <2>1 DEF Place
<1> HIDE DEF n, s, a
<1>3. (((s + a) % n) + e) % n = (s + a + e) % n
  BY <1>1, RingOn, Zenon
<1> QED
  BY <1>2, <1>3, Zenon DEF n

LEMMA PlaceDistinct ==
    ASSUME IInv, NEW d \in Nat, NEW e \in Nat,
           Ahead + d < buf.ulSize, Ahead + e < buf.ulSize
    PROVE  Place(d) = Place(e) => d = e
<1> DEFINE n == buf.ulSize
           s == buf.ulRead
           a == Ahead + d
           b == Ahead + e
<1>1. /\ n \in Nat \ {0} /\ s \in 0 .. n - 1
      /\ a \in 0 .. n - 1 /\ b \in 0 .. n - 1 /\ (a = b => d = e)
  BY Shape
<1>2. Place(d) = (s + a) % n /\ Place(e) = (s + b) % n
  <2>1. /\ s + Ahead + d = s + a
        /\ s + Ahead + e = s + b
    BY Shape
  <2> QED
    BY <2>1 DEF Place
<1> HIDE DEF n, s, a, b
<1>3. (s + a) % n = (s + b) % n => a = b
  BY <1>1, RingDistinct, Zenon
<1> QED
  BY <1>1, <1>2, <1>3, Zenon

\* Which byte of a chunk belongs at index j when a chunk is stored.
NthIn(n, w, j) == IF j >= w THEN j - w + 1 ELSE j + n - w + 1
Nth(j) == NthIn(buf.ulSize, WritePlace, j)

Filled(chunk) ==
  [j \in 0 .. buf.ulSize - 1 |->
     IF Nth(j) <= Len(chunk) THEN chunk[Nth(j)] ELSE buf.plData[j]]

LEMMA NthOfPlace ==
    ASSUME IInv, NEW i \in 1 .. buf.ulSize
    PROVE  Nth((WritePlace + (i - 1)) % buf.ulSize) = i
<1> DEFINE n == buf.ulSize
           w == WritePlace
           d == i - 1
           j == (w + d) % n
<1>1. n \in Nat \ {0} /\ w \in 0 .. n - 1 /\ d \in 0 .. n - 1
  BY Shape
<1>2. d \in 0 .. n
  BY <1>1
<1>3. j = IF w + d < n THEN w + d ELSE w + d - n
  <2> HIDE DEF n, w, d
  <2> QED
    BY <1>1, <1>2, RingValue, Zenon DEF j
<1>4. i = d + 1
  OBVIOUS
<1>5. Nth(j) = IF j >= w THEN j - w + 1 ELSE j + n - w + 1
  BY DEF Nth, NthIn
<1> HIDE DEF n, w, d, j
<1>6. Nth(j) = i
  BY <1>1, <1>3, <1>4, <1>5
<1> QED
  BY <1>6 DEF j, w, n, d

LEMMA PlaceOfNth ==
    ASSUME IInv, NEW j \in 0 .. buf.ulSize - 1
    PROVE  /\ Nth(j) \in 1 .. buf.ulSize
           /\ (WritePlace + (Nth(j) - 1)) % buf.ulSize = j
<1> DEFINE n == buf.ulSize
           w == WritePlace
           d == Nth(j) - 1
<1>1. /\ n \in Nat \ {0} /\ w \in 0 .. n - 1 /\ j \in 0 .. n - 1
      /\ Nth(j) \in 1 .. n
      /\ d = IF j >= w THEN j - w ELSE j + n - w
  BY Shape DEF Nth, NthIn
<1>2. d \in 0 .. n
  BY <1>1
<1> HIDE DEF n, w, d
<1>3. (w + d) % n = IF w + d < n THEN w + d ELSE w + d - n
  BY <1>1, <1>2, RingValue, Zenon
<1>4. (w + d) % n = j
  <2> DEFINE x == (w + d) % n
  <2>1. x = IF w + d < n THEN w + d ELSE w + d - n
    BY <1>3
  <2> HIDE DEF x
  <2>2. x = j
    BY <1>1, <2>1
  <2> QED
    BY <2>2 DEF x
<1> QED
  BY <1>1, <1>4 DEF n, w, d

\* The callbacks' unsigned arithmetic finds the same place.
LEMMA WordPlace ==
    ASSUME IInv, buf.ulSize < Word, NEW e \in 0 .. buf.ulSize - 1
    PROVE  /\ (((buf.ulWrite + 1) % Word) + e) % buf.ulSize
                = (WritePlace + e) % buf.ulSize
           /\ ((buf.ulWrite + 1) % Word) % buf.ulSize = WritePlace
<1> DEFINE n == buf.ulSize
           s == buf.ulWrite
<1>1. n \in Nat \ {0} /\ e \in 0 .. n /\ Word \in Nat \ {0} /\ n < Word
  BY Shape, BufferAssumption
<1>2. s \in 0 .. n - 1 \cup {Word - 1}
  BY DEF IInv, TypeOK
<1>3. CASE s = Word - 1
  <2>1. (s + 1) % Word = 0
    BY <1>1, <1>3
  <2>2. WritePlace = 0 /\ 0 % n = 0
    BY <1>1, <1>3 DEF WritePlace
  <2> QED
    BY <2>1, <2>2
<1>4. CASE s # Word - 1
  <2>1. s \in 0 .. n - 1
    BY <1>2, <1>4
  <2>2. (s + 1) % Word = s + 1
    <3>1. s + 1 \in 0 .. Word - 1
      BY <1>1, <2>1
    <3> HIDE DEF s
    <3> QED
      BY <1>1, <3>1
  <2>3. WritePlace = (s + 1) % n
    BY <1>4 DEF WritePlace
  <2>4. (((s + 1) % n) + e) % n = (s + 1 + e) % n
    <3>1. s + 1 + e < 2 * n /\ 1 \in 0 .. n
      BY <1>1, <2>1
    <3> HIDE DEF s, n
    <3> QED
      BY <1>1, <2>1, <3>1, RingOn, Zenon
  <2> QED
    BY <2>2, <2>3, <2>4
<1> QED
  BY <1>3, <1>4

\* The byte-by-byte loop of the section callback and the memcpy calls of
\* DemuxCopyToCBuf do the same to the ring.
LEMMA LoopFills ==
    ASSUME IInv, buf.plData # NULL, buf.ulSize < Word,
           NEW chunk \in Seq(Byte), Len(chunk) <= buf.ulSize
    PROVE  Looped(chunk) = Filled(chunk)
<1> DEFINE at(i) == (((buf.ulWrite + 1) % Word) + (i - 1)) % buf.ulSize
           wr(j) == IF \E i \in 1 .. Len(chunk) : at(i) = j
                    THEN chunk[CHOOSE i \in 1 .. Len(chunk) : at(i) = j]
                    ELSE buf.plData[j]
<1>1. \A i \in 1 .. Len(chunk) : Nth(at(i)) = i
  <2> SUFFICES ASSUME NEW i \in 1 .. Len(chunk) PROVE Nth(at(i)) = i
    OBVIOUS
  <2>1. i \in 1 .. buf.ulSize /\ i - 1 \in 0 .. buf.ulSize - 1
    BY Shape
  <2>2. at(i) = (WritePlace + (i - 1)) % buf.ulSize
    BY <2>1, WordPlace, Zenon
  <2> QED
    BY <2>1, <2>2, NthOfPlace, Zenon
<1>2. \A j \in 0 .. buf.ulSize - 1 : Nth(j) <= Len(chunk)
                                    => Nth(j) \in 1 .. Len(chunk) /\ at(Nth(j)) = j
  <2> SUFFICES ASSUME NEW j \in 0 .. buf.ulSize - 1, Nth(j) <= Len(chunk)
               PROVE  Nth(j) \in 1 .. Len(chunk) /\ at(Nth(j)) = j
    OBVIOUS
  <2>1. /\ Nth(j) \in 1 .. buf.ulSize
        /\ (WritePlace + (Nth(j) - 1)) % buf.ulSize = j
    BY PlaceOfNth
  <2>2. Nth(j) - 1 \in 0 .. buf.ulSize - 1 /\ Nth(j) \in 1 .. Len(chunk)
    BY <2>1, Shape
  <2>3. at(Nth(j)) = (WritePlace + (Nth(j) - 1)) % buf.ulSize
    BY <2>2, WordPlace, Zenon
  <2> QED
    BY <2>1, <2>2, <2>3
<1>3. \A j \in 0 .. buf.ulSize - 1 :
        wr(j) = IF Nth(j) <= Len(chunk) THEN chunk[Nth(j)] ELSE buf.plData[j]
  <2> SUFFICES ASSUME NEW j \in 0 .. buf.ulSize - 1
               PROVE  wr(j) = IF Nth(j) <= Len(chunk) THEN chunk[Nth(j)]
                              ELSE buf.plData[j]
    OBVIOUS
  <2> HIDE DEF at
  <2>1. CASE Nth(j) <= Len(chunk)
    <3> DEFINE c == CHOOSE i \in 1 .. Len(chunk) : at(i) = j
    <3>1. c \in 1 .. Len(chunk) /\ at(c) = j
      BY <1>2, <2>1, Zenon
    <3>2. c = Nth(j)
      BY <1>1, <3>1, Zenon
    <3> QED
      BY <1>2, <2>1, <3>2, Zenon
  <2>2. CASE ~(Nth(j) <= Len(chunk))
    <3>1. ~ \E i \in 1 .. Len(chunk) : at(i) = j
      BY <1>1, <2>2
    <3> QED
      BY <2>2, <3>1, Zenon
  <2> QED
    BY <2>1, <2>2
<1>4. DOMAIN buf.plData = 0 .. buf.ulSize - 1
  BY DEF IInv, TypeOK
<1>5. Looped(chunk) = [j \in DOMAIN buf.plData |-> wr(j)]
  BY DEF Looped
<1> QED
  <2> HIDE DEF wr
  <2> QED
    BY <1>3, <1>4, <1>5, Zenon DEF Filled

\* Every memcpy moves bytes of the chunk to where they belong, and between
\* them they move all of it, however chunk and ring are broken in two.
To(c) == c[1] .. (c[1] + c[4] - 1)

LEMMA CopiesCover ==
    ASSUME NEW n \in Nat \ {0}, NEW w \in 0 .. n - 1, NEW len \in 1 .. n,
           NEW q \in 1 .. len, NEW chunk, NEW j \in 0 .. n - 1,
           NEW i \in Nat, i = NthIn(n, w, j)
    PROVE  /\ \A c \in Copies(w, n - w, q, len) : j \in To(c) =>
                /\ i <= len
                /\ QueueByte(chunk, q, c[2], c[3] + (j - c[1])) = chunk[i]
           /\ i <= len => \E c \in Copies(w, n - w, q, len) : j \in To(c)
<1> DEFINE b == n - w
           Good(c) == j \in To(c) =>
                        /\ i <= len
                        /\ QueueByte(chunk, q, c[2], c[3] + (j - c[1])) = chunk[i]
<1>0. i = IF j >= w THEN j - w + 1 ELSE j + n - w + 1
  BY DEF NthIn
<1> USE <1>0 DEF To, QueueByte
<1>1. CASE b < len /\ q < len /\ q > b
  <2>1. Copies(w, b, q, len)
          = {<<w, "loc", 0, b>>, <<0, "loc", b, q - b>>,
             <<q - b, "start", 0, len - q>>}
    BY <1>1 DEF Copies
  <2>2. Good(<<w, "loc", 0, b>>)
    BY <1>1
  <2>3. Good(<<0, "loc", b, q - b>>)
    BY <1>1
  <2>4. Good(<<q - b, "start", 0, len - q>>)
    BY <1>1
  <2>5. i <= len => \/ j \in To(<<w, "loc", 0, b>>)
                    \/ j \in To(<<0, "loc", b, q - b>>)
                    \/ j \in To(<<q - b, "start", 0, len - q>>)
    BY <1>1
  <2> HIDE DEF To, QueueByte, Good
  <2> QED
    BY <2>1, <2>2, <2>3, <2>4, <2>5, Zenon DEF Good
<1>2. CASE b < len /\ q < len /\ b > q
  <2>1. Copies(w, b, q, len)
          = {<<w, "loc", 0, q>>, <<w + q, "start", 0, b - q>>,
             <<0, "start", b - q, len - b>>}
    BY <1>2 DEF Copies
  <2>2. Good(<<w, "loc", 0, q>>)
    BY <1>2
  <2>3. Good(<<w + q, "start", 0, b - q>>)
    BY <1>2
  <2>4. Good(<<0, "start", b - q, len - b>>)
    BY <1>2
  <2>5. i <= len => \/ j \in To(<<w, "loc", 0, q>>)
                    \/ j \in To(<<w + q, "start", 0, b - q>>)
                    \/ j \in To(<<0, "start", b - q, len - b>>)
    BY <1>2
  <2> HIDE DEF To, QueueByte, Good
  <2> QED
    BY <2>1, <2>2, <2>3, <2>4, <2>5, Zenon DEF Good
<1>3. CASE b < len /\ q < len /\ q = b
  <2>1. Copies(w, b, q, len)
          = {<<w, "loc", 0, b>>, <<0, "start", 0, len - b>>}
    BY <1>3 DEF Copies
  <2>2. Good(<<w, "loc", 0, b>>)
    BY <1>3
  <2>3. Good(<<0, "start", 0, len - b>>)
    BY <1>3
  <2>4. i <= len => \/ j \in To(<<w, "loc", 0, b>>)
                    \/ j \in To(<<0, "start", 0, len - b>>)
    BY <1>3
  <2> HIDE DEF To, QueueByte, Good
  <2> QED
    BY <2>1, <2>2, <2>3, <2>4, Zenon DEF Good
<1>4. CASE b < len /\ ~(q < len)
  <2>1. Copies(w, b, q, len) = {<<w, "loc", 0, b>>, <<0, "loc", b, len - b>>}
    BY <1>4 DEF Copies
  <2>2. Good(<<w, "loc", 0, b>>)
    BY <1>4
  <2>3. Good(<<0, "loc", b, len - b>>)
    BY <1>4
  <2>4. i <= len => \/ j \in To(<<w, "loc", 0, b>>)
                    \/ j \in To(<<0, "loc", b, len - b>>)
    BY <1>4
  <2> HIDE DEF To, QueueByte, Good
  <2> QED
    BY <2>1, <2>2, <2>3, <2>4, Zenon DEF Good
<1>5. CASE ~(b < len) /\ q < len
  <2>1. Copies(w, b, q, len)
          = {<<w, "loc", 0, q>>, <<w + q, "start", 0, len - q>>}
    BY <1>5 DEF Copies
  <2>2. Good(<<w, "loc", 0, q>>)
    BY <1>5
  <2>3. Good(<<w + q, "start", 0, len - q>>)
    BY <1>5
  <2>4. i <= len => \/ j \in To(<<w, "loc", 0, q>>)
                    \/ j \in To(<<w + q, "start", 0, len - q>>)
    BY <1>5
  <2> HIDE DEF To, QueueByte, Good
  <2> QED
    BY <2>1, <2>2, <2>3, <2>4, Zenon DEF Good
<1>6. CASE ~(b < len) /\ ~(q < len)
  <2>1. Copies(w, b, q, len) = {<<w, "loc", 0, len>>}
    BY <1>6 DEF Copies
  <2>2. Good(<<w, "loc", 0, len>>)
    BY <1>6
  <2>3. i <= len => j \in To(<<w, "loc", 0, len>>)
    BY <1>6
  <2> HIDE DEF To, QueueByte, Good
  <2> QED
    BY <2>1, <2>2, <2>3, Zenon DEF Good
<1> QED
  BY <1>1, <1>2, <1>3, <1>4, <1>5, <1>6

LEMMA CopyFills ==
    ASSUME IInv, buf.plData # NULL,
           NEW chunk \in Seq(Byte), Len(chunk) \in 1 .. buf.ulSize,
           NEW q \in 1 .. Len(chunk)
    PROVE  Copied(chunk, q, Copies(WritePlace, buf.ulSize - WritePlace,
                                   q, Len(chunk))) = Filled(chunk)
<1> DEFINE copies == Copies(WritePlace, buf.ulSize - WritePlace, q, Len(chunk))
           wr(j) == IF \E c \in copies : j \in To(c)
                    THEN LET c == CHOOSE c \in copies : j \in To(c)
                         IN  QueueByte(chunk, q, c[2], c[3] + (j - c[1]))
                    ELSE buf.plData[j]
<1>1. \A j \in 0 .. buf.ulSize - 1 :
        wr(j) = IF Nth(j) <= Len(chunk) THEN chunk[Nth(j)] ELSE buf.plData[j]
  <2> SUFFICES ASSUME NEW j \in 0 .. buf.ulSize - 1
               PROVE  wr(j) = IF Nth(j) <= Len(chunk) THEN chunk[Nth(j)]
                              ELSE buf.plData[j]
    OBVIOUS
  <2>1. /\ buf.ulSize \in Nat \ {0} /\ WritePlace \in 0 .. buf.ulSize - 1
        /\ Nth(j) \in Nat
        /\ Nth(j) = NthIn(buf.ulSize, WritePlace, j)
    BY Shape, SMTT(30) DEF Nth, NthIn
  <2>2. /\ \A c \in copies : j \in To(c) =>
             /\ Nth(j) <= Len(chunk)
             /\ QueueByte(chunk, q, c[2], c[3] + (j - c[1])) = chunk[Nth(j)]
        /\ Nth(j) <= Len(chunk) => \E c \in copies : j \in To(c)
    <3> DEFINE n == buf.ulSize
               w == WritePlace
               len == Len(chunk)
               i == Nth(j)
    <3>1. /\ n \in Nat \ {0} /\ w \in 0 .. n - 1 /\ len \in 1 .. n
          /\ q \in 1 .. len /\ j \in 0 .. n - 1 /\ i \in Nat
          /\ i = NthIn(n, w, j)
      BY <2>1, Zenon
    <3> HIDE DEF n, w, len, i
    <3>2. /\ \A c \in Copies(w, n - w, q, len) : j \in To(c) =>
               /\ i <= len
               /\ QueueByte(chunk, q, c[2], c[3] + (j - c[1])) = chunk[i]
          /\ i <= len => \E c \in Copies(w, n - w, q, len) : j \in To(c)
      BY <3>1, CopiesCover
    <3> QED
      BY <3>2, Zenon DEF n, w, len, i
  <2> HIDE DEF copies
  <2> QED
    BY <2>2, Zenon
<1>2. DOMAIN buf.plData = 0 .. buf.ulSize - 1 \/ buf.plData = NULL
  BY DEF IInv, TypeOK
<1>3. Copied(chunk, q, copies) = [j \in DOMAIN buf.plData |-> wr(j)]
  BY DEF Copied, To
<1> QED
  <2> HIDE DEF wr
  <2> QED
    BY <1>1, <1>2, <1>3, Zenon DEF Filled

----------------------------------------------------------------------------
\* The callbacks.

LEMMA ChunkIsSeq ==
    ASSUME IInv, NEW len \in Nat \ {0}
    PROVE  Chunk(len) \in Seq(Byte) /\ Len(Chunk(len)) = len
<1>1. \A i \in 1 .. len : [tag |-> tag, k |-> i, len |-> len] \in Byte
  BY BufferAssumption DEF IInv, Typed, Byte
<1>2. Chunk(len) \in Seq(Byte)
  BY <1>1 DEF Chunk
<1>3. DOMAIN Chunk(len) = 1 .. len
  BY DEF Chunk
<1> QED
  BY <1>2, <1>3, LenProperties

\* A chunk for which there is room has room among what is unread.
LEMMA RoomIsRoom ==
    ASSUME IInv, NEW len \in Lens, Room(len)
    PROVE  /\ len \in 1 .. buf.ulSize
           /\ buf.ulSize + len < Word
           /\ buf.count + len <= buf.ulSize
           /\ Ahead + Len(unread) + len <= buf.ulSize
<1>1. /\ len \in Nat \ {0} /\ buf.ulSize + len < Word /\ Word \in Nat
      /\ type \in {"SEC", "PES"}
  BY BufferAssumption DEF IInv, TypeOK
<1>2. CASE type = "SEC"
  <2>1. (buf.count + len) % Word = buf.count + len
    <3> DEFINE x == buf.count + len
    <3>1. x \in 0 .. Word - 1
      BY <1>1, Shape
    <3> HIDE DEF x
    <3>2. x % Word = x
      BY <1>1, <3>1
    <3> QED
      BY <3>2 DEF x
  <2>2. buf.count + len < buf.ulSize
    BY <1>2, <2>1 DEF Room
  <2>3. pc # "update" /\ buf.count >= Len(unread) - 1
    BY <1>2, Shape DEF IInv, ReadUnderWay, TypeOK, CountIsContents
  <2> QED
    BY <1>1, <2>2, <2>3, Shape DEF Ahead
<1>3. CASE type = "PES"
  <2>1. (buf.ulSize - buf.count) % Word = buf.ulSize - buf.count
    <3> DEFINE x == buf.ulSize - buf.count
    <3>1. x \in 0 .. Word - 1
      BY <1>1, Shape
    <3> HIDE DEF x
    <3>2. x % Word = x
      BY <1>1, <3>1
    <3> QED
      BY <3>2 DEF x
  <2>2. buf.count + len <= buf.ulSize
    BY <1>1, <1>3, <2>1, Shape DEF Room
  <2>3. buf.count = Len(unread) + Ahead
    BY <1>3, Shape DEF IInv, ReadUnderWay, TypeOK, CountIsContents, Ahead
  <2> QED
    BY <1>1, <2>2, <2>3, Shape
<1> QED
  BY <1>1, <1>2, <1>3

\* The write pointer after a chunk.
LEMMA WriteMoves ==
    ASSUME IInv, NEW len \in 1 .. buf.ulSize, buf.ulSize + len < Word,
           Ahead + Len(unread) + len <= buf.ulSize,
           NEW x, x = ((buf.ulWrite + len) % Word) % buf.ulSize
    PROVE  /\ x \in 0 .. buf.ulSize - 1
           /\ x # Word - 1
           /\ (x + 1) % buf.ulSize = Place(Len(unread) + len)
<1> DEFINE n == buf.ulSize
           s == buf.ulWrite
           w == WritePlace
<1>1. n \in Nat \ {0} /\ len \in 1 .. n /\ Word \in Nat /\ n + len < Word
  BY Shape, BufferAssumption
<1>2. Place(Len(unread) + len) = (w + len) % n
  BY Shape, PlaceOn DEF IInv, WriteFollows
<1>3. CASE s = Word - 1
  <2>1. w = 0
    BY <1>3 DEF WritePlace
  <2>2. (s + len) % Word = len - 1
    <3> DEFINE y == s + len
    <3>1. y \in Word .. 2 * Word - 1 /\ y - Word = len - 1 /\ Word \in Nat \ {0}
      BY <1>1, <1>3
    <3> HIDE DEF y
    <3>2. y % Word = y - Word
      BY <3>1, ModUpper, Zenon
    <3> QED
      BY <3>1, <3>2 DEF y
  <2>3. x = len - 1
    BY <1>1, <2>2
  <2> QED
    BY <1>1, <1>2, <2>1, <2>3
<1>4. CASE s # Word - 1
  <2>0. w = (s + 1) % n
    BY <1>4 DEF WritePlace
  <2>1. s \in 0 .. n - 1 /\ len \in 0 .. n
    BY <1>1, <1>4 DEF IInv, TypeOK
  <2>2. (s + len) % Word = s + len
    <3> DEFINE y == s + len
    <3>1. y \in 0 .. Word - 1
      BY <1>1, <2>1, SMTT(30)
    <3> HIDE DEF y
    <3>2. y % Word = y
      BY <1>1, <3>1
    <3> QED
      BY <3>2 DEF y
  <2>3. x = (s + len) % n
    BY <2>2
  <2>4. Place(Len(unread) + len) = (w + len) % n
    BY <1>2
  <2> HIDE DEF s, n, w
  <2>5. x = IF s + len < n THEN s + len ELSE s + len - n
    BY <1>1, <2>1, <2>3, RingValue, Zenon
  <2>6. w = IF s + 1 < n THEN s + 1 ELSE 0
    <3>1. w = IF s + 1 < n THEN s + 1 ELSE s + 1 - n
      <4>1. 1 \in 0 .. n
        BY <1>1
      <4> QED
        BY <1>1, <2>0, <2>1, <4>1, RingValue, Zenon
    <3> QED
      BY <1>1, <2>1, <3>1
  <2>7. (x + 1) % n = (w + len) % n
    <3>1. CASE s + len < n
      <4>1. x + 1 = w + len
        BY <1>1, <2>1, <2>5, <2>6, <3>1
      <4> QED
        BY <4>1
    <3>2. CASE s + len >= n /\ s + 1 < n
      <4> DEFINE y == w + len
      <4>1. y \in n .. 2 * n - 1 /\ x + 1 = y - n /\ y - n < n
        BY <1>1, <2>1, <2>5, <2>6, <3>2
      <4> HIDE DEF y
      <4>2. y % n = y - n
        BY <1>1, <4>1, ModUpper, Zenon
      <4>3. (y - n) % n = y - n
        <5>1. y - n \in 0 .. n - 1
          BY <1>1, <4>1
        <5> QED
          BY <1>1, <5>1, ModLower, Zenon
      <4> QED
        BY <4>1, <4>2, <4>3 DEF y
    <3>3. CASE s + len >= n /\ s + 1 >= n
      <4>1. x + 1 = w + len
        BY <1>1, <2>1, <2>5, <2>6, <3>3
      <4> QED
        BY <4>1
    <3> QED
      BY <1>1, <2>1, <3>1, <3>2, <3>3
  <2>8. x \in 0 .. n - 1 /\ x # Word - 1
    BY <1>1, <2>1, <2>5
  <2> QED
    BY <2>4, <2>7, <2>8 DEF n
<1> QED
  BY <1>3, <1>4

LEMMA StoreEffect ==
    ASSUME IInv, states = "START",
           NEW len \in Lens, Room(len), NEW q \in 1 .. len
    PROVE  Stored(Chunk(len), q)
             = [plData  |-> Filled(Chunk(len)),
                ulSize  |-> buf.ulSize,
                count   |-> buf.count + len,
                ulRead  |-> buf.ulRead,
                ulWrite |-> ((buf.ulWrite + len) % Word) % buf.ulSize]
<1> DEFINE w == ((buf.ulWrite + 1) % Word) % buf.ulSize
           mem == IF type = "SEC" THEN Looped(Chunk(len))
                  ELSE Copied(Chunk(len), q,
                              Copies(w, buf.ulSize - w, q, len))
<1>1. /\ len \in 1 .. buf.ulSize /\ buf.ulSize + len < Word
      /\ buf.ulSize < Word /\ len \in Nat \ {0}
      /\ buf.plData # NULL
  BY RoomIsRoom, Shape, BufferAssumption DEF IInv, ReadUnderWay
<1>2. Chunk(len) \in Seq(Byte) /\ Len(Chunk(len)) = len
  BY <1>1, ChunkIsSeq
<1>3. w = WritePlace
  <2>1. 0 \in 0 .. buf.ulSize - 1
    BY Shape
  <2> QED
    BY <1>1, <2>1, WordPlace
<1>4. mem = Filled(Chunk(len))
  <2>1. CASE type = "SEC"
    BY <1>1, <1>2, <2>1, LoopFills
  <2>2. CASE type # "SEC"
    BY <1>1, <1>2, <1>3, <2>2, CopyFills
  <2> QED
    BY <2>1, <2>2
<1>5. Stored(Chunk(len), q)
        = [buf EXCEPT !.plData = mem, !.count = @ + len,
                      !.ulWrite = ((buf.ulWrite + len) % Word) % buf.ulSize]
  BY <1>2 DEF Stored
<1>6. buf = [plData |-> buf.plData, ulSize |-> buf.ulSize,
             count |-> buf.count, ulRead |-> buf.ulRead,
             ulWrite |-> buf.ulWrite]
  BY DEF IInv, Typed
<1> DEFINE x == ((buf.ulWrite + len) % Word) % buf.ulSize
<1> HIDE DEF mem, x
<1> QED
  BY <1>4, <1>5, <1>6 DEF x

\* A stored chunk follows what is unread and disturbs none of it.
LEMMA FilledInPlace ==
    ASSUME IInv, NEW chunk \in Seq(Byte), Len(chunk) \in 1 .. buf.ulSize,
           Ahead + Len(unread) + Len(chunk) <= buf.ulSize,
           buf.plData # NULL
    PROVE  /\ Filled(chunk) \in [0 .. buf.ulSize - 1 -> Byte]
           /\ \A i \in 1 .. Len(unread) :
                Filled(chunk)[Place(i - 1)] = buf.plData[Place(i - 1)]
           /\ \A i \in 1 .. Len(chunk) :
                Filled(chunk)[Place(Len(unread) + (i - 1))] = chunk[i]
<1>1. Filled(chunk) \in [0 .. buf.ulSize - 1 -> Byte]
  <2>1. buf.plData \in [0 .. buf.ulSize - 1 -> Byte]
    BY DEF IInv, Typed
  <2>2. \A j \in 0 .. buf.ulSize - 1 : Nth(j) \in 1 .. buf.ulSize
    BY PlaceOfNth, Zenon
  <2>3. \A j \in 0 .. buf.ulSize - 1 :
          (IF Nth(j) <= Len(chunk) THEN chunk[Nth(j)] ELSE buf.plData[j]) \in Byte
    <3> TAKE j \in 0 .. buf.ulSize - 1
    <3>1. Nth(j) <= Len(chunk) => Nth(j) \in 1 .. Len(chunk)
      BY <2>2, Shape
    <3>2. buf.plData[j] \in Byte
      BY <2>1
    <3> QED
      BY <3>1, <3>2
  <2> QED
    BY <2>3 DEF Filled
<1>2. ASSUME NEW i \in 1 .. Len(unread)
      PROVE  Filled(chunk)[Place(i - 1)] = buf.plData[Place(i - 1)]
  <2> DEFINE j == Place(i - 1)
             e == Nth(j) - 1
  <2>1. i - 1 \in Nat /\ i <= Len(unread) /\ Len(unread) \in Nat /\ Ahead \in Nat
    BY Shape
  <2>2. j \in 0 .. buf.ulSize - 1
    BY <2>1, PlaceInRing
  <2>3. Nth(j) \in 1 .. buf.ulSize
    BY <2>2, PlaceOfNth, Zenon
  <2>4. (WritePlace + e) % buf.ulSize = j
    BY <2>2, PlaceOfNth, Zenon
  <2>5. ASSUME Nth(j) <= Len(chunk)
        PROVE  FALSE
    <3>0. e \in Nat /\ e < Len(chunk) /\ Len(chunk) \in Nat
      BY <2>3, <2>5, Shape
    <3> HIDE DEF j, e
    <3>1. /\ e \in Nat /\ Ahead + Len(unread) + e < buf.ulSize
          /\ Ahead + (Len(unread) + e) < buf.ulSize
          /\ Len(unread) + e \in Nat /\ Len(unread) + e # i - 1
          /\ Ahead + (i - 1) < buf.ulSize
      BY <2>1, <3>0, Shape
    <3>2. Place(Len(unread) + e) = (Place(Len(unread)) + e) % buf.ulSize
      BY <2>1, <3>1, PlaceOn, Shape
    <3>3. Place(Len(unread) + e) = j
      BY <2>4, <3>2 DEF IInv, WriteFollows
    <3>4. Place(Len(unread) + e) = Place(i - 1)
      BY <3>3 DEF j
    <3> QED
      BY <2>1, <3>1, <3>4, PlaceDistinct
  <2> QED
    BY <2>2, <2>5 DEF Filled
<1>3. ASSUME NEW i \in 1 .. Len(chunk)
      PROVE  Filled(chunk)[Place(Len(unread) + (i - 1))] = chunk[i]
  <2> DEFINE j == Place(Len(unread) + (i - 1))
  <2>1. /\ i - 1 \in Nat /\ Len(unread) \in Nat /\ i \in 1 .. buf.ulSize
        /\ Ahead + Len(unread) + (i - 1) <= buf.ulSize
        /\ Len(unread) + (i - 1) \in Nat
    BY Shape
  <2>2. j = (WritePlace + (i - 1)) % buf.ulSize
    BY <2>1, PlaceOn DEF IInv, WriteFollows
  <2>3. Nth(j) = i
    BY <2>1, <2>2, NthOfPlace
  <2>4. j \in 0 .. buf.ulSize - 1
    BY <2>1, PlaceInRing
  <2> HIDE DEF j
  <2>5. Filled(chunk)[j] = chunk[i]
    BY <2>3, <2>4 DEF Filled
  <2> QED
    BY <2>5 DEF j
<1> QED
  BY <1>1, <1>2, <1>3

LEMMA CallbackKeeps ==
    ASSUME IInv, NEW len \in Lens, NEW q \in 1 .. len, DemuxCallback(len, q)
    PROVE  IInv'
<1> USE DEF DemuxCallback
<1>1. CASE ~Room(len)
  <2>1. /\ UNCHANGED <<buf, unread, tag, rd, type, states>>
        /\ pc' = pc \/ (pc = "asleep" /\ pc' = "woken")
    BY <1>1 DEF wake_up
  <2>2. Ahead' = Ahead
    BY <2>1 DEF Ahead
  <2>3. /\ WritePlace' = WritePlace
        /\ \A d : Place(d)' = Place(d)
    BY <2>1, <2>2 DEF WritePlace, Place
  <2>4. Typed' /\ TypeOK'
    BY <2>1 DEF IInv, Typed, TypeOK
  <2>5. WriteFollows' /\ UnreadInPlace'
    BY <2>1, <2>2, <2>3 DEF IInv, WriteFollows, UnreadInPlace
  <2>6. CountIsContents' /\ NoLostWakeup' /\ ReadUnderWay'
    BY <2>1 DEF IInv, CountIsContents, NoLostWakeup, ReadUnderWay
  <2>7. Sections'
    BY <2>1 DEF IInv, Sections, SectionFrom, Begun
  <2> QED
    BY <2>4, <2>5, <2>6, <2>7 DEF IInv
<1>2. CASE Room(len)
  <2> DEFINE U == Len(unread)
  <2>1. /\ buf' = Stored(Chunk(len), q)
        /\ unread' = unread \o Chunk(len)
        /\ tag' = (tag + 1) % Tags
        /\ pc' = IF pc = "asleep" THEN "woken" ELSE pc
        /\ UNCHANGED <<type, states, rd>>
        /\ states = "START"
    BY <1>2 DEF wake_up
  <2>2. /\ len \in 1 .. buf.ulSize
        /\ buf.ulSize + len < Word
        /\ buf.count + len <= buf.ulSize
        /\ Ahead + U + len <= buf.ulSize
        /\ buf.plData # NULL
    BY <1>2, <2>1, RoomIsRoom DEF IInv, ReadUnderWay
  <2>3. /\ buf' = [plData  |-> Filled(Chunk(len)),
                   ulSize  |-> buf.ulSize,
                   count   |-> buf.count + len,
                   ulRead  |-> buf.ulRead,
                   ulWrite |-> ((buf.ulWrite + len) % Word) % buf.ulSize]
    BY <1>2, <2>1, StoreEffect
  <2>4. /\ buf'.plData = Filled(Chunk(len)) /\ buf'.ulSize = buf.ulSize
        /\ buf'.count = buf.count + len /\ buf'.ulRead = buf.ulRead
        /\ buf'.ulWrite \in 0 .. buf.ulSize - 1 /\ buf'.ulWrite # Word - 1
    <3>1. buf'.ulWrite = ((buf.ulWrite + len) % Word) % buf.ulSize
      BY <2>3
    <3>2. buf'.ulWrite \in 0 .. buf.ulSize - 1 /\ buf'.ulWrite # Word - 1
      BY <2>2, <3>1, WriteMoves
    <3> QED
      BY <2>3, <3>2
  <2>4a. (buf'.ulWrite + 1) % buf.ulSize = Place(U + len)
    <3>1. buf'.ulWrite = ((buf.ulWrite + len) % Word) % buf.ulSize
      BY <2>3
    <3> QED
      BY <2>2, <3>1, WriteMoves
  <2>5. /\ Chunk(len) \in Seq(Byte) /\ Len(Chunk(len)) = len
        /\ \A i \in 1 .. len :
             Chunk(len)[i] = [tag |-> tag, k |-> i, len |-> len]
    <3>1. len \in Nat \ {0}
      BY BufferAssumption
    <3> QED
      BY <3>1, ChunkIsSeq DEF Chunk
  <2>6. /\ unread' \in Seq(Byte) /\ Len(unread') = U + len
        /\ \A i \in 1 .. U : unread'[i] = unread[i]
        /\ \A i \in 1 .. len :
             unread'[U + i] = [tag |-> tag, k |-> i, len |-> len]
    <3>1. unread \in Seq(Byte) /\ U \in Nat
      BY DEF IInv, Typed
    <3>2. /\ unread' \in Seq(Byte) /\ Len(unread') = U + len
          /\ \A i \in 1 .. U + len :
               unread'[i] = IF i <= U THEN unread[i] ELSE Chunk(len)[i - U]
      <4> DEFINE c == Chunk(len)
      <4>1. /\ unread \o c \in Seq(Byte)
            /\ Len(unread \o c) = Len(unread) + Len(c)
            /\ \A i \in 1 .. Len(unread) + Len(c) : (unread \o c)[i]
                 = IF i <= Len(unread) THEN unread[i] ELSE c[i - Len(unread)]
        BY <2>5, <3>1, ConcatProperties, Zenon
      <4> HIDE DEF c
      <4>2. unread' = unread \o c /\ Len(c) = len
        BY <2>1, <2>5 DEF c
      <4> QED
        BY <4>1, <4>2, Zenon DEF c
    <3>3. ASSUME NEW i \in 1 .. len
          PROVE  unread'[U + i] = [tag |-> tag, k |-> i, len |-> len]
      <4>1. /\ U + i \in 1 .. U + len /\ ~(U + i <= U) /\ (U + i) - U = i
        BY <2>2, <3>1
      <4>2. unread'[U + i] = Chunk(len)[(U + i) - U]
        BY <3>2, <4>1, Zenon
      <4> QED
        BY <2>5, <4>1, <4>2
    <3>4. ASSUME NEW i \in 1 .. U
          PROVE  unread'[i] = unread[i]
      BY <2>2, <3>1, <3>2
    <3> QED
      BY <3>2, <3>3, <3>4
  <2>7. /\ Filled(Chunk(len)) \in [0 .. buf.ulSize - 1 -> Byte]
        /\ \A i \in 1 .. U :
             Filled(Chunk(len))[Place(i - 1)] = buf.plData[Place(i - 1)]
        /\ \A i \in 1 .. len :
             Filled(Chunk(len))[Place(U + (i - 1))]
               = [tag |-> tag, k |-> i, len |-> len]
    BY <2>2, <2>5, FilledInPlace
  <2>8. Ahead' = Ahead /\ \A d : Place(d)' = Place(d)
    <3>1. Ahead' = Ahead
      BY <2>1 DEF Ahead
    <3> QED
      BY <2>4, <3>1 DEF Place
  <2>9. Typed'
    <3>1. /\ buf' = [plData |-> buf'.plData, ulSize |-> buf'.ulSize,
                     count |-> buf'.count, ulRead |-> buf'.ulRead,
                     ulWrite |-> buf'.ulWrite]
      BY <2>3
    <3>2. tag' \in 0 .. Tags - 1
      BY <2>1, BufferAssumption DEF IInv, Typed
    <3> QED
      BY <2>1, <2>4, <2>6, <2>7, <3>1, <3>2 DEF IInv, Typed
  <2>10. TypeOK'
    <3>1. DOMAIN Filled(Chunk(len)) = 0 .. buf.ulSize - 1
      BY DEF Filled
    <3>2. buf'.count \in 0 .. buf'.ulSize
      BY <2>2, <2>4, Shape
    <3> QED
      BY <2>1, <2>4, <3>1, <3>2 DEF IInv, TypeOK
  <2>11. CountIsContents'
    <3>1. U \in Nat /\ len \in Nat /\ buf.count \in Nat /\ rd.left \in Nat
      BY <2>2, Shape DEF IInv, TypeOK
    <3> QED
      BY <2>1, <2>4, <2>6, <3>1 DEF IInv, CountIsContents
  <2>12. WriteFollows'
    <3>1. WritePlace' = (buf'.ulWrite + 1) % buf.ulSize
      BY <2>4 DEF WritePlace
    <3>3. Place(Len(unread))' = Place(U + len)
      BY <2>4, <2>6, <2>8 DEF Place
    <3>4. Len(unread') + Ahead' <= buf'.ulSize
      BY <2>2, <2>4, <2>6, <2>8, Shape
    <3> QED
      BY <2>4, <2>4a, <3>1, <3>3, <3>4 DEF WriteFollows
  <2>13. ReadUnderWay'
    <3>1. U \in Nat /\ len \in Nat /\ buf.count \in Nat
      BY <2>2, Shape
    <3>2. Filled(Chunk(len)) # NULL
      <4>1. DOMAIN Filled(Chunk(len)) # {}
        BY Shape DEF Filled
      <4> QED
        BY <4>1 DEF NULL
    <3>3. /\ pc' \in {"loop", "byte"} => type' = "SEC"
          /\ pc' \in {"copy", "update"} => type' = "PES"
          /\ states' # "SET"
      BY <2>1 DEF IInv, ReadUnderWay
    <3>4. /\ pc' = "ready" => buf'.count > 0
          /\ pc' = "copy" => rd'.left \in 1 .. Len(unread')
      BY <2>1, <2>4, <2>6, <3>1 DEF IInv, ReadUnderWay
    <3> QED
      BY <2>4, <3>2, <3>3, <3>4 DEF ReadUnderWay
  <2>14. UnreadInPlace'
    <3> SUFFICES ASSUME NEW i \in 1 .. U + len
                 PROVE  unread'[i] = Filled(Chunk(len))[Place(i - 1)]
      BY <2>4, <2>6, <2>8 DEF UnreadInPlace
    <3>1. U \in Nat /\ len \in Nat
      BY <2>2, Shape
    <3>2. CASE i <= U
      <4>1. i \in 1 .. U
        BY <3>1, <3>2
      <4> QED
        BY <2>6, <2>7, <4>1 DEF IInv, UnreadInPlace
    <3>3. CASE i > U
      <4>1. PICK e \in 1 .. len : i = U + e
        <5>1. i - U \in 1 .. len /\ i = U + (i - U)
          BY <3>1, <3>3
        <5> QED
          BY <5>1
      <4>2. unread'[U + e] = [tag |-> tag, k |-> e, len |-> len]
        BY <2>6
      <4>3. i - 1 = U + (e - 1)
        BY <3>1, <4>1
      <4> QED
        BY <2>7, <4>1, <4>2, <4>3
    <3> QED
      BY <3>1, <3>2, <3>3
  <2>15. Sections'
    <3> SUFFICES ASSUME type = "SEC" PROVE Sections'
      BY <2>1 DEF Sections
    <3>1. U \in Nat /\ len \in Nat \ {0} /\ \A i \in 1 .. U : unread[i] \in Byte
      BY <2>2, Shape, SMTT(30) DEF IInv, Typed
    <3>2. ASSUME NEW i \in 1 .. U
          PROVE  SectionFrom(i)'
      <4> DEFINE b == unread[i]
      <4>1. /\ b.k \in 1 .. b.len /\ i + (b.len - b.k) <= U
            /\ \A j \in 0 .. (b.len - b.k) :
                 unread[i + j] = [tag |-> b.tag, k |-> b.k + j, len |-> b.len]
            /\ b.k = b.len /\ i < U => unread[i + 1].k = 1
            /\ b.len \in Nat /\ b.k \in Nat
        BY <3>1 DEF IInv, Sections, SectionFrom, Byte
      <4>2. unread'[i] = b
        BY <2>6
      <4> HIDE DEF b
      <4>3. \A j \in 0 .. (b.len - b.k) : unread'[i + j] = unread[i + j]
        <5> TAKE j \in 0 .. (b.len - b.k)
        <5>1. i + j \in 1 .. U
          BY <3>1, <4>1
        <5> QED
          BY <2>6, <5>1
      <4>4. b.k = b.len /\ i < U + len => unread'[i + 1].k = 1
        <5>1. CASE i < U
          <6>1. i + 1 \in 1 .. U
            BY <3>1, <5>1
          <6> QED
            BY <2>6, <4>1, <5>1, <6>1
        <5>2. CASE i = U
          <6>1. 1 \in 1 .. len
            BY <3>1
          <6>2. unread'[U + 1] = [tag |-> tag, k |-> 1, len |-> len]
            BY <2>6, <6>1
          <6> QED
            BY <5>2, <6>2
        <5> QED
          BY <3>1, <5>1, <5>2
      <4>5. i + (b.len - b.k) <= U + len
        BY <3>1, <4>1
      <4> QED
        BY <2>6, <4>1, <4>2, <4>3, <4>4, <4>5 DEF SectionFrom
    <3>3. ASSUME NEW e \in 1 .. len
          PROVE  \A i : i = U + e => SectionFrom(i)'
      <4> TAKE i
      <4> HAVE i = U + e
      <4>1. unread'[U + e] = [tag |-> tag, k |-> e, len |-> len]
        BY <2>6
      <4>2. \A j \in 0 .. (len - e) : unread'[U + e + j]
                    = [tag |-> tag, k |-> e + j, len |-> len]
        <5> TAKE j \in 0 .. (len - e)
        <5>1. e + j \in 1 .. len /\ U + e + j = U + (e + j)
          BY <3>1
        <5>2. unread'[U + (e + j)] = [tag |-> tag, k |-> e + j, len |-> len]
          BY <2>6, <5>1
        <5> QED
          BY <5>1, <5>2
      <4>3. U + e + (len - e) <= U + len /\ ~(e = len /\ U + e < U + len)
        BY <3>1
      <4>4. /\ unread'[i].tag = tag /\ unread'[i].k = e /\ unread'[i].len = len
        BY <4>1
      <4> QED
        BY <2>6, <4>2, <4>3, <4>4 DEF SectionFrom
    <3>4. \A i \in 1 .. Len(unread') : SectionFrom(i)'
      <4> TAKE i \in 1 .. Len(unread')
      <4>1. CASE i <= U
        <5>1. i \in 1 .. U
          BY <2>6, <3>1, <4>1
        <5> QED
          BY <3>2, <5>1
      <4>2. CASE i > U
        <5>1. i - U \in 1 .. len /\ i = U + (i - U)
          BY <2>6, <3>1, <4>2
        <5> QED
          BY <3>3, <5>1
      <4> QED
        BY <2>6, <3>1, <4>1, <4>2
    <3>5. unread' # << >>
      BY <2>6, <3>1, EmptySeq
    <3>6. unread'[1].k = IF unread = << >> THEN 1 ELSE unread[1].k
      <4>1. CASE unread = << >>
        <5>1. U = 0 /\ 1 \in 1 .. len
          BY <3>1, <4>1
        <5>2. unread'[U + 1] = [tag |-> tag, k |-> 1, len |-> len]
          BY <2>6, <5>1
        <5> QED
          BY <4>1, <5>1, <5>2
      <4>2. CASE unread # << >>
        <5>1. 1 \in 1 .. U
          BY <3>1, <4>2, EmptySeq DEF IInv, Typed
        <5> QED
          BY <2>6, <4>2, <5>1
      <4> QED
        BY <4>1, <4>2
    <3>7. unread # << >> => unread'[1] = unread[1]
      <4>1. unread # << >> => 1 \in 1 .. U
        BY <3>1, EmptySeq DEF IInv, Typed
      <4> QED
        BY <2>6, <4>1
    <3>8. pc' \in {"loop", "byte"} <=> pc \in {"loop", "byte"}
      BY <2>1
    <3> HIDE DEF SectionFrom
    <3> QED
      BY <2>1, <3>4, <3>5, <3>6, <3>7, <3>8 DEF IInv, Sections, Begun
  <2>16. NoLostWakeup'
    BY <2>1 DEF NoLostWakeup
  <2> QED
    BY <2>9, <2>10, <2>11, <2>12, <2>13, <2>14, <2>15, <2>16 DEF IInv
<1> QED
  BY <1>1, <1>2

----------------------------------------------------------------------------
\* The steps of a read.

\* A step of the application that only moves its pc.
LEMMA PcOnly ==
    ASSUME IInv, UNCHANGED <<type, buf, states, rd, unread, tag>>,
           pc \in {"idle", "asleep", "woken", "ready"},
           pc' \in {"idle", "asleep", "woken", "ready"},
           pc' = "asleep" => buf.count <= 0,
           pc' = "ready" => buf.count > 0,
           pc' # "idle" => buf.plData # NULL
    PROVE  IInv'
<1>1. Ahead' = Ahead
  BY DEF Ahead
<1>2. WritePlace' = WritePlace /\ \A d : Place(d)' = Place(d)
  BY <1>1 DEF WritePlace, Place
<1>3. Typed' /\ TypeOK'
  BY DEF IInv, Typed, TypeOK
<1>4. WriteFollows' /\ UnreadInPlace'
  BY <1>1, <1>2 DEF IInv, WriteFollows, UnreadInPlace
<1>5. CountIsContents' /\ NoLostWakeup' /\ ReadUnderWay'
  BY DEF IInv, CountIsContents, NoLostWakeup, ReadUnderWay
<1>6. Sections'
  BY DEF IInv, Sections, SectionFrom, Begun
<1> QED
  BY <1>3, <1>4, <1>5, <1>6 DEF IInv

LEMMA CallKeeps ==
    ASSUME IInv, ReadCall \/ Timeout \/ Woken
    PROVE  IInv'
<1>1. pc # "idle" => buf.plData # NULL
  BY DEF IInv, ReadUnderWay
<1>2. buf.count \in Nat
  BY Shape
<1>3. CASE ReadCall
  BY <1>2, <1>3, PcOnly DEF ReadCall
<1>4. CASE Timeout
  BY <1>1, <1>4, PcOnly DEF Timeout
<1>5. CASE Woken
  BY <1>1, <1>2, <1>5, PcOnly DEF Woken
<1> QED
  BY <1>3, <1>4, <1>5

\* What is unread begins at the read position.
LEMMA FirstUnread ==
    ASSUME IInv, pc # "update", unread # << >>
    PROVE  /\ unread[1] = buf.plData[buf.ulRead]
           /\ unread[1] \in Byte /\ 1 \in 1 .. Len(unread)
<1>1. 1 \in 1 .. Len(unread) /\ unread[1] \in Byte
  BY Shape, EmptySeq DEF IInv, Typed
<1>2. Place(0) = buf.ulRead
  <2>1. buf.ulRead + Ahead + 0 = buf.ulRead
    BY Shape DEF Ahead
  <2>2. buf.ulRead % buf.ulSize = buf.ulRead
    BY Shape, ModLower
  <2> QED
    BY <2>1, <2>2 DEF Place
<1>3. 1 - 1 = 0
  OBVIOUS
<1> QED
  BY <1>1, <1>2, <1>3 DEF IInv, UnreadInPlace

LEMMA ReadHeaderKeeps ==
    ASSUME IInv, NEW fits \in BOOLEAN, ReadHeader(fits)
    PROVE  IInv'
<1> USE DEF ReadHeader
<1>1. buf.plData # NULL /\ buf.count > 0
  BY DEF IInv, ReadUnderWay
<1>2. CASE ~fits
  BY <1>2, PcOnly
<1>3. CASE fits
  <2>1. /\ UNCHANGED <<type, buf, states, unread, tag>> /\ type = "SEC"
        /\ pc = "ready" /\ pc' = "loop"
        /\ rd' = [left |-> buf.plData[buf.ulRead].len, got |-> << >>]
    BY <1>3
  <2>2. Len(unread) = buf.count
    BY <2>1 DEF IInv, CountIsContents
  <2>3. unread # << >>
    BY <1>1, <2>2, Shape, EmptySeq
  <2>4. /\ unread[1] = buf.plData[buf.ulRead] /\ unread[1].k = 1
        /\ unread[1].len \in Nat
    BY <2>1, <2>3, FirstUnread DEF IInv, Sections, Byte
  <2>5. Ahead' = Ahead
    BY <2>1 DEF Ahead
  <2>6. WritePlace' = WritePlace /\ \A d : Place(d)' = Place(d)
    BY <2>1, <2>5 DEF WritePlace, Place
  <2>7. rd'.left = unread[1].len /\ rd'.got = << >>
    BY <2>1, <2>4
  <2>8. Typed'
    BY <2>1, <2>4 DEF IInv, Typed
  <2>9. TypeOK'
    BY <2>1, <2>4, <2>7 DEF IInv, TypeOK
  <2>10. WriteFollows' /\ UnreadInPlace'
    BY <2>1, <2>5, <2>6 DEF IInv, WriteFollows, UnreadInPlace
  <2>11. CountIsContents'
    BY <2>1, <2>2 DEF CountIsContents
  <2>12. NoLostWakeup' /\ ReadUnderWay'
    BY <1>1, <2>1 DEF IInv, NoLostWakeup, ReadUnderWay
  <2>13. Sections'
    <3>1. \A i \in 1 .. Len(unread) : SectionFrom(i)'
      BY <2>1 DEF IInv, Sections, SectionFrom
    <3>2. Begun(unread[1], unread[1].k - 1) = << >>
      BY <2>4 DEF Begun
    <3>3. Begun(unread[1], unread[1].k - 1)' = << >>
      BY <2>1, <3>2 DEF Begun
    <3> QED
      BY <2>1, <2>3, <2>4, <2>7, <3>1, <3>3 DEF Sections
  <2> QED
    BY <2>8, <2>9, <2>10, <2>11, <2>12, <2>13 DEF IInv
<1> QED
  BY <1>2, <1>3

LEMMA CountDownKeeps ==
    ASSUME IInv, CountDown
    PROVE  IInv'
<1>1. /\ pc = "loop" /\ pc' = "byte" /\ type = "SEC"
      /\ buf' = [buf EXCEPT !.count = @ - 1]
      /\ UNCHANGED <<type, states, rd, unread, tag>>
  BY DEF CountDown, IInv, ReadUnderWay
<1>2. /\ buf' = [plData |-> buf.plData, ulSize |-> buf.ulSize,
                 count |-> buf.count - 1, ulRead |-> buf.ulRead,
                 ulWrite |-> buf.ulWrite]
  BY <1>1 DEF IInv, Typed
<1>3. /\ buf.count = Len(unread) /\ unread # << >> /\ Len(unread) > 0
  BY <1>1, Shape, EmptySeq DEF IInv, CountIsContents, Sections, Typed
<1>4. /\ buf'.plData = buf.plData /\ buf'.ulSize = buf.ulSize
      /\ buf'.count = buf.count - 1 /\ buf'.ulRead = buf.ulRead
      /\ buf'.ulWrite = buf.ulWrite
  BY <1>2
<1>5. Ahead' = Ahead
  BY <1>1 DEF Ahead
<1>6. WritePlace' = WritePlace /\ \A d : Place(d)' = Place(d)
  BY <1>4, <1>5 DEF WritePlace, Place
<1>7. Typed'
  BY <1>1, <1>2, <1>4 DEF IInv, Typed
<1>8. TypeOK'
  <2>1. buf'.count \in 0 .. buf'.ulSize
    BY <1>3, <1>4, Shape
  <2> QED
    BY <1>1, <1>4, <2>1 DEF IInv, TypeOK
<1>9. WriteFollows' /\ UnreadInPlace'
  BY <1>1, <1>4, <1>5, <1>6 DEF IInv, WriteFollows, UnreadInPlace
<1>10. CountIsContents' /\ NoLostWakeup' /\ ReadUnderWay'
  BY <1>1, <1>3, <1>4 DEF IInv, CountIsContents, NoLostWakeup, ReadUnderWay
<1>11. Sections'
  BY <1>1 DEF IInv, Sections, SectionFrom, Begun
<1> QED
  BY <1>7, <1>8, <1>9, <1>10, <1>11 DEF IInv

\* A section read copies the next byte of the section it is in.
LEMMA PutUserKeeps ==
    ASSUME IInv, PutUser
    PROVE  IInv'
<1> DEFINE b == unread[1]
<1>1. /\ pc = "byte" /\ type = "SEC"
      /\ rd' = [left |-> rd.left - 1,
                got |-> Append(rd.got, buf.plData[buf.ulRead])]
      /\ buf' = [buf EXCEPT !.ulRead = (@ + 1) % buf.ulSize]
      /\ unread' = Tail(unread)
      /\ pc' = IF rd.left = 1 THEN "idle" ELSE "loop"
      /\ UNCHANGED <<type, states, tag>>
  BY DEF PutUser, IInv, ReadUnderWay
<1>2. unread # << >> /\ buf.plData[buf.ulRead] = b
      /\ b \in Byte /\ 1 \in 1 .. Len(unread)
  BY <1>1, FirstUnread DEF IInv, Sections
<1>3. /\ b.k \in 1 .. b.len /\ b.k \in Nat /\ b.len \in Nat
      /\ 1 + (b.len - b.k) <= Len(unread)
      /\ \A j \in 0 .. (b.len - b.k) :
           unread[1 + j] = [tag |-> b.tag, k |-> b.k + j, len |-> b.len]
      /\ b.k = b.len /\ 1 < Len(unread) => unread[1 + 1].k = 1
      /\ rd.left = b.len - b.k + 1
      /\ rd.got = Begun(b, b.k - 1)
  BY <1>1, <1>2 DEF IInv, Sections, SectionFrom, Byte
<1>4. /\ unread' \in Seq(Byte) /\ Len(unread') = Len(unread) - 1
      /\ \A i \in 1 .. Len(unread) - 1 : unread'[i] = unread[i + 1]
  <2>1. unread \in Seq(Byte)
    BY DEF IInv, Typed
  <2> QED
    BY <1>1, <1>2, <2>1, HeadTailProperties
<1>5. /\ buf' = [plData |-> buf.plData, ulSize |-> buf.ulSize,
                 count |-> buf.count,
                 ulRead |-> (buf.ulRead + 1) % buf.ulSize,
                 ulWrite |-> buf.ulWrite]
  BY <1>1 DEF IInv, Typed
<1>6. /\ buf'.plData = buf.plData /\ buf'.ulSize = buf.ulSize
      /\ buf'.count = buf.count /\ buf'.ulWrite = buf.ulWrite
  BY <1>5
<1>7. buf'.ulRead = (buf.ulRead + 1) % buf.ulSize
  BY <1>5
<1>8. buf'.ulRead \in 0 .. buf.ulSize - 1
  BY <1>7, Shape
<1>9. Ahead = 0 /\ Ahead' = 0
  BY <1>1 DEF Ahead
<1>10. \A d \in 0 .. buf.ulSize - 1 : Place(d)' = Place(d + 1)
  <2> TAKE d \in 0 .. buf.ulSize - 1
  <2>1. /\ buf.ulSize \in Nat \ {0} /\ buf.ulRead \in 0 .. buf.ulSize - 1
        /\ 1 \in 0 .. buf.ulSize /\ d \in 0 .. buf.ulSize
        /\ buf.ulRead + 1 + d < 2 * buf.ulSize
    <3> DEFINE n == buf.ulSize
               r == buf.ulRead
    <3>1. n \in Nat \ {0} /\ r \in 0 .. n - 1 /\ d \in 0 .. n - 1
      BY Shape
    <3> HIDE DEF n, r
    <3>2. 1 \in 0 .. n /\ d \in 0 .. n /\ r + 1 + d < 2 * n
      BY <3>1
    <3> QED
      BY <3>1, <3>2 DEF n, r
  <2>2. (((buf.ulRead + 1) % buf.ulSize) + d) % buf.ulSize
           = (buf.ulRead + 1 + d) % buf.ulSize
    BY <2>1, RingOn, Zenon
  <2>3. Place(d)' = (((buf.ulRead + 1) % buf.ulSize) + d) % buf.ulSize
    <3>1. buf'.ulRead + Ahead' + d = buf'.ulRead + d
      BY <1>8, <1>9, Shape
    <3> QED
      BY <1>6, <1>7, <3>1 DEF Place
  <2>4. Place(d + 1) = (buf.ulRead + 1 + d) % buf.ulSize
    <3>1. buf.ulRead + Ahead + (d + 1) = buf.ulRead + 1 + d
      BY <1>9, <2>1
    <3> QED
      BY <3>1 DEF Place
  <2> QED
    BY <2>2, <2>3, <2>4
<1>11. Len(unread) \in Nat \ {0} /\ Len(unread) <= buf.ulSize
  BY <1>2, <1>9, Shape
<1>12. rd'.left = rd.left - 1 /\ rd'.got = Append(rd.got, b)
  BY <1>1, <1>2
<1>13. Append(Begun(b, b.k - 1), b) = Begun(b, b.k)
  <2>1. b = [tag |-> b.tag, k |-> b.k, len |-> b.len]
    BY <1>2 DEF Byte
  <2>2. b.k \in Nat \ {0}
    BY <1>3
  <2>3. /\ Begun(b, b.k - 1) \in Seq(Byte) /\ Begun(b, b.k) \in Seq(Byte)
        /\ Len(Begun(b, b.k - 1)) = b.k - 1 /\ Len(Begun(b, b.k)) = b.k
    <3>1. ASSUME NEW m \in Nat
          PROVE  Begun(b, m) \in Seq(Byte) /\ Len(Begun(b, m)) = m
      <4>1. \A i \in 1 .. m : [tag |-> b.tag, k |-> i, len |-> b.len] \in Byte
        BY <1>2, <1>3 DEF Byte
      <4>2. Begun(b, m) \in Seq(Byte)
        BY <4>1 DEF Begun
      <4>3. DOMAIN Begun(b, m) = 1 .. m
        BY DEF Begun
      <4> QED
        BY <4>2, <4>3, LenProperties
    <3>2. b.k - 1 \in Nat /\ b.k \in Nat
      BY <2>2
    <3> QED
      BY <3>1, <3>2
  <2>4. /\ Append(Begun(b, b.k - 1), b) \in Seq(Byte)
        /\ Len(Append(Begun(b, b.k - 1), b)) = b.k
        /\ \A i \in 1 .. b.k : Append(Begun(b, b.k - 1), b)[i]
                = IF i <= b.k - 1 THEN Begun(b, b.k - 1)[i] ELSE b
    BY <1>2, <2>2, <2>3, AppendProperties
  <2>5. \A i \in 1 .. b.k : Append(Begun(b, b.k - 1), b)[i] = Begun(b, b.k)[i]
    <3> TAKE i \in 1 .. b.k
    <3>1. CASE i <= b.k - 1
      <4>1. i \in 1 .. b.k - 1
        BY <2>2, <3>1
      <4> QED
        BY <2>4, <3>1, <4>1 DEF Begun
    <3>2. CASE ~(i <= b.k - 1)
      <4>1. i = b.k
        BY <2>2, <3>2
      <4> QED
        BY <2>1, <2>4, <3>2, <4>1 DEF Begun
    <3> QED
      BY <3>1, <3>2
  <2> QED
    BY <2>3, <2>4, <2>5, SeqEqual
<1>14. Typed'
  <2>1. rd'.left \in Nat
    BY <1>3, <1>12
  <2>2. rd'.got \in Seq(Byte)
    BY <1>2, <1>12 DEF IInv, Typed
  <2> QED
    BY <1>1, <1>4, <1>5, <1>6, <2>1, <2>2 DEF IInv, Typed
<1>15. TypeOK'
  <2>1. rd'.left \in Nat
    BY <1>3, <1>12
  <2> QED
    BY <1>1, <1>6, <1>8, <2>1 DEF IInv, TypeOK
<1>16. CountIsContents'
  BY <1>1, <1>4, <1>6, <1>11 DEF IInv, CountIsContents
<1>17. WriteFollows'
  <2>1. WritePlace' = WritePlace
    BY <1>6 DEF WritePlace
  <2>2. Len(unread) - 1 \in 0 .. buf.ulSize - 1
        /\ (Len(unread) - 1) + 1 = Len(unread)
    BY <1>11, Shape
  <2>3. \A m : m = Len(unread) - 1 => Place(m)' = Place(Len(unread))
    BY <1>10, <2>2
  <2>4. Place(Len(unread))' = Place(Len(unread))
    BY <1>4, <2>3 DEF Place
  <2> QED
    BY <1>4, <1>6, <1>9, <1>11, <2>1, <2>4, Shape DEF IInv, WriteFollows
<1>18. ReadUnderWay'
  <2>1. unread = << >> => unread' = << >>
    BY <1>2
  <2> QED
    BY <1>1, <1>2, <1>6, <2>1 DEF IInv, ReadUnderWay
<1>19. UnreadInPlace'
  <2> SUFFICES ASSUME NEW i \in 1 .. Len(unread) - 1
               PROVE  unread'[i] = buf.plData[Place(i - 1)']
    BY <1>4, <1>6 DEF UnreadInPlace
  <2>1. /\ i - 1 \in 0 .. buf.ulSize - 1 /\ (i - 1) + 1 = i
        /\ i + 1 \in 1 .. Len(unread) /\ (i + 1) - 1 = i
    BY <1>11, Shape
  <2>2. Place(i - 1)' = Place(i)
    BY <1>10, <2>1
  <2>3. unread[i + 1] = buf.plData[Place((i + 1) - 1)]
    BY <2>1 DEF IInv, UnreadInPlace
  <2> QED
    BY <1>4, <2>1, <2>2, <2>3
<1>20. NoLostWakeup'
  BY <1>1 DEF NoLostWakeup
<1>21. Sections'
  <2>1. \A i \in 1 .. Len(unread') : SectionFrom(i)'
    <3> TAKE i \in 1 .. Len(unread')
    <3> DEFINE c == unread[i + 1]
    <3>1. i + 1 \in 1 .. Len(unread) /\ i \in 1 .. Len(unread) - 1
      BY <1>4, <1>11
    <3>2. /\ c.k \in 1 .. c.len
          /\ i + 1 + (c.len - c.k) <= Len(unread)
          /\ \A j \in 0 .. (c.len - c.k) :
               unread[i + 1 + j] = [tag |-> c.tag, k |-> c.k + j, len |-> c.len]
          /\ c.k = c.len /\ i + 1 < Len(unread) => unread[i + 1 + 1].k = 1
      BY <1>1, <3>1 DEF IInv, Sections, SectionFrom
    <3>3. c.k \in Nat /\ c.len \in Nat
      <4>1. unread \in Seq(Byte)
        BY DEF IInv, Typed
      <4>2. c \in Byte
        BY <3>1, <4>1
      <4> QED
        BY <4>2 DEF Byte
    <3>4. unread'[i] = c
      BY <1>4, <3>1
    <3> HIDE DEF c
    <3>5. \A j \in 0 .. (c.len - c.k) :
            unread'[i + j] = [tag |-> c.tag, k |-> c.k + j, len |-> c.len]
      <4> TAKE j \in 0 .. (c.len - c.k)
      <4>1. i + j \in 1 .. Len(unread) - 1 /\ (i + j) + 1 = i + 1 + j
        <5>1. c.k \in 1 .. c.len /\ i + 1 + (c.len - c.k) <= Len(unread)
          BY <3>2
        <5> QED
          BY <1>11, <3>1, <3>3, <5>1
      <4>2. unread'[i + j] = unread[i + 1 + j]
        BY <1>4, <4>1
      <4> QED
        BY <3>2, <4>2
    <3>6. c.k = c.len /\ i < Len(unread') => unread'[i + 1].k = 1
      <4> SUFFICES ASSUME c.k = c.len, i < Len(unread')
                   PROVE  unread'[i + 1].k = 1
        OBVIOUS
      <4>1. i + 1 \in 1 .. Len(unread) - 1 /\ i + 1 < Len(unread)
        BY <1>4, <1>11, <3>1
      <4> QED
        BY <1>4, <3>2, <4>1
    <3>7. i + (c.len - c.k) <= Len(unread')
      BY <1>4, <1>11, <3>1, <3>2, <3>3
    <3> QED
      BY <3>2, <3>4, <3>5, <3>6, <3>7 DEF SectionFrom
  <2>2. CASE rd.left = 1
    <3>1. b.k = b.len
      BY <1>3, <2>2
    <3>2. unread' # << >> => unread'[1].k = 1
      <4> SUFFICES ASSUME unread' # << >> PROVE unread'[1].k = 1
        OBVIOUS
      <4>1. Len(unread') # 0
        BY <1>4, EmptySeq
      <4>2. 1 \in 1 .. Len(unread) - 1 /\ 1 < Len(unread)
        BY <1>4, <1>11, <4>1
      <4> QED
        BY <1>3, <1>4, <3>1, <4>2
    <3>3. rd'.got = Begun(b, b.len)
      BY <1>3, <1>12, <1>13, <3>1
    <3>4. rd'.got[1] = [tag |-> b.tag, k |-> 1, len |-> b.len]
      <4>1. 1 \in 1 .. b.len
        BY <1>3
      <4> QED
        BY <3>3, <4>1 DEF Begun
    <3>5. rd'.got = Begun(rd'.got[1], rd'.got[1].len)
      <4>1. rd'.got[1].tag = b.tag /\ rd'.got[1].len = b.len
        BY <3>4
      <4>2. Begun(rd'.got[1], rd'.got[1].len) = Begun(b, b.len)
        BY <4>1 DEF Begun
      <4> QED
        BY <3>3, <4>2
    <3>6. pc' = "idle"
      BY <1>1, <2>2
    <3> HIDE DEF SectionFrom
    <3> QED
      BY <2>1, <3>2, <3>5, <3>6 DEF Sections, Begun
  <2>3. CASE rd.left # 1
    <3>1. b.k < b.len /\ 1 \in 0 .. (b.len - b.k)
      BY <1>3, <2>3
    <3>2. unread[1 + 1] = [tag |-> b.tag, k |-> b.k + 1, len |-> b.len]
      BY <1>3, <3>1
    <3>3. 1 \in 1 .. Len(unread) - 1
      BY <1>3, <1>11, <3>1
    <3>4. unread'[1] = [tag |-> b.tag, k |-> b.k + 1, len |-> b.len]
      BY <1>4, <3>2, <3>3
    <3>5. unread' # << >>
      BY <1>4, <1>11, <3>3, EmptySeq
    <3>6. rd'.left = unread'[1].len - unread'[1].k + 1
      BY <1>3, <1>12, <3>4
    <3>7. rd'.got = Begun(unread'[1], unread'[1].k - 1)
      <4>1. (b.k + 1) - 1 = b.k
        BY <1>3
      <4>2. Begun(unread'[1], unread'[1].k - 1) = Begun(b, b.k)
        BY <3>4, <4>1 DEF Begun
      <4> QED
        BY <1>3, <1>12, <1>13, <4>2
    <3>8. pc' = "loop"
      BY <1>1, <2>3
    <3> HIDE DEF SectionFrom
    <3> QED
      BY <2>1, <3>5, <3>6, <3>7, <3>8 DEF Sections, Begun
  <2> QED
    BY <2>2, <2>3
<1> QED
  BY <1>14, <1>15, <1>16, <1>17, <1>18, <1>19, <1>20, <1>21 DEF IInv

LEMMA TakeCountKeeps ==
    ASSUME IInv, NEW n \in 1 .. buf.ulSize, TakeCount(n)
    PROVE  IInv'
<1>1. /\ pc = "ready" /\ pc' = "copy" /\ type = "PES"
      /\ n \in 1 .. buf.count
      /\ rd' = [left |-> n, got |-> << >>]
      /\ UNCHANGED <<type, buf, states, unread, tag>>
  BY DEF TakeCount
<1>2. buf.count = Len(unread) /\ rd'.left = n /\ n \in Nat
  BY <1>1, Shape DEF IInv, CountIsContents
<1>3. Ahead' = Ahead
  BY <1>1 DEF Ahead
<1>4. WritePlace' = WritePlace /\ \A d : Place(d)' = Place(d)
  BY <1>1, <1>3 DEF WritePlace, Place
<1>5. Typed' /\ TypeOK'
  BY <1>1, <1>2 DEF IInv, Typed, TypeOK
<1>6. WriteFollows' /\ UnreadInPlace'
  BY <1>1, <1>3, <1>4 DEF IInv, WriteFollows, UnreadInPlace
<1>7. CountIsContents' /\ NoLostWakeup'
  BY <1>1, <1>2 DEF CountIsContents, NoLostWakeup
<1>8. ReadUnderWay'
  BY <1>1, <1>2 DEF IInv, ReadUnderWay
<1>9. Sections'
  BY <1>1 DEF Sections
<1> QED
  BY <1>5, <1>6, <1>7, <1>8, <1>9 DEF IInv

LEMMA CopyToUserKeeps ==
    ASSUME IInv, CopyToUser
    PROVE  IInv'
<1> DEFINE m == rd.left
           got == [i \in 1 .. rd.left |->
                     buf.plData[(buf.ulRead + i - 1) % buf.ulSize]]
<1>1. /\ pc = "copy" /\ pc' = "update" /\ type = "PES"
      /\ rd' = [rd EXCEPT !.got = got]
      /\ unread' = SubSeq(unread, m + 1, Len(unread))
      /\ UNCHANGED <<type, buf, states, tag>>
  BY DEF CopyToUser, IInv, ReadUnderWay
<1>2. /\ m \in 1 .. Len(unread) /\ Len(unread) \in Nat /\ m \in Nat \ {0}
      /\ buf.plData # NULL /\ buf.count = Len(unread)
      /\ states # "SET"
  <2>1. /\ m \in 1 .. Len(unread) /\ buf.plData # NULL
        /\ buf.count = Len(unread) /\ Len(unread) \in Nat
    BY <1>1, Shape DEF IInv, ReadUnderWay, CountIsContents
  <2>2. unread # << >>
    BY <2>1, EmptySeq
  <2> QED
    BY <2>1, <2>2 DEF IInv, ReadUnderWay
<1>3. /\ unread' \in Seq(Byte) /\ Len(unread') = Len(unread) - m
      /\ \A i \in 1 .. Len(unread) - m : unread'[i] = unread[m + i]
  <2>1. \A i \in m + 1 .. Len(unread) : unread[i] \in Byte
    <3> TAKE i \in m + 1 .. Len(unread)
    <3>1. i \in 1 .. Len(unread)
      BY <1>2
    <3> QED
      BY <3>1 DEF IInv, Typed
  <2>2. m + 1 \in Int /\ Len(unread) \in Int
    BY <1>2
  <2> HIDE DEF m
  <2>3. /\ unread' \in Seq(Byte)
        /\ Len(unread') = IF m + 1 <= Len(unread)
                          THEN Len(unread) - (m + 1) + 1 ELSE 0
        /\ \A i \in 1 .. Len(unread) - (m + 1) + 1 :
             unread'[i] = unread[m + 1 + i - 1]
    BY <1>1, <2>1, <2>2, SubSeqProperties
  <2>4. Len(unread') = Len(unread) - m
    BY <1>2, <2>3
  <2>5. \A i \in 1 .. Len(unread) - m : unread'[i] = unread[m + i]
    <3> TAKE i \in 1 .. Len(unread) - m
    <3>1. i \in 1 .. Len(unread) - (m + 1) + 1 /\ m + 1 + i - 1 = m + i
      BY <1>2
    <3> QED
      BY <2>3, <3>1
  <2> QED
    BY <2>3, <2>4, <2>5
<1>4. got \in Seq(Byte)
  <2>1. \A i \in 1 .. m :
           buf.plData[(buf.ulRead + i - 1) % buf.ulSize] \in Byte
    <3> TAKE i \in 1 .. m
    <3> DEFINE x == buf.ulRead + i - 1
    <3>1. x \in Nat /\ buf.ulSize \in Nat \ {0}
      BY <1>2, Shape
    <3> HIDE DEF x
    <3>2. x % buf.ulSize \in 0 .. buf.ulSize - 1
      BY <3>1
    <3>3. buf.plData[x % buf.ulSize] \in Byte
      BY <1>2, <3>2 DEF IInv, Typed
    <3> QED
      BY <3>3 DEF x
  <2> QED
    BY <1>2, <2>1
<1>5. /\ rd' = [left |-> m, got |-> got] /\ rd'.left = m
  <2> HIDE DEF got
  <2>1. rd' = [left |-> m, got |-> got]
    BY <1>1 DEF IInv, Typed
  <2> QED
    BY <2>1
<1> HIDE DEF got
<1>6. Ahead = 0 /\ Ahead' = m
  BY <1>1, <1>5 DEF Ahead
<1>7. \A d \in Nat : Place(d)' = Place(m + d)
  <2> TAKE d \in Nat
  <2>1. buf.ulRead + Ahead' + d = buf.ulRead + Ahead + (m + d)
    BY <1>2, <1>6, Shape
  <2> QED
    BY <1>1, <2>1 DEF Place
<1>8. Typed'
  BY <1>1, <1>2, <1>3, <1>4, <1>5 DEF IInv, Typed
<1>9. TypeOK'
  BY <1>1, <1>2, <1>5 DEF IInv, TypeOK
<1>10. CountIsContents' /\ NoLostWakeup'
  BY <1>1, <1>2, <1>3, <1>5 DEF CountIsContents, NoLostWakeup
<1>11. WriteFollows'
  <2>1. WritePlace' = WritePlace
    BY <1>1 DEF WritePlace
  <2>2. \A e \in Nat : e = Len(unread) - m => Place(e)' = Place(Len(unread))
    <3> TAKE e \in Nat
    <3> HAVE e = Len(unread) - m
    <3>1. m + e = Len(unread)
      BY <1>2
    <3> QED
      BY <1>7, <3>1
  <2>3. Place(Len(unread))' = Place(Len(unread))
    <3>1. Len(unread') \in Nat /\ Len(unread') = Len(unread) - m
      BY <1>2, <1>3
    <3> QED
      BY <2>2, <3>1 DEF Place
  <2>4. Len(unread') + Ahead' <= buf'.ulSize
    BY <1>1, <1>2, <1>3, <1>6, Shape
  <2> QED
    BY <2>1, <2>3, <2>4 DEF IInv, WriteFollows
<1>12. ReadUnderWay'
  BY <1>1, <1>2 DEF ReadUnderWay
<1>13. UnreadInPlace'
  <2> SUFFICES ASSUME NEW i \in 1 .. Len(unread) - m
               PROVE  unread'[i] = buf.plData[Place(i - 1)']
    BY <1>1, <1>3 DEF UnreadInPlace
  <2>1. /\ i - 1 \in Nat /\ m + (i - 1) = (m + i) - 1
        /\ m + i \in 1 .. Len(unread)
    BY <1>2
  <2>2. Place(i - 1)' = Place((m + i) - 1)
    BY <1>7, <2>1
  <2>3. unread[m + i] = buf.plData[Place((m + i) - 1)]
    BY <2>1 DEF IInv, UnreadInPlace
  <2> QED
    BY <1>3, <2>2, <2>3
<1>14. Sections'
  BY <1>1 DEF Sections
<1> QED
  BY <1>8, <1>9, <1>10, <1>11, <1>12, <1>13, <1>14 DEF IInv

LEMMA UpdateKeeps ==
    ASSUME IInv, Update
    PROVE  IInv'
<1>1. /\ pc = "update" /\ pc' = "idle" /\ type = "PES"
      /\ UNCHANGED <<type, states, rd, unread, tag>>
  BY DEF Update, IInv, ReadUnderWay
<1>2. buf' = [plData |-> buf.plData, ulSize |-> buf.ulSize,
              count |-> buf.count - rd.left,
              ulRead |-> (buf.ulRead + rd.left) % buf.ulSize,
              ulWrite |-> buf.ulWrite]
  BY DEF Update, IInv, Typed
<1>3. /\ buf'.plData = buf.plData /\ buf'.ulSize = buf.ulSize
      /\ buf'.count = buf.count - rd.left /\ buf'.ulWrite = buf.ulWrite
  BY <1>2
<1>4. buf'.ulRead = (buf.ulRead + rd.left) % buf.ulSize
  BY <1>2
<1>5. /\ rd.left \in Nat /\ Ahead = rd.left /\ Ahead' = 0
      /\ buf.count = Len(unread) + rd.left
      /\ rd.left + Len(unread) <= buf.ulSize
  BY <1>1, Shape DEF Ahead, IInv, TypeOK, CountIsContents
<1>6. buf'.ulRead \in 0 .. buf.ulSize - 1
  BY <1>4, <1>5, Shape
<1>7. ASSUME NEW d \in Nat, rd.left + d <= buf.ulSize
      PROVE  Place(d)' = Place(d)
  <2> DEFINE n == buf.ulSize
             s == buf.ulRead
             m == rd.left
  <2>1. /\ n \in Nat \ {0} /\ s \in 0 .. n - 1 /\ m \in Nat /\ m + d <= n
    BY <1>5, <1>7, Shape
  <2> HIDE DEF n, s, m
  <2>2. m \in 0 .. n /\ d \in 0 .. n /\ s + m + d < 2 * n
    BY <2>1
  <2>3. (((s + m) % n) + d) % n = (s + m + d) % n
    BY <2>1, <2>2, RingOn, Zenon
  <2>4. Place(d) = (s + m + d) % n
    BY <1>5 DEF Place, n, s, m
  <2>5. Place(d)' = (((s + m) % n) + d) % n
    <3>1. buf'.ulRead + Ahead' + d = buf'.ulRead + d
      BY <1>5, <1>6, Shape
    <3> QED
      BY <1>3, <1>4, <3>1 DEF Place, n, s, m
  <2> QED
    BY <2>3, <2>4, <2>5
<1>8. Typed'
  BY <1>1, <1>2, <1>3 DEF IInv, Typed
<1>9. TypeOK'
  <2>1. buf'.count \in 0 .. buf'.ulSize
    BY <1>3, <1>5, Shape
  <2> QED
    BY <1>1, <1>3, <1>6, <2>1 DEF IInv, TypeOK
<1>10. CountIsContents' /\ NoLostWakeup'
  BY <1>1, <1>3, <1>5, Shape DEF CountIsContents, NoLostWakeup
<1>11. WriteFollows'
  <2>1. WritePlace' = WritePlace
    BY <1>3 DEF WritePlace
  <2>2. \A e \in Nat : e = Len(unread) => Place(e)' = Place(Len(unread))
    BY <1>5, <1>7
  <2>3. Place(Len(unread))' = Place(Len(unread))
    BY <1>1, <2>2, Shape DEF Place
  <2>4. Len(unread') + Ahead' <= buf'.ulSize
    BY <1>1, <1>3, <1>5, Shape
  <2> QED
    BY <2>1, <2>3, <2>4 DEF IInv, WriteFollows
<1>12. ReadUnderWay'
  BY <1>1, <1>3 DEF IInv, ReadUnderWay
<1>13. UnreadInPlace'
  <2> SUFFICES ASSUME NEW i \in 1 .. Len(unread)
               PROVE  unread[i] = buf.plData[Place(i - 1)']
    BY <1>1, <1>3 DEF UnreadInPlace
  <2>1. i - 1 \in Nat /\ rd.left + (i - 1) <= buf.ulSize
    BY <1>5, Shape
  <2>2. Place(i - 1)' = Place(i - 1)
    BY <1>7, <2>1
  <2> QED
    BY <2>2 DEF IInv, UnreadInPlace
<1>14. Sections'
  BY <1>1 DEF Sections
<1> QED
  BY <1>8, <1>9, <1>10, <1>11, <1>12, <1>13, <1>14 DEF IInv

----------------------------------------------------------------------------
\* The other calls.

\* A call that leaves nothing unread and the ring as it is at the start.
LEMMA EmptyKeeps ==
    ASSUME IInv, pc = "idle", UNCHANGED <<type, pc, rd, tag>>,
           unread' = << >>, buf'.count = 0,
           buf' = [plData |-> buf'.plData, ulSize |-> buf'.ulSize,
                   count |-> buf'.count, ulRead |-> buf'.ulRead,
                   ulWrite |-> buf'.ulWrite],
           buf'.ulSize \in Sizes, buf'.ulRead = 0, buf'.ulWrite = Word - 1,
           buf'.plData # NULL => buf'.plData \in [0 .. buf'.ulSize - 1 -> Byte],
           states' \in {"SET", "READY", "START"},
           states' # "SET" => buf'.plData # NULL
    PROVE  IInv'
<1>1. Len(unread') = 0 /\ Ahead' = 0 /\ buf'.ulSize \in Nat \ {0}
  BY BufferAssumption DEF Ahead
<1>2. Typed'
  BY DEF IInv, Typed
<1>3. TypeOK'
  BY <1>1 DEF IInv, TypeOK
<1>4. CountIsContents' /\ NoLostWakeup' /\ ReadUnderWay' /\ UnreadInPlace'
  BY <1>1 DEF CountIsContents, NoLostWakeup, ReadUnderWay, UnreadInPlace
<1>5. WriteFollows'
  <2>1. 0 % buf'.ulSize = 0
    BY <1>1
  <2>2. WritePlace' = 0 /\ Place(Len(unread))' = 0
    BY <1>1, <2>1 DEF WritePlace, Place
  <2> QED
    BY <1>1, <2>2 DEF WriteFollows
<1>6. Sections'
  BY <1>1 DEF IInv, Sections, Begun
<1> QED
  BY <1>2, <1>3, <1>4, <1>5, <1>6 DEF IInv

LEMMA MemoryIsBytes ==
    ASSUME NEW n \in Nat \ {0}
    PROVE  vmalloc(n) \in [0 .. n - 1 -> Byte] /\ vmalloc(n) # NULL
<1>1. JUNK \in Byte
  BY BufferAssumption DEF JUNK, Byte
<1>2. DOMAIN vmalloc(n) # {}
  BY DEF vmalloc
<1> QED
  BY <1>1, <1>2 DEF vmalloc, NULL

LEMMA StartKeeps ==
    ASSUME IInv, DemuxFilterStart
    PROVE  IInv'
<1>1. /\ pc = "idle" /\ states' = "START"
      /\ states \in {"SET", "READY"}
      /\ UNCHANGED <<type, pc, rd, unread, tag>>
  BY DEF DemuxFilterStart, IInv, TypeOK
<1>2. vmalloc(buf.ulSize) \in [0 .. buf.ulSize - 1 -> Byte]
      /\ vmalloc(buf.ulSize) # NULL
  BY Shape, MemoryIsBytes
<1>3. /\ buf' = [buf EXCEPT !.plData = IF states = "SET" THEN vmalloc(buf.ulSize)
                                     ELSE buf.plData]
  BY <1>1 DEF DemuxFilterStart, IInv, Typed
<1>4. /\ buf' = [plData |-> buf'.plData, ulSize |-> buf.ulSize,
                 count |-> buf.count, ulRead |-> buf.ulRead,
                 ulWrite |-> buf.ulWrite]
      /\ buf'.plData = IF states = "SET" THEN vmalloc(buf.ulSize) ELSE buf.plData
  BY <1>3 DEF IInv, Typed
<1>5. /\ buf'.ulSize = buf.ulSize /\ buf'.count = buf.count
      /\ buf'.ulRead = buf.ulRead /\ buf'.ulWrite = buf.ulWrite
  BY <1>4
<1>6. /\ buf'.plData # NULL /\ buf'.plData \in [0 .. buf.ulSize - 1 -> Byte]
      /\ unread # << >> => buf'.plData = buf.plData
  BY <1>1, <1>2, <1>4 DEF IInv, ReadUnderWay, Typed
<1>7. Ahead' = Ahead
  BY <1>1 DEF Ahead
<1>8. WritePlace' = WritePlace /\ \A d : Place(d)' = Place(d)
  BY <1>5, <1>7 DEF WritePlace, Place
<1>9. Typed' /\ TypeOK'
  BY <1>1, <1>4, <1>5, <1>6 DEF IInv, Typed, TypeOK
<1>10. CountIsContents' /\ NoLostWakeup' /\ WriteFollows'
  BY <1>1, <1>5, <1>7, <1>8
  DEF IInv, CountIsContents, NoLostWakeup, WriteFollows
<1>11. ReadUnderWay'
  BY <1>1, <1>6 DEF ReadUnderWay
<1>12. UnreadInPlace'
  <2>1. unread = << >> => Len(unread) = 0
    OBVIOUS
  <2> QED
    BY <1>1, <1>6, <1>8, <2>1 DEF IInv, UnreadInPlace
<1>13. Sections'
  BY <1>1 DEF IInv, Sections, SectionFrom, Begun
<1> QED
  BY <1>9, <1>10, <1>11, <1>12, <1>13 DEF IInv

LEMMA StopKeeps ==
    ASSUME IInv, DemuxFilterStop
    PROVE  IInv'
<1> USE DEF DemuxFilterStop
<1>1. Ahead' = Ahead
  BY DEF Ahead
<1>2. WritePlace' = WritePlace /\ \A d : Place(d)' = Place(d)
  BY <1>1 DEF WritePlace, Place
<1>3. Typed' /\ TypeOK'
  BY DEF IInv, Typed, TypeOK
<1>4. WriteFollows' /\ UnreadInPlace'
  BY <1>1, <1>2 DEF IInv, WriteFollows, UnreadInPlace
<1>5. CountIsContents' /\ NoLostWakeup' /\ ReadUnderWay'
  BY DEF IInv, CountIsContents, NoLostWakeup, ReadUnderWay
<1>6. Sections'
  BY DEF IInv, Sections, SectionFrom, Begun
<1> QED
  BY <1>3, <1>4, <1>5, <1>6 DEF IInv

LEMMA SetKeeps ==
    ASSUME IInv, FilterSet
    PROVE  IInv'
<1>1. /\ buf' = [plData |-> buf.plData, ulSize |-> buf.ulSize, count |-> 0,
                 ulRead |-> 0, ulWrite |-> Word - 1]
  BY DEF FilterSet, Emptied, IInv, Typed
<1>2. /\ buf'.plData = buf.plData /\ buf'.ulSize = buf.ulSize
      /\ buf'.count = 0 /\ buf'.ulRead = 0 /\ buf'.ulWrite = Word - 1
  BY <1>1
<1> QED
  BY <1>1, <1>2, EmptyKeeps DEF FilterSet, IInv, TypeOK, Typed

\* A buffer is only replaced when the count is zero, which the code does not
\* reset.
LEMMA SetBufferSizeKeeps ==
    ASSUME Resize = "drained", IInv, NEW n \in Sizes, DemuxSetBufferSize(n)
    PROVE  IInv'
<1> DEFINE mem == IF states = "SET" THEN NULL ELSE vmalloc(n)
<1>1. /\ pc = "idle" /\ buf.count = 0
      /\ states' = IF states = "START" THEN "READY" ELSE states
      /\ states \in {"SET", "READY", "START"}
      /\ buf' = [buf EXCEPT !.plData = mem, !.ulSize = n, !.ulRead = 0,
                            !.ulWrite = Word - 1]
      /\ unread' = << >>
      /\ UNCHANGED <<type, pc, rd, tag>>
  BY DEF DemuxSetBufferSize, IInv, TypeOK
<1>2. /\ vmalloc(n) \in [0 .. n - 1 -> Byte] /\ vmalloc(n) # NULL
  BY BufferAssumption, MemoryIsBytes
<1>3. /\ mem # NULL => mem \in [0 .. n - 1 -> Byte]
      /\ states' # "SET" => mem # NULL
  BY <1>1, <1>2
<1> HIDE DEF mem
<1>4. buf' = [plData |-> mem, ulSize |-> n, count |-> buf.count,
              ulRead |-> 0, ulWrite |-> Word - 1]
  BY <1>1 DEF IInv, Typed
<1>5. /\ buf'.plData = mem /\ buf'.ulSize = n /\ buf'.count = 0
      /\ buf'.ulRead = 0 /\ buf'.ulWrite = Word - 1
  BY <1>1, <1>4
<1>6. states' \in {"SET", "READY", "START"}
  BY <1>1
<1> QED
  BY <1>1, <1>3, <1>4, <1>5, <1>6, EmptyKeeps

----------------------------------------------------------------------------
LEMMA StutterKeeps ==
    ASSUME IInv, UNCHANGED vars
    PROVE  IInv'
<1> USE DEF vars
<1>1. Ahead' = Ahead
  BY DEF Ahead
<1>2. WritePlace' = WritePlace /\ \A d : Place(d)' = Place(d)
  BY <1>1 DEF WritePlace, Place
<1>3. Typed' /\ TypeOK'
  BY DEF IInv, Typed, TypeOK
<1>4. WriteFollows' /\ UnreadInPlace'
  BY <1>1, <1>2 DEF IInv, WriteFollows, UnreadInPlace
<1>5. CountIsContents' /\ NoLostWakeup' /\ ReadUnderWay'
  BY DEF IInv, CountIsContents, NoLostWakeup, ReadUnderWay
<1>6. Sections'
  BY DEF IInv, Sections, SectionFrom, Begun
<1> QED
  BY <1>3, <1>4, <1>5, <1>6 DEF IInv

LEMMA NextIInv ==
    ASSUME Resize = "drained", IInv, [Next]_vars
    PROVE  IInv'
<1>1. CASE \E len \in Lens : \E q \in 1 .. len : DemuxCallback(len, q)
  BY <1>1, CallbackKeeps
<1>2. CASE ReadCall \/ Timeout \/ Woken
  BY <1>2, CallKeeps
<1>3. CASE \E fits \in BOOLEAN : ReadHeader(fits)
  BY <1>3, ReadHeaderKeeps
<1>4. CASE CountDown
  BY <1>4, CountDownKeeps
<1>5. CASE PutUser
  BY <1>5, PutUserKeeps
<1>6. CASE \E n \in 1 .. buf.ulSize : TakeCount(n)
  BY <1>6, TakeCountKeeps
<1>7. CASE CopyToUser
  BY <1>7, CopyToUserKeeps
<1>8. CASE Update
  BY <1>8, UpdateKeeps
<1>9. CASE DemuxFilterStart
  BY <1>9, StartKeeps
<1>10. CASE DemuxFilterStop
  BY <1>10, StopKeeps
<1>11. CASE FilterSet
  BY <1>11, SetKeeps
<1>12. CASE \E n \in Sizes : DemuxSetBufferSize(n)
  BY <1>12, SetBufferSizeKeeps
<1>13. CASE UNCHANGED vars
  BY <1>13, StutterKeeps
<1> QED
  BY <1>1, <1>2, <1>3, <1>4, <1>5, <1>6, <1>7, <1>8, <1>9, <1>10, <1>11,
     <1>12, <1>13 DEF Next, Read

LEMMA Invariance == Resize = "drained" => (Spec => []IInv)
<1> SUFFICES ASSUME Resize = "drained" PROVE Spec => []IInv
  OBVIOUS
<1> QED
  BY InitIInv, NextIInv, PTL DEF Spec

\* The read and write pointers stay in the buffer, and the count tells what
\* is in it but for the bytes a read has in hand (demux/xp_osd_drv.c).
THEOREM RecordIsTrue == Resize = "drained" => (Spec => []BufferIsContents)
<1>1. IInv => BufferIsContents
  BY DEF IInv, BufferIsContents
<1> QED
  BY <1>1, Invariance, PTL

\* Whatever arrives between the steps of a read, no byte that is stored and
\* not yet copied out is overwritten, and the read finds it.
THEOREM NoByteLost == Resize = "drained" => (Spec => []UnreadIntact)
<1>1. IInv => UnreadIntact
  <2> SUFFICES ASSUME IInv, NEW i \in 1 .. Len(unread)
               PROVE  unread[i] = buf.plData[(buf.ulRead + (i - 1)
                         + (IF pc = "update" THEN rd.left ELSE 0)) % buf.ulSize]
    BY DEF UnreadIntact
  <2>1. buf.ulRead + (i - 1) + (IF pc = "update" THEN rd.left ELSE 0)
          = buf.ulRead + Ahead + (i - 1)
    BY Shape DEF Ahead
  <2>2. Place(i - 1) = (buf.ulRead + (i - 1)
                         + (IF pc = "update" THEN rd.left ELSE 0)) % buf.ulSize
    BY <2>1 DEF Place
  <2> QED
    BY <2>2 DEF IInv, UnreadInPlace
<1> QED
  BY <1>1, Invariance, PTL

\* demux_filter_read on a section filter returns one whole section.
THEOREM SectionsWhole == Resize = "drained" => (Spec => []WholeSections)
<1>1. IInv => WholeSections
  BY DEF IInv, Sections, WholeSections, Begun
<1> QED
  BY <1>1, Invariance, PTL

\* The test and the sleep of demux_filter_read are one critical section, and
\* the callbacks wake it: it sleeps only while there is nothing.  This needs
\* nothing else of the slot.
THEOREM SleepsOnlyWhenEmpty == Spec => []NoLostWakeup
<1>1. Init => NoLostWakeup
  BY DEF Init, NoLostWakeup
<1>2. NoLostWakeup /\ [Next]_vars => NoLostWakeup'
  <2> SUFFICES ASSUME NoLostWakeup, [Next]_vars, pc' = "asleep"
               PROVE  buf'.count <= 0
    BY DEF NoLostWakeup
  <2>1. ASSUME NEW len \in Lens, NEW q \in 1 .. len, DemuxCallback(len, q)
        PROVE  buf' = buf /\ pc = "asleep"
    BY <2>1 DEF DemuxCallback, wake_up
  <2>2. CASE Read
    <3>1. buf' = buf /\ (pc = "asleep" \/ buf.count <= 0)
      BY <2>2 DEF Read, ReadCall, Timeout, Woken, ReadHeader, CountDown,
                  PutUser, TakeCount, CopyToUser, Update
    <3> QED
      BY <3>1 DEF NoLostWakeup
  <2>3. CASE UNCHANGED vars
    BY <2>3 DEF vars, NoLostWakeup
  <2>4. pc' = "asleep" => pc # "idle"
                       \/ ~(\/ DemuxFilterStart \/ DemuxFilterStop \/ FilterSet
                            \/ \E n \in Sizes : DemuxSetBufferSize(n))
    BY DEF DemuxFilterStart, DemuxFilterStop, FilterSet, DemuxSetBufferSize
  <2>5. ~(\/ DemuxFilterStart \/ DemuxFilterStop \/ FilterSet
          \/ \E n \in Sizes : DemuxSetBufferSize(n))
    BY <2>4 DEF DemuxFilterStart, DemuxFilterStop, FilterSet, DemuxSetBufferSize
  <2> QED
    BY <2>1, <2>2, <2>3, <2>5 DEF Next, NoLostWakeup
<1> QED
  BY <1>1, <1>2, PTL DEF Spec

============================================================================
