---------------------------- MODULE DemuxDrvProofs ----------------------------
(***************************************************************************)
(* For every number of slots, channels, PIDs and pending deletions: a slot *)
(* keeps what it set, a started section filter receives its PID, and the   *)
(* shared channels are counted and returned.                               *)
(*                                                                         *)
(* The use count of a channel is the number of section filters attached to *)
(* it, so what a reset does with the channel after its sleep depends on    *)
(* everybody else being off it.                                            *)
(***************************************************************************)
EXTENDS DemuxDrv, FiniteSetTheorems, TLAPS

\* Applications use the device for one kind of filter at a time, call after call, and there are
\* filters for all slots and for the deletions that wait for the hardware (the hardware has 64,
\* the device 32 slots).
InOrder ==
  /\ ~Parallel
  /\ Uses \subseteq {{"SEC"}, {"MEMORY"}}
  /\ NumBlock >= NumFilter + MaxPending

-----------------------------------------------------------------------------
\* The inductive invariant.  S is the set of slots whose call sleeps in a reset; their users are
\* off the channels' counts.  P is the set of slots whose para.pid is ahead of their channel.

Holds(d, f) == d.filter[f].states >= SET

\* The section filters counted on channel c.
Users(d, S, c) ==
  {f \in Filters : Holds(d, f) /\ f \notin S /\ d.filter[f].chid = c}

\* A slot that is set has its channel and its filter, on each other; any other has neither.
SlotSound(d, f) ==
  LET s == d.filter[f]
  IN  /\ ~Holds(d, f) => s.chid = NONE /\ s.fid = NONE
      /\ Holds(d, f) => /\ s.type = "SEC" /\ s.chid \in Channels /\ s.fid \in Blocks
                        /\ d.channel[s.chid].status # "UNUSED"
                        /\ d.block[s.fid].state \in {"DISABLED", "ENABLED"}
                        /\ d.block[s.fid].ch = s.chid
      /\ s.states = START => /\ d.channel[s.chid].status = "ENABLED"
                             /\ d.block[s.fid].state = "ENABLED"

Apart(d) ==
  \A f, g \in Filters :
    f # g /\ Holds(d, f) /\ Holds(d, g) => d.filter[f].fid # d.filter[g].fid

Counted(d, S) == \A c \in Channels : d.dev[c].inuse = Cardinality(Users(d, S, c))

ByPid(d, P) ==
  /\ \A f \in Filters \ P : Holds(d, f) =>
       d.channel[d.filter[f].chid].pid = d.filter[f].pid
  /\ \A f, g \in Filters \ P :
       Holds(d, f) /\ Holds(d, g) /\ d.filter[f].pid = d.filter[g].pid
         => d.filter[f].chid = d.filter[g].chid

\* The driver's account of a channel never says more than the channel.
Account(d) ==
  \A c \in Channels : d.dev[c].state = "ENABLED" => d.channel[c].status = "ENABLED"

Owned(d) ==
  /\ \A c \in Channels : d.channel[c].status # "UNUSED" =>
       \E f \in Filters : Holds(d, f) /\ d.filter[f].chid = c
  /\ \A b \in Blocks : d.block[b].state \in {"DISABLED", "ENABLED"} =>
       \E f \in Filters : Holds(d, f) /\ d.filter[f].fid = b

Sec(d, S, P) ==
  /\ d \in Tables
  /\ \A f \in Filters : SlotSound(d, f)
  /\ \A f \in S : d.filter[f].type = "SEC" /\ d.filter[f].states \in {ALLOC, SET, READY}
  /\ Apart(d) /\ Counted(d, S) /\ ByPid(d, P) /\ Account(d) /\ Owned(d)
  /\ Cardinality(Pending(d)) <= MaxPending

\* PES filters: no table-section filter, and a channel has one slot.  P: pes_para.pid is ahead.
PesSound(d, P, f) ==
  LET s == d.filter[f]
  IN  /\ s.type \in {"none", "PES"} /\ s.fid = NONE /\ s.out = "MEMORY"
      /\ Holds(d, f) => s.type = "PES"
      /\ ~Holds(d, f) => s.chid = NONE
      /\ s.chid # NONE => /\ d.channel[s.chid].status # "UNUSED"
                          /\ f \notin P => d.channel[s.chid].pid = s.pes
                          /\ \A g \in Filters : g # f => d.filter[g].chid # s.chid
      /\ s.states = START => s.chid # NONE /\ d.channel[s.chid].status = "ENABLED"

Pes(d, P) ==
  /\ d \in Tables
  /\ \A f \in Filters : PesSound(d, P, f)
  /\ \A c \in Channels : d.dev[c].inuse = 0
  /\ \A b \in Blocks : d.block[b].state = "NULL"
  /\ \A c \in Channels : d.channel[c].status # "UNUSED" =>
       \E f \in Filters : d.filter[f].chid = c

Sleepers == {f \in Filters : Asleep(f)}

IInv ==
  /\ kinds \in {{"SEC"}, {"MEMORY"}} /\ kinds \in Uses
  /\ todo \in [Filters -> Todo]
  /\ \A f, g \in Filters : Asleep(f) /\ Asleep(g) => f = g
  /\ \A f \in Filters : todo[f] = "SEC" => dmx.filter[f].pid \in Pids
  /\ kinds = {"SEC"} => Sec(dmx, Sleepers, Sleepers)
  /\ kinds = {"MEMORY"} => Sleepers = {} /\ Pes(dmx, {})

-----------------------------------------------------------------------------
\* Facts about the operators.

\* A set of numbers in 1 .. n has a least and a greatest member, which Min and Max name.
LEMMA LeastAndGreatest ==
  ASSUME NEW n \in Nat, NEW T \in SUBSET (1 .. n), T # {}
  PROVE  Min(T) \in T /\ Max(T) \in T
<1> DEFINE R == OpToRel(<, Nat)
<1>1. IsWellFoundedOn(R, Nat)
  BY NatLessThanWellFounded
<1>2. \E m \in T : \A x \in T : <<x, m>> \notin R
  <2> HIDE DEF R
  <2>1. T \subseteq Nat
    OBVIOUS
  <2> QED
    BY <1>1, <2>1, WFMin, Zenon
<1>3. Min(T) \in T
  <2>1. PICK m \in T : \A x \in T : <<x, m>> \notin R
    BY <1>2
  <2>2. \A x \in T : m <= x
    <3> SUFFICES ASSUME NEW x \in T, x < m PROVE FALSE
      OBVIOUS
    <3>1. <<x, m>> \in {ss \in Nat \X Nat : ss[1] < ss[2]}
      OBVIOUS
    <3> QED
      BY <2>1, <3>1 DEF OpToRel
  <2> QED
    BY <2>2 DEF Min
<1>4. Max(T) \in T
  <2> DEFINE U == {n - x : x \in T}
  <2>1. \E m \in U : \A x \in U : <<x, m>> \notin R
    <3> HIDE DEF R
    <3>1. U \subseteq Nat
      OBVIOUS
    <3>2. U # {}
      OBVIOUS
    <3> HIDE DEF U
    <3> QED
      BY <1>1, <3>1, <3>2, WFMin, Zenon
  <2>2. PICK m \in T : \A x \in T : <<n - x, n - m>> \notin R
    BY <2>1
  <2>3. \A x \in T : m >= x
    <3> SUFFICES ASSUME NEW x \in T, m < x PROVE FALSE
      OBVIOUS
    <3>1. <<n - x, n - m>> \in {ss \in Nat \X Nat : ss[1] < ss[2]}
      OBVIOUS
    <3> QED
      BY <2>2, <3>1 DEF OpToRel
  <2> QED
    BY <2>3 DEF Max
<1> QED
  BY <1>3, <1>4

LEMMA FiltersFinite ==
  /\ IsFiniteSet(Filters) /\ Cardinality(Filters) = NumFilter
  /\ \A T \in SUBSET Filters :
       IsFiniteSet(T) /\ Cardinality(T) \in Nat /\ Cardinality(T) <= NumFilter
<1>1. IsFiniteSet(Filters) /\ Cardinality(Filters) = NumFilter
  <2>1. NumFilter \in Nat /\ 1 <= NumFilter
    BY DemuxAssumption
  <2> QED
    BY <2>1, FS_Interval DEF Filters
<1>2. ASSUME NEW T \in SUBSET Filters
      PROVE  IsFiniteSet(T) /\ Cardinality(T) \in Nat /\ Cardinality(T) <= NumFilter
  BY <1>1, FS_Subset, FS_CardinalityType
<1> QED
  BY <1>1, <1>2

LEMMA BlocksFinite ==
  /\ Cardinality(Blocks) = NumBlock
  /\ \A T \in SUBSET Blocks : IsFiniteSet(T) /\ Cardinality(T) \in Nat
<1>1. IsFiniteSet(Blocks) /\ Cardinality(Blocks) = NumBlock
  <2>1. NumBlock \in Nat /\ 1 <= NumBlock
    BY DemuxAssumption
  <2> QED
    BY <2>1, FS_Interval DEF Blocks
<1> QED
  BY <1>1, FS_Subset, FS_CardinalityType

\* A count of one or of nothing says who is on a channel.
LEMMA WhoIsCounted ==
  ASSUME NEW T \in SUBSET Filters, NEW f \in Filters
  PROVE  /\ Cardinality(T) = 0 => T = {}
         /\ Cardinality(T) = 1 /\ f \in T => T = {f}
         /\ f \in T => Cardinality(T) >= 1
         /\ f \in T => Cardinality(T \ {f}) = Cardinality(T) - 1
         /\ f \notin T => Cardinality(T \cup {f}) = Cardinality(T) + 1
<1>1. IsFiniteSet(T) /\ Cardinality(T) \in Nat
  BY FiltersFinite
<1>2. Cardinality(T) = 0 => T = {}
  BY <1>1, FS_EmptySet
<1>3. Cardinality(T) = 1 /\ f \in T => T = {f}
  BY <1>1, FS_Singleton
<1>4. f \in T => Cardinality(T \ {f}) = Cardinality(T) - 1
  BY <1>1, FS_RemoveElement
<1>5. f \notin T => Cardinality(T \cup {f}) = Cardinality(T) + 1
  BY <1>1, FS_AddElement
<1>6. f \in T => Cardinality(T) >= 1
  BY <1>1, <1>2
<1> QED
  BY <1>2, <1>3, <1>4, <1>5, <1>6

\* Blocks that stop being pending are no more than there were.
LEMMA FewerPending ==
  ASSUME NEW d, NEW e, Pending(e) \subseteq Pending(d), Cardinality(Pending(d)) <= MaxPending
  PROVE  Cardinality(Pending(e)) <= MaxPending
<1>1. Pending(d) \in SUBSET Blocks /\ Pending(e) \in SUBSET Blocks
  BY DEF Pending
<1>2. Cardinality(Pending(e)) <= Cardinality(Pending(d))
  BY <1>1, BlocksFinite, FS_Subset
<1> QED
  BY <1>1, <1>2, BlocksFinite, DemuxAssumption

-----------------------------------------------------------------------------
\* The rows of the tables, and writing one.

FilterRow == [states : FREE .. START, type : {"none", "SEC", "PES"},
              chid : Channels \cup {NONE}, fid : Blocks \cup {NONE},
              pid : Pids \cup {NONE}, pes : Pids \cup {NONE}, out : {"MEMORY", "NOTHING"}]
DevRow     == [inuse : -NumFilter .. NumFilter, state : {"UNUSED", "DISABLED", "ENABLED"}]
ChannelRow == [status : {"UNUSED", "DISABLED", "ENABLED"}, pid : Pids \cup {NONE}]
BlockRow   == [state : {"NULL", "DISABLED", "ENABLED", "PENDING"}, ch : Channels \cup {NONE}]

LEMMA TablesAre ==
  Tables = [filter : [Filters -> FilterRow], dev : [Channels -> DevRow],
            channel : [Channels -> ChannelRow], block : [Blocks -> BlockRow]]
BY DEF Tables, FilterRow, DevRow, ChannelRow, BlockRow

LEMMA Columns ==
  ASSUME NEW d \in Tables
  PROVE  /\ d = [filter |-> d.filter, dev |-> d.dev, channel |-> d.channel, block |-> d.block]
         /\ d.filter \in [Filters -> FilterRow] /\ d.dev \in [Channels -> DevRow]
         /\ d.channel \in [Channels -> ChannelRow] /\ d.block \in [Blocks -> BlockRow]
BY TablesAre

\* One row is written, and nothing else changes.
WithFilter(d, f, s)  == [d EXCEPT !.filter[f] = s]
WithDev(d, c, s)     == [d EXCEPT !.dev[c] = s]
WithChannel(d, c, s) == [d EXCEPT !.channel[c] = s]
WithBlock(d, b, s)   == [d EXCEPT !.block[b] = s]
BlockState(d, b, x)  == [d EXCEPT !.block[b].state = x]
DevState(d, c, x)    == [d EXCEPT !.dev[c].state = x]

LEMMA WriteFilter ==
  ASSUME NEW d \in Tables, NEW f \in Filters, NEW s \in FilterRow,
         NEW e, e = WithFilter(d, f, s)
  PROVE  /\ e \in Tables
         /\ e = [filter |-> [d.filter EXCEPT ![f] = s], dev |-> d.dev,
                 channel |-> d.channel, block |-> d.block]
BY TablesAre, Columns DEF WithFilter

LEMMA WriteDev ==
  ASSUME NEW d \in Tables, NEW c \in Channels, NEW s \in DevRow,
         NEW e, e = WithDev(d, c, s)
  PROVE  /\ e \in Tables
         /\ e = [filter |-> d.filter, dev |-> [d.dev EXCEPT ![c] = s],
                 channel |-> d.channel, block |-> d.block]
BY TablesAre, Columns DEF WithDev

LEMMA WriteChannel ==
  ASSUME NEW d \in Tables, NEW c \in Channels, NEW s \in ChannelRow,
         NEW e, e = WithChannel(d, c, s)
  PROVE  /\ e \in Tables
         /\ e = [filter |-> d.filter, dev |-> d.dev,
                 channel |-> [d.channel EXCEPT ![c] = s], block |-> d.block]
BY TablesAre, Columns DEF WithChannel

LEMMA WriteBlock ==
  ASSUME NEW d \in Tables, NEW b \in Blocks, NEW s \in BlockRow,
         NEW e, e = WithBlock(d, b, s)
  PROVE  /\ e \in Tables
         /\ e = [filter |-> d.filter, dev |-> d.dev,
                 channel |-> d.channel, block |-> [d.block EXCEPT ![b] = s]]
BY TablesAre, Columns DEF WithBlock

LEMMA FreeBlocksIs ==
  ASSUME NEW d \in Tables, NEW B, NEW e, e = FreeBlocks(d, B)
  PROVE  /\ e \in Tables
         /\ e = [filter |-> d.filter, dev |-> d.dev, channel |-> d.channel,
                 block |-> [x \in Blocks |-> IF x \in B THEN NullBlock ELSE d.block[x]]]
<1> DEFINE k == [x \in Blocks |-> IF x \in B THEN NullBlock ELSE d.block[x]]
<1>1. NullBlock \in BlockRow
  BY DEF NullBlock, BlockRow
<1>2. k \in [Blocks -> BlockRow]
  BY <1>1, Columns
<1>3. e = [filter |-> d.filter, dev |-> d.dev, channel |-> d.channel, block |-> k]
  BY Columns DEF FreeBlocks
<1> HIDE DEF k
<1> QED
  BY <1>2, <1>3, Columns, TablesAre DEF k

\* The fields of a row.
LEMMA FieldTypes ==
  ASSUME NEW d \in Tables
  PROVE  /\ \A f \in Filters :
              /\ d.filter[f].states \in FREE .. START
              /\ d.filter[f].chid \in Channels \cup {NONE}
              /\ d.filter[f].fid \in Blocks \cup {NONE}
              /\ d.filter[f].pid \in Pids \cup {NONE}
         /\ \A c \in Channels : d.dev[c].inuse \in Int
<1>1. ASSUME NEW s \in FilterRow
      PROVE  /\ s.states \in FREE .. START /\ s.chid \in Channels \cup {NONE}
             /\ s.fid \in Blocks \cup {NONE} /\ s.pid \in Pids \cup {NONE}
  BY <1>1 DEF FilterRow
<1>2. ASSUME NEW s \in DevRow PROVE s.inuse \in Int
  <2>1. s.inuse \in -NumFilter .. NumFilter
    BY <1>2 DEF DevRow
  <2> QED
    BY <2>1, DemuxAssumption
<1> QED
  BY <1>1, <1>2, Columns

LEMMA NoneIsNone == NONE \notin Channels /\ NONE \notin Blocks /\ NONE \notin Pids
BY DEF NONE, Channels, Blocks, Pids

\* A row with another state.
LEMMA RowStates ==
  ASSUME NEW s \in FilterRow, NEW x \in FREE .. START
  PROVE  /\ [s EXCEPT !.states = x] \in FilterRow
         /\ [s EXCEPT !.states = x].states = x
BY DEF FilterRow

-----------------------------------------------------------------------------
\* Section filters: every operation keeps the tables sound.

LEMMA StoppedIs ==
  ASSUME NEW d \in Tables, NEW f \in Filters, NEW e, e = Stopped(d, f)
  PROVE  /\ e \in Tables
         /\ e = [filter |-> [d.filter EXCEPT ![f].states = READY], dev |-> d.dev,
                 channel |-> d.channel, block |-> d.block]
<1> DEFINE s == [d.filter[f] EXCEPT !.states = READY]
<1>1. s \in FilterRow
  <2>1. d.filter[f] \in FilterRow /\ READY \in FREE .. START
    BY Columns DEF READY, FREE, START
  <2> QED
    BY <2>1, RowStates
<1>2. e = WithFilter(d, f, s)
  BY Columns DEF Stopped, WithFilter
<1>3. [d.filter EXCEPT ![f].states = READY] = [d.filter EXCEPT ![f] = s]
  BY Columns
<1> HIDE DEF s
<1> QED
  BY <1>1, <1>2, <1>3, WriteFilter

\* Deletions are carried out.
LEMMA PendingIs ==
  ASSUME NEW d \in Tables, NEW c \in Channels, NEW e, e = process_pending(d, c)
  PROVE  /\ e \in Tables
         /\ e = [filter |-> d.filter, dev |-> d.dev, channel |-> d.channel,
                 block |-> [x \in Blocks |-> IF d.block[x] = [state |-> "PENDING", ch |-> c]
                                             THEN NullBlock ELSE d.block[x]]]
<1> DEFINE B == {b \in Blocks : d.block[b] = [state |-> "PENDING", ch |-> c]}
<1>1. e = FreeBlocks(d, B)
  BY DEF process_pending
<1>2. [x \in Blocks |-> IF x \in B THEN NullBlock ELSE d.block[x]]
        = [x \in Blocks |-> IF d.block[x] = [state |-> "PENDING", ch |-> c]
                            THEN NullBlock ELSE d.block[x]]
  OBVIOUS
<1> HIDE DEF B
<1> QED
  BY <1>1, <1>2, FreeBlocksIs

\* A channel is disabled, and what its filters waited for is done.
LEMMA DisableIs ==
  ASSUME NEW d \in Tables, NEW c \in Channels, NEW e, e = channel_disable(d, c)
  PROVE  /\ e \in Tables
         /\ e = [filter |-> d.filter, dev |-> d.dev,
                 channel |-> [d.channel EXCEPT ![c].status = "DISABLED"],
                 block |-> [x \in Blocks |-> IF d.block[x] = [state |-> "PENDING", ch |-> c]
                                             THEN NullBlock ELSE d.block[x]]]
<1> DEFINE s == [d.channel[c] EXCEPT !.status = "DISABLED"]
           k == [x \in Blocks |-> IF d.block[x] = [state |-> "PENDING", ch |-> c]
                                  THEN NullBlock ELSE d.block[x]]
<1>0. PICK p : p = process_pending(d, c)
  OBVIOUS
<1> HIDE DEF k
<1>1. p \in Tables /\ p = [filter |-> d.filter, dev |-> d.dev, channel |-> d.channel, block |-> k]
  BY <1>0, PendingIs DEF k
<1>2. s \in ChannelRow
  BY Columns DEF ChannelRow
<1>3. e = WithChannel(p, c, s)
  <2>1. e = [p EXCEPT !.channel[c].status = "DISABLED"]
    BY <1>0 DEF channel_disable
  <2> QED
    BY <2>1, <1>1, Columns DEF WithChannel
<1>4. [d.channel EXCEPT ![c].status = "DISABLED"] = [d.channel EXCEPT ![c] = s]
  BY Columns
<1> HIDE DEF s
<1>5. /\ e \in Tables
      /\ e = [filter |-> p.filter, dev |-> p.dev, channel |-> [p.channel EXCEPT ![c] = s],
              block |-> p.block]
  BY <1>1, <1>2, <1>3, WriteChannel
<1> QED
  BY <1>1, <1>4, <1>5 DEF k

\* The state of a block, or of the account of a channel, is written.
LEMMA BlockStateIs ==
  ASSUME NEW d \in Tables, NEW b \in Blocks, NEW x \in {"NULL", "DISABLED", "ENABLED", "PENDING"},
         NEW e, e = BlockState(d, b, x)
  PROVE  /\ e \in Tables
         /\ e = [filter |-> d.filter, dev |-> d.dev, channel |-> d.channel,
                 block |-> [d.block EXCEPT ![b] = [state |-> x, ch |-> d.block[b].ch]]]
<1> DEFINE s == [state |-> x, ch |-> d.block[b].ch]
<1>1. s \in BlockRow
  BY Columns DEF BlockRow
<1>2. e = WithBlock(d, b, s)
  BY Columns DEF WithBlock, BlockState, BlockRow
<1> HIDE DEF s
<1> QED
  BY <1>1, <1>2, WriteBlock DEF s

LEMMA DevStateIs ==
  ASSUME NEW d \in Tables, NEW c \in Channels, NEW x \in {"UNUSED", "DISABLED", "ENABLED"},
         NEW e, e = DevState(d, c, x)
  PROVE  /\ e \in Tables
         /\ e = [filter |-> d.filter,
                 dev |-> [d.dev EXCEPT ![c] = [inuse |-> d.dev[c].inuse, state |-> x]],
                 channel |-> d.channel, block |-> d.block]
<1> DEFINE s == [inuse |-> d.dev[c].inuse, state |-> x]
<1>1. s \in DevRow
  BY Columns DEF DevRow
<1>2. e = WithDev(d, c, s)
  BY Columns DEF WithDev, DevState, DevRow
<1> HIDE DEF s
<1> QED
  BY <1>1, <1>2, WriteDev DEF s

\* What DemuxFilterStop does to a started section filter on channel c, filter b.
StopEffect(d, f, c, b, e) ==
  /\ c \in Channels /\ b \in Blocks
  /\ e \in Tables
  /\ e.filter = [d.filter EXCEPT ![f].states = READY]
  /\ e.dev = IF d.dev[c].inuse = 1 THEN [d.dev EXCEPT ![c] = [inuse |-> d.dev[c].inuse, state |-> "DISABLED"]] ELSE d.dev
  /\ e.channel = IF d.dev[c].inuse = 1 THEN [d.channel EXCEPT ![c].status = "DISABLED"]
                 ELSE d.channel
  /\ \A x \in Blocks :
       e.block[x] = IF x = b THEN [state |-> "DISABLED", ch |-> c]
                    ELSE IF d.dev[c].inuse = 1 /\ d.block[x] = [state |-> "PENDING", ch |-> c]
                    THEN NullBlock ELSE d.block[x]

LEMMA StopIs ==
  ASSUME NEW P, NEW d, Sec(d, {}, P), NEW f \in Filters, d.filter[f].states = START
  PROVE  StopEffect(d, f, d.filter[f].chid, d.filter[f].fid, DemuxFilterStop(d, f))
<1> DEFINE c == d.filter[f].chid
           b == d.filter[f].fid
           e == DemuxFilterStop(d, f)
<1>a. PICK e1 : e1 = BlockState(d, b, "DISABLED")
  OBVIOUS
<1>b. PICK e2 : e2 = channel_disable(e1, c)
  OBVIOUS
<1>c. PICK e3 : e3 = DevState(e2, c, "DISABLED")
  OBVIOUS
<1>1. /\ d \in Tables /\ c \in Channels /\ b \in Blocks /\ d.filter[f].type = "SEC"
      /\ Valid(d, c) /\ Assigned(d, b) /\ d.block[b].ch = c
  BY DEF Sec, SlotSound, Holds, START, SET, Valid, Assigned
<1>2. /\ e1 \in Tables /\ e1.filter = d.filter /\ e1.dev = d.dev /\ e1.channel = d.channel
      /\ e1.block = [d.block EXCEPT ![b] = [state |-> "DISABLED", ch |-> c]]
  <2>1. /\ e1 \in Tables
        /\ e1 = [filter |-> d.filter, dev |-> d.dev, channel |-> d.channel,
                 block |-> [d.block EXCEPT ![b] = [state |-> "DISABLED", ch |-> d.block[b].ch]]]
    BY <1>1, <1>a, BlockStateIs
  <2> QED
    BY <2>1, <1>1
<1>3. /\ e1.block[b] = [state |-> "DISABLED", ch |-> c]
      /\ \A x \in Blocks : x # b => e1.block[x] = d.block[x]
  BY <1>1, <1>2, Columns
<1>4. Valid(e1, c) /\ c # NONE
  BY <1>1, <1>2, NoneIsNone DEF Valid
<1>5. e = IF d.dev[c].inuse # 1 THEN Stopped(e1, f) ELSE Stopped(e3, f)
  <2>1. ~(d.filter[f].states < START)
    BY DEF START
  <2>2. /\ e1 = [d EXCEPT !.block[b].state = "DISABLED"]
        /\ e3 = [channel_disable(e1, c) EXCEPT !.dev[c].state = "DISABLED"]
    BY <1>a, <1>b, <1>c DEF BlockState, DevState
  <2>3. e1.dev[c].inuse = d.dev[c].inuse
    BY <1>2
  <2> QED
    BY <1>1, <1>4, <2>1, <2>2, <2>3 DEF DemuxFilterStop
<1>6. /\ e2 \in Tables /\ e2.filter = d.filter /\ e2.dev = d.dev
      /\ e2.channel = [d.channel EXCEPT ![c].status = "DISABLED"]
      /\ e2.block = [x \in Blocks |-> IF e1.block[x] = [state |-> "PENDING", ch |-> c]
                                      THEN NullBlock ELSE e1.block[x]]
  <2>1. e1 \in Tables
    BY <1>2
  <2>2. /\ e2 \in Tables
        /\ e2 = [filter |-> e1.filter, dev |-> e1.dev,
                 channel |-> [e1.channel EXCEPT ![c].status = "DISABLED"],
                 block |-> [x \in Blocks |-> IF e1.block[x] = [state |-> "PENDING", ch |-> c]
                                             THEN NullBlock ELSE e1.block[x]]]
    BY <1>1, <2>1, <1>b, DisableIs
  <2> QED
    BY <2>2, <1>2
<1>7. /\ e3 \in Tables /\ e3.filter = d.filter /\ e3.channel = e2.channel /\ e3.block = e2.block
      /\ e3.dev = [d.dev EXCEPT ![c] = [inuse |-> d.dev[c].inuse, state |-> "DISABLED"]]
  <2>1. e2 \in Tables
    BY <1>6
  <2>2. /\ e3 \in Tables
        /\ e3 = [filter |-> e2.filter,
                 dev |-> [e2.dev EXCEPT ![c] = [inuse |-> e2.dev[c].inuse, state |-> "DISABLED"]],
                 channel |-> e2.channel, block |-> e2.block]
    BY <1>1, <2>1, <1>c, DevStateIs
  <2> QED
    BY <2>2, <1>6
<1>8. [state |-> "DISABLED", ch |-> c] # [state |-> "PENDING", ch |-> c]
  OBVIOUS
<1>9. CASE d.dev[c].inuse # 1
  <2>1. /\ e \in Tables /\ e.filter = [d.filter EXCEPT ![f].states = READY]
        /\ e.dev = d.dev /\ e.channel = d.channel /\ e.block = e1.block
    <3>1. e1 \in Tables /\ e = Stopped(e1, f)
      BY <1>2, <1>5, <1>9
    <3>2. e \in Tables /\ e = [filter |-> [e1.filter EXCEPT ![f].states = READY], dev |-> e1.dev,
                               channel |-> e1.channel, block |-> e1.block]
      BY <3>1, StoppedIs
    <3> QED
      BY <3>2, <1>2
  <2> QED
    BY <2>1, <1>1, <1>2, <1>3, <1>9 DEF StopEffect
<1>10. CASE d.dev[c].inuse = 1
  <2>1. /\ e \in Tables /\ e.filter = [d.filter EXCEPT ![f].states = READY]
        /\ e.dev = [d.dev EXCEPT ![c] = [inuse |-> d.dev[c].inuse, state |-> "DISABLED"]]
        /\ e.channel = e2.channel /\ e.block = e2.block
    <3>1. e3 \in Tables /\ e = Stopped(e3, f)
      BY <1>7, <1>5, <1>10
    <3>2. e \in Tables /\ e = [filter |-> [e3.filter EXCEPT ![f].states = READY], dev |-> e3.dev,
                               channel |-> e3.channel, block |-> e3.block]
      BY <3>1, StoppedIs
    <3> QED
      BY <3>2, <1>7
  <2>2. \A x \in Blocks :
          e.block[x] = IF x = b THEN [state |-> "DISABLED", ch |-> c]
                       ELSE IF d.block[x] = [state |-> "PENDING", ch |-> c]
                       THEN NullBlock ELSE d.block[x]
    BY <2>1, <1>2, <1>3, <1>6, <1>8
  <2> QED
    BY <2>1, <2>2, <1>1, <1>6, <1>10 DEF StopEffect
<1> QED
  BY <1>9, <1>10

\* A slot is stopped: it stays what it is, and so does everybody else.
LEMMA StopKeeps ==
  ASSUME NEW P \in SUBSET Filters, NEW d, Sec(d, {}, P), NEW f \in Filters,
         NEW e, e = DemuxFilterStop(d, f)
  PROVE  /\ Sec(e, {}, P)
         /\ e.filter = [d.filter EXCEPT ![f].states = IF @ = START THEN READY ELSE @]
<1>1. CASE d.filter[f].states # START
  <2>1. d.filter[f].states < START
    BY <1>1, FieldTypes DEF Sec, START, FREE
  <2>2. e = d
    BY <2>1 DEF DemuxFilterStop
  <2>3. d.filter = [d.filter EXCEPT ![f].states = IF @ = START THEN READY ELSE @]
    BY <1>1, Columns DEF Sec, FilterRow
  <2> QED
    BY <2>2, <2>3
<1>2. CASE d.filter[f].states = START
  <2> DEFINE c == d.filter[f].chid
             b == d.filter[f].fid
  <2>a. StopEffect(d, f, c, b, e)
    BY <1>2, StopIs
  <2>0. /\ d.filter[f].chid = c /\ d.filter[f].fid = b
        /\ f \in Users(d, {}, c) /\ Users(d, {}, c) \in SUBSET Filters
    BY <1>2 DEF Users, Holds, START, SET
  <2> HIDE DEF c, b
  <2>1. /\ c \in Channels /\ b \in Blocks
        /\ e \in Tables
        /\ e.filter = [d.filter EXCEPT ![f].states = READY]
        /\ e.dev = IF d.dev[c].inuse = 1 THEN [d.dev EXCEPT ![c] = [inuse |-> d.dev[c].inuse, state |-> "DISABLED"]]
                   ELSE d.dev
        /\ e.channel = IF d.dev[c].inuse = 1 THEN [d.channel EXCEPT ![c].status = "DISABLED"]
                       ELSE d.channel
        /\ \A x \in Blocks :
             e.block[x] = IF x = b THEN [state |-> "DISABLED", ch |-> c]
                          ELSE IF d.dev[c].inuse = 1 /\ d.block[x] = [state |-> "PENDING", ch |-> c]
                          THEN NullBlock ELSE d.block[x]
    BY <2>a DEF StopEffect
  <2>2. d \in Tables
    BY DEF Sec
  <2>3. /\ e.filter[f].states = READY
        /\ \A g \in Filters : /\ g # f => e.filter[g] = d.filter[g]
                              /\ e.filter[g].chid = d.filter[g].chid
                              /\ e.filter[g].fid = d.filter[g].fid
                              /\ e.filter[g].pid = d.filter[g].pid
                              /\ e.filter[g].type = d.filter[g].type
                              /\ Holds(e, g) <=> Holds(d, g)
    BY <1>2, <2>1, <2>2, Columns DEF Holds, START, READY, SET, FilterRow
  <2>4. \A k \in Channels : /\ Users(e, {}, k) = Users(d, {}, k)
                            /\ e.dev[k].inuse = d.dev[k].inuse
    BY <2>1, <2>2, <2>3, Columns DEF Users, DevRow
  <2>5. d.dev[c].inuse = 1 => Users(d, {}, c) = {f}
    <3>1. d.dev[c].inuse = Cardinality(Users(d, {}, c))
      BY <2>1 DEF Sec, Counted
    <3> DEFINE T == Users(d, {}, c)
    <3>2. T \in SUBSET Filters /\ f \in T
      BY <2>0
    <3> HIDE DEF T
    <3>3. Cardinality(T) = 1 => T = {f}
      BY <3>2, WhoIsCounted
    <3> QED
      BY <3>1, <3>3 DEF T
  <2>6. d.dev[c].inuse = 1 => \A g \in Filters : Holds(d, g) /\ d.filter[g].chid = c => g = f
    BY <2>5 DEF Users
  <2>7. \A k \in Channels : /\ e.channel[k].pid = d.channel[k].pid
                            /\ e.channel[k].status = "UNUSED" <=> d.channel[k].status = "UNUSED"
                            /\ k # c => e.channel[k] = d.channel[k] /\ e.dev[k] = d.dev[k]
    <3>1. d.channel[c].status # "UNUSED"
      BY <1>2, <2>0 DEF Sec, SlotSound, Holds, START, SET
    <3> QED
      BY <2>1, <2>2, <3>1, Columns DEF ChannelRow
  <2>8. \A x \in Blocks : x # b /\ d.block[x].state \in {"DISABLED", "ENABLED"} =>
          e.block[x] = d.block[x]
    BY <2>1
  <2>9. e.block[b] = [state |-> "DISABLED", ch |-> c]
    BY <2>1
  <2>10. \A x \in Blocks : e.block[x].state \in {"DISABLED", "ENABLED"} =>
           d.block[x].state \in {"DISABLED", "ENABLED"}
    BY <1>2, <2>0, <2>1 DEF NullBlock, Sec, SlotSound, Holds, START, SET
  <2>11. Apart(e)
    BY <2>3 DEF Sec, Apart
  <2>12. \A g \in Filters : g # f /\ Holds(d, g) =>
           /\ e.block[d.filter[g].fid] = d.block[d.filter[g].fid]
           /\ d.filter[g].fid # b
    BY <1>2, <2>0, <2>8 DEF Sec, SlotSound, Apart, Holds, START, SET
  <2>13. \A g \in Filters : SlotSound(e, g)
    <3> SUFFICES ASSUME NEW g \in Filters PROVE SlotSound(e, g)
      OBVIOUS
    <3>1. SlotSound(d, g)
      BY DEF Sec
    <3>2. CASE g = f
      <4>1. d.filter[f].type = "SEC" /\ d.channel[c].status # "UNUSED" /\ Holds(d, f)
        BY <1>2, <2>0, <3>1, <3>2 DEF SlotSound, Holds, START, SET
      <4>2. /\ e.filter[f].type = "SEC" /\ e.filter[f].chid = c /\ e.filter[f].fid = b
            /\ e.channel[c].status # "UNUSED" /\ Holds(e, f) /\ e.filter[f].states # START
        BY <2>0, <2>1, <2>3, <2>7, <4>1 DEF START, READY
      <4> QED
        BY <2>1, <2>9, <3>2, <4>2 DEF SlotSound
    <3>3. CASE g # f /\ ~Holds(d, g)
      BY <2>3, <3>1, <3>3 DEF SlotSound, Holds, START, SET
    <3>4. CASE g # f /\ Holds(d, g)
      <4>1. /\ d.filter[g].chid \in Channels /\ d.filter[g].type = "SEC"
            /\ d.filter[g].fid \in Blocks
        BY <3>1, <3>4 DEF SlotSound
      <4>2. e.filter[g] = d.filter[g]
        BY <2>3, <3>4
      <4>3. e.channel[d.filter[g].chid].status # "UNUSED"
        BY <2>7, <3>1, <3>4, <4>1 DEF SlotSound
      <4>4. d.filter[g].states = START => e.channel[d.filter[g].chid].status = "ENABLED"
        BY <2>1, <2>6, <2>7, <3>1, <3>4, <4>1 DEF SlotSound
      <4> QED
        BY <2>12, <3>1, <3>4, <4>1, <4>2, <4>3, <4>4 DEF SlotSound, Holds
    <3> QED
      BY <3>2, <3>3, <3>4
  <2>14. Counted(e, {})
    BY <2>4 DEF Sec, Counted
  <2>15. ByPid(e, P)
    BY <2>3, <2>7 DEF Sec, SlotSound, ByPid
  <2>16. Account(e)
    BY <2>1, <2>2, <2>7, Columns DEF Sec, Account, DevRow
  <2>17. Owned(e)
    BY <2>3, <2>7, <2>10 DEF Sec, Owned
  <2>18. Cardinality(Pending(e)) <= MaxPending
    <3>1. Pending(e) \subseteq Pending(d)
      BY <2>1 DEF Pending, NullBlock
    <3> QED
      BY <3>1, FewerPending DEF Sec
  <2>19. e.filter = [d.filter EXCEPT ![f].states = IF @ = START THEN READY ELSE @]
    BY <1>2, <2>1
  <2> QED
    BY <2>1, <2>11, <2>13, <2>14, <2>15, <2>16, <2>17, <2>18, <2>19 DEF Sec
<1> QED
  BY <1>1, <1>2

\* A slot that is not set is rewritten: opened, closed, given a PID.
LEMMA IdleWrite ==
  ASSUME NEW S \in SUBSET Filters, NEW P \in SUBSET Filters, NEW d, Sec(d, S, P),
         NEW f \in Filters, ~Holds(d, f), f \notin S,
         NEW s \in FilterRow, s.states < SET, s.chid = NONE, s.fid = NONE,
         NEW e, e = WithFilter(d, f, s)
  PROVE  Sec(e, S, P)
<1>1. /\ d \in Tables /\ e \in Tables
      /\ e = [filter |-> [d.filter EXCEPT ![f] = s], dev |-> d.dev,
              channel |-> d.channel, block |-> d.block]
  BY WriteFilter DEF Sec
<1>2. /\ e.filter[f] = s /\ e.dev = d.dev /\ e.channel = d.channel /\ e.block = d.block
      /\ \A g \in Filters : g # f => e.filter[g] = d.filter[g]
  BY <1>1, Columns
<1>3. /\ ~Holds(e, f)
      /\ \A g \in Filters : Holds(e, g) <=> Holds(d, g)
  <2>1. s.states \in 0 .. 4
    BY DEF FilterRow, FREE, START
  <2> QED
    BY <1>2, <2>1 DEF Holds, SET
<1>4. \A g \in Filters : SlotSound(e, g)
  <2> SUFFICES ASSUME NEW g \in Filters PROVE SlotSound(e, g)
    OBVIOUS
  <2>1. SlotSound(d, g)
    BY DEF Sec
  <2> QED
    BY <1>2, <1>3, <2>1 DEF SlotSound, Holds, START, SET
<1>5. \A g \in S : e.filter[g].type = "SEC" /\ e.filter[g].states \in {ALLOC, SET, READY}
  BY <1>2 DEF Sec
<1>6. Apart(e)
  BY <1>2, <1>3 DEF Sec, Apart
<1>7. Counted(e, S)
  <2>1. \A c \in Channels : Users(e, S, c) = Users(d, S, c)
    BY <1>2, <1>3 DEF Users
  <2> QED
    BY <1>2, <2>1 DEF Sec, Counted
<1>8. ByPid(e, P) /\ Account(e) /\ Owned(e)
  BY <1>2, <1>3 DEF Sec, ByPid, Account, Owned
<1>9. Cardinality(Pending(e)) <= MaxPending
  BY <1>2 DEF Sec, Pending
<1> QED
  BY <1>1, <1>4, <1>5, <1>6, <1>7, <1>8, <1>9 DEF Sec

\* The ioctl overwrites para.pid of a slot that is set.
LEMMA PidAhead ==
  ASSUME NEW d, Sec(d, {}, {}), NEW f \in Filters, NEW pid \in Pids,
         NEW e, e = [d EXCEPT !.filter[f].pid = pid]
  PROVE  Sec(e, {}, {f})
<1> DEFINE s == [d.filter[f] EXCEPT !.pid = pid]
<1>0. d \in Tables
  BY DEF Sec
<1>1. s \in FilterRow /\ e = WithFilter(d, f, s)
  BY <1>0, Columns DEF FilterRow, WithFilter
<1>2. /\ s.states = d.filter[f].states /\ s.type = d.filter[f].type
      /\ s.chid = d.filter[f].chid /\ s.fid = d.filter[f].fid
  BY <1>0, Columns DEF FilterRow
<1> HIDE DEF s
<1>3. /\ e \in Tables
      /\ e = [filter |-> [d.filter EXCEPT ![f] = s], dev |-> d.dev,
              channel |-> d.channel, block |-> d.block]
  BY <1>0, <1>1, WriteFilter
<1>4. /\ e.dev = d.dev /\ e.channel = d.channel /\ e.block = d.block
      /\ \A g \in Filters : /\ e.filter[g].states = d.filter[g].states
                            /\ e.filter[g].type = d.filter[g].type
                            /\ e.filter[g].chid = d.filter[g].chid
                            /\ e.filter[g].fid = d.filter[g].fid
                            /\ Holds(e, g) <=> Holds(d, g)
                            /\ g # f => e.filter[g] = d.filter[g]
  BY <1>0, <1>2, <1>3, Columns DEF Holds
<1>5. \A g \in Filters : SlotSound(e, g)
  <2> SUFFICES ASSUME NEW g \in Filters PROVE SlotSound(e, g)
    OBVIOUS
  <2>1. SlotSound(d, g)
    BY DEF Sec
  <2> QED
    BY <1>4, <2>1 DEF SlotSound
<1>6. Apart(e)
  BY <1>4 DEF Sec, Apart
<1>7. Counted(e, {})
  <2>1. \A c \in Channels : Users(e, {}, c) = Users(d, {}, c)
    BY <1>4 DEF Users
  <2> QED
    BY <1>4, <2>1 DEF Sec, Counted
<1>8. ByPid(e, {f})
  BY <1>4 DEF Sec, ByPid
<1>9. Account(e) /\ Owned(e)
  BY <1>4 DEF Sec, Account, Owned
<1>10. Cardinality(Pending(e)) <= MaxPending
  BY <1>4 DEF Sec, Pending
<1> QED
  BY <1>3, <1>5, <1>6, <1>7, <1>8, <1>9, <1>10 DEF Sec

\* A slot starts its reset: it is off the count of its channel.
LEMMA BeginKeeps ==
  ASSUME NEW d, NEW f \in Filters, Sec(d, {}, {f}), d.filter[f].type = "SEC",
         d.filter[f].states # FREE, NEW e, e = ResetBegin(d, f)
  PROVE  Sec(e, {f}, {f}) /\ e.filter[f].pid = d.filter[f].pid
<1>1. PICK u : u = DemuxFilterStop(d, f)
  OBVIOUS
<1>2. /\ Sec(u, {}, {f})
      /\ u.filter = [d.filter EXCEPT ![f].states = IF @ = START THEN READY ELSE @]
  <2>1. {f} \in SUBSET Filters
    OBVIOUS
  <2> QED
    BY <1>1, <2>1, StopKeeps
<1>3. /\ d \in Tables /\ u \in Tables
  BY <1>2 DEF Sec
<1>4. /\ u.filter[f].type = "SEC" /\ u.filter[f].states \in {ALLOC, SET, READY}
      /\ u.filter[f].pid = d.filter[f].pid
  <2>1. d.filter[f] \in FilterRow
    BY <1>3, Columns
  <2>2. d.filter[f].states \in {ALLOC, SET, READY, START}
    BY <1>3, FieldTypes DEF FREE, ALLOC, SET, READY, START
  <2>3. u.filter[f] = [d.filter[f] EXCEPT !.states = IF @ = START THEN READY ELSE @]
    BY <1>2, <1>3, Columns
  <2> QED
    BY <2>1, <2>2, <2>3 DEF FilterRow
<1> DEFINE c == u.filter[f].chid
<1>5. CASE c = NONE
  <2>1. e = u
    BY <1>1, <1>5 DEF ResetBegin
  <2>2. ~Holds(u, f)
    BY <1>2, <1>5, NoneIsNone DEF Sec, SlotSound
  <2>3. \A k \in Channels : Users(u, {f}, k) = Users(u, {}, k)
    BY <2>2 DEF Users
  <2>4. Counted(u, {f})
    BY <1>2, <2>3 DEF Sec, Counted
  <2> QED
    BY <1>2, <1>4, <2>1, <2>4 DEF Sec
<1>6. CASE c # NONE
  <2>1. c \in Channels /\ Holds(u, f)
    BY <1>2, <1>3, <1>6, FieldTypes DEF Sec, SlotSound
  <2> DEFINE T == Users(u, {}, c)
             s == [inuse |-> u.dev[c].inuse - 1, state |-> u.dev[c].state]
  <2>2. T \in SUBSET Filters /\ f \in T /\ u.dev[c].inuse = Cardinality(T)
    BY <1>2, <2>1 DEF Users, Sec, Counted
  <2>3. Users(u, {f}, c) = T \ {f} /\ \A k \in Channels : k # c => Users(u, {f}, k) = Users(u, {}, k)
    BY DEF Users
  <2>4. /\ Cardinality(T) \in Nat /\ Cardinality(T) <= NumFilter /\ Cardinality(T) >= 1
        /\ Cardinality(T \ {f}) = Cardinality(T) - 1
    <3> HIDE DEF T
    <3> QED
      BY <2>2, FiltersFinite, WhoIsCounted
  <2>5. s \in DevRow /\ e = WithDev(u, c, s)
    <3>1. u.dev[c] \in DevRow
      BY <1>3, <2>1, Columns
    <3>2. u.dev[c].state \in {"UNUSED", "DISABLED", "ENABLED"}
          /\ [u.dev[c] EXCEPT !.inuse = @ - 1] = s
      BY <3>1 DEF DevRow
    <3>3. u.dev[c].inuse - 1 \in -NumFilter .. NumFilter
      BY <2>2, <2>4, DemuxAssumption
    <3>4. e = [u EXCEPT !.dev[c] = [u.dev[c] EXCEPT !.inuse = @ - 1]]
      BY <1>1, <1>3, <1>6, <2>1, Columns DEF ResetBegin
    <3> QED
      BY <3>2, <3>3, <3>4 DEF DevRow, WithDev
  <2> HIDE DEF s, T, c
  <2>6. /\ e \in Tables
        /\ e = [filter |-> u.filter, dev |-> [u.dev EXCEPT ![c] = s],
                channel |-> u.channel, block |-> u.block]
    BY <1>3, <2>1, <2>5, WriteDev
  <2>7. /\ e.filter = u.filter /\ e.channel = u.channel /\ e.block = u.block
        /\ e.dev[c].inuse = u.dev[c].inuse - 1 /\ e.dev[c].state = u.dev[c].state
        /\ \A k \in Channels : k # c => e.dev[k] = u.dev[k]
    BY <1>3, <2>1, <2>6, Columns DEF s
  <2>8. \A g \in Filters : (Holds(e, g) <=> Holds(u, g)) /\ SlotSound(e, g)
    BY <1>2, <2>7, SMTT(30) DEF Sec, SlotSound, Holds
  <2>9. Counted(e, {f})
    <3>1. \A k \in Channels : Users(e, {f}, k) = Users(u, {f}, k)
      BY <2>7, <2>8 DEF Users
    <3>2. \A k \in Channels : k # c => e.dev[k].inuse = Cardinality(Users(e, {f}, k))
      <4>1. \A k \in Channels : u.dev[k].inuse = Cardinality(Users(u, {}, k))
        BY <1>2 DEF Sec, Counted
      <4>2. \A k \in Channels : k # c =>
              e.dev[k] = u.dev[k] /\ Users(e, {f}, k) = Users(u, {}, k)
        BY <2>3, <2>7, <3>1
      <4> QED
        BY <4>1, <4>2
    <3>3. e.dev[c].inuse = Cardinality(Users(e, {f}, c))
      <4>1. Users(e, {f}, c) = T \ {f}
        BY <2>1, <2>3, <3>1
      <4> QED
        BY <2>2, <2>4, <2>7, <4>1
    <3> QED
      BY <3>2, <3>3 DEF Counted
  <2>10. Apart(e) /\ ByPid(e, {f}) /\ Owned(e)
    BY <1>2, <2>7, <2>8 DEF Sec, Apart, ByPid, Owned
  <2>11. Account(e)
    BY <1>2, <2>7 DEF Sec, Account
  <2>12. Cardinality(Pending(e)) <= MaxPending
    BY <1>2, <2>7 DEF Sec, Pending
  <2> QED
    BY <1>4, <2>6, <2>7, <2>8, <2>9, <2>10, <2>11, <2>12 DEF Sec
<1> QED
  BY <1>5, <1>6

\* Tables u are those of d with what slot f had given back.
GivenBack(d, u, f) ==
  /\ u \in Tables /\ u.filter = d.filter
  /\ \A g \in Filters \ {f} : Holds(d, g) =>
       /\ u.channel[d.filter[g].chid] = d.channel[d.filter[g].chid]
       /\ u.block[d.filter[g].fid] = d.block[d.filter[g].fid]
  /\ \A k \in Channels : u.dev[k].inuse = d.dev[k].inuse
  /\ Account(u)
  /\ \A k \in Channels : u.channel[k].status # "UNUSED" =>
       \E g \in Filters \ {f} : Holds(d, g) /\ d.filter[g].chid = k
  /\ \A b \in Blocks : u.block[b].state \in {"DISABLED", "ENABLED"} =>
       \E g \in Filters \ {f} : Holds(d, g) /\ d.filter[g].fid = b
  /\ Cardinality(Pending(u)) <= MaxPending

\* Slot f has neither a channel nor a filter.
IsDetached(d, e, f) ==
  /\ e.filter[f].states = ALLOC /\ e.filter[f].chid = NONE /\ e.filter[f].fid = NONE
  /\ e.filter[f].pid = d.filter[f].pid /\ e.filter[f].type = d.filter[f].type

LEMMA DetachedKeeps ==
  ASSUME NEW d, NEW f \in Filters, Sec(d, {f}, {f}), NEW u, GivenBack(d, u, f),
         NEW e, e = Detached(u, f)
  PROVE  Sec(e, {}, {}) /\ IsDetached(d, e, f)
<1> DEFINE s == [u.filter[f] EXCEPT !.chid = NONE, !.fid = NONE, !.states = ALLOC]
<1>0. d \in Tables /\ u \in Tables /\ u.filter = d.filter
  BY DEF Sec, GivenBack
<1>1. s \in FilterRow /\ e = WithFilter(u, f, s)
  <2>1. u.filter[f] \in FilterRow
    BY <1>0, Columns
  <2>2. s \in FilterRow
    <3>1. ALLOC \in FREE .. START
      BY DEF FREE, START, ALLOC
    <3> QED
      BY <2>1, <3>1 DEF FilterRow
  <2>3. e = [u EXCEPT !.filter[f] = s]
    BY <1>0, <2>1, Columns DEF Detached, FilterRow
  <2> QED
    BY <2>2, <2>3 DEF WithFilter
<1>2. /\ s.states = ALLOC /\ s.chid = NONE /\ s.fid = NONE
      /\ s.pid = d.filter[f].pid /\ s.type = d.filter[f].type
  BY <1>0, Columns DEF FilterRow
<1> HIDE DEF s
<1>3. /\ e \in Tables
      /\ e = [filter |-> [u.filter EXCEPT ![f] = s], dev |-> u.dev,
              channel |-> u.channel, block |-> u.block]
  BY <1>0, <1>1, WriteFilter
<1>4. /\ e.dev = u.dev /\ e.channel = u.channel /\ e.block = u.block
      /\ e.filter[f] = s
      /\ \A g \in Filters \ {f} : e.filter[g] = d.filter[g]
  BY <1>0, <1>3, Columns
<1>5. ~Holds(e, f) /\ \A g \in Filters \ {f} : Holds(e, g) <=> Holds(d, g)
  BY <1>2, <1>4 DEF Holds, SET, ALLOC
<1>6. \A g \in Filters : SlotSound(e, g)
  <2> SUFFICES ASSUME NEW g \in Filters PROVE SlotSound(e, g)
    OBVIOUS
  <2>1. CASE g = f
    BY <1>2, <1>4, <1>5, <2>1 DEF SlotSound, ALLOC, START
  <2>2. CASE g # f
    <3>1. SlotSound(d, g)
      BY DEF Sec
    <3>2. e.filter[g] = d.filter[g] /\ (Holds(e, g) <=> Holds(d, g))
      BY <1>4, <1>5, <2>2
    <3>3. CASE Holds(d, g)
      <4>1. /\ e.channel[d.filter[g].chid] = d.channel[d.filter[g].chid]
            /\ e.block[d.filter[g].fid] = d.block[d.filter[g].fid]
        BY <1>4, <2>2, <3>3 DEF GivenBack
      <4> QED
        BY <3>1, <3>2, <3>3, <4>1 DEF SlotSound
    <3>4. CASE ~Holds(d, g)
      BY <3>1, <3>2, <3>4 DEF SlotSound, Holds, START, SET
    <3> QED
      BY <3>3, <3>4
  <2> QED
    BY <2>1, <2>2
<1>7. Apart(e)
  BY <1>4, <1>5 DEF Sec, Apart
<1>8. Counted(e, {})
  <2>1. \A k \in Channels : Users(e, {}, k) = Users(d, {f}, k)
    BY <1>4, <1>5 DEF Users
  <2>2. \A k \in Channels : d.dev[k].inuse = Cardinality(Users(d, {f}, k))
    BY DEF Sec, Counted
  <2>3. \A k \in Channels : e.dev[k].inuse = d.dev[k].inuse
    BY <1>4 DEF GivenBack
  <2> QED
    BY <2>1, <2>2, <2>3 DEF Counted
<1>9. ByPid(e, {})
  <2>1. \A g \in Filters : Holds(e, g) =>
          /\ g \in Filters \ {f} /\ Holds(d, g) /\ e.filter[g] = d.filter[g]
          /\ e.channel[d.filter[g].chid] = d.channel[d.filter[g].chid]
    BY <1>4, <1>5 DEF GivenBack
  <2>2. ByPid(d, {f})
    BY DEF Sec
  <2> QED
    BY <2>1, <2>2 DEF ByPid
<1>10. Account(e)
  BY <1>4 DEF GivenBack, Account
<1>11. Owned(e)
  <2>1. ASSUME NEW k \in Channels, e.channel[k].status # "UNUSED"
        PROVE  \E g \in Filters : Holds(e, g) /\ e.filter[g].chid = k
    <3>1. PICK g \in Filters \ {f} : Holds(d, g) /\ d.filter[g].chid = k
      BY <1>4, <2>1 DEF GivenBack
    <3> QED
      BY <1>4, <1>5, <3>1
  <2>2. ASSUME NEW b \in Blocks, e.block[b].state \in {"DISABLED", "ENABLED"}
        PROVE  \E g \in Filters : Holds(e, g) /\ e.filter[g].fid = b
    <3>1. PICK g \in Filters \ {f} : Holds(d, g) /\ d.filter[g].fid = b
      BY <1>4, <2>2 DEF GivenBack
    <3> QED
      BY <1>4, <1>5, <3>1
  <2> QED
    BY <2>1, <2>2 DEF Owned
<1>12. Cardinality(Pending(e)) <= MaxPending
  BY <1>4 DEF GivenBack, Pending
<1> QED
  BY <1>2, <1>3, <1>4, <1>6, <1>7, <1>8, <1>9, <1>10, <1>11, <1>12 DEF Sec, IsDetached

\* A channel is freed with the filters on it, and the account of it is closed.
LEMMA FreedIs ==
  ASSUME NEW d \in Tables, NEW c \in Channels, Valid(d, c),
         NEW e, e = DevState(channel_free(d, c), c, "UNUSED")
  PROVE  /\ e \in Tables
         /\ e = [filter |-> d.filter,
                 dev |-> [d.dev EXCEPT ![c] = [inuse |-> d.dev[c].inuse, state |-> "UNUSED"]],
                 channel |-> [d.channel EXCEPT ![c].status = "UNUSED"],
                 block |-> [x \in Blocks |-> IF d.block[x].ch = c THEN NullBlock ELSE d.block[x]]]
<1> DEFINE B == {b \in Blocks : d.block[b].ch = c}
           s == [d.channel[c] EXCEPT !.status = "UNUSED"]
<1>1. PICK p : p = FreeBlocks(d, B)
  OBVIOUS
<1>2. PICK q : q = WithChannel(p, c, s)
  OBVIOUS
<1>3. [x \in Blocks |-> IF x \in B THEN NullBlock ELSE d.block[x]]
        = [x \in Blocks |-> IF d.block[x].ch = c THEN NullBlock ELSE d.block[x]]
  OBVIOUS
<1>4. s \in ChannelRow /\ [d.channel EXCEPT ![c].status = "UNUSED"] = [d.channel EXCEPT ![c] = s]
  BY Columns DEF ChannelRow
<1>5. channel_free(d, c) = [p EXCEPT !.channel[c].status = "UNUSED"]
  BY <1>1 DEF channel_free
<1> HIDE DEF B
<1>6. /\ p \in Tables
      /\ p = [filter |-> d.filter, dev |-> d.dev, channel |-> d.channel,
              block |-> [x \in Blocks |-> IF x \in B THEN NullBlock ELSE d.block[x]]]
  BY <1>1, FreeBlocksIs
<1>7. channel_free(d, c) = q
  BY <1>2, <1>5, <1>6, Columns DEF WithChannel
<1> HIDE DEF s
<1>8. /\ q \in Tables
      /\ q = [filter |-> p.filter, dev |-> p.dev, channel |-> [p.channel EXCEPT ![c] = s],
              block |-> p.block]
  <2>1. p \in Tables
    BY <1>6
  <2> QED
    BY <2>1, <1>2, <1>4, WriteChannel
<1>9. PICK u : u = DevState(q, c, "UNUSED")
  OBVIOUS
<1>10. /\ u \in Tables
       /\ u = [filter |-> q.filter,
               dev |-> [q.dev EXCEPT ![c] = [inuse |-> q.dev[c].inuse, state |-> "UNUSED"]],
               channel |-> q.channel, block |-> q.block]
  <2>1. q \in Tables
    BY <1>8
  <2> QED
    BY <2>1, <1>9, DevStateIs
<1>11. u = e
  BY <1>7, <1>9
<1>12. /\ u.dev = [d.dev EXCEPT ![c] = [inuse |-> d.dev[c].inuse, state |-> "UNUSED"]]
       /\ u.filter = d.filter /\ u.channel = [d.channel EXCEPT ![c].status = "UNUSED"]
       /\ u.block = [x \in Blocks |-> IF d.block[x].ch = c THEN NullBlock ELSE d.block[x]]
  BY <1>3, <1>4, <1>6, <1>8, <1>10
<1>13. u = [filter |-> u.filter, dev |-> u.dev, channel |-> u.channel, block |-> u.block]
  BY <1>10
<1> QED
  BY <1>10, <1>11, <1>12, <1>13

\* The last user of a channel frees it with the filters on it.
LEMMA ChannelGivenBack ==
  ASSUME NEW d, NEW f \in Filters, Sec(d, {f}, {f}), Holds(d, f),
         NEW c, c = d.filter[f].chid, d.dev[c].inuse = 0,
         NEW u, u = DevState(channel_free(d, c), c, "UNUSED")
  PROVE  GivenBack(d, u, f)
<1>1. /\ d \in Tables /\ c \in Channels /\ d.channel[c].status # "UNUSED"
      /\ d.block[d.filter[f].fid].ch = c
  BY DEF Sec, SlotSound
<1>2. \A g \in Filters \ {f} : Holds(d, g) => d.filter[g].chid # c
  <2> DEFINE T == Users(d, {f}, c)
  <2>1. T \in SUBSET Filters /\ Cardinality(T) = 0
    BY <1>1 DEF Users, Sec, Counted
  <2> HIDE DEF T
  <2>2. T = {}
    BY <2>1, WhoIsCounted
  <2> QED
    BY <2>2 DEF T, Users
<1>3. /\ u \in Tables
      /\ u = [filter |-> d.filter,
              dev |-> [d.dev EXCEPT ![c] = [inuse |-> d.dev[c].inuse, state |-> "UNUSED"]],
              channel |-> [d.channel EXCEPT ![c].status = "UNUSED"],
              block |-> [x \in Blocks |-> IF d.block[x].ch = c THEN NullBlock ELSE d.block[x]]]
  <2>1. Valid(d, c) /\ d \in Tables /\ c \in Channels
    BY <1>1 DEF Valid
  <2> QED
    BY <2>1, FreedIs
<1>12. /\ u.filter = d.filter
       /\ \A k \in Channels : u.dev[k].inuse = d.dev[k].inuse /\ (k # c => u.dev[k] = d.dev[k])
       /\ u.dev[c].state = "UNUSED"
       /\ u.channel[c].status = "UNUSED"
       /\ \A k \in Channels : k # c => u.channel[k] = d.channel[k]
       /\ \A b \in Blocks : u.block[b] = IF d.block[b].ch = c THEN NullBlock ELSE d.block[b]
  <2>1. u.filter = d.filter
    BY <1>3
  <2>2. /\ \A k \in Channels : u.dev[k].inuse = d.dev[k].inuse /\ (k # c => u.dev[k] = d.dev[k])
        /\ u.dev[c].state = "UNUSED"
    <3>1. u.dev = [d.dev EXCEPT ![c] = [inuse |-> d.dev[c].inuse, state |-> "UNUSED"]]
      BY <1>3
    <3> QED
      BY <1>1, <3>1, Columns DEF DevRow
  <2>3. /\ u.channel[c].status = "UNUSED"
        /\ \A k \in Channels : k # c => u.channel[k] = d.channel[k]
    <3>1. u.channel = [d.channel EXCEPT ![c].status = "UNUSED"]
      BY <1>3
    <3> QED
      BY <1>1, <3>1, Columns DEF ChannelRow
  <2>4. \A b \in Blocks : u.block[b] = IF d.block[b].ch = c THEN NullBlock ELSE d.block[b]
    BY <1>3
  <2> QED
    BY <2>1, <2>2, <2>3, <2>4
<1>13. \A g \in Filters \ {f} : Holds(d, g) =>
         /\ u.channel[d.filter[g].chid] = d.channel[d.filter[g].chid]
         /\ u.block[d.filter[g].fid] = d.block[d.filter[g].fid]
  <2> SUFFICES ASSUME NEW g \in Filters \ {f}, Holds(d, g)
               PROVE  /\ u.channel[d.filter[g].chid] = d.channel[d.filter[g].chid]
                      /\ u.block[d.filter[g].fid] = d.block[d.filter[g].fid]
    OBVIOUS
  <2>1. /\ d.filter[g].chid \in Channels /\ d.filter[g].fid \in Blocks
        /\ d.block[d.filter[g].fid].ch = d.filter[g].chid
    BY DEF Sec, SlotSound
  <2>2. d.filter[g].chid # c
    BY <1>2
  <2> QED
    BY <1>12, <2>1, <2>2
<1>14. Account(u)
  BY <1>12 DEF Sec, Account
<1>15. \A k \in Channels : u.channel[k].status # "UNUSED" =>
         \E g \in Filters \ {f} : Holds(d, g) /\ d.filter[g].chid = k
  BY <1>12 DEF Sec, Owned
<1>16. \A b \in Blocks : u.block[b].state \in {"DISABLED", "ENABLED"} =>
         \E g \in Filters \ {f} : Holds(d, g) /\ d.filter[g].fid = b
  <2> SUFFICES ASSUME NEW b \in Blocks, u.block[b].state \in {"DISABLED", "ENABLED"}
               PROVE  \E g \in Filters \ {f} : Holds(d, g) /\ d.filter[g].fid = b
    OBVIOUS
  <2>1. d.block[b].ch # c /\ d.block[b].state \in {"DISABLED", "ENABLED"}
    BY <1>12 DEF NullBlock
  <2>2. PICK g \in Filters : Holds(d, g) /\ d.filter[g].fid = b
    BY <2>1 DEF Sec, Owned
  <2> QED
    BY <1>1, <2>1, <2>2
<1>17. Cardinality(Pending(u)) <= MaxPending
  <2>1. Pending(u) \subseteq Pending(d)
    BY <1>12 DEF Pending, NullBlock
  <2> QED
    BY <2>1, FewerPending DEF Sec
<1> QED
  BY <1>3, <1>12, <1>13, <1>14, <1>15, <1>16, <1>17 DEF GivenBack

\* Any other user takes its filter off the channel.
LEMMA FilterGivenBack ==
  ASSUME NEW d, NEW f \in Filters, Sec(d, {f}, {f}), Holds(d, f),
         NEW c, c = d.filter[f].chid, d.dev[c].inuse # 0,
         NEW b, b = d.filter[f].fid, NEW ack \in BOOLEAN,
         NEW u, u = filter_delete(d, c, b, ack)
  PROVE  GivenBack(d, u, f)
<1>1. /\ d \in Tables /\ c \in Channels /\ b \in Blocks /\ d.channel[c].status # "UNUSED"
      /\ d.block[b].ch = c /\ d.block[b].state \in {"DISABLED", "ENABLED"}
  BY DEF Sec, SlotSound
<1>2. \E g \in Filters \ {f} : Holds(d, g) /\ d.filter[g].chid = c
  <2> DEFINE T == Users(d, {f}, c)
  <2>1. Cardinality(T) # 0
    BY <1>1 DEF Sec, Counted
  <2>2. T # {}
    BY <2>1, FS_EmptySet
  <2> QED
    BY <2>2 DEF Users
<1>3. \A g \in Filters \ {f} : Holds(d, g) => d.filter[g].fid # b
  BY DEF Sec, Apart
<1>4. ASSUME NEW n \in BlockRow, n.state \notin {"DISABLED", "ENABLED"},
             u = WithBlock(d, b, n), Cardinality(Pending(u)) <= MaxPending
      PROVE  GivenBack(d, u, f)
  <2>1. /\ u \in Tables
        /\ u = [filter |-> d.filter, dev |-> d.dev,
                channel |-> d.channel, block |-> [d.block EXCEPT ![b] = n]]
    BY <1>1, <1>4, WriteBlock
  <2>2. /\ u.filter = d.filter /\ u.dev = d.dev /\ u.channel = d.channel /\ u.block[b] = n
        /\ \A x \in Blocks : x # b => u.block[x] = d.block[x]
    BY <1>1, <2>1, Columns
  <2>3. \A g \in Filters \ {f} : Holds(d, g) =>
          u.block[d.filter[g].fid] = d.block[d.filter[g].fid]
    BY <1>3, <2>2 DEF Sec, SlotSound
  <2>4. Account(u)
    BY <2>2 DEF Sec, Account
  <2>5. \A k \in Channels : u.channel[k].status # "UNUSED" =>
          \E g \in Filters \ {f} : Holds(d, g) /\ d.filter[g].chid = k
    <3> SUFFICES ASSUME NEW k \in Channels, u.channel[k].status # "UNUSED"
                 PROVE  \E g \in Filters \ {f} : Holds(d, g) /\ d.filter[g].chid = k
      OBVIOUS
    <3>1. PICK g \in Filters : Holds(d, g) /\ d.filter[g].chid = k
      BY <2>2 DEF Sec, Owned
    <3> QED
      BY <1>2, <3>1
  <2>6. \A x \in Blocks : u.block[x].state \in {"DISABLED", "ENABLED"} =>
          \E g \in Filters \ {f} : Holds(d, g) /\ d.filter[g].fid = x
    <3> SUFFICES ASSUME NEW x \in Blocks, u.block[x].state \in {"DISABLED", "ENABLED"}
                 PROVE  \E g \in Filters \ {f} : Holds(d, g) /\ d.filter[g].fid = x
      OBVIOUS
    <3>1. x # b /\ d.block[x].state \in {"DISABLED", "ENABLED"}
      BY <1>4, <2>2
    <3>2. PICK g \in Filters : Holds(d, g) /\ d.filter[g].fid = x
      BY <3>1 DEF Sec, Owned
    <3> QED
      BY <3>1, <3>2
  <2> QED
    BY <1>4, <2>1, <2>2, <2>3, <2>4, <2>5, <2>6 DEF GivenBack
<1>5. \A n \in BlockRow, x \in Blocks :
        WithBlock(d, b, n).block[x] = IF x = b THEN n ELSE d.block[x]
  <2> SUFFICES ASSUME NEW n \in BlockRow, NEW x \in Blocks
               PROVE  WithBlock(d, b, n).block[x] = IF x = b THEN n ELSE d.block[x]
    OBVIOUS
  <2> QED
    BY <1>1, Columns DEF WithBlock
<1>6. Valid(d, c) /\ Assigned(d, b)
  BY <1>1 DEF Valid, Assigned
<1>7. CASE u = FreeBlocks(d, {b})
  <2>1. NullBlock \in BlockRow /\ NullBlock.state = "NULL"
    BY DEF NullBlock, BlockRow
  <2>2. u = WithBlock(d, b, NullBlock)
    <3>1. u = [filter |-> d.filter, dev |-> d.dev, channel |-> d.channel,
               block |-> [x \in Blocks |-> IF x \in {b} THEN NullBlock ELSE d.block[x]]]
      BY <1>1, <1>7, FreeBlocksIs
    <3>2. [x \in Blocks |-> IF x \in {b} THEN NullBlock ELSE d.block[x]]
            = [d.block EXCEPT ![b] = NullBlock]
      BY <1>1, Columns
    <3>3. WithBlock(d, b, NullBlock)
            = [filter |-> d.filter, dev |-> d.dev, channel |-> d.channel,
               block |-> [d.block EXCEPT ![b] = NullBlock]]
      BY <1>1, <2>1, WriteBlock
    <3> QED
      BY <3>1, <3>2, <3>3
  <2>3. Pending(u) \subseteq Pending(d)
    BY <1>5, <2>1, <2>2 DEF Pending
  <2>4. Cardinality(Pending(u)) <= MaxPending
    BY <2>3, FewerPending DEF Sec
  <2> QED
    BY <1>4, <2>1, <2>2, <2>4
<1>8. CASE u # FreeBlocks(d, {b})
  <2> DEFINE n == [state |-> "PENDING", ch |-> c]
  <2>1. /\ Cardinality(Pending(d)) # MaxPending
        /\ u = [d EXCEPT !.block[b].state = "PENDING"]
    BY <1>1, <1>6, <1>8 DEF filter_delete
  <2>2. n \in BlockRow /\ n.state = "PENDING"
    BY <1>1 DEF BlockRow
  <2>3. u = WithBlock(d, b, n)
    <3>1. [d.block[b] EXCEPT !.state = "PENDING"] = n
      BY <1>1, Columns DEF BlockRow
    <3> QED
      BY <1>1, <2>1, <3>1, Columns DEF WithBlock
  <2> HIDE DEF n
  <2>4. Pending(u) = Pending(d) \cup {b}
    BY <1>1, <1>5, <2>2, <2>3 DEF Pending
  <2>5. Cardinality(Pending(u)) <= Cardinality(Pending(d)) + 1
    <3>1. IsFiniteSet(Pending(d)) /\ Cardinality(Pending(d)) \in Nat
      BY BlocksFinite DEF Pending
    <3> QED
      BY <2>4, <3>1, FS_AddElement
  <2>6. Cardinality(Pending(u)) <= MaxPending
    <3>1. Cardinality(Pending(d)) \in Nat /\ Cardinality(Pending(u)) \in Nat
      BY BlocksFinite DEF Pending
    <3>2. Cardinality(Pending(d)) <= MaxPending /\ MaxPending \in Nat
      BY DemuxAssumption DEF Sec
    <3> QED
      BY <2>1, <2>5, <3>1, <3>2
  <2> QED
    BY <1>4, <2>2, <2>3, <2>6
<1> QED
  BY <1>7, <1>8

\* The reset goes on after its sleep.
LEMMA EndKeeps ==
  ASSUME NEW d, NEW f \in Filters, Sec(d, {f}, {f}), NEW ack \in BOOLEAN,
         NEW e, e = ResetEnd(d, f, ack)
  PROVE  Sec(e, {}, {}) /\ IsDetached(d, e, f)
<1> DEFINE c == d.filter[f].chid
           b == d.filter[f].fid
<1>1. d \in Tables
  BY DEF Sec
<1>2. CASE ~Holds(d, f)
  <2>1. c = NONE
    BY <1>2 DEF Sec, SlotSound
  <2>2. e = Detached(d, f)
    BY <2>1 DEF ResetEnd
  <2>3. GivenBack(d, d, f)
    <3>1. \A k \in Channels : d.channel[k].status # "UNUSED" =>
            \E g \in Filters \ {f} : Holds(d, g) /\ d.filter[g].chid = k
      BY <1>2 DEF Sec, Owned
    <3>2. \A x \in Blocks : d.block[x].state \in {"DISABLED", "ENABLED"} =>
            \E g \in Filters \ {f} : Holds(d, g) /\ d.filter[g].fid = x
      BY <1>2 DEF Sec, Owned
    <3> QED
      BY <3>1, <3>2 DEF Sec, GivenBack
  <2> QED
    BY <2>2, <2>3, DetachedKeeps
<1>3. CASE Holds(d, f)
  <2>1. c \in Channels /\ b \in Blocks /\ c # NONE /\ b # NONE /\ d.dev[c].inuse >= 0
        /\ d.dev[c].inuse \in Int
    <3>1. c \in Channels /\ b \in Blocks
      BY <1>3 DEF Sec, SlotSound
    <3>2. d.dev[c].inuse = Cardinality(Users(d, {f}, c)) /\ Users(d, {f}, c) \in SUBSET Filters
      BY <3>1 DEF Sec, Counted, Users
    <3> QED
      BY <3>1, <3>2, NoneIsNone, FiltersFinite
  <2>2. PICK u : u = IF d.dev[c].inuse = 0 THEN DevState(channel_free(d, c), c, "UNUSED")
                     ELSE filter_delete(d, c, b, ack)
    OBVIOUS
  <2>3. e = Detached(u, f)
    BY <2>1, <2>2 DEF ResetEnd, DevState
  <2>4. GivenBack(d, u, f)
    BY <1>3, <2>2, ChannelGivenBack, FilterGivenBack
  <2> QED
    BY <2>3, <2>4, DetachedKeeps
<1> QED
  BY <1>2, <1>3

\* There is always a filter for a slot that has none.
LEMMA BlockFree ==
  ASSUME InOrder, NEW d, Sec(d, {}, {}), NEW f \in Filters, ~Holds(d, f)
  PROVE  FreeBlockSet(d) # {}
<1> SUFFICES ASSUME FreeBlockSet(d) = {} PROVE FALSE
  OBVIOUS
<1> DEFINE A == {b \in Blocks : d.block[b].state \in {"DISABLED", "ENABLED"}}
           H == {g \in Filters : Holds(d, g)}
           h == [g \in H |-> d.filter[g].fid]
<1>1. Blocks = A \cup Pending(d)
  <2>1. \A b \in Blocks : d.block[b].state \in {"NULL", "DISABLED", "ENABLED", "PENDING"}
    BY Columns DEF Sec, BlockRow
  <2> QED
    BY <2>1 DEF FreeBlockSet, Pending
<1>2. h \in Surjection(H, A)
  <2>1. \A g \in H : h[g] \in A
    BY DEF Sec, SlotSound
  <2>2. \A b \in A : \E g \in H : h[g] = b
    BY DEF Sec, Owned
  <2> QED
    BY <2>1, <2>2 DEF Surjection
<1>3. H \subseteq Filters \ {f}
  OBVIOUS
<1>4. A \in SUBSET Blocks /\ Pending(d) \in SUBSET Blocks
  BY DEF Pending
<1> HIDE DEF A, H, h
<1>5. IsFiniteSet(H) /\ Cardinality(H) \in Nat /\ Cardinality(H) <= NumFilter - 1
  <2>1. IsFiniteSet(Filters \ {f}) /\ Cardinality(Filters \ {f}) = NumFilter - 1
    BY FiltersFinite, FS_RemoveElement
  <2> QED
    BY <1>3, <2>1, FS_Subset, FS_CardinalityType
<1>6. Cardinality(A) <= Cardinality(H)
  BY <1>2, <1>5, FS_Surjection
<1>7. /\ IsFiniteSet(A) /\ Cardinality(A) \in Nat
      /\ IsFiniteSet(Pending(d)) /\ Cardinality(Pending(d)) \in Nat
      /\ IsFiniteSet(A \cap Pending(d)) /\ Cardinality(A \cap Pending(d)) \in Nat
  <2>1. A \cap Pending(d) \in SUBSET Blocks
    BY <1>4
  <2> QED
    BY <1>4, <2>1, BlocksFinite
<1>8. NumBlock = Cardinality(A) + Cardinality(Pending(d)) - Cardinality(A \cap Pending(d))
  <2>1. Cardinality(A \cup Pending(d))
          = Cardinality(A) + Cardinality(Pending(d)) - Cardinality(A \cap Pending(d))
    BY <1>7, FS_Union
  <2> QED
    BY <1>1, <2>1, BlocksFinite
<1>9. Cardinality(Pending(d)) <= MaxPending
  BY DEF Sec
<1> QED
  BY <1>5, <1>6, <1>7, <1>8, <1>9, DemuxAssumption DEF InOrder

\* Tables u are those of d with a channel c of the PID of slot f, which f has.
Joined(d, u, f, c) ==
  /\ u \in Tables /\ c \in Channels
  /\ u.filter = [d.filter EXCEPT ![f].chid = c] /\ u.block = d.block
  /\ \A g \in Filters : Holds(d, g) => u.channel[d.filter[g].chid] = d.channel[d.filter[g].chid]
  /\ u.channel[c].status # "UNUSED" /\ u.channel[c].pid = d.filter[f].pid
  /\ \A k \in Channels : k # c => u.channel[k].status = d.channel[k].status
  /\ \A k \in Channels : u.dev[k].inuse = d.dev[k].inuse
  /\ Account(u)
  /\ \A g \in Filters : Holds(d, g) /\ d.filter[g].pid = d.filter[f].pid => d.filter[g].chid = c

\* The filter is allocated on the channel and the use counted.
SetUp(u, f, c, b) ==
  [u EXCEPT !.block[b] = [state |-> "DISABLED", ch |-> c],
            !.filter[f].fid = b, !.filter[f].type = "SEC",
            !.filter[f].states = SET, !.dev[c].inuse = @ + 1]

LEMMA SetUpIs ==
  ASSUME NEW u \in Tables, NEW f \in Filters, NEW c \in Channels, NEW b \in Blocks,
         u.dev[c].inuse + 1 \in -NumFilter .. NumFilter,
         NEW e, e = SetUp(u, f, c, b)
  PROVE  /\ e \in Tables
         /\ e.channel = u.channel
         /\ e.block[b] = [state |-> "DISABLED", ch |-> c]
         /\ \A x \in Blocks : x # b => e.block[x] = u.block[x]
         /\ e.dev[c].inuse = u.dev[c].inuse + 1 /\ e.dev[c].state = u.dev[c].state
         /\ \A k \in Channels : k # c => e.dev[k] = u.dev[k]
         /\ e.filter[f].states = SET /\ e.filter[f].type = "SEC" /\ e.filter[f].fid = b
         /\ e.filter[f].chid = u.filter[f].chid /\ e.filter[f].pid = u.filter[f].pid
         /\ \A g \in Filters : g # f => e.filter[g] = u.filter[g]
<1> DEFINE n == [state |-> "DISABLED", ch |-> c]
           s == [u.filter[f] EXCEPT !.fid = b, !.type = "SEC", !.states = SET]
           v == [u.dev[c] EXCEPT !.inuse = @ + 1]
<1>1. n \in BlockRow
  BY DEF BlockRow
<1>2. /\ s \in FilterRow /\ s.states = SET /\ s.type = "SEC" /\ s.fid = b
      /\ s.chid = u.filter[f].chid /\ s.pid = u.filter[f].pid
  <2>1. u.filter[f] \in FilterRow /\ SET \in FREE .. START
    BY Columns DEF SET, FREE, START
  <2> QED
    BY <2>1 DEF FilterRow
<1>3. v \in DevRow /\ v.inuse = u.dev[c].inuse + 1 /\ v.state = u.dev[c].state
  BY Columns DEF DevRow
<1>4. e = [filter |-> [u.filter EXCEPT ![f] = s], dev |-> [u.dev EXCEPT ![c] = v],
           channel |-> u.channel, block |-> [u.block EXCEPT ![b] = n]]
  <2>1. /\ u = [filter |-> u.filter, dev |-> u.dev, channel |-> u.channel, block |-> u.block]
        /\ u.filter \in [Filters -> FilterRow] /\ u.dev \in [Channels -> DevRow]
        /\ u.block \in [Blocks -> BlockRow]
    BY Columns
  <2>2. [[[u.filter EXCEPT ![f].fid = b] EXCEPT ![f].type = "SEC"] EXCEPT ![f].states = SET]
          = [u.filter EXCEPT ![f] = s]
    BY <2>1
  <2>3. [u.dev EXCEPT ![c].inuse = @ + 1] = [u.dev EXCEPT ![c] = v]
    BY <2>1
  <2>4. e = [filter |-> [[[u.filter EXCEPT ![f].fid = b] EXCEPT ![f].type = "SEC"]
                           EXCEPT ![f].states = SET],
             dev |-> [u.dev EXCEPT ![c].inuse = @ + 1],
             channel |-> u.channel, block |-> [u.block EXCEPT ![b] = n]]
    <3> HIDE DEF s, v
    <3> QED
      BY <2>1 DEF SetUp
  <2> HIDE DEF s, v, n
  <2> QED
    BY <2>2, <2>3, <2>4
<1> HIDE DEF s, v, n
<1>5. e \in Tables
  BY <1>1, <1>2, <1>3, <1>4, Columns, TablesAre
<1>6. /\ e.filter[f] = s /\ \A g \in Filters : g # f => e.filter[g] = u.filter[g]
      /\ e.dev[c] = v /\ \A k \in Channels : k # c => e.dev[k] = u.dev[k]
      /\ e.channel = u.channel
      /\ e.block[b] = n /\ \A x \in Blocks : x # b => e.block[x] = u.block[x]
  BY <1>4, Columns
<1> QED
  BY <1>2, <1>3, <1>5, <1>6 DEF n

LEMMA SetUpKeeps ==
  ASSUME NEW d, Sec(d, {}, {}), NEW f \in Filters, ~Holds(d, f),
         NEW u, NEW c, Joined(d, u, f, c),
         NEW b \in FreeBlockSet(d), NEW e, e = SetUp(u, f, c, b)
  PROVE  Sec(e, {}, {})
<1>1. /\ d \in Tables /\ u \in Tables /\ c \in Channels /\ b \in Blocks
      /\ d.block[b].state = "NULL" /\ u.block = d.block
  BY DEF Sec, Joined, FreeBlockSet
<1> DEFINE T == Users(d, {}, c)
<1>2. /\ T \in SUBSET Filters /\ f \notin T /\ u.dev[c].inuse = Cardinality(T)
      /\ Cardinality(T) \in Nat
  <2>1. T \in SUBSET Filters /\ f \notin T
    BY DEF Users
  <2>2. u.dev[c].inuse = Cardinality(T)
    BY <1>1 DEF Sec, Counted, Joined
  <2> HIDE DEF T
  <2> QED
    BY <2>1, <2>2, FiltersFinite
<1>3. Cardinality(T \cup {f}) = Cardinality(T) + 1 /\ Cardinality(T \cup {f}) <= NumFilter
  <2> HIDE DEF T
  <2>1. T \cup {f} \in SUBSET Filters
    BY <1>2
  <2> QED
    BY <1>2, <2>1, WhoIsCounted, FiltersFinite
<1>4. u.dev[c].inuse + 1 \in -NumFilter .. NumFilter
  <2>1. NumFilter \in Nat
    BY DemuxAssumption
  <2> HIDE DEF T
  <2> QED
    BY <1>2, <1>3, <2>1
<1>5. /\ u.filter[f].chid = c /\ u.filter[f].pid = d.filter[f].pid
      /\ \A g \in Filters : g # f => u.filter[g] = d.filter[g]
  <2>1. u.filter = [d.filter EXCEPT ![f].chid = c] /\ d.filter[f] \in FilterRow
    BY <1>1, Columns DEF Joined
  <2> QED
    BY <1>1, <2>1, Columns DEF FilterRow
<1>6. /\ e \in Tables
      /\ e.channel = u.channel
      /\ e.block[b] = [state |-> "DISABLED", ch |-> c]
      /\ \A x \in Blocks : x # b => e.block[x] = d.block[x]
      /\ e.dev[c].inuse = u.dev[c].inuse + 1 /\ e.dev[c].state = u.dev[c].state
      /\ \A k \in Channels : k # c => e.dev[k] = u.dev[k]
      /\ e.filter[f].states = SET /\ e.filter[f].type = "SEC" /\ e.filter[f].fid = b
      /\ e.filter[f].chid = c /\ e.filter[f].pid = d.filter[f].pid
      /\ \A g \in Filters : g # f => e.filter[g] = d.filter[g]
  BY <1>1, <1>4, <1>5, SetUpIs
<1> HIDE DEF T
<1>7. Holds(e, f) /\ \A g \in Filters : g # f => (Holds(e, g) <=> Holds(d, g))
  BY <1>6 DEF Holds, SET
<1>8. \A g \in Filters : Holds(d, g) =>
        /\ g # f /\ d.filter[g].fid # b
        /\ e.block[d.filter[g].fid] = d.block[d.filter[g].fid]
        /\ e.channel[d.filter[g].chid] = d.channel[d.filter[g].chid]
  BY <1>1, <1>6 DEF Sec, SlotSound, Joined
<1>9. e.channel[c].status # "UNUSED" /\ e.channel[c].pid = d.filter[f].pid
  BY <1>6 DEF Joined
<1>10. \A g \in Filters : SlotSound(e, g)
  <2> SUFFICES ASSUME NEW g \in Filters PROVE SlotSound(e, g)
    OBVIOUS
  <2>1. CASE g = f
    BY <1>1, <1>6, <1>7, <1>9, <2>1 DEF SlotSound, SET, START
  <2>2. CASE g # f
    <3>1. SlotSound(d, g) /\ e.filter[g] = d.filter[g] /\ (Holds(e, g) <=> Holds(d, g))
      BY <1>6, <1>7, <2>2 DEF Sec
    <3>2. CASE Holds(d, g)
      BY <1>8, <3>1, <3>2 DEF SlotSound
    <3>3. CASE ~Holds(d, g)
      BY <3>1, <3>3 DEF SlotSound, Holds, START, SET
    <3> QED
      BY <3>2, <3>3
  <2> QED
    BY <2>1, <2>2
<1>11. Apart(e)
  <2> SUFFICES ASSUME NEW g \in Filters, NEW h \in Filters, g # h, Holds(e, g), Holds(e, h)
               PROVE  e.filter[g].fid # e.filter[h].fid
    BY DEF Apart
  <2>1. CASE g = f
    BY <1>6, <1>7, <1>8, <2>1
  <2>2. CASE h = f
    BY <1>6, <1>7, <1>8, <2>2
  <2>3. CASE g # f /\ h # f
    BY <1>6, <1>7, <2>3 DEF Sec, Apart
  <2> QED
    BY <2>1, <2>2, <2>3
<1>12. Counted(e, {})
  <2>1. Users(e, {}, c) = T \cup {f}
    BY <1>6, <1>7 DEF T, Users
  <2>2. \A k \in Channels : k # c => Users(e, {}, k) = Users(d, {}, k)
    <3> SUFFICES ASSUME NEW k \in Channels, k # c, NEW g \in Filters
                 PROVE  g \in Users(e, {}, k) <=> g \in Users(d, {}, k)
      BY DEF Users
    <3>1. CASE g = f
      BY <1>6, <3>1 DEF Users
    <3>2. CASE g # f
      BY <1>6, <1>7, <3>2 DEF Users
    <3> QED
      BY <3>1, <3>2
  <2>3. \A k \in Channels : k # c => e.dev[k].inuse = Cardinality(Users(e, {}, k))
    <3>1. \A k \in Channels : d.dev[k].inuse = Cardinality(Users(d, {}, k))
      BY DEF Sec, Counted
    <3>2. \A k \in Channels : u.dev[k].inuse = d.dev[k].inuse
      BY DEF Joined
    <3> QED
      BY <1>6, <2>2, <3>1, <3>2
  <2>4. e.dev[c].inuse = Cardinality(Users(e, {}, c))
    BY <1>2, <1>3, <1>6, <2>1
  <2> QED
    BY <2>3, <2>4 DEF Counted
<1>13. ByPid(e, {})
  <2>1. \A g \in Filters : Holds(e, g) =>
          e.channel[e.filter[g].chid].pid = e.filter[g].pid
    <3> SUFFICES ASSUME NEW g \in Filters, Holds(e, g)
                 PROVE  e.channel[e.filter[g].chid].pid = e.filter[g].pid
      OBVIOUS
    <3>1. CASE g = f
      BY <1>6, <1>9, <3>1
    <3>2. CASE g # f
      BY <1>6, <1>7, <1>8, <3>2 DEF Sec, ByPid
    <3> QED
      BY <3>1, <3>2
  <2>2. \A g, h \in Filters :
          Holds(e, g) /\ Holds(e, h) /\ e.filter[g].pid = e.filter[h].pid
            => e.filter[g].chid = e.filter[h].chid
    <3> SUFFICES ASSUME NEW g \in Filters, NEW h \in Filters, Holds(e, g), Holds(e, h),
                        e.filter[g].pid = e.filter[h].pid
                 PROVE  e.filter[g].chid = e.filter[h].chid
      OBVIOUS
    <3>0. \A x \in Filters : Holds(d, x) /\ d.filter[x].pid = d.filter[f].pid => d.filter[x].chid = c
      BY DEF Joined
    <3>1. CASE g = f
      BY <1>6, <1>7, <3>0, <3>1
    <3>2. CASE h = f
      BY <1>6, <1>7, <3>0, <3>2
    <3>3. CASE g # f /\ h # f
      BY <1>6, <1>7, <3>3 DEF Sec, ByPid
    <3> QED
      BY <3>1, <3>2, <3>3
  <2> QED
    BY <2>1, <2>2 DEF ByPid
<1>14. Account(e)
  BY <1>6 DEF Joined, Account
<1>15. Owned(e)
  <2>1. ASSUME NEW k \in Channels, e.channel[k].status # "UNUSED"
        PROVE  \E g \in Filters : Holds(e, g) /\ e.filter[g].chid = k
    <3>1. CASE k = c
      BY <1>6, <1>7, <3>1
    <3>2. CASE k # c
      <4>1. d.channel[k].status # "UNUSED"
        BY <1>6, <2>1, <3>2 DEF Joined
      <4>2. PICK g \in Filters : Holds(d, g) /\ d.filter[g].chid = k
        BY <4>1 DEF Sec, Owned
      <4> QED
        BY <1>6, <1>7, <4>2
    <3> QED
      BY <3>1, <3>2
  <2>2. ASSUME NEW x \in Blocks, e.block[x].state \in {"DISABLED", "ENABLED"}
        PROVE  \E g \in Filters : Holds(e, g) /\ e.filter[g].fid = x
    <3>1. CASE x = b
      BY <1>6, <1>7, <3>1
    <3>2. CASE x # b
      <4>1. PICK g \in Filters : Holds(d, g) /\ d.filter[g].fid = x
        BY <1>6, <2>2, <3>2 DEF Sec, Owned
      <4> QED
        BY <1>6, <1>7, <4>1
    <3> QED
      BY <3>1, <3>2
  <2> QED
    BY <2>1, <2>2 DEF Owned
<1>16. Cardinality(Pending(e)) <= MaxPending
  <2>1. Pending(e) \subseteq Pending(d)
    BY <1>1, <1>6 DEF Pending
  <2> QED
    BY <2>1, FewerPending DEF Sec
<1> QED
  BY <1>6, <1>10, <1>11, <1>12, <1>13, <1>14, <1>15, <1>16 DEF Sec

\* A section filter is set in a slot that has been reset.
LEMMA AttachKeeps ==
  ASSUME InOrder, NEW d, Sec(d, {}, {}), NEW f \in Filters, ~Holds(d, f),
         d.filter[f].pid \in Pids, NEW e, e = SectionAttach(d, f)
  PROVE  Sec(e, {}, {})
<1>1. d \in Tables /\ d.filter[f].chid = NONE
  BY DEF Sec, SlotSound
<1> DEFINE r == SectionChannel(d, f)
<1>2. CASE r.failed
  <2>1. r.d = d
    BY <1>1, <1>2 DEF SectionChannel
  <2> QED
    BY <1>2, <2>1 DEF SectionAttach
<1>3. ASSUME NEW u, NEW c, Joined(d, u, f, c), r.d = u, ~r.failed
      PROVE  Sec(e, {}, {})
  <2>1. /\ FreeBlockSet(u) = FreeBlockSet(d) /\ FreeBlockSet(d) # {}
        /\ Min(FreeBlockSet(d)) \in FreeBlockSet(d)
    <3>1. FreeBlockSet(d) # {}
      BY BlockFree
    <3>2. FreeBlockSet(d) \in SUBSET (1 .. NumBlock) /\ NumBlock \in Nat
      BY DemuxAssumption DEF FreeBlockSet, Blocks
    <3>3. FreeBlockSet(u) = FreeBlockSet(d)
      BY <1>3 DEF Joined, FreeBlockSet
    <3>4. PICK n, T : n = NumBlock /\ T = FreeBlockSet(d)
      OBVIOUS
    <3>5. Min(T) \in T
      BY <3>1, <3>2, <3>4, LeastAndGreatest
    <3> QED
      BY <3>1, <3>3, <3>4, <3>5
  <2>2. u.filter[f].chid = c
    BY <1>1, <1>3, Columns DEF Joined, FilterRow
  <2>3. Valid(u, c)
    BY <1>3 DEF Joined, Valid
  <2>4. PICK b \in FreeBlockSet(d) : b = Min(FreeBlockSet(d))
    BY <2>1
  <2>5. e = SetUp(u, f, c, b)
    <3> HIDE DEF r
    <3> QED
      BY <1>3, <2>1, <2>2, <2>3, <2>4 DEF SectionAttach, SetUp, r
  <2> QED
    BY <1>3, <2>5, SetUpKeeps
<1>4. CASE Sharing(d, f) # {}
  <2> DEFINE m == Min(Sharing(d, f))
             c == d.filter[m].chid
             u == [d EXCEPT !.filter[f].chid = c]
  <2>1. m \in Sharing(d, f)
    <3>1. Sharing(d, f) \in SUBSET (1 .. NumFilter) /\ NumFilter \in Nat
      BY DemuxAssumption DEF Sharing, Filters
    <3>2. PICK T : T = Sharing(d, f)
      OBVIOUS
    <3>3. Min(T) \in T
      BY <1>4, <3>1, <3>2, LeastAndGreatest
    <3> QED
      BY <3>2, <3>3
  <2>2. m \in Filters /\ d.filter[m].pid = d.filter[f].pid /\ c # NONE /\ Holds(d, m)
    BY <2>1 DEF Sharing, Sec, SlotSound
  <2>3. r = [failed |-> FALSE, d |-> u]
    BY <1>4 DEF SectionChannel
  <2>4. c \in Channels /\ d.channel[c].status # "UNUSED" /\ d.channel[c].pid = d.filter[f].pid
    BY <2>2 DEF Sec, SlotSound, ByPid
  <2> HIDE DEF m, c
  <2>5. /\ u \in Tables /\ u.filter = [d.filter EXCEPT ![f].chid = c]
        /\ u.dev = d.dev /\ u.channel = d.channel /\ u.block = d.block
    <3> DEFINE s == [d.filter[f] EXCEPT !.chid = c]
    <3>1. s \in FilterRow
      <4>1. d.filter[f] \in FilterRow
        BY <1>1, Columns
      <4> QED
        BY <2>4, <4>1 DEF FilterRow
    <3>2. u = WithFilter(d, f, s)
      BY <1>1, Columns DEF WithFilter
    <3>3. [d.filter EXCEPT ![f].chid = c] = [d.filter EXCEPT ![f] = s]
      BY <1>1, Columns
    <3> HIDE DEF s, u
    <3>4. /\ u \in Tables
          /\ u = [filter |-> [d.filter EXCEPT ![f] = s], dev |-> d.dev,
                  channel |-> d.channel, block |-> d.block]
      BY <1>1, <3>1, <3>2, WriteFilter
    <3> QED
      BY <3>3, <3>4
  <2> HIDE DEF u
  <2>6. \A g \in Filters : Holds(d, g) /\ d.filter[g].pid = d.filter[f].pid => d.filter[g].chid = c
    BY <2>2 DEF Sec, ByPid, c
  <2>7. Account(u)
    BY <2>5 DEF Sec, Account
  <2>8. Joined(d, u, f, c)
    BY <2>4, <2>5, <2>6, <2>7 DEF Joined
  <2> QED
    BY <1>3, <2>3, <2>8
<1>5. CASE Sharing(d, f) = {} /\ ~r.failed
  <2> DEFINE c == Max(FreeChannels(d))
             a == DemuxChannelAcquire(d, f, d.filter[f].pid)
             u == [a EXCEPT !.dev[c].state = "DISABLED"]
  <2>1. /\ FreeChannels(d) # {}
        /\ r = [failed |-> FALSE,
                d |-> [a EXCEPT !.dev[a.filter[f].chid].state = "DISABLED"]]
    BY <1>1, <1>5 DEF SectionChannel
  <2>2. c \in FreeChannels(d)
    <3>1. FreeChannels(d) \in SUBSET (1 .. NumChannel) /\ NumChannel \in Nat
      BY DemuxAssumption DEF FreeChannels, Channels
    <3>2. PICK T : T = FreeChannels(d)
      OBVIOUS
    <3>3. Max(T) \in T
      BY <2>1, <3>1, <3>2, LeastAndGreatest
    <3> QED
      BY <3>2, <3>3
  <2>3. c \in Channels /\ d.channel[c].status = "UNUSED"
    BY <2>2 DEF FreeChannels
  <2> DEFINE p == d.filter[f].pid
             n == [status |-> "DISABLED", pid |-> p]
             s == [d.filter[f] EXCEPT !.chid = c]
             v == [inuse |-> d.dev[c].inuse, state |-> "DISABLED"]
  <2>4. n \in ChannelRow /\ n.status = "DISABLED" /\ n.pid = p
    BY DEF ChannelRow
  <2>5. s \in FilterRow /\ s.chid = c /\ [d.filter EXCEPT ![f].chid = c] = [d.filter EXCEPT ![f] = s]
    <3>1. d.filter[f] \in FilterRow
      BY <1>1, Columns
    <3> HIDE DEF c
    <3> QED
      BY <1>1, <2>3, <3>1, Columns DEF FilterRow
  <2>6. v \in DevRow /\ v.inuse = d.dev[c].inuse /\ v.state = "DISABLED"
    BY <1>1, <2>3, Columns DEF DevRow
  <2>7. a = [filter |-> [d.filter EXCEPT ![f] = s], dev |-> d.dev,
             channel |-> [d.channel EXCEPT ![c] = n], block |-> d.block]
    <3>1. a = [d EXCEPT !.channel[c] = n, !.filter[f].chid = c]
      BY DEF DemuxChannelAcquire
    <3> HIDE DEF a, c, n, p, s
    <3>2. a = [filter |-> [d.filter EXCEPT ![f].chid = c], dev |-> d.dev,
               channel |-> [d.channel EXCEPT ![c] = n], block |-> d.block]
      <4>1. d = [filter |-> d.filter, dev |-> d.dev, channel |-> d.channel, block |-> d.block]
        BY <1>1, Columns
      <4> QED
        BY <3>1, <4>1
    <3> QED
      BY <2>5, <3>2
  <2> HIDE DEF a, c, n, s, p
  <2>8. a.filter[f].chid = c
    BY <1>1, <2>5, <2>7, Columns
  <2>9. u = [filter |-> [d.filter EXCEPT ![f] = s], dev |-> [d.dev EXCEPT ![c] = v],
             channel |-> [d.channel EXCEPT ![c] = n], block |-> d.block]
    <3>1. [d.dev[c] EXCEPT !.state = "DISABLED"] = v
      BY <1>1, <2>3, Columns DEF DevRow
    <3> QED
      BY <1>1, <2>3, <2>7, <3>1, Columns
  <2> HIDE DEF u, v
  <2>10. u \in Tables
    BY <1>1, <2>4, <2>5, <2>6, <2>9, Columns, TablesAre
  <2>11. /\ u.filter = [d.filter EXCEPT ![f].chid = c] /\ u.block = d.block
         /\ u.channel[c] = n /\ \A k \in Channels : k # c => u.channel[k] = d.channel[k]
         /\ u.dev[c] = v /\ \A k \in Channels : k # c => u.dev[k] = d.dev[k]
    BY <1>1, <2>3, <2>5, <2>9, Columns
  <2>12. \A g \in Filters : Holds(d, g) =>
           /\ u.channel[d.filter[g].chid] = d.channel[d.filter[g].chid]
           /\ d.filter[g].pid # d.filter[f].pid
    <3> SUFFICES ASSUME NEW g \in Filters, Holds(d, g)
                 PROVE  /\ u.channel[d.filter[g].chid] = d.channel[d.filter[g].chid]
                        /\ d.filter[g].pid # d.filter[f].pid
      OBVIOUS
    <3>1. d.filter[g].chid \in Channels /\ d.channel[d.filter[g].chid].status # "UNUSED"
      BY DEF Sec, SlotSound
    <3>2. d.filter[g].pid # d.filter[f].pid
      BY <1>5, <3>1, NoneIsNone DEF Sharing
    <3> QED
      BY <2>3, <2>11, <3>1, <3>2
  <2>13. Account(u)
    BY <2>6, <2>11 DEF Sec, Account
  <2>14. Joined(d, u, f, c)
    BY <2>3, <2>4, <2>6, <2>10, <2>11, <2>12, <2>13 DEF Joined, p
  <2>15. r.d = u
    BY <2>1, <2>8 DEF u
  <2> QED
    BY <1>3, <1>5, <2>14, <2>15
<1> QED
  BY <1>2, <1>4, <1>5

\* Tables u are those of d with slot f started.
Going(d, u, f, c, b) ==
  /\ u \in Tables
  /\ u.filter = [d.filter EXCEPT ![f].states = START]
  /\ u.block = [d.block EXCEPT ![b] = [state |-> "ENABLED", ch |-> c]]
  /\ u.channel[c].status = "ENABLED"
  /\ \A k \in Channels : /\ u.channel[k].pid = d.channel[k].pid
                         /\ k # c => u.channel[k] = d.channel[k]
  /\ \A k \in Channels : u.dev[k].inuse = d.dev[k].inuse
  /\ Account(u)

LEMMA GoingKeeps ==
  ASSUME NEW d, Sec(d, {}, {}), NEW f \in Filters, Holds(d, f),
         NEW u, Going(d, u, f, d.filter[f].chid, d.filter[f].fid)
  PROVE  Sec(u, {}, {})
<1> DEFINE c == d.filter[f].chid
           b == d.filter[f].fid
<1>1. /\ d \in Tables /\ u \in Tables /\ c \in Channels /\ b \in Blocks
      /\ d.filter[f].type = "SEC" /\ d.block[b].state \in {"DISABLED", "ENABLED"}
      /\ d.channel[c].status # "UNUSED"
  BY DEF Sec, SlotSound, Going
<1>2. /\ u.filter[f].states = START /\ u.filter[f].type = "SEC"
      /\ u.filter[f].chid = c /\ u.filter[f].fid = b /\ u.filter[f].pid = d.filter[f].pid
      /\ \A g \in Filters : g # f => u.filter[g] = d.filter[g]
  <2>1. u.filter = [d.filter EXCEPT ![f].states = START] /\ d.filter[f] \in FilterRow
    BY <1>1, Columns DEF Going
  <2> QED
    BY <1>1, <2>1, Columns DEF FilterRow
<1>3. /\ u.block[b] = [state |-> "ENABLED", ch |-> c]
      /\ \A x \in Blocks : x # b => u.block[x] = d.block[x]
  BY <1>1, Columns DEF Going
<1>4. /\ u.channel[c].status = "ENABLED"
      /\ \A k \in Channels : /\ u.channel[k].pid = d.channel[k].pid
                             /\ k # c => u.channel[k] = d.channel[k]
      /\ \A k \in Channels : u.dev[k].inuse = d.dev[k].inuse
      /\ Account(u)
  BY DEF Going
<1>0. c = d.filter[f].chid /\ b = d.filter[f].fid
  OBVIOUS
<1> HIDE DEF c, b
<1>5. \A g \in Filters : /\ Holds(u, g) <=> Holds(d, g)
                         /\ u.filter[g].chid = d.filter[g].chid
                         /\ u.filter[g].fid = d.filter[g].fid
                         /\ u.filter[g].pid = d.filter[g].pid
  BY <1>0, <1>2 DEF Holds, START, SET
<1>6. \A g \in Filters : SlotSound(u, g)
  <2> SUFFICES ASSUME NEW g \in Filters PROVE SlotSound(u, g)
    OBVIOUS
  <2>1. CASE g = f
    BY <1>1, <1>2, <1>3, <1>4, <1>5, <2>1 DEF SlotSound
  <2>2. CASE g # f
    <3>1. SlotSound(d, g) /\ u.filter[g] = d.filter[g] /\ (Holds(u, g) <=> Holds(d, g))
      BY <1>2, <1>5, <2>2 DEF Sec
    <3>2. CASE Holds(d, g)
      <4>1. d.filter[g].fid # b /\ d.filter[g].fid \in Blocks /\ d.filter[g].chid \in Channels
        BY <1>0, <2>2, <3>1, <3>2 DEF Sec, Apart, SlotSound
      <4>2. u.block[d.filter[g].fid] = d.block[d.filter[g].fid]
        BY <1>3, <4>1
      <4>3. /\ u.channel[d.filter[g].chid].status # "UNUSED"
            /\ d.channel[d.filter[g].chid].status = "ENABLED" =>
                 u.channel[d.filter[g].chid].status = "ENABLED"
        BY <1>4, <3>1, <3>2, <4>1 DEF SlotSound
      <4> QED
        BY <3>1, <3>2, <4>1, <4>2, <4>3 DEF SlotSound
    <3>3. CASE ~Holds(d, g)
      BY <3>1, <3>3 DEF SlotSound, Holds, START, SET
    <3> QED
      BY <3>2, <3>3
  <2> QED
    BY <2>1, <2>2
<1>7. Apart(u)
  BY <1>5 DEF Sec, Apart
<1>8. Counted(u, {})
  <2>1. \A k \in Channels : Users(u, {}, k) = Users(d, {}, k)
    BY <1>5 DEF Users
  <2> QED
    BY <1>4, <2>1 DEF Sec, Counted
<1>9. ByPid(u, {})
  BY <1>4, <1>5 DEF Sec, SlotSound, ByPid
<1>10. Owned(u)
  <2>1. \A k \in Channels : u.channel[k].status # "UNUSED" => d.channel[k].status # "UNUSED"
    BY <1>1, <1>4
  <2>2. \A x \in Blocks : u.block[x].state \in {"DISABLED", "ENABLED"} =>
                            d.block[x].state \in {"DISABLED", "ENABLED"}
    BY <1>1, <1>3
  <2> QED
    BY <1>5, <2>1, <2>2 DEF Sec, Owned
<1>11. Cardinality(Pending(u)) <= MaxPending
  <2>1. Pending(u) \subseteq Pending(d)
    BY <1>1, <1>3 DEF Pending
  <2> QED
    BY <2>1, FewerPending DEF Sec
<1> QED
  BY <1>1, <1>4, <1>6, <1>7, <1>8, <1>9, <1>10, <1>11 DEF Sec

\* DemuxFilterStart once the slot is stopped and has its buffer.
StartOf(d, f) ==
  LET s == d.filter[f]
      c == s.chid
      Go(e) == [e EXCEPT !.filter[f].states = START]
      SEC == LET e == [d EXCEPT !.block[s.fid].state = "ENABLED"]
             IN  IF ~Assigned(d, s.fid) THEN d
                 ELSE IF c = NONE THEN Go(e)
                 ELSE IF e.dev[c].state = "ENABLED" THEN Go(e)
                 ELSE IF ~Valid(e, c) THEN e
                 ELSE Go([channel_enable(e, c)
                            EXCEPT !.dev[c].state = "ENABLED"])
      PES == IF Valid(d, c) THEN Go(channel_enable(d, c)) ELSE d
  IN  IF s.type = "SEC" THEN SEC ELSE PES

LEMMA StartKeeps ==
  ASSUME NEW d, Sec(d, {}, {}), NEW f \in Filters, Holds(d, f),
         NEW e, e = DemuxFilterStart(d, f)
  PROVE  Sec(e, {}, {})
<1>1. PICK t : t = DemuxFilterStop(d, f)
  OBVIOUS
<1>2. /\ Sec(t, {}, {}) /\ d \in Tables /\ t \in Tables
      /\ t.filter = [d.filter EXCEPT ![f].states = IF @ = START THEN READY ELSE @]
  <2>1. {} \in SUBSET Filters
    OBVIOUS
  <2>2. /\ Sec(t, {}, {})
        /\ t.filter = [d.filter EXCEPT ![f].states = IF @ = START THEN READY ELSE @]
    BY <1>1, <2>1, StopKeeps
  <2>3. d \in Tables /\ t \in Tables
    BY <2>2 DEF Sec
  <2> QED
    BY <2>2, <2>3
<1>3. Holds(t, f)
  <2>1. d.filter[f] \in FilterRow
    BY <1>2, Columns
  <2>2. t.filter[f].states = IF d.filter[f].states = START THEN READY ELSE d.filter[f].states
    BY <1>2, <2>1, Columns DEF FilterRow
  <2> QED
    BY <2>2 DEF Holds, START, READY, SET
<1> DEFINE c == t.filter[f].chid
           b == t.filter[f].fid
<1>4. /\ c \in Channels /\ b \in Blocks /\ t.filter[f].type = "SEC"
      /\ Valid(t, c) /\ Assigned(t, b) /\ t.block[b].ch = c
  BY <1>2, <1>3 DEF Sec, SlotSound, Valid, Assigned
<1> DEFINE s == [t.filter[f] EXCEPT !.states = IF @ = SET THEN READY ELSE @]
<1>5. PICK v : v = WithFilter(t, f, s)
  OBVIOUS
<1>6. /\ s \in FilterRow /\ s.chid = c /\ s.fid = b /\ s.type = "SEC"
      /\ [s EXCEPT !.states = START] = [t.filter[f] EXCEPT !.states = START]
  <2>1. t.filter[f] \in FilterRow /\ READY \in FREE .. START
    BY <1>2, Columns DEF READY, FREE, START
  <2> QED
    BY <1>4, <2>1 DEF FilterRow
<1>7. v = [t EXCEPT !.filter[f].states = IF @ = SET THEN READY ELSE @]
  BY <1>2, <1>5, Columns DEF WithFilter
<1>0. c = t.filter[f].chid /\ b = t.filter[f].fid
  OBVIOUS
<1> HIDE DEF c, b, s
<1>8. /\ v \in Tables
      /\ v = [filter |-> [t.filter EXCEPT ![f] = s], dev |-> t.dev,
              channel |-> t.channel, block |-> t.block]
  <2>1. t \in Tables /\ s \in FilterRow
    BY <1>2, <1>6
  <2> QED
    BY <1>5, <2>1, WriteFilter
<1>9. v.filter[f] = s /\ v.dev = t.dev /\ v.channel = t.channel /\ v.block = t.block
  BY <1>2, <1>8, Columns
<1>10. PICK w : w = BlockState(v, b, "ENABLED")
  OBVIOUS
<1>11. /\ w \in Tables
       /\ w = [filter |-> v.filter, dev |-> v.dev, channel |-> v.channel,
               block |-> [v.block EXCEPT ![b] = [state |-> "ENABLED", ch |-> v.block[b].ch]]]
  <2>1. v \in Tables /\ b \in Blocks
    BY <1>4, <1>8
  <2> QED
    BY <1>10, <2>1, BlockStateIs
<1>12. /\ w.filter = v.filter /\ w.dev = t.dev /\ w.channel = t.channel
       /\ w.block = [t.block EXCEPT ![b] = [state |-> "ENABLED", ch |-> c]]
  BY <1>4, <1>9, <1>11
<1>13. PICK z : z = IF w.dev[c].state = "ENABLED" THEN w
                    ELSE DevState(channel_enable(w, c), c, "ENABLED")
  OBVIOUS
<1>14. e = [z EXCEPT !.filter[f].states = START]
  <2>1. Assigned(v, b) /\ Valid(w, c) /\ c # NONE
    BY <1>4, <1>9, <1>12, NoneIsNone DEF Assigned, Valid
  <2>2. v.filter[f].type = "SEC" /\ v.filter[f].chid = c /\ v.filter[f].fid = b
    BY <1>6, <1>9
  <2>3. w = [v EXCEPT !.block[b].state = "ENABLED"]
    BY <1>10 DEF BlockState
  <2>4. e = StartOf(v, f)
    <3>1. DemuxFilterStart(d, f)
            = StartOf([DemuxFilterStop(d, f) EXCEPT
                         !.filter[f].states = IF @ = SET THEN READY ELSE @], f)
      BY Zenon DEF DemuxFilterStart, StartOf
    <3> QED
      BY <1>1, <1>7, <3>1
  <2>5. StartOf(v, f) = IF w.dev[c].state = "ENABLED" THEN [w EXCEPT !.filter[f].states = START]
                        ELSE [DevState(channel_enable(w, c), c, "ENABLED")
                                EXCEPT !.filter[f].states = START]
    <3>1. [v EXCEPT !.block[v.filter[f].fid].state = "ENABLED"] = w
      BY <2>2, <2>3
    <3>2. Assigned(v, v.filter[f].fid) /\ Valid(w, v.filter[f].chid) /\ v.filter[f].chid # NONE
      BY <2>1, <2>2
    <3>3. StartOf(v, f) =
            IF w.dev[v.filter[f].chid].state = "ENABLED" THEN [w EXCEPT !.filter[f].states = START]
            ELSE [[channel_enable(w, v.filter[f].chid)
                     EXCEPT !.dev[v.filter[f].chid].state = "ENABLED"]
                    EXCEPT !.filter[f].states = START]
      BY <2>2, <3>1, <3>2, Zenon DEF StartOf
    <3> QED
      BY <2>2, <3>3, Zenon DEF DevState
  <2> QED
    BY <1>13, <2>4, <2>5
<1>15. /\ z \in Tables /\ z.filter = v.filter /\ z.block = w.block
       /\ \A k \in Channels : z.dev[k].inuse = t.dev[k].inuse
       /\ z.channel[c].status = "ENABLED"
       /\ \A k \in Channels : /\ z.channel[k].pid = t.channel[k].pid
                              /\ k # c => z.channel[k] = t.channel[k] /\ z.dev[k] = t.dev[k]
  <2>1. CASE w.dev[c].state = "ENABLED"
    <3>1. t.channel[c].status = "ENABLED"
      BY <1>2, <1>4, <1>12, <2>1 DEF Sec, Account
    <3> QED
      BY <1>11, <1>12, <1>13, <2>1, <3>1
  <2>2. CASE w.dev[c].state # "ENABLED"
    <3> DEFINE n == [status |-> "ENABLED", pid |-> t.channel[c].pid]
    <3>1. n \in ChannelRow
      BY <1>2, <1>4, Columns DEF ChannelRow
    <3>2. PICK y : y = WithChannel(w, c, n)
      OBVIOUS
    <3>3. y = channel_enable(w, c)
      <4>1. [w.channel[c] EXCEPT !.status = "ENABLED"] = n
        BY <1>2, <1>4, <1>12, Columns DEF ChannelRow
      <4>2. w.channel \in [Channels -> ChannelRow]
            /\ w = [filter |-> w.filter, dev |-> w.dev, channel |-> w.channel, block |-> w.block]
        BY <1>11, Columns
      <4> HIDE DEF n
      <4> QED
        BY <3>2, <4>1, <4>2 DEF WithChannel, channel_enable
    <3> HIDE DEF n
    <3>4. /\ y \in Tables
          /\ y = [filter |-> w.filter, dev |-> w.dev,
                  channel |-> [w.channel EXCEPT ![c] = n], block |-> w.block]
      <4>1. w \in Tables
        BY <1>11
      <4> QED
        BY <1>4, <3>1, <3>2, <4>1, WriteChannel
    <3>5. z = DevState(y, c, "ENABLED")
      BY <1>13, <2>2, <3>3
    <3>6. /\ z \in Tables
          /\ z = [filter |-> y.filter,
                  dev |-> [y.dev EXCEPT ![c] = [inuse |-> y.dev[c].inuse, state |-> "ENABLED"]],
                  channel |-> y.channel, block |-> y.block]
      <4>1. y \in Tables
        BY <3>4
      <4> QED
        BY <1>4, <3>5, <4>1, DevStateIs
    <3>7. /\ z.filter = v.filter /\ z.block = w.block
          /\ z.channel = [t.channel EXCEPT ![c] = n]
          /\ z.dev = [t.dev EXCEPT ![c] = [inuse |-> t.dev[c].inuse, state |-> "ENABLED"]]
      BY <1>12, <3>4, <3>6
    <3>8. \A k \in Channels : /\ z.dev[k].inuse = t.dev[k].inuse
                              /\ k # c => z.dev[k] = t.dev[k]
      BY <1>2, <1>4, <3>7, Columns DEF DevRow
    <3>9. /\ z.channel[c] = n
          /\ \A k \in Channels : k # c => z.channel[k] = t.channel[k]
      BY <1>2, <1>4, <3>7, Columns
    <3>10. n.status = "ENABLED" /\ n.pid = t.channel[c].pid
      BY DEF n
    <3> QED
      BY <3>6, <3>7, <3>8, <3>9, <3>10
  <2> QED
    BY <2>1, <2>2
<1>16. /\ e \in Tables
       /\ e = [filter |-> [t.filter EXCEPT ![f].states = START], dev |-> z.dev,
               channel |-> z.channel, block |-> z.block]
  <2> DEFINE q == [t.filter[f] EXCEPT !.states = START]
  <2>1. z.filter[f] = s
    BY <1>9, <1>15
  <2>2. q \in FilterRow /\ [t.filter EXCEPT ![f].states = START] = [t.filter EXCEPT ![f] = q]
    <3>1. t.filter[f] \in FilterRow /\ START \in FREE .. START
      BY <1>2, Columns DEF START, FREE
    <3> QED
      BY <1>2, <3>1, Columns, RowStates
  <2>3. e = WithFilter(z, f, q)
    <3>1. [z.filter[f] EXCEPT !.states = START] = q
      BY <1>6, <2>1
    <3>2. z.filter \in [Filters -> FilterRow]
          /\ z = [filter |-> z.filter, dev |-> z.dev, channel |-> z.channel, block |-> z.block]
      BY <1>15, Columns
    <3> HIDE DEF q
    <3> QED
      BY <1>14, <3>1, <3>2 DEF WithFilter
  <2> HIDE DEF q
  <2>4. /\ e \in Tables
        /\ e = [filter |-> [z.filter EXCEPT ![f] = q], dev |-> z.dev,
                channel |-> z.channel, block |-> z.block]
    BY <1>15, <2>2, <2>3, WriteFilter
  <2>5. [z.filter EXCEPT ![f] = q] = [t.filter EXCEPT ![f] = q]
    BY <1>2, <1>8, <1>15, Columns
  <2> QED
    BY <2>2, <2>4, <2>5
<1>17. Account(e)
  BY <1>2, <1>15, <1>16 DEF Sec, Account
<1>18. Going(t, e, f, c, b)
  BY <1>12, <1>15, <1>16, <1>17 DEF Going
<1> QED
  BY <1>0, <1>2, <1>3, <1>18, GoingKeeps

\* Deletions that waited are carried out: no slot notices.
LEMMA PendingKeeps ==
  ASSUME NEW S, NEW P, NEW d, Sec(d, S, P), NEW c \in Channels,
         NEW e, e = process_pending(d, c)
  PROVE  Sec(e, S, P) /\ e.filter = d.filter
<1>0. d \in Tables
  BY DEF Sec
<1>1. /\ e \in Tables
      /\ e = [filter |-> d.filter, dev |-> d.dev, channel |-> d.channel,
              block |-> [x \in Blocks |-> IF d.block[x] = [state |-> "PENDING", ch |-> c]
                                          THEN NullBlock ELSE d.block[x]]]
  BY <1>0, PendingIs
<1>2. /\ e.filter = d.filter /\ e.dev = d.dev /\ e.channel = d.channel
      /\ \A x \in Blocks : e.block[x] = IF d.block[x] = [state |-> "PENDING", ch |-> c]
                                        THEN NullBlock ELSE d.block[x]
  BY <1>1
<1>3. \A x \in Blocks :
        /\ d.block[x].state \in {"DISABLED", "ENABLED"} => e.block[x] = d.block[x]
        /\ e.block[x].state \in {"DISABLED", "ENABLED"} => e.block[x] = d.block[x]
        /\ e.block[x].state = "PENDING" => d.block[x].state = "PENDING"
  BY <1>2 DEF NullBlock
<1>4. \A f \in Filters : (Holds(e, f) <=> Holds(d, f)) /\ e.filter[f] = d.filter[f]
  BY <1>2 DEF Holds
<1>5. \A f \in Filters : SlotSound(e, f)
  <2> SUFFICES ASSUME NEW f \in Filters PROVE SlotSound(e, f)
    OBVIOUS
  <2>1. SlotSound(d, f)
    BY DEF Sec
  <2>2. Holds(d, f) => /\ d.filter[f].fid \in Blocks
                       /\ e.block[d.filter[f].fid] = d.block[d.filter[f].fid]
    BY <1>3, <2>1 DEF SlotSound
  <2>3. d.filter[f].states = START => Holds(d, f)
    BY DEF Holds, START, SET
  <2> QED
    BY <1>2, <1>4, <2>1, <2>2, <2>3 DEF SlotSound
<1>6. Apart(e) /\ Account(e)
  BY <1>2, <1>4 DEF Sec, Apart, Account
<1>7. Counted(e, S)
  <2>1. \A k \in Channels : Users(e, S, k) = Users(d, S, k)
    BY <1>4 DEF Users
  <2> QED
    BY <1>2, <2>1 DEF Sec, Counted
<1>8. ByPid(e, P)
  BY <1>2, <1>4 DEF Sec, ByPid
<1>9. Owned(e)
  BY <1>2, <1>3, <1>4 DEF Sec, Owned
<1>10. Cardinality(Pending(e)) <= MaxPending
  <2>1. Pending(e) \subseteq Pending(d)
    BY <1>3 DEF Pending
  <2> QED
    BY <2>1, FewerPending DEF Sec
<1>11. \A f \in S : e.filter[f].type = "SEC" /\ e.filter[f].states \in {ALLOC, SET, READY}
  BY <1>2 DEF Sec
<1> QED
  BY <1>1, <1>2, <1>5, <1>6, <1>7, <1>8, <1>9, <1>10, <1>11 DEF Sec

\* The first open initialises the transport: nothing was left on it.
InitialisedEffect(d, e) ==
  /\ e \in Tables
  /\ e.filter = d.filter /\ e.dev = d.dev
  /\ \/ e = d
     \/ /\ \A f \in Filters : d.filter[f].states = FREE
        /\ \A c \in Channels : e.channel[c] = [status |-> "UNUSED", pid |-> NONE]
        /\ \A b \in Blocks : e.block[b] = NullBlock

LEMMA InitialisedIs ==
  ASSUME NEW d \in Tables, NEW e, e = Initialised(d)
  PROVE  InitialisedEffect(d, e)
<1>1. CASE \A f \in Filters : d.filter[f].states = FREE
  <2>1. e = [filter |-> d.filter, dev |-> d.dev, channel |-> NoChannels, block |-> NoBlocks]
    <3>1. e = [d EXCEPT !.channel = NoChannels, !.block = NoBlocks]
      BY <1>1 DEF Initialised
    <3>2. d = [filter |-> d.filter, dev |-> d.dev, channel |-> d.channel, block |-> d.block]
      BY Columns
    <3> QED
      BY <3>1, <3>2
  <2>2. NoChannels \in [Channels -> ChannelRow] /\ NoBlocks \in [Blocks -> BlockRow]
    BY DEF NoChannels, NoBlocks, NullBlock, ChannelRow, BlockRow
  <2>3. e \in Tables
    BY <2>1, <2>2, Columns, TablesAre
  <2>4. /\ \A c \in Channels : e.channel[c] = [status |-> "UNUSED", pid |-> NONE]
        /\ \A b \in Blocks : e.block[b] = NullBlock
        /\ e.filter = d.filter /\ e.dev = d.dev
    BY <2>1 DEF NoChannels, NoBlocks
  <2> QED
    BY <1>1, <2>3, <2>4 DEF InitialisedEffect
<1>2. CASE ~\A f \in Filters : d.filter[f].states = FREE
  BY <1>2 DEF Initialised, InitialisedEffect
<1> QED
  BY <1>1, <1>2

LEMMA InitialisedKeeps ==
  ASSUME NEW d, Sec(d, {}, {}), NEW e, e = Initialised(d)
  PROVE  Sec(e, {}, {}) /\ e.filter = d.filter
<1>1. InitialisedEffect(d, e)
  BY InitialisedIs DEF Sec
<1>2. CASE e = d
  BY <1>2
<1>3. CASE /\ \A f \in Filters : d.filter[f].states = FREE
           /\ \A c \in Channels : e.channel[c] = [status |-> "UNUSED", pid |-> NONE]
           /\ \A b \in Blocks : e.block[b] = NullBlock
  <2>1. e \in Tables /\ e.filter = d.filter /\ e.dev = d.dev
    BY <1>1 DEF InitialisedEffect
  <2>2. \A f \in Filters : ~Holds(d, f) /\ ~Holds(e, f) /\ e.filter[f].states = FREE
    BY <1>3, <2>1 DEF Holds, FREE, SET
  <2>3. \A f \in Filters : SlotSound(e, f)
    BY <2>1, <2>2 DEF Sec, SlotSound, START, FREE
  <2>4. Apart(e) /\ ByPid(e, {})
    BY <2>2 DEF Apart, ByPid
  <2>5. Counted(e, {})
    <3>1. \A k \in Channels : Users(e, {}, k) = Users(d, {}, k)
      BY <2>2 DEF Users
    <3> QED
      BY <2>1, <3>1 DEF Sec, Counted
  <2>6. Account(e)
    <3>1. \A c \in Channels : d.channel[c].status = "UNUSED"
      BY <2>2 DEF Sec, Owned
    <3> QED
      BY <2>1, <3>1 DEF Sec, Account
  <2>7. Owned(e)
    BY <1>3 DEF Owned, NullBlock
  <2>8. Cardinality(Pending(e)) <= MaxPending
    <3>1. Pending(e) \subseteq Pending(d)
      BY <1>3 DEF Pending, NullBlock
    <3> QED
      BY <3>1, FewerPending DEF Sec
  <2> QED
    BY <2>1, <2>3, <2>4, <2>5, <2>6, <2>7, <2>8 DEF Sec
<1> QED
  BY <1>1, <1>2, <1>3 DEF InitialisedEffect

\* The slot an open takes, and the one a close leaves, hold nothing.
Opened(s) == [s EXCEPT !.chid = NONE, !.fid = NONE, !.type = "none", !.states = ALLOC]

LEMMA OpenedRow ==
  ASSUME NEW s \in FilterRow
  PROVE  /\ Opened(s) \in FilterRow /\ Opened(s).states = ALLOC /\ Opened(s).chid = NONE
         /\ Opened(s).fid = NONE /\ Opened(s).type = "none" /\ Opened(s).out = s.out
<1>1. ALLOC \in FREE .. START
  BY DEF ALLOC, FREE, START
<1> QED
  BY <1>1 DEF Opened, FilterRow

LEMMA FreeSlot ==
  ASSUME NEW T, T = {f \in Filters : dmx.filter[f].states = FREE}, T # {}
  PROVE  Min(T) \in Filters /\ dmx.filter[Min(T)].states = FREE
<1>1. NumFilter \in Nat /\ T \in SUBSET (1 .. NumFilter)
  BY DemuxAssumption DEF Filters
<1>2. Min(T) \in T
  BY <1>1, LeastAndGreatest
<1> QED
  BY <1>2

LEMMA OpenIs ==
  ASSUME dmx \in Tables, demux_filter_open
  PROVE  \E f \in Filters : \E i :
           /\ dmx.filter[f].states = FREE /\ i = Initialised(dmx)
           /\ dmx' = WithFilter(i, f, Opened(i.filter[f]))
           /\ kinds' = kinds /\ todo' = todo
<1> DEFINE T == {f \in Filters : dmx.filter[f].states = FREE}
<1>1. T # {} /\ kinds' = kinds /\ todo' = todo
  BY DEF demux_filter_open
<1>2. PICK f : f = Min(T)
  OBVIOUS
<1>3. PICK i : i = Initialised(dmx)
  OBVIOUS
<1>4. f \in Filters /\ dmx.filter[f].states = FREE
  <2> HIDE DEF T
  <2>1. T = {g \in Filters : dmx.filter[g].states = FREE}
    BY DEF T
  <2> QED
    BY <1>1, <1>2, <2>1, FreeSlot
<1>5. dmx' = [i EXCEPT !.filter[f] = [@ EXCEPT
                !.chid = NONE, !.fid = NONE, !.type = "none", !.states = ALLOC]]
  BY <1>2, <1>3 DEF demux_filter_open
<1>6. InitialisedEffect(dmx, i)
  BY <1>3, InitialisedIs
<1>7. i \in Tables
  BY <1>6 DEF InitialisedEffect
<1>8. dmx' = WithFilter(i, f, Opened(i.filter[f]))
  BY <1>4, <1>5, <1>7, Columns DEF WithFilter, Opened
<1> QED
  BY <1>1, <1>3, <1>4, <1>8

LEMMA OpenKeeps ==
  ASSUME Sec(dmx, {}, {}), demux_filter_open
  PROVE  Sec(dmx', {}, {}) /\ kinds' = kinds /\ todo' = todo
<1>1. dmx \in Tables
  BY DEF Sec
<1>2. PICK f \in Filters : \E i :
        /\ dmx.filter[f].states = FREE /\ i = Initialised(dmx)
        /\ dmx' = WithFilter(i, f, Opened(i.filter[f]))
        /\ kinds' = kinds /\ todo' = todo
  BY <1>1, OpenIs
<1>3. PICK i : /\ dmx.filter[f].states = FREE /\ i = Initialised(dmx)
               /\ dmx' = WithFilter(i, f, Opened(i.filter[f]))
               /\ kinds' = kinds /\ todo' = todo
  BY <1>2
<1>4. Sec(i, {}, {}) /\ i.filter = dmx.filter
  BY <1>3, InitialisedKeeps
<1>5. ~Holds(i, f) /\ i.filter[f] \in FilterRow
  <2>1. i \in Tables
    BY <1>4 DEF Sec
  <2> QED
    BY <1>3, <1>4, <2>1, Columns DEF Holds, FREE, SET
<1>6. PICK s : s = Opened(i.filter[f])
  OBVIOUS
<1>7. s \in FilterRow /\ s.states < SET /\ s.chid = NONE /\ s.fid = NONE
  BY <1>5, <1>6, OpenedRow DEF ALLOC, SET
<1>8. Sec(dmx', {}, {})
  <2>1. {} \in SUBSET Filters /\ f \notin {} /\ dmx' = WithFilter(i, f, s)
    BY <1>3, <1>6
  <2> QED
    BY <1>4, <1>5, <1>7, <2>1, IdleWrite
<1> QED
  BY <1>3, <1>8

\* A slot that holds nothing is closed, or has its PID written, at once.
LEMMA FreedKeeps ==
  ASSUME NEW d, Sec(d, {}, {}), NEW f \in Filters, ~Holds(d, f),
         NEW e, e = [d EXCEPT !.filter[f].states = FREE]
  PROVE  Sec(e, {}, {})
<1>1. d \in Tables /\ SlotSound(d, f)
  BY DEF Sec
<1>2. d.filter[f] \in FilterRow
  BY <1>1, Columns
<1>3. PICK s : s = [d.filter[f] EXCEPT !.states = FREE]
  OBVIOUS
<1>4. s \in FilterRow /\ s.states < SET /\ s.chid = NONE /\ s.fid = NONE
  BY <1>1, <1>2, <1>3 DEF SlotSound, FilterRow, FREE, START, SET
<1>5. e = WithFilter(d, f, s)
  BY <1>1, <1>3, Columns DEF WithFilter
<1>6. {} \in SUBSET Filters /\ f \notin {}
  OBVIOUS
<1> QED
  BY <1>4, <1>5, <1>6, IdleWrite

WithPid(d, f, pid) == [d EXCEPT !.filter[f].pid = pid]

LEMMA PidWritten ==
  ASSUME NEW d, Sec(d, {}, {}), NEW f \in Filters, ~Holds(d, f), NEW pid \in Pids,
         NEW e, e = WithPid(d, f, pid)
  PROVE  Sec(e, {}, {}) /\ ~Holds(e, f) /\ e.filter[f].pid = pid
<1>1. d \in Tables /\ SlotSound(d, f)
  BY DEF Sec
<1>2. d.filter[f] \in FilterRow
  BY <1>1, Columns
<1>3. PICK s : s = [d.filter[f] EXCEPT !.pid = pid]
  OBVIOUS
<1>4. /\ s \in FilterRow /\ s.states = d.filter[f].states /\ s.chid = NONE /\ s.fid = NONE
      /\ s.pid = pid
  BY <1>1, <1>2, <1>3 DEF SlotSound, FilterRow
<1>5. s.states < SET
  BY <1>2, <1>4 DEF Holds, FilterRow, FREE, START, SET
<1>6. e = WithFilter(d, f, s)
  BY <1>1, <1>3, Columns DEF WithFilter, WithPid
<1>7. {} \in SUBSET Filters /\ f \notin {}
  OBVIOUS
<1>8. e.filter[f] = s
  <2>1. e = [filter |-> [d.filter EXCEPT ![f] = s], dev |-> d.dev,
             channel |-> d.channel, block |-> d.block]
    BY <1>1, <1>4, <1>6, WriteFilter
  <2> QED
    BY <1>1, <2>1, Columns
<1> QED
  BY <1>4, <1>5, <1>6, <1>7, <1>8, IdleWrite DEF Holds

-----------------------------------------------------------------------------
\* Section filters: the steps keep the invariant.

LEMMA NobodySleeps ==
  ASSUME InOrder, NEW f \in Filters, MayCall(f)
  PROVE  Sleepers = {}
BY DEF InOrder, MayCall, Sleepers

\* A call goes to sleep in the reset of its slot.
LEMMA SleepKeeps ==
  ASSUME IInv, kinds = {"SEC"}, Sleepers = {}, NEW f \in Filters, NEW d, Sec(d, {}, {f}),
         d.filter[f].type = "SEC", d.filter[f].states # FREE,
         NEW what \in {"close", "SEC"}, what = "SEC" => d.filter[f].pid \in Pids,
         dmx' = ResetBegin(d, f), todo' = [todo EXCEPT ![f] = what], kinds' = kinds
  PROVE  IInv'
<1>1. todo \in [Filters -> Todo] /\ what \in Todo /\ \A g \in Filters : todo[g] = "nothing"
  BY DEF IInv, Sleepers, Asleep, Todo
<1>2. /\ todo' \in [Filters -> Todo] /\ todo'[f] = what
      /\ \A g \in Filters : g # f => todo'[g] = "nothing"
  BY <1>1
<1>3. Todo' = Todo
  BY DEF Todo
<1>4. Sleepers' = {f}
  BY <1>2 DEF Sleepers, Asleep
<1>5. PICK e : e = dmx'
  OBVIOUS
<1>6. Sec(e, {f}, {f}) /\ e.filter[f].pid = d.filter[f].pid
  BY <1>5, BeginKeeps
<1>7. Sec(dmx', Sleepers', Sleepers')
  BY <1>4, <1>5, <1>6
<1>8. \A g, h \in Filters : Asleep(g)' /\ Asleep(h)' => g = h
  BY <1>2 DEF Asleep
<1>9. \A g \in Filters : todo'[g] = "SEC" => dmx'.filter[g].pid \in Pids
  BY <1>2, <1>5, <1>6
<1>10. kinds' = {"SEC"} /\ kinds' \in Uses
  BY DEF IInv
<1> QED
  BY <1>2, <1>3, <1>7, <1>8, <1>9, <1>10 DEF IInv

\* A call that does not sleep.
LEMMA AwakeKeeps ==
  ASSUME IInv, kinds = {"SEC"}, Sleepers = {}, Sec(dmx', {}, {}), todo' = todo, kinds' = kinds
  PROVE  IInv'
<1>1. todo \in [Filters -> Todo] /\ \A g \in Filters : todo[g] = "nothing"
  BY DEF IInv, Sleepers, Asleep
<1>2. Sleepers' = {}
  BY <1>1 DEF Sleepers, Asleep
<1>3. Todo' = Todo
  BY DEF Todo
<1>4. Sec(dmx', Sleepers', Sleepers')
  BY <1>2
<1> QED
  BY <1>1, <1>3, <1>4 DEF IInv, Asleep

LEMMA ReleaseKeeps ==
  ASSUME InOrder, IInv, kinds = {"SEC"}, NEW f \in Filters, demux_filter_release(f)
  PROVE  IInv'
<1>1. /\ Sleepers = {} /\ Sec(dmx, {}, {}) /\ dmx.filter[f].states # FREE
      /\ ResetAndFinish(dmx, f, "close") /\ kinds' = kinds
  <2>1. MayCall(f) /\ ResetAndFinish(dmx, f, "close") /\ kinds' = kinds
    BY DEF demux_filter_release
  <2>2. Sleepers = {}
    BY <2>1, NobodySleeps
  <2> QED
    BY <2>1, <2>2 DEF IInv, MayCall
<1>2. CASE dmx.filter[f].type = "SEC"
  <2>1. dmx' = ResetBegin(dmx, f) /\ todo' = [todo EXCEPT ![f] = "close"]
    BY <1>1, <1>2 DEF ResetAndFinish
  <2>2. PICK d : d = dmx
    OBVIOUS
  <2>3. Sec(d, {}, {f})
    BY <1>1, <2>2 DEF Sec, ByPid
  <2> QED
    BY <1>1, <1>2, <2>1, <2>2, <2>3, SleepKeeps
<1>3. CASE dmx.filter[f].type # "SEC"
  <2>1. dmx' = Finish(ResetOther(dmx, f), f, "close") /\ todo' = todo
    BY <1>1, <1>3 DEF ResetAndFinish
  <2>2. PICK d : d = dmx
    OBVIOUS
  <2>3. /\ d \in Tables /\ SlotSound(d, f) /\ ~Holds(d, f)
    BY <1>1, <1>3, <2>2 DEF Sec, SlotSound
  <2>4. d.filter[f] \in FilterRow /\ d.filter[f].states < START /\ d.filter[f].chid = NONE
    <3>1. d.filter[f] \in FilterRow
      BY <2>3, Columns
    <3> QED
      BY <2>3, <3>1 DEF SlotSound, Holds, FilterRow, FREE, START, SET
  <2>5. PICK s : s = [d.filter[f] EXCEPT !.states = ALLOC]
    OBVIOUS
  <2>6. /\ s \in FilterRow /\ s.states < SET /\ s.chid = NONE /\ s.fid = NONE
        /\ s = [d.filter[f] EXCEPT !.chid = NONE, !.states = ALLOC]
    <3>1. ALLOC \in FREE .. START /\ ALLOC < SET
      BY DEF ALLOC, SET, FREE, START
    <3>2. d.filter[f].fid = NONE
      BY <2>3 DEF SlotSound
    <3> QED
      BY <2>4, <2>5, <3>1, <3>2 DEF FilterRow
  <2>7. PICK u : u = ResetOther(d, f)
    OBVIOUS
  <2>8. u = WithFilter(d, f, s)
    <3>1. DemuxFilterStop(d, f) = d
      BY <2>4 DEF DemuxFilterStop
    <3>2. CASE d.filter[f].type = "PES"
      <4>1. u = [d EXCEPT !.filter[f].chid = NONE, !.filter[f].states = ALLOC]
        BY <2>4, <2>7, <3>1, <3>2 DEF ResetOther
      <4>2. d.filter \in [Filters -> FilterRow]
        BY <2>3, Columns
      <4> QED
        BY <2>6, <4>1, <4>2 DEF WithFilter
    <3>3. CASE d.filter[f].type # "PES"
      <4>1. u = [d EXCEPT !.filter[f].states = ALLOC]
        BY <2>7, <3>1, <3>3 DEF ResetOther
      <4>2. d.filter \in [Filters -> FilterRow]
        BY <2>3, Columns
      <4> QED
        BY <2>5, <4>1, <4>2 DEF WithFilter
    <3> QED
      BY <3>2, <3>3
  <2>9. Sec(u, {}, {}) /\ u.filter[f] = s
    <3>1. {} \in SUBSET Filters /\ f \notin {} /\ Sec(d, {}, {})
      BY <1>1, <2>2
    <3>2. u = [filter |-> [d.filter EXCEPT ![f] = s], dev |-> d.dev,
               channel |-> d.channel, block |-> d.block]
      BY <2>3, <2>6, <2>8, WriteFilter
    <3>3. u.filter[f] = s
      BY <2>3, <3>2, Columns
    <3>4. s \in FilterRow /\ s.states < SET /\ s.chid = NONE /\ s.fid = NONE
      BY <2>6
    <3>5. ~Holds(d, f)
      BY <2>3
    <3>6. Sec(u, {}, {})
      BY <2>8, <3>1, <3>4, <3>5, IdleWrite
    <3> QED
      BY <3>3, <3>6
  <2>10. ~Holds(u, f)
    <3>1. s.states < SET /\ s.states \in 0 .. 4
      BY <2>6 DEF FilterRow, FREE, START
    <3>2. u.filter[f].states = s.states
      BY <2>9
    <3> QED
      BY <3>1, <3>2 DEF Holds, SET
  <2>11. PICK e : e = dmx'
    OBVIOUS
  <2>12. e = [u EXCEPT !.filter[f].states = FREE]
    BY <2>1, <2>2, <2>7, <2>11 DEF Finish
  <2>13. Sec(e, {}, {})
    BY <2>9, <2>10, <2>12, FreedKeeps
  <2> QED
    BY <1>1, <2>1, <2>11, <2>13, AwakeKeeps
<1> QED
  BY <1>2, <1>3

LEMMA SectionSetKeeps ==
  ASSUME InOrder, IInv, kinds = {"SEC"}, NEW f \in Filters, NEW pid \in Pids,
         DemuxFilterSectionSet(f, pid)
  PROVE  IInv'
<1>1. PICK d : d = [dmx EXCEPT !.filter[f].pid = pid]
  OBVIOUS
<1>2. /\ Sleepers = {} /\ Sec(dmx, {}, {}) /\ kinds' = kinds /\ dmx.filter[f].states # FREE
      /\ IF dmx.filter[f].states >= SET THEN ResetAndFinish(d, f, "SEC")
         ELSE dmx' = SectionAttach(d, f) /\ UNCHANGED todo
  <2>1. /\ MayCall(f) /\ kinds' = kinds
        /\ IF dmx.filter[f].states >= SET THEN ResetAndFinish(d, f, "SEC")
           ELSE dmx' = SectionAttach(d, f) /\ UNCHANGED todo
    BY <1>1 DEF DemuxFilterSectionSet
  <2>2. Sleepers = {}
    BY <2>1, NobodySleeps
  <2>3. Sec(dmx, {}, {}) /\ dmx.filter[f].states # FREE
    BY <2>1, <2>2 DEF IInv, MayCall
  <2> QED
    BY <2>1, <2>2, <2>3
<1>3. PICK t : t = dmx
  OBVIOUS
<1>4. t \in Tables /\ Sec(t, {}, {}) /\ SlotSound(t, f) /\ d = [t EXCEPT !.filter[f].pid = pid]
  BY <1>1, <1>2, <1>3 DEF Sec
<1>5. PICK e : e = dmx'
  OBVIOUS
<1>6. CASE Holds(t, f)
  <2>1. ResetAndFinish(d, f, "SEC")
    BY <1>2, <1>3, <1>6 DEF Holds
  <2>2. Sec(d, {}, {f})
    <3>1. Sec(t, {}, {}) /\ d = [t EXCEPT !.filter[f].pid = pid]
      BY <1>4
    <3> QED
      BY <3>1, PidAhead
  <2>3. d.filter[f].type = "SEC" /\ d.filter[f].states # FREE /\ d.filter[f].pid = pid
    <3>1. t.filter[f] \in FilterRow
      BY <1>4, Columns
    <3>2. d.filter[f] = [t.filter[f] EXCEPT !.pid = pid]
      BY <1>4, Columns
    <3>3. t.filter[f].type = "SEC" /\ t.filter[f].states # FREE
      BY <1>2, <1>3, <1>4, <1>6 DEF SlotSound
    <3> QED
      BY <3>1, <3>2, <3>3 DEF FilterRow
  <2>4. dmx' = ResetBegin(d, f) /\ todo' = [todo EXCEPT ![f] = "SEC"]
    BY <2>1, <2>3 DEF ResetAndFinish
  <2> QED
    BY <1>2, <2>2, <2>3, <2>4, SleepKeeps
<1>7. CASE ~Holds(t, f)
  <2>1. dmx' = SectionAttach(d, f) /\ todo' = todo
    BY <1>2, <1>3, <1>7 DEF Holds
  <2>2. Sec(d, {}, {}) /\ ~Holds(d, f) /\ d.filter[f].pid = pid
    <3>1. Sec(t, {}, {}) /\ d = WithPid(t, f, pid)
      BY <1>4 DEF WithPid
    <3> QED
      BY <1>7, <3>1, PidWritten
  <2>3. Sec(e, {}, {})
    <3>1. e = SectionAttach(d, f) /\ d.filter[f].pid \in Pids
      BY <1>5, <2>1, <2>2
    <3>2. Sec(d, {}, {}) /\ ~Holds(d, f)
      BY <2>2
    <3> QED
      BY <3>1, <3>2, AttachKeeps
  <2> QED
    BY <1>2, <1>5, <2>1, <2>3, AwakeKeeps
<1> QED
  BY <1>6, <1>7

LEMMA WakeKeeps ==
  ASSUME InOrder, IInv, kinds = {"SEC"}, NEW f \in Filters, Wake(f)
  PROVE  IInv'
<1>1. /\ todo \in [Filters -> Todo] /\ Asleep(f) /\ kinds' = kinds
      /\ todo' = [todo EXCEPT ![f] = "nothing"]
      /\ Sleepers = {f} /\ Sec(dmx, {f}, {f})
  <2>1. Sleepers = {f}
    BY DEF IInv, Wake, Sleepers
  <2> QED
    BY <2>1 DEF IInv, Wake
<1>2. PICK ack \in BOOLEAN : dmx' = Finish(ResetEnd(dmx, f, ack), f, todo[f])
  BY DEF Wake
<1>3. PICK t : t = dmx
  OBVIOUS
<1>4. PICK u : u = ResetEnd(t, f, ack)
  OBVIOUS
<1>5. Sec(t, {f}, {f}) /\ Sec(u, {}, {}) /\ IsDetached(t, u, f)
  <2>1. Sec(t, {f}, {f})
    BY <1>1, <1>3
  <2> QED
    BY <1>4, <2>1, EndKeeps
<1>6. ~Holds(u, f)
  BY <1>5 DEF IsDetached, Holds, ALLOC, SET
<1>7. PICK e : e = dmx'
  OBVIOUS
<1>8. Sec(e, {}, {})
  <2>1. todo[f] \in {"close", "SEC"}
    BY <1>1 DEF Asleep, Todo
  <2>2. CASE todo[f] = "close"
    <3>1. e = [u EXCEPT !.filter[f].states = FREE]
      BY <1>2, <1>3, <1>4, <1>7, <2>2 DEF Finish
    <3> QED
      BY <1>5, <1>6, <3>1, FreedKeeps
  <2>3. CASE todo[f] = "SEC"
    <3>1. e = SectionAttach(u, f)
      BY <1>2, <1>3, <1>4, <1>7, <2>3 DEF Finish
    <3>2. u.filter[f].pid \in Pids
      BY <1>3, <1>5, <2>3 DEF IInv, IsDetached
    <3> QED
      BY <1>5, <1>6, <3>1, <3>2, AttachKeeps
  <2> QED
    BY <2>1, <2>2, <2>3
<1>9. /\ todo' \in [Filters -> Todo] /\ Sleepers' = {}
      /\ \A g \in Filters : todo'[g] = "nothing"
  <2>1. \A g \in Filters : g # f => todo[g] = "nothing"
    BY <1>1 DEF Sleepers, Asleep
  <2>2. todo' \in [Filters -> Todo] /\ \A g \in Filters : todo'[g] = "nothing"
    BY <1>1, <2>1 DEF Todo
  <2> QED
    BY <2>2 DEF Sleepers, Asleep
<1>10. Todo' = Todo
  BY <1>1 DEF Todo
<1>11. Sec(dmx', Sleepers', Sleepers')
  BY <1>7, <1>8, <1>9
<1>12. kinds' = {"SEC"} /\ kinds' \in Uses
  BY <1>1 DEF IInv
<1> QED
  BY <1>9, <1>10, <1>11, <1>12 DEF IInv, Asleep

\* Every step, while section filters are in use.
LEMMA SectionStep ==
  ASSUME InOrder, IInv, kinds = {"SEC"}, Next
  PROVE  IInv'
<1>1. CASE demux_filter_open
  <2>1. Sleepers = {}
    BY <1>1 DEF demux_filter_open, InOrder, Sleepers
  <2>2. Sec(dmx, {}, {})
    BY <2>1 DEF IInv
  <2>3. Sec(dmx', {}, {}) /\ kinds' = kinds /\ todo' = todo
    BY <1>1, <2>2, OpenKeeps
  <2> QED
    BY <2>1, <2>3, AwakeKeeps
<1>2. ASSUME NEW f \in Filters, demux_filter_release(f) PROVE IInv'
  BY <1>2, ReleaseKeeps
<1>3. ASSUME NEW f \in Filters, NEW pid \in Pids, DemuxFilterSectionSet(f, pid) PROVE IInv'
  BY <1>3, SectionSetKeeps
<1>4. ASSUME NEW f \in Filters, NEW pid \in Pids, NEW out \in {"MEMORY", "NOTHING"},
             DemuxFilterPESMemorySet(f, pid, out)
      PROVE  FALSE
  BY <1>4 DEF DemuxFilterPESMemorySet
<1>5. ASSUME NEW f \in Filters, StartIoctl(f) PROVE IInv'
  <2>1. MayCall(f) /\ Holds(dmx, f) /\ dmx' = DemuxFilterStart(dmx, f)
        /\ kinds' = kinds /\ todo' = todo
    BY <1>5 DEF StartIoctl, Holds
  <2>2. Sleepers = {}
    BY <2>1, NobodySleeps
  <2>3. Sec(dmx, {}, {})
    BY <2>2 DEF IInv
  <2>4. Sec(dmx', {}, {})
    BY <2>1, <2>3, StartKeeps
  <2> QED
    BY <2>1, <2>2, <2>4, AwakeKeeps
<1>6. ASSUME NEW f \in Filters, StopIoctl(f) PROVE IInv'
  <2>1. MayCall(f) /\ dmx' = DemuxFilterStop(dmx, f) /\ kinds' = kinds /\ todo' = todo
    BY <1>6 DEF StopIoctl
  <2>2. Sleepers = {}
    BY <2>1, NobodySleeps
  <2>3. Sec(dmx, {}, {}) /\ {} \in SUBSET Filters
    BY <2>2 DEF IInv
  <2>4. Sec(dmx', {}, {})
    BY <2>1, <2>3, StopKeeps
  <2> QED
    BY <2>1, <2>2, <2>4, AwakeKeeps
<1>7. ASSUME NEW f \in Filters, Wake(f) PROVE IInv'
  BY <1>7, WakeKeeps
<1>8. ASSUME NEW c \in Channels, SectionChange(c) PROVE IInv'
  <2>1. dmx' = process_pending(dmx, c) /\ kinds' = kinds /\ todo' = todo
    BY <1>8 DEF SectionChange
  <2>2. PICK e : e = dmx'
    OBVIOUS
  <2>3. Sec(e, Sleepers, Sleepers) /\ e.filter = dmx.filter
    BY <2>1, <2>2, PendingKeeps DEF IInv
  <2>4. Sleepers' = Sleepers /\ Todo' = Todo
    BY <2>1 DEF Sleepers, Asleep, Todo
  <2>5. Sec(dmx', Sleepers', Sleepers')
    BY <2>2, <2>3, <2>4
  <2> QED
    BY <2>1, <2>2, <2>3, <2>4, <2>5 DEF IInv, Asleep
<1> QED
  BY <1>1, <1>2, <1>3, <1>4, <1>5, <1>6, <1>7, <1>8 DEF Next, demux_filter_ioctl

-----------------------------------------------------------------------------
\* PES filters: the same for the slots that have a channel to themselves.

\* A channel and its slot are written; the slots of other channels do not notice.
PesWritten(d, e, f) ==
  /\ e \in Tables
  /\ \A g \in Filters : g # f => e.filter[g] = d.filter[g]
  /\ \A c \in Channels : c # d.filter[f].chid /\ c # e.filter[f].chid => e.channel[c] = d.channel[c]
  /\ \A c \in Channels : e.dev[c].inuse = d.dev[c].inuse
  /\ \A b \in Blocks : e.block[b].state = "NULL"
  /\ d.filter[f].chid # NONE /\ e.filter[f].chid # d.filter[f].chid =>
       e.channel[d.filter[f].chid].status = "UNUSED"
  /\ e.filter[f].chid # NONE => \A g \in Filters : g # f => d.filter[g].chid # e.filter[f].chid

LEMMA PesWrite ==
  ASSUME NEW P \in SUBSET Filters, NEW Q \in SUBSET Filters, NEW d, Pes(d, P),
         NEW f \in Filters, P \ Q \subseteq {f},
         NEW e, PesWritten(d, e, f), PesSound(e, Q, f)
  PROVE  Pes(e, Q)
<1>1. /\ d \in Tables /\ e \in Tables
      /\ d.filter[f].chid \in Channels \cup {NONE} /\ e.filter[f].chid \in Channels \cup {NONE}
  BY FieldTypes DEF Pes, PesWritten
<1>2. PICK c \in Channels \cup {NONE} : c = d.filter[f].chid
  BY <1>1
<1>3. PICK k \in Channels \cup {NONE} : k = e.filter[f].chid
  BY <1>1
<1>4. /\ \A g \in Filters : g # f => e.filter[g] = d.filter[g]
      /\ \A x \in Channels : x # c /\ x # k => e.channel[x] = d.channel[x]
      /\ c # NONE /\ k # c => e.channel[c].status = "UNUSED"
      /\ k # NONE => \A g \in Filters : g # f => d.filter[g].chid # k
      /\ c # NONE => \A g \in Filters : g # f => d.filter[g].chid # c
  BY <1>2, <1>3 DEF PesWritten, Pes, PesSound
<1>5. ASSUME NEW g \in Filters PROVE PesSound(e, Q, g)
  <2>1. CASE g = f
    BY <2>1
  <2>2. CASE g # f
    <3>1. PesSound(d, P, g) /\ e.filter[g] = d.filter[g] /\ (g \notin Q => g \notin P)
      BY <1>4, <2>2 DEF Pes
    <3>2. d.filter[g].chid # NONE => /\ d.filter[g].chid \in Channels
                                     /\ d.filter[g].chid # c /\ d.filter[g].chid # k
      BY <1>1, <1>4, <2>2, FieldTypes, NoneIsNone
    <3>3. d.filter[g].chid # NONE => e.channel[d.filter[g].chid] = d.channel[d.filter[g].chid]
      BY <1>4, <3>2
    <3>4. \A h \in Filters : d.filter[g].chid # NONE /\ h # g =>
                               e.filter[h].chid # d.filter[g].chid
      BY <1>3, <1>4, <3>1, <3>2 DEF PesSound
    <3> QED
      BY <3>1, <3>3, <3>4 DEF PesSound, Holds
  <2> QED
    BY <2>1, <2>2
<1>6. ASSUME NEW x \in Channels, e.channel[x].status # "UNUSED"
      PROVE  \E g \in Filters : e.filter[g].chid = x
  <2>1. CASE x = k
    BY <1>3, <2>1
  <2>2. CASE x # k
    <3>1. x # c
      BY <1>4, <1>6, <2>2, NoneIsNone
    <3>2. d.channel[x].status # "UNUSED"
      BY <1>4, <1>6, <2>2, <3>1
    <3>3. PICK g \in Filters : d.filter[g].chid = x
      BY <3>2 DEF Pes
    <3>4. g # f
      BY <1>2, <3>1, <3>3
    <3> QED
      BY <1>4, <3>3, <3>4
  <2> QED
    BY <2>1, <2>2
<1>7. /\ \A x \in Channels : e.dev[x].inuse = 0
      /\ \A b \in Blocks : e.block[b].state = "NULL"
  BY DEF Pes, PesWritten
<1> QED
  BY <1>1, <1>5, <1>6, <1>7 DEF Pes

\* A slot that has no channel is written.
LEMMA PesIdle ==
  ASSUME NEW d, Pes(d, {}), NEW f \in Filters, d.filter[f].chid = NONE,
         NEW s \in FilterRow, s.chid = NONE, s.fid = NONE, s.states # START,
         s.out = "MEMORY", s.type \in {"none", "PES"}, s.states >= SET => s.type = "PES",
         NEW e, e = WithFilter(d, f, s)
  PROVE  Pes(e, {})
<1>1. d \in Tables
  BY DEF Pes
<1>2. /\ e \in Tables
      /\ e = [filter |-> [d.filter EXCEPT ![f] = s], dev |-> d.dev,
              channel |-> d.channel, block |-> d.block]
  BY <1>1, WriteFilter
<1>3. /\ e.filter[f] = s /\ e.dev = d.dev /\ e.channel = d.channel /\ e.block = d.block
      /\ \A g \in Filters : g # f => e.filter[g] = d.filter[g]
  BY <1>1, <1>2, Columns
<1>4. PesWritten(d, e, f)
  BY <1>2, <1>3 DEF Pes, PesWritten
<1>5. PesSound(e, {}, f)
  BY <1>3 DEF PesSound, Holds
<1>6. {} \in SUBSET Filters /\ {} \ {} \subseteq {f}
  OBVIOUS
<1> QED
  BY <1>4, <1>5, <1>6, PesWrite

\* The only user of a channel stops it.
LEMMA PesStopKeeps ==
  ASSUME NEW P \in SUBSET Filters, NEW d, Pes(d, P), NEW f \in Filters,
         NEW e, e = DemuxFilterStop(d, f)
  PROVE  /\ Pes(e, P)
         /\ e.filter = [d.filter EXCEPT ![f].states = IF @ = START THEN READY ELSE @]
<1>0. d \in Tables /\ d.filter[f] \in FilterRow /\ PesSound(d, P, f)
  BY Columns DEF Pes
<1>1. CASE d.filter[f].states # START
  <2>1. d.filter[f].states < START
    BY <1>0, <1>1, FieldTypes DEF START, FREE
  <2>2. e = d
    BY <2>1 DEF DemuxFilterStop
  <2>3. d.filter = [d.filter EXCEPT ![f].states = IF @ = START THEN READY ELSE @]
    BY <1>0, <1>1, Columns DEF FilterRow
  <2> QED
    BY <2>2, <2>3
<1>2. CASE d.filter[f].states = START
  <2>1. PICK c : c = d.filter[f].chid
    OBVIOUS
  <2>2. /\ c \in Channels /\ c # NONE /\ Valid(d, c) /\ d.filter[f].type = "PES"
        /\ d.channel[c].status = "ENABLED"
    <3>1. Holds(d, f)
      BY <1>2 DEF Holds, START, SET
    <3>2. /\ d.filter[f].type = "PES" /\ c # NONE /\ d.channel[c].status = "ENABLED"
      BY <1>0, <1>2, <2>1, <3>1 DEF PesSound
    <3>3. c \in Channels
      BY <1>0, <2>1, <3>2, FieldTypes
    <3> QED
      BY <3>2, <3>3 DEF Valid
  <2>3. PICK u : u = channel_disable(d, c)
    OBVIOUS
  <2>4. e = Stopped(u, f)
    <3>1. ~(d.filter[f].states < START) /\ d.filter[f].type # "SEC"
      BY <1>2, <2>2 DEF START
    <3>2. d.filter[f].chid # NONE /\ Valid(d, d.filter[f].chid)
      BY <2>1, <2>2
    <3>3. e = Stopped(channel_disable(d, d.filter[f].chid), f)
      BY <3>1, <3>2, Zenon DEF DemuxFilterStop
    <3> QED
      BY <2>1, <2>3, <3>3
  <2>5. /\ u \in Tables
        /\ u = [filter |-> d.filter, dev |-> d.dev,
                channel |-> [d.channel EXCEPT ![c].status = "DISABLED"],
                block |-> [x \in Blocks |-> IF d.block[x] = [state |-> "PENDING", ch |-> c]
                                            THEN NullBlock ELSE d.block[x]]]
    BY <1>0, <2>2, <2>3, DisableIs
  <2>6. /\ u.filter = d.filter /\ u.dev = d.dev
        /\ u.channel = [d.channel EXCEPT ![c].status = "DISABLED"]
        /\ \A x \in Blocks : u.block[x].state = "NULL"
    BY <2>5 DEF Pes, NullBlock
  <2>7. /\ e \in Tables
        /\ e = [filter |-> [u.filter EXCEPT ![f].states = READY], dev |-> u.dev,
                channel |-> u.channel, block |-> u.block]
    BY <2>4, <2>5, StoppedIs
  <2>8. /\ e.filter = [d.filter EXCEPT ![f].states = READY] /\ e.dev = d.dev
        /\ e.channel = [d.channel EXCEPT ![c].status = "DISABLED"]
        /\ \A x \in Blocks : e.block[x].state = "NULL"
    BY <2>6, <2>7
  <2>9. /\ \A g \in Filters : g # f => e.filter[g] = d.filter[g]
        /\ e.filter[f] = [d.filter[f] EXCEPT !.states = READY]
        /\ \A k \in Channels : k # c => e.channel[k] = d.channel[k]
        /\ e.channel[c] = [d.channel[c] EXCEPT !.status = "DISABLED"]
    BY <1>0, <2>2, <2>8, Columns
  <2>10. /\ e.filter[f].states = READY /\ e.filter[f].chid = c /\ e.filter[f].fid = d.filter[f].fid
         /\ e.filter[f].type = "PES" /\ e.filter[f].out = d.filter[f].out
         /\ e.filter[f].pes = d.filter[f].pes
    BY <1>0, <2>1, <2>2, <2>9 DEF FilterRow
  <2>11. e.channel[c].status = "DISABLED" /\ e.channel[c].pid = d.channel[c].pid
    <3>1. d.channel[c] \in ChannelRow
      BY <1>0, <2>2, Columns
    <3> QED
      BY <2>9, <3>1 DEF ChannelRow
  <2>12. PesWritten(d, e, f)
    <3>1. \A g \in Filters : g # f => d.filter[g].chid # c
      BY <1>0, <2>1, <2>2 DEF PesSound
    <3> QED
      BY <2>1, <2>2, <2>7, <2>8, <2>9, <2>10, <3>1 DEF PesWritten, Pes
  <2>13. PesSound(e, P, f)
    <3>1. /\ d.filter[f].fid = NONE /\ d.filter[f].out = "MEMORY"
          /\ f \notin P => d.channel[c].pid = d.filter[f].pes
          /\ \A g \in Filters : g # f => d.filter[g].chid # c
      BY <1>0, <2>1, <2>2 DEF PesSound
    <3>2. Holds(e, f) /\ e.filter[f].states # START
      BY <2>10 DEF Holds, READY, SET, START
    <3> QED
      <4>1. \A g \in Filters : g # f => e.filter[g].chid # c
        BY <2>9, <3>1
      <4>2. /\ e.channel[c].status # "UNUSED"
            /\ f \notin P => e.channel[c].pid = e.filter[f].pes
        BY <2>10, <2>11, <3>1
      <4> QED
        BY <2>10, <3>1, <3>2, <4>1, <4>2 DEF PesSound
  <2>14. Pes(e, P)
    <3>1. P \ P \subseteq {f}
      OBVIOUS
    <3> QED
      BY <2>12, <2>13, <3>1, PesWrite
  <2>15. e.filter = [d.filter EXCEPT ![f].states = IF @ = START THEN READY ELSE @]
    BY <1>2, <2>8
  <2> QED
    BY <2>14, <2>15
<1> QED
  BY <1>1, <1>2

LEMMA ChannelFreeIs ==
  ASSUME NEW d \in Tables, NEW c \in Channels, Valid(d, c), NEW e, e = channel_free(d, c)
  PROVE  /\ e \in Tables /\ e.filter = d.filter /\ e.dev = d.dev
         /\ e.channel = [d.channel EXCEPT ![c] = [status |-> "UNUSED", pid |-> d.channel[c].pid]]
         /\ \A x \in Blocks : e.block[x] = NullBlock \/ e.block[x] = d.block[x]
<1> DEFINE B == {b \in Blocks : d.block[b].ch = c}
           s == [status |-> "UNUSED", pid |-> d.channel[c].pid]
<1>1. PICK p : p = FreeBlocks(d, B)
  OBVIOUS
<1>2. s \in ChannelRow /\ [d.channel[c] EXCEPT !.status = "UNUSED"] = s
  BY Columns DEF ChannelRow
<1>3. e = [p EXCEPT !.channel[c].status = "UNUSED"]
  BY <1>1 DEF channel_free
<1> HIDE DEF B
<1>4. /\ p \in Tables
      /\ p = [filter |-> d.filter, dev |-> d.dev, channel |-> d.channel,
              block |-> [x \in Blocks |-> IF x \in B THEN NullBlock ELSE d.block[x]]]
  BY <1>1, FreeBlocksIs
<1>5. /\ p.filter = d.filter /\ p.dev = d.dev /\ p.channel = d.channel
      /\ \A x \in Blocks : p.block[x] = NullBlock \/ p.block[x] = d.block[x]
  BY <1>4
<1>6. e = WithChannel(p, c, s)
  <2>1. [p.channel[c] EXCEPT !.status = "UNUSED"] = s
    BY <1>2, <1>5
  <2>2. p.channel \in [Channels -> ChannelRow]
    BY <1>4, Columns
  <2> HIDE DEF s
  <2> QED
    BY <1>3, <2>1, <2>2 DEF WithChannel
<1> HIDE DEF s
<1>7. /\ e \in Tables
      /\ e = [filter |-> p.filter, dev |-> p.dev, channel |-> [p.channel EXCEPT ![c] = s],
              block |-> p.block]
  <2>1. p \in Tables
    BY <1>4
  <2> QED
    BY <1>2, <1>6, <2>1, WriteChannel
<1> QED
  BY <1>5, <1>7 DEF s

\* A slot that is reset gives its channel back.
Emptied(s) == [s EXCEPT !.chid = NONE, !.states = ALLOC]

LEMMA EmptiedRow ==
  ASSUME NEW s \in FilterRow
  PROVE  /\ Emptied(s) \in FilterRow /\ Emptied(s).states = ALLOC /\ Emptied(s).chid = NONE
         /\ Emptied(s).fid = s.fid /\ Emptied(s).type = s.type /\ Emptied(s).out = s.out
         /\ Emptied(s).pes = s.pes
<1>1. ALLOC \in FREE .. START
  BY DEF ALLOC, FREE, START
<1> QED
  BY <1>1 DEF Emptied, FilterRow

LEMMA PesDrop ==
  ASSUME NEW d, NEW f \in Filters, Pes(d, {f}), d.filter[f].chid # NONE,
         NEW g, g = channel_free(d, d.filter[f].chid),
         NEW e, e = WithFilter(g, f, Emptied(g.filter[f]))
  PROVE  /\ Pes(e, {}) /\ e.filter[f] = Emptied(d.filter[f])
<1>1. PICK c : c = d.filter[f].chid
  OBVIOUS
<1>2. d \in Tables /\ d.filter[f] \in FilterRow /\ PesSound(d, {f}, f)
  BY Columns DEF Pes
<1>3. c \in Channels /\ c # NONE /\ Valid(d, c)
  BY <1>1, <1>2, FieldTypes DEF PesSound, Valid
<1>4. /\ g \in Tables /\ g.filter = d.filter /\ g.dev = d.dev
      /\ g.channel = [d.channel EXCEPT ![c] = [status |-> "UNUSED", pid |-> d.channel[c].pid]]
      /\ \A x \in Blocks : g.block[x] = NullBlock \/ g.block[x] = d.block[x]
  <2>1. d \in Tables /\ g = channel_free(d, c)
    BY <1>1, <1>2
  <2> QED
    BY <1>3, <2>1, ChannelFreeIs
<1>5. PICK r : r = Emptied(g.filter[f])
  OBVIOUS
<1>6. /\ r \in FilterRow /\ r.states = ALLOC /\ r.chid = NONE /\ r.fid = d.filter[f].fid
      /\ r.type = d.filter[f].type /\ r.out = d.filter[f].out
  BY <1>2, <1>4, <1>5, EmptiedRow
<1>7. /\ e \in Tables
      /\ e = [filter |-> [g.filter EXCEPT ![f] = r], dev |-> g.dev,
              channel |-> g.channel, block |-> g.block]
  <2>1. g \in Tables /\ e = WithFilter(g, f, r)
    BY <1>4, <1>5
  <2> QED
    BY <1>6, <2>1, WriteFilter
<1>8. /\ e.filter[f] = r /\ e.dev = d.dev
      /\ \A k \in Filters : k # f => e.filter[k] = d.filter[k]
      /\ e.channel[c].status = "UNUSED"
      /\ \A k \in Channels : k # c => e.channel[k] = d.channel[k]
      /\ \A x \in Blocks : e.block[x] = NullBlock \/ e.block[x] = d.block[x]
  BY <1>2, <1>3, <1>4, <1>7, Columns
<1>9. PesWritten(d, e, f)
  BY <1>1, <1>3, <1>6, <1>7, <1>8, SMTT(30) DEF PesWritten, Pes, NullBlock
<1>10. PesSound(e, {}, f)
  <2>1. ~Holds(e, f) /\ e.filter[f].states # START
    <3>1. e.filter[f].states = ALLOC
      BY <1>6, <1>8
    <3> QED
      BY <3>1 DEF Holds, ALLOC, SET, START
  <2> QED
    BY <1>2, <1>6, <1>8, <2>1 DEF PesSound
<1>11. {f} \in SUBSET Filters /\ {} \in SUBSET Filters /\ {f} \ {} \subseteq {f}
  OBVIOUS
<1>12. Pes(e, {})
  BY <1>9, <1>10, <1>11, PesWrite
<1> QED
  BY <1>4, <1>5, <1>8, <1>12

LEMMA PesResetKeeps ==
  ASSUME NEW d, NEW f \in Filters, Pes(d, {f}), NEW e, e = ResetOther(d, f)
  PROVE  /\ Pes(e, {}) /\ e.filter[f].states = ALLOC /\ e.filter[f].chid = NONE
         /\ e.filter[f].pes = d.filter[f].pes
<1>1. d \in Tables /\ d.filter[f] \in FilterRow /\ PesSound(d, {f}, f)
  BY Columns DEF Pes
<1>2. CASE d.filter[f].chid = NONE
  <2>1. Pes(d, {})
    <3>1. \A g \in Filters : PesSound(d, {}, g)
      BY <1>2 DEF Pes, PesSound
    <3> QED
      BY <3>1 DEF Pes
  <2>2. d.filter[f].states # START /\ d.filter[f].states < START
    <3>1. d.filter[f].states # START
      BY <1>1, <1>2 DEF PesSound
    <3> QED
      BY <1>1, <3>1, FieldTypes DEF START, FREE
  <2>3. DemuxFilterStop(d, f) = d
    BY <2>2 DEF DemuxFilterStop
  <2>4. PICK r : r = Emptied(d.filter[f])
    OBVIOUS
  <2>5. /\ r \in FilterRow /\ r.states = ALLOC /\ r.chid = NONE /\ r.fid = NONE
        /\ r.out = "MEMORY" /\ r.type \in {"none", "PES"} /\ r.pes = d.filter[f].pes
    <3>1. /\ r \in FilterRow /\ r.states = ALLOC /\ r.chid = NONE /\ r.fid = d.filter[f].fid
          /\ r.out = d.filter[f].out /\ r.type = d.filter[f].type /\ r.pes = d.filter[f].pes
      BY <1>1, <2>4, EmptiedRow
    <3> QED
      BY <1>1, <3>1 DEF PesSound
  <2>6. e = WithFilter(d, f, r)
    <3>1. d.filter \in [Filters -> FilterRow]
      BY <1>1, Columns
    <3>2. CASE d.filter[f].type = "PES"
      <4>1. e = [d EXCEPT !.filter[f].chid = NONE, !.filter[f].states = ALLOC]
        BY <1>2, <2>3, <3>2 DEF ResetOther
      <4> QED
        BY <2>4, <3>1, <4>1 DEF WithFilter, Emptied
    <3>3. CASE d.filter[f].type # "PES"
      <4>1. e = [d EXCEPT !.filter[f].states = ALLOC]
        BY <2>3, <3>3 DEF ResetOther
      <4>2. r = [d.filter[f] EXCEPT !.states = ALLOC]
        BY <1>1, <1>2, <2>4 DEF Emptied, FilterRow
      <4> QED
        BY <3>1, <4>1, <4>2 DEF WithFilter
    <3> QED
      BY <3>2, <3>3
  <2>7. r.states # START /\ ~(r.states >= SET)
    BY <2>5 DEF ALLOC, START, SET
  <2>8. Pes(e, {})
    BY <1>2, <2>1, <2>5, <2>6, <2>7, PesIdle
  <2>9. e.filter[f] = r
    <3>1. e = [filter |-> [d.filter EXCEPT ![f] = r], dev |-> d.dev,
               channel |-> d.channel, block |-> d.block]
      BY <1>1, <2>5, <2>6, WriteFilter
    <3> QED
      BY <1>1, <3>1, Columns
  <2> QED
    BY <2>5, <2>8, <2>9
<1>3. CASE d.filter[f].chid # NONE
  <2>1. PICK u : u = DemuxFilterStop(d, f)
    OBVIOUS
  <2>2. /\ Pes(u, {f})
        /\ u.filter = [d.filter EXCEPT ![f].states = IF @ = START THEN READY ELSE @]
    <3>1. {f} \in SUBSET Filters
      OBVIOUS
    <3> QED
      BY <2>1, <3>1, PesStopKeeps
  <2>3. /\ u.filter[f].chid = d.filter[f].chid /\ u.filter[f].pes = d.filter[f].pes
        /\ u.filter[f].out = d.filter[f].out /\ u.filter[f].type = d.filter[f].type
    <3>1. u.filter[f] = [d.filter[f] EXCEPT !.states = IF @ = START THEN READY ELSE @]
      BY <1>1, <2>2, Columns
    <3> QED
      BY <1>1, <3>1 DEF FilterRow
  <2>4. d.filter[f].type = "PES" /\ d.filter[f].out = "MEMORY"
    BY <1>1, <1>3 DEF PesSound
  <2>5. PICK g : g = channel_free(u, u.filter[f].chid)
    OBVIOUS
  <2>6. u \in Tables /\ u.filter[f] \in FilterRow
    BY <2>2, Columns DEF Pes
  <2>7. e = [g EXCEPT !.filter[f].chid = NONE, !.filter[f].states = ALLOC]
    BY <1>3, <2>1, <2>3, <2>4, <2>5, Zenon DEF ResetOther
  <2>8. g.filter = u.filter
    <3>1. PICK c : c = u.filter[f].chid
      OBVIOUS
    <3>2. c \in Channels /\ Valid(u, c)
      <4>1. PesSound(u, {f}, f)
        BY <2>2 DEF Pes
      <4> QED
        BY <1>3, <2>3, <2>6, <3>1, <4>1, FieldTypes DEF PesSound, Valid
    <3>3. u \in Tables /\ g = channel_free(u, c)
      BY <2>5, <2>6, <3>1
    <3> QED
      BY <3>2, <3>3, ChannelFreeIs, ZenonT(30)
  <2>9. e = WithFilter(g, f, Emptied(g.filter[f]))
    <3>1. g.filter \in [Filters -> FilterRow]
      BY <2>6, <2>8, Columns
    <3> QED
      BY <2>7, <3>1 DEF WithFilter, Emptied
  <2>10. Pes(e, {}) /\ e.filter[f] = Emptied(u.filter[f])
    <3>1. Pes(u, {f}) /\ u.filter[f].chid # NONE
      BY <1>3, <2>2, <2>3
    <3> QED
      BY <2>5, <2>9, <3>1, PesDrop
  <2> QED
    BY <2>3, <2>6, <2>10, EmptiedRow
<1> QED
  BY <1>2, <1>3

\* The ioctl overwrites pes_para of a slot.
PesPara(d, f, pid) == [d EXCEPT !.filter[f].pes = pid, !.filter[f].out = "MEMORY"]

LEMMA PesAhead ==
  ASSUME NEW d, Pes(d, {}), NEW f \in Filters, NEW pid \in Pids,
         NEW e, e = PesPara(d, f, pid)
  PROVE  /\ Pes(e, {f}) /\ e.filter[f].pes = pid
         /\ e.filter[f].chid = d.filter[f].chid /\ e.filter[f].states = d.filter[f].states
         /\ e.filter[f].type = d.filter[f].type
         /\ d.filter[f].chid = NONE => Pes(e, {})
<1>1. d \in Tables /\ d.filter[f] \in FilterRow /\ PesSound(d, {}, f)
  BY Columns DEF Pes
<1>2. PICK s : s = [d.filter[f] EXCEPT !.pes = pid, !.out = "MEMORY"]
  OBVIOUS
<1>3. /\ s \in FilterRow /\ s.pes = pid /\ s.out = "MEMORY" /\ s.chid = d.filter[f].chid
      /\ s.fid = d.filter[f].fid /\ s.type = d.filter[f].type /\ s.states = d.filter[f].states
  BY <1>1, <1>2 DEF FilterRow
<1>4. e = WithFilter(d, f, s)
  <2>1. d.filter \in [Filters -> FilterRow]
    BY <1>1, Columns
  <2> QED
    BY <1>2, <2>1 DEF WithFilter, PesPara
<1>5. /\ e \in Tables
      /\ e = [filter |-> [d.filter EXCEPT ![f] = s], dev |-> d.dev,
              channel |-> d.channel, block |-> d.block]
  BY <1>1, <1>3, <1>4, WriteFilter
<1>6. /\ e.filter[f] = s /\ e.dev = d.dev /\ e.channel = d.channel /\ e.block = d.block
      /\ \A g \in Filters : g # f => e.filter[g] = d.filter[g]
  BY <1>1, <1>5, Columns
<1>7. PesWritten(d, e, f)
  <2>1. d.filter[f].chid # NONE => \A g \in Filters : g # f => d.filter[g].chid # d.filter[f].chid
    BY <1>1 DEF PesSound
  <2> QED
    BY <1>3, <1>5, <1>6, <2>1 DEF PesWritten, Pes
<1>8. PesSound(e, {f}, f) /\ (d.filter[f].chid = NONE => PesSound(e, {}, f))
  BY <1>1, <1>3, <1>6 DEF PesSound, Holds
<1>9. /\ {} \in SUBSET Filters /\ {f} \in SUBSET Filters
      /\ {} \ {f} \subseteq {f} /\ {} \ {} \subseteq {f}
  OBVIOUS
<1>10. Pes(e, {f})
  BY <1>7, <1>8, <1>9, PesWrite
<1>11. d.filter[f].chid = NONE => Pes(e, {})
  BY <1>7, <1>8, <1>9, PesWrite
<1> QED
  BY <1>3, <1>6, <1>10, <1>11

\* The slot is set, and takes a free channel if there is one.
AttachOf(e, f) ==
  LET s == e.filter[f]
  IN  IF s.chid # NONE
      THEN IF Valid(e, s.chid) THEN [e EXCEPT !.channel[s.chid].pid = s.pes]
           ELSE e
      ELSE IF FreeChannels(e) = {} THEN e
      ELSE DemuxChannelAcquire(e, f, s.pes)

LEMMA PesAttachKeeps ==
  ASSUME NEW d, Pes(d, {}), NEW f \in Filters, d.filter[f].chid = NONE,
         d.filter[f].pes \in Pids, NEW e, e = PESMemoryAttach(d, f)
  PROVE  Pes(e, {})
<1>1. d \in Tables /\ d.filter[f] \in FilterRow /\ PesSound(d, {}, f)
      /\ d.filter \in [Filters -> FilterRow]
  BY Columns DEF Pes
<1>2. PICK r : r = [d.filter[f] EXCEPT !.type = "PES", !.states = SET]
  OBVIOUS
<1>3. /\ r \in FilterRow /\ r.states = SET /\ r.type = "PES" /\ r.chid = NONE
      /\ r.fid = NONE /\ r.out = "MEMORY" /\ r.pes = d.filter[f].pes
  <2>1. SET \in FREE .. START
    BY DEF SET, FREE, START
  <2>2. d.filter[f].fid = NONE /\ d.filter[f].out = "MEMORY"
    BY <1>1 DEF PesSound
  <2> QED
    BY <1>1, <1>2, <2>1, <2>2 DEF FilterRow
<1>4. PICK v : v = WithFilter(d, f, r)
  OBVIOUS
<1>5. v = [d EXCEPT !.filter[f].type = "PES", !.filter[f].states = SET]
  BY <1>1, <1>2, <1>4 DEF WithFilter
<1>6. r.states # START
  BY <1>3 DEF SET, START
<1>7. Pes(v, {})
  BY <1>3, <1>4, <1>6, PesIdle
<1>8. v.filter[f] = r
  <2>1. v = [filter |-> [d.filter EXCEPT ![f] = r], dev |-> d.dev,
             channel |-> d.channel, block |-> d.block]
    BY <1>1, <1>3, <1>4, WriteFilter
  <2> QED
    BY <1>1, <2>1, Columns
<1>9. e = IF FreeChannels(v) = {} THEN v ELSE DemuxChannelAcquire(v, f, r.pes)
  <2>1. v.filter[f].chid = NONE
    BY <1>3, <1>8
  <2> QED
    <3>1. PESMemoryAttach(d, f)
            = AttachOf([d EXCEPT !.filter[f].type = "PES", !.filter[f].states = SET], f)
      BY Zenon DEF PESMemoryAttach, AttachOf
    <3>2. e = AttachOf(v, f)
      BY <1>5, <3>1
    <3>3. v.filter[f].pes = r.pes
      BY <1>8
    <3> QED
      BY <2>1, <3>2, <3>3, Zenon DEF AttachOf
<1>10. CASE FreeChannels(v) = {}
  BY <1>7, <1>9, <1>10
<1>11. CASE FreeChannels(v) # {}
  <2>1. PICK c : c = Max(FreeChannels(v))
    OBVIOUS
  <2>2. c \in Channels /\ v.channel[c].status = "UNUSED"
    <3>1. FreeChannels(v) \in SUBSET (1 .. NumChannel) /\ NumChannel \in Nat
      BY DemuxAssumption DEF FreeChannels, Channels
    <3>2. PICK T : T = FreeChannels(v)
      OBVIOUS
    <3>3. Max(T) \in T
      BY <1>11, <3>1, <3>2, LeastAndGreatest
    <3> QED
      BY <2>1, <3>2, <3>3 DEF FreeChannels
  <2>3. PICK n : n = [status |-> "DISABLED", pid |-> r.pes]
    OBVIOUS
  <2>4. n \in ChannelRow /\ n.status = "DISABLED" /\ n.pid = r.pes
    BY <1>3, <2>3 DEF ChannelRow
  <2>5. PICK w : w = WithChannel(v, c, n)
    OBVIOUS
  <2>6. v \in Tables
    BY <1>7 DEF Pes
  <2>7. /\ w \in Tables
        /\ w = [filter |-> v.filter, dev |-> v.dev,
                channel |-> [v.channel EXCEPT ![c] = n], block |-> v.block]
    BY <2>2, <2>4, <2>5, <2>6, WriteChannel
  <2>8. PICK s : s = [r EXCEPT !.chid = c]
    OBVIOUS
  <2>9. /\ s \in FilterRow /\ s.chid = c /\ s.states = SET /\ s.type = "PES"
        /\ s.fid = NONE /\ s.out = "MEMORY" /\ s.pes = r.pes
    BY <1>3, <2>2, <2>8 DEF FilterRow
  <2>10. e = WithFilter(w, f, s)
    <3>1. e = [v EXCEPT !.channel[c] = [status |-> "DISABLED", pid |-> r.pes],
                        !.filter[f].chid = c]
      BY <1>9, <1>11, <2>1, Zenon DEF DemuxChannelAcquire
    <3>2. e = [v EXCEPT !.channel[c] = n, !.filter[f].chid = c]
      BY <2>3, <3>1
    <3>3. v.filter \in [Filters -> FilterRow]
      BY <2>6, Columns
    <3> QED
      BY <1>8, <2>5, <2>8, <3>2, <3>3 DEF WithFilter, WithChannel
  <2>11. /\ e \in Tables
         /\ e = [filter |-> [w.filter EXCEPT ![f] = s], dev |-> w.dev,
                 channel |-> w.channel, block |-> w.block]
    <3>1. w \in Tables
      BY <2>7
    <3> QED
      BY <2>9, <2>10, <3>1, WriteFilter
  <2>12. /\ e.filter[f] = s /\ e.dev = v.dev /\ e.block = v.block /\ e.channel[c] = n
         /\ \A g \in Filters : g # f => e.filter[g] = v.filter[g]
         /\ \A k \in Channels : k # c => e.channel[k] = v.channel[k]
    <3>1. /\ e.filter = [v.filter EXCEPT ![f] = s] /\ e.dev = v.dev /\ e.block = v.block
          /\ e.channel = [v.channel EXCEPT ![c] = n]
      BY <2>7, <2>11
    <3> QED
      BY <2>2, <2>6, <3>1, Columns
  <2>13. \A g \in Filters : v.filter[g].chid # c
    <3> SUFFICES ASSUME NEW g \in Filters, v.filter[g].chid = c PROVE FALSE
      OBVIOUS
    <3>1. PesSound(v, {}, g) /\ c # NONE
      BY <1>7, <2>2, NoneIsNone DEF Pes
    <3> QED
      BY <2>2, <3>1 DEF PesSound
  <2>14. PesWritten(v, e, f)
    BY <1>3, <1>7, <1>8, <2>9, <2>11, <2>12, <2>13 DEF PesWritten, Pes
  <2>15. PesSound(e, {}, f)
    <3>1. s.states # START /\ Holds(e, f)
      BY <2>9, <2>12 DEF SET, START, Holds
    <3>2. \A g \in Filters : g # f => e.filter[g].chid # c
      BY <2>12, <2>13
    <3> QED
      BY <2>4, <2>9, <2>12, <3>1, <3>2 DEF PesSound
  <2>16. {} \in SUBSET Filters /\ {} \ {} \subseteq {f}
    OBVIOUS
  <2> QED
    BY <1>7, <2>14, <2>15, <2>16, PesWrite
<1> QED
  BY <1>10, <1>11

\* A slot with a channel enables it and starts; one without gets its buffer only.
LEMMA PesStartKeeps ==
  ASSUME NEW d, Pes(d, {}), NEW f \in Filters, Holds(d, f), NEW e, e = DemuxFilterStart(d, f)
  PROVE  Pes(e, {})
<1>1. PICK t : t = DemuxFilterStop(d, f)
  OBVIOUS
<1>2. /\ Pes(t, {})
      /\ t.filter = [d.filter EXCEPT ![f].states = IF @ = START THEN READY ELSE @]
  <2>1. {} \in SUBSET Filters
    OBVIOUS
  <2> QED
    BY <1>1, <2>1, PesStopKeeps
<1>3. /\ t \in Tables /\ t.filter[f] \in FilterRow /\ PesSound(t, {}, f)
      /\ t.filter \in [Filters -> FilterRow] /\ t.channel \in [Channels -> ChannelRow]
  BY <1>2, Columns DEF Pes
<1>4. t.filter[f].type = "PES" /\ t.filter[f].states # START /\ t.filter[f].states >= SET
  <2>1. d.filter[f] \in FilterRow /\ d.filter \in [Filters -> FilterRow] /\ PesSound(d, {}, f)
    BY Columns DEF Pes
  <2>2. t.filter[f] = [d.filter[f] EXCEPT !.states = IF @ = START THEN READY ELSE @]
    BY <1>2, <2>1
  <2>3. /\ t.filter[f].type = d.filter[f].type
        /\ t.filter[f].states = IF d.filter[f].states = START THEN READY ELSE d.filter[f].states
    BY <2>1, <2>2 DEF FilterRow
  <2>4. d.filter[f].type = "PES"
    BY <2>1 DEF PesSound
  <2>5. t.filter[f].states # START /\ t.filter[f].states >= SET
    BY <2>3 DEF Holds, START, READY, SET
  <2> QED
    BY <2>3, <2>4, <2>5
<1>5. PICK s : s = [t.filter[f] EXCEPT !.states = IF @ = SET THEN READY ELSE @]
  OBVIOUS
<1>6. /\ s \in FilterRow /\ s.chid = t.filter[f].chid /\ s.type = "PES" /\ s.fid = NONE
      /\ s.out = "MEMORY" /\ s.states # START
      /\ [s EXCEPT !.states = START] = [t.filter[f] EXCEPT !.states = START]
  <2>1. t.filter[f] \in FilterRow /\ READY \in FREE .. START /\ READY # START
    BY <1>3 DEF READY, FREE, START
  <2>2. t.filter[f].fid = NONE /\ t.filter[f].out = "MEMORY"
    BY <1>3 DEF PesSound
  <2> QED
    BY <1>4, <1>5, <2>1, <2>2 DEF FilterRow
<1>7. PICK v : v = WithFilter(t, f, s)
  OBVIOUS
<1>8. v = [t EXCEPT !.filter[f].states = IF @ = SET THEN READY ELSE @]
  BY <1>3, <1>5, <1>7 DEF WithFilter
<1>9. e = StartOf(v, f)
  <2>1. DemuxFilterStart(d, f)
          = StartOf([DemuxFilterStop(d, f) EXCEPT
                       !.filter[f].states = IF @ = SET THEN READY ELSE @], f)
    BY Zenon DEF DemuxFilterStart, StartOf
  <2> QED
    BY <1>1, <1>8, <2>1
<1>10. v.filter[f] = s /\ v.channel = t.channel
  <2>1. v = [filter |-> [t.filter EXCEPT ![f] = s], dev |-> t.dev,
             channel |-> t.channel, block |-> t.block]
    BY <1>3, <1>6, <1>7, WriteFilter
  <2> QED
    BY <1>3, <2>1
<1>11. PICK c : c = t.filter[f].chid
  OBVIOUS
<1>12. e = IF Valid(v, c) THEN [channel_enable(v, c) EXCEPT !.filter[f].states = START] ELSE v
  <2>1. v.filter[f].type # "SEC" /\ v.filter[f].chid = c
    BY <1>6, <1>10, <1>11
  <2>2. e = IF Valid(v, v.filter[f].chid)
            THEN [channel_enable(v, v.filter[f].chid) EXCEPT !.filter[f].states = START] ELSE v
    BY <1>9, <2>1, Zenon DEF StartOf
  <2> QED
    BY <2>1, <2>2
<1>13. CASE c = NONE
  <2>1. ~Valid(v, c)
    BY <1>13, NoneIsNone DEF Valid
  <2>2. e = v
    BY <1>12, <2>1
  <2>3. s.chid = NONE /\ t.filter[f].chid = NONE
    BY <1>6, <1>11, <1>13
  <2> QED
    <3>1. /\ s \in FilterRow /\ s.fid = NONE /\ s.states # START /\ s.out = "MEMORY"
          /\ s.type \in {"none", "PES"} /\ (s.states >= SET => s.type = "PES")
      BY <1>6
    <3>2. Pes(t, {}) /\ e = WithFilter(t, f, s)
      BY <1>2, <1>7, <2>2
    <3> QED
      BY <2>3, <3>1, <3>2, PesIdle
<1>14. CASE c # NONE
  <2>1. /\ c \in Channels /\ t.channel[c].status # "UNUSED"
        /\ t.channel[c].pid = t.filter[f].pes
        /\ \A g \in Filters : g # f => t.filter[g].chid # c
    BY <1>3, <1>11, <1>14, FieldTypes DEF PesSound
  <2>2. PICK n : n = [status |-> "ENABLED", pid |-> t.channel[c].pid]
    OBVIOUS
  <2>3. n \in ChannelRow /\ n = [t.channel[c] EXCEPT !.status = "ENABLED"]
        /\ n.status = "ENABLED" /\ n.pid = t.channel[c].pid
    BY <1>3, <2>1, <2>2 DEF ChannelRow
  <2>4. PICK w : w = WithChannel(t, c, n)
    OBVIOUS
  <2>5. /\ w \in Tables
        /\ w = [filter |-> t.filter, dev |-> t.dev,
                channel |-> [t.channel EXCEPT ![c] = n], block |-> t.block]
    BY <1>3, <2>1, <2>3, <2>4, WriteChannel
  <2>6. PICK q : q = [t.filter[f] EXCEPT !.states = START]
    OBVIOUS
  <2>7. /\ q \in FilterRow /\ q.states = START /\ q.chid = c /\ q.fid = NONE
        /\ q.out = "MEMORY" /\ q.type = "PES" /\ q.pes = t.filter[f].pes
    <3>1. START \in FREE .. START
      BY DEF START, FREE
    <3>2. t.filter[f].fid = NONE /\ t.filter[f].out = "MEMORY"
      BY <1>3 DEF PesSound
    <3> QED
      BY <1>3, <1>4, <1>11, <2>6, <3>1, <3>2 DEF FilterRow
  <2>8. e = WithFilter(w, f, q)
    <3>1. Valid(v, c)
      BY <1>10, <2>1 DEF Valid
    <3>2. e = [channel_enable(v, c) EXCEPT !.filter[f].states = START]
      BY <1>12, <3>1
    <3>3. channel_enable(v, c) = [filter |-> [t.filter EXCEPT ![f] = s], dev |-> t.dev,
                                  channel |-> [t.channel EXCEPT ![c] = n], block |-> t.block]
      <4>1. v = [filter |-> [t.filter EXCEPT ![f] = s], dev |-> t.dev,
                 channel |-> t.channel, block |-> t.block]
        BY <1>3, <1>6, <1>7, WriteFilter
      <4> QED
        BY <1>3, <2>1, <2>3, <4>1 DEF channel_enable
    <3>4. [[t.filter EXCEPT ![f] = s] EXCEPT ![f].states = START] = [t.filter EXCEPT ![f] = q]
      BY <1>3, <1>6, <2>6
    <3>5. e = [filter |-> [t.filter EXCEPT ![f] = q], dev |-> t.dev,
               channel |-> [t.channel EXCEPT ![c] = n], block |-> t.block]
      BY <3>2, <3>3, <3>4
    <3> QED
      BY <2>5, <3>5 DEF WithFilter
  <2>9. /\ e \in Tables
        /\ e = [filter |-> [w.filter EXCEPT ![f] = q], dev |-> w.dev,
                channel |-> w.channel, block |-> w.block]
    <3>1. w \in Tables
      BY <2>5
    <3> QED
      BY <2>7, <2>8, <3>1, WriteFilter
  <2>10. /\ e.filter[f] = q /\ e.dev = t.dev /\ e.block = t.block /\ e.channel[c] = n
         /\ \A g \in Filters : g # f => e.filter[g] = t.filter[g]
         /\ \A k \in Channels : k # c => e.channel[k] = t.channel[k]
    <3>1. /\ e.filter = [t.filter EXCEPT ![f] = q] /\ e.dev = t.dev /\ e.block = t.block
          /\ e.channel = [t.channel EXCEPT ![c] = n]
      BY <2>5, <2>9
    <3> QED
      BY <1>3, <2>1, <3>1
  <2>11. PesWritten(t, e, f)
    BY <1>2, <1>11, <2>1, <2>7, <2>9, <2>10 DEF PesWritten, Pes
  <2>12. PesSound(e, {}, f)
    <3>1. Holds(e, f)
      BY <2>7, <2>10 DEF Holds, START, SET
    <3>2. \A g \in Filters : g # f => e.filter[g].chid # c
      BY <2>1, <2>10
    <3>3. e.channel[c].status = "ENABLED" /\ e.channel[c].pid = e.filter[f].pes
      BY <2>1, <2>3, <2>7, <2>10
    <3> QED
      BY <1>14, <2>7, <2>10, <3>1, <3>2, <3>3 DEF PesSound
  <2>13. {} \in SUBSET Filters /\ {} \ {} \subseteq {f}
    OBVIOUS
  <2> QED
    BY <1>2, <2>11, <2>12, <2>13, PesWrite
<1> QED
  BY <1>13, <1>14

LEMMA PesOpenKeeps ==
  ASSUME Pes(dmx, {}), demux_filter_open
  PROVE  Pes(dmx', {}) /\ kinds' = kinds /\ todo' = todo
<1>1. dmx \in Tables
  BY DEF Pes
<1>2. PICK f \in Filters : \E i :
        /\ dmx.filter[f].states = FREE /\ i = Initialised(dmx)
        /\ dmx' = WithFilter(i, f, Opened(i.filter[f]))
        /\ kinds' = kinds /\ todo' = todo
  BY <1>1, OpenIs
<1>3. PICK i : /\ dmx.filter[f].states = FREE /\ i = Initialised(dmx)
               /\ dmx' = WithFilter(i, f, Opened(i.filter[f]))
               /\ kinds' = kinds /\ todo' = todo
  BY <1>2
<1>4. InitialisedEffect(dmx, i)
  BY <1>1, <1>3, InitialisedIs
<1>5. i \in Tables /\ i.filter = dmx.filter /\ i.dev = dmx.dev
  BY <1>4 DEF InitialisedEffect
<1>6. Pes(i, {})
  <2>1. CASE i = dmx
    BY <2>1
  <2>2. CASE /\ \A g \in Filters : dmx.filter[g].states = FREE
             /\ \A c \in Channels : i.channel[c] = [status |-> "UNUSED", pid |-> NONE]
             /\ \A b \in Blocks : i.block[b] = NullBlock
    <3>1. \A g \in Filters : /\ ~Holds(dmx, g) /\ ~Holds(i, g)
                             /\ dmx.filter[g].chid = NONE /\ dmx.filter[g].states # START
      BY <1>5, <2>2 DEF Pes, PesSound, Holds, FREE, SET, START
    <3>2. \A g \in Filters : PesSound(i, {}, g)
      BY <1>5, <3>1 DEF Pes, PesSound
    <3> QED
      BY <1>5, <2>2, <3>2 DEF Pes, NullBlock
  <2> QED
    BY <1>4, <2>1, <2>2 DEF InitialisedEffect
<1>7. /\ i.filter[f] \in FilterRow /\ i.filter[f].chid = NONE /\ i.filter[f].out = "MEMORY"
  <2>1. ~Holds(i, f) /\ PesSound(i, {}, f)
    BY <1>3, <1>5, <1>6 DEF Holds, FREE, SET, Pes
  <2> QED
    BY <1>5, <2>1, Columns DEF PesSound
<1>8. PICK s : s = Opened(i.filter[f])
  OBVIOUS
<1>9. /\ s \in FilterRow /\ s.states = ALLOC /\ s.chid = NONE /\ s.fid = NONE
      /\ s.type \in {"none", "PES"} /\ s.out = "MEMORY"
  BY <1>7, <1>8, OpenedRow
<1>10. s.states # START /\ (s.states >= SET => s.type = "PES")
  BY <1>9 DEF ALLOC, SET, START
<1>11. dmx' = WithFilter(i, f, s)
  BY <1>3, <1>8
<1>12. Pes(dmx', {})
  BY <1>6, <1>7, <1>9, <1>10, <1>11, PesIdle
<1> QED
  BY <1>3, <1>12

\* A slot without a channel is closed.
LEMMA PesFreed ==
  ASSUME NEW d, Pes(d, {}), NEW f \in Filters, d.filter[f].chid = NONE,
         NEW e, e = [d EXCEPT !.filter[f].states = FREE]
  PROVE  Pes(e, {})
<1>1. d \in Tables /\ d.filter[f] \in FilterRow /\ PesSound(d, {}, f)
      /\ d.filter \in [Filters -> FilterRow]
  BY Columns DEF Pes
<1>2. PICK s : s = [d.filter[f] EXCEPT !.states = FREE]
  OBVIOUS
<1>3. /\ s \in FilterRow /\ s.states = FREE /\ s.chid = NONE /\ s.fid = NONE
      /\ s.type \in {"none", "PES"} /\ s.out = "MEMORY"
  <2>1. FREE \in FREE .. START
    BY DEF FREE, START
  <2>2. d.filter[f].fid = NONE /\ d.filter[f].out = "MEMORY" /\ d.filter[f].type \in {"none", "PES"}
    BY <1>1 DEF PesSound
  <2> QED
    BY <1>1, <1>2, <2>1, <2>2 DEF FilterRow
<1>4. s.states # START /\ (s.states >= SET => s.type = "PES")
  BY <1>3 DEF FREE, SET, START
<1>5. e = WithFilter(d, f, s)
  BY <1>1, <1>2 DEF WithFilter
<1> QED
  BY <1>3, <1>4, <1>5, PesIdle

-----------------------------------------------------------------------------
\* PES filters: the steps keep the invariant.

LEMMA PesAwake ==
  ASSUME IInv, kinds = {"MEMORY"}, Pes(dmx', {}), todo' = todo, kinds' = kinds
  PROVE  IInv'
<1>1. /\ todo \in [Filters -> Todo] /\ Sleepers = {} /\ kinds' \in Uses
      /\ \A g \in Filters : todo[g] = "nothing"
  BY DEF IInv, Sleepers, Asleep
<1>2. Sleepers' = {} /\ Todo' = Todo
  BY <1>1 DEF Sleepers, Asleep, Todo
<1> QED
  BY <1>1, <1>2 DEF IInv, Asleep

LEMMA PesReleaseKeeps ==
  ASSUME IInv, kinds = {"MEMORY"}, NEW f \in Filters, demux_filter_release(f)
  PROVE  IInv'
<1>1. PICK d : d = dmx
  OBVIOUS
<1>2. Pes(d, {}) /\ PesSound(d, {}, f)
  BY <1>1 DEF IInv, Pes
<1>3. dmx' = Finish(ResetOther(d, f), f, "close") /\ todo' = todo /\ kinds' = kinds
  <2>1. d.filter[f].type # "SEC"
    BY <1>2 DEF PesSound
  <2> QED
    BY <1>1, <2>1 DEF demux_filter_release, ResetAndFinish
<1>4. PICK u : u = ResetOther(d, f)
  OBVIOUS
<1>5. Pes(d, {f})
  <2>1. \A g \in Filters : PesSound(d, {f}, g)
    BY <1>2 DEF Pes, PesSound
  <2> QED
    BY <1>2, <2>1 DEF Pes
<1>6. Pes(u, {}) /\ u.filter[f].chid = NONE
  BY <1>4, <1>5, PesResetKeeps
<1>7. PICK e : e = dmx'
  OBVIOUS
<1>8. e = [u EXCEPT !.filter[f].states = FREE]
  BY <1>3, <1>4, <1>7 DEF Finish
<1>9. Pes(e, {})
  BY <1>6, <1>8, PesFreed
<1> QED
  BY <1>3, <1>7, <1>9, PesAwake

LEMMA PesSetKeeps ==
  ASSUME IInv, kinds = {"MEMORY"}, NEW f \in Filters, NEW pid \in Pids,
         NEW out \in {"MEMORY", "NOTHING"}, DemuxFilterPESMemorySet(f, pid, out)
  PROVE  IInv'
<1>1. PICK t : t = dmx
  OBVIOUS
<1>2. Pes(t, {}) /\ PesSound(t, {}, f)
  BY <1>1 DEF IInv, Pes
<1>3. PICK d : d = PesPara(t, f, pid)
  OBVIOUS
<1>4. /\ out = "MEMORY" /\ kinds' = kinds
      /\ IF t.filter[f].states >= SET THEN ResetAndFinish(d, f, out)
         ELSE dmx' = PESMemoryAttach(d, f) /\ todo' = todo
  <2>1. out = "MEMORY"
    BY DEF DemuxFilterPESMemorySet
  <2>2. d = [dmx EXCEPT !.filter[f].pes = pid, !.filter[f].out = out]
    BY <1>1, <1>3, <2>1 DEF PesPara
  <2> QED
    BY <1>1, <2>1, <2>2 DEF DemuxFilterPESMemorySet
<1>5. /\ Pes(d, {f}) /\ d.filter[f].pes = pid
      /\ d.filter[f].type = t.filter[f].type /\ d.filter[f].chid = t.filter[f].chid
      /\ t.filter[f].chid = NONE => Pes(d, {})
  BY <1>2, <1>3, PesAhead
<1>6. PICK e : e = dmx'
  OBVIOUS
<1>7. CASE t.filter[f].states >= SET
  <2>1. d.filter[f].type # "SEC"
    BY <1>2, <1>5 DEF PesSound
  <2>2. dmx' = Finish(ResetOther(d, f), f, out) /\ todo' = todo
    BY <1>4, <1>7, <2>1 DEF ResetAndFinish
  <2>3. PICK u : u = ResetOther(d, f)
    OBVIOUS
  <2>4. Pes(u, {}) /\ u.filter[f].chid = NONE /\ u.filter[f].pes = pid
    <3>1. /\ Pes(u, {}) /\ u.filter[f].chid = NONE
          /\ u.filter[f].pes = d.filter[f].pes
      BY <1>5, <2>3, PesResetKeeps
    <3> QED
      BY <1>5, <3>1
  <2>5. e = PESMemoryAttach(u, f)
    BY <1>4, <1>6, <2>2, <2>3 DEF Finish
  <2>6. Pes(e, {})
    BY <2>4, <2>5, PesAttachKeeps
  <2> QED
    BY <1>4, <1>6, <2>2, <2>6, PesAwake
<1>8. CASE ~(t.filter[f].states >= SET)
  <2>1. t.filter[f].chid = NONE
    BY <1>2, <1>8 DEF PesSound, Holds
  <2>2. dmx' = PESMemoryAttach(d, f) /\ todo' = todo
    BY <1>4, <1>8
  <2>3. Pes(d, {}) /\ d.filter[f].chid = NONE /\ d.filter[f].pes \in Pids
    BY <1>5, <2>1
  <2>4. Pes(e, {})
    BY <1>6, <2>2, <2>3, PesAttachKeeps
  <2> QED
    BY <1>4, <1>6, <2>2, <2>4, PesAwake
<1> QED
  BY <1>7, <1>8

\* Every step, while PES filters are in use.
LEMMA PesStep ==
  ASSUME IInv, kinds = {"MEMORY"}, Next
  PROVE  IInv'
<1>0. Pes(dmx, {}) /\ Sleepers = {}
  BY DEF IInv
<1>1. CASE demux_filter_open
  BY <1>0, <1>1, PesOpenKeeps, PesAwake
<1>2. ASSUME NEW f \in Filters, demux_filter_release(f) PROVE IInv'
  BY <1>2, PesReleaseKeeps
<1>3. ASSUME NEW f \in Filters, NEW pid \in Pids, DemuxFilterSectionSet(f, pid) PROVE FALSE
  BY <1>3 DEF DemuxFilterSectionSet
<1>4. ASSUME NEW f \in Filters, NEW pid \in Pids, NEW out \in {"MEMORY", "NOTHING"},
             DemuxFilterPESMemorySet(f, pid, out)
      PROVE  IInv'
  BY <1>4, PesSetKeeps
<1>5. ASSUME NEW f \in Filters, StartIoctl(f) PROVE IInv'
  <2>1. Holds(dmx, f) /\ dmx' = DemuxFilterStart(dmx, f) /\ kinds' = kinds /\ todo' = todo
    BY <1>5 DEF StartIoctl, Holds
  <2>2. Pes(dmx', {})
    BY <1>0, <2>1, PesStartKeeps
  <2> QED
    BY <2>1, <2>2, PesAwake
<1>6. ASSUME NEW f \in Filters, StopIoctl(f) PROVE IInv'
  <2>1. dmx' = DemuxFilterStop(dmx, f) /\ kinds' = kinds /\ todo' = todo
    BY <1>6 DEF StopIoctl
  <2>2. {} \in SUBSET Filters
    OBVIOUS
  <2>3. Pes(dmx', {})
    BY <1>0, <2>1, <2>2, PesStopKeeps
  <2> QED
    BY <2>1, <2>3, PesAwake
<1>7. ASSUME NEW f \in Filters, Wake(f) PROVE FALSE
  BY <1>0, <1>7 DEF Wake, Sleepers
<1>8. ASSUME NEW c \in Channels, SectionChange(c) PROVE IInv'
  <2>1. dmx' = process_pending(dmx, c) /\ kinds' = kinds /\ todo' = todo
    BY <1>8 DEF SectionChange
  <2>2. PICK d : d = dmx
    OBVIOUS
  <2>3. PICK e : e = dmx'
    OBVIOUS
  <2>4. d \in Tables /\ Pes(d, {}) /\ e = process_pending(d, c)
    BY <1>0, <2>1, <2>2, <2>3 DEF Pes
  <2>5. /\ e \in Tables
        /\ e = [filter |-> d.filter, dev |-> d.dev, channel |-> d.channel,
                block |-> [x \in Blocks |-> IF d.block[x] = [state |-> "PENDING", ch |-> c]
                                            THEN NullBlock ELSE d.block[x]]]
    BY <2>4, PendingIs
  <2>6. /\ e.filter = d.filter /\ e.dev = d.dev /\ e.channel = d.channel
        /\ \A x \in Blocks : e.block[x].state = "NULL"
    BY <2>4, <2>5 DEF Pes, NullBlock
  <2>7. \A g \in Filters : PesSound(e, {}, g)
    BY <2>4, <2>6 DEF Pes, PesSound, Holds
  <2>8. Pes(e, {})
    BY <2>4, <2>5, <2>6, <2>7 DEF Pes
  <2> QED
    BY <2>1, <2>3, <2>8, PesAwake
<1> QED
  BY <1>1, <1>2, <1>3, <1>4, <1>5, <1>6, <1>7, <1>8 DEF Next, demux_filter_ioctl

-----------------------------------------------------------------------------
\* The theorems.

\* A device nobody opened is sound.
LEMMA InitInv ==
  ASSUME InOrder, Init
  PROVE  IInv
<1>1. /\ dmx.filter = [f \in Filters |->
                         [states |-> FREE, type |-> "none", chid |-> NONE, fid |-> NONE,
                          pid |-> NONE, pes |-> NONE, out |-> "MEMORY"]]
      /\ dmx.dev = [c \in Channels |-> [inuse |-> 0, state |-> "UNUSED"]]
      /\ dmx.channel = [c \in Channels |-> [status |-> "UNUSED", pid |-> NONE]]
      /\ dmx.block = [b \in Blocks |-> [state |-> "NULL", ch |-> NONE]]
      /\ dmx = [filter |-> dmx.filter, dev |-> dmx.dev,
                channel |-> dmx.channel, block |-> dmx.block]
  BY DEF Init, NoChannels, NoBlocks, NullBlock
<1>2. dmx \in Tables
  <2>1. FREE \in FREE .. START /\ 0 \in -NumFilter .. NumFilter
    BY DemuxAssumption DEF FREE, START
  <2>2. /\ dmx.filter \in [Filters -> FilterRow] /\ dmx.dev \in [Channels -> DevRow]
        /\ dmx.channel \in [Channels -> ChannelRow] /\ dmx.block \in [Blocks -> BlockRow]
    BY <1>1, <2>1 DEF FilterRow, DevRow, ChannelRow, BlockRow
  <2> QED
    BY <1>1, <2>2, TablesAre
<1>3. /\ \A f \in Filters : /\ dmx.filter[f].states = FREE /\ dmx.filter[f].type = "none"
                            /\ dmx.filter[f].chid = NONE /\ dmx.filter[f].fid = NONE
                            /\ dmx.filter[f].out = "MEMORY"
      /\ \A c \in Channels : /\ dmx.dev[c].inuse = 0 /\ dmx.dev[c].state = "UNUSED"
                             /\ dmx.channel[c].status = "UNUSED"
      /\ \A b \in Blocks : dmx.block[b].state = "NULL"
  BY <1>1
<1>4. \A f \in Filters : ~Holds(dmx, f) /\ dmx.filter[f].states # START
  BY <1>3 DEF Holds, FREE, SET, START
<1>5. todo = [f \in Filters |-> "nothing"] /\ kinds \in Uses /\ kinds \in {{"SEC"}, {"MEMORY"}}
  BY DEF Init, InOrder
<1>6. todo \in [Filters -> Todo] /\ Sleepers = {} /\ \A f \in Filters : ~Asleep(f)
  BY <1>5 DEF Todo, Sleepers, Asleep
<1>7. Sec(dmx, {}, {})
  <2>1. \A f \in Filters : SlotSound(dmx, f)
    BY <1>3, <1>4 DEF SlotSound
  <2>2. Counted(dmx, {})
    <3>1. \A c \in Channels : Users(dmx, {}, c) = {}
      BY <1>4 DEF Users
    <3> QED
      BY <1>3, <3>1, FS_EmptySet DEF Counted
  <2>3. Cardinality(Pending(dmx)) <= MaxPending
    <3>1. Pending(dmx) = {}
      BY <1>3 DEF Pending
    <3> QED
      BY <3>1, FS_EmptySet, DemuxAssumption
  <2> QED
    BY <1>2, <1>3, <1>4, <2>1, <2>2, <2>3 DEF Sec, Apart, ByPid, Account, Owned
<1>8. Pes(dmx, {})
  BY <1>2, <1>3, <1>4 DEF Pes, PesSound
<1> QED
  BY <1>5, <1>6, <1>7, <1>8 DEF IInv

\* The invariant holds whatever applications open, set, start, stop and close, in whatever order.
THEOREM Invariance == InOrder => (Spec => []IInv)
<1> SUFFICES ASSUME InOrder PROVE Spec => []IInv
  OBVIOUS
<1>1. Init => IInv
  BY InitInv
<1>2. IInv /\ [Next]_vars => IInv'
  <2> SUFFICES ASSUME IInv, [Next]_vars PROVE IInv'
    OBVIOUS
  <2>1. CASE Next
    <3>1. kinds = {"SEC"} \/ kinds = {"MEMORY"}
      BY DEF IInv
    <3> QED
      BY <2>1, <3>1, SectionStep, PesStep
  <2>2. CASE UNCHANGED vars
    <3>1. dmx' = dmx /\ kinds' = kinds /\ todo' = todo
      BY <2>2 DEF vars
    <3>2. Sleepers' = Sleepers /\ Todo' = Todo
      BY <3>1 DEF Sleepers, Asleep, Todo
    <3> QED
      BY <3>1, <3>2 DEF IInv, Asleep
  <2> QED
    BY <2>1, <2>2
<1> QED
  BY <1>1, <1>2, PTL DEF Spec

\* What the two parts say of an attached slot, and of its users.
LEMMA AttachedIs ==
  ASSUME IInv, NEW f \in Filters
  PROVE  /\ kinds = {"SEC"} => (Attached(f) <=> Holds(dmx, f) /\ f \notin Sleepers)
         /\ kinds = {"MEMORY"} => ~Attached(f)
<1>1. kinds = {"SEC"} => (Attached(f) <=> Holds(dmx, f) /\ f \notin Sleepers)
  BY DEF IInv, Sec, SlotSound, Attached, Holds, Sleepers
<1>2. kinds = {"MEMORY"} => ~Attached(f)
  BY DEF IInv, Pes, PesSound, Attached
<1> QED
  BY <1>1, <1>2

LEMMA InvKeeps == IInv => KeepsWhatItSet
<1> SUFFICES ASSUME IInv, NEW f \in Filters, Attached(f)
             PROVE  LET s == dmx.filter[f]
                    IN  /\ Valid(dmx, s.chid) /\ Assigned(dmx, s.fid)
                        /\ dmx.block[s.fid].ch = s.chid
                        /\ \A g \in Filters : g # f /\ Attached(g) => dmx.filter[g].fid # s.fid
  BY DEF KeepsWhatItSet
<1>1. kinds = {"SEC"} /\ Holds(dmx, f)
  BY AttachedIs DEF IInv
<1>2. SlotSound(dmx, f) /\ Apart(dmx)
  BY <1>1 DEF IInv, Sec
<1>3. \A g \in Filters : Attached(g) => Holds(dmx, g)
  BY <1>1, AttachedIs
<1> QED
  BY <1>1, <1>2, <1>3 DEF SlotSound, Apart, Valid, Assigned

\* A section filter that is set keeps its channel and its own table-section filter, whatever
\* the other slots are stopped, reset, closed or set to (DemuxFilterReset, DemuxFilterStop).
THEOREM KeptWhileSet == InOrder => (Spec => []KeepsWhatItSet)
BY Invariance, InvKeeps, PTL

LEMMA InvReceives == IInv => ReceivesItsPid
<1> SUFFICES ASSUME IInv PROVE ReceivesItsPid
  OBVIOUS
<1>1. ASSUME NEW f \in Filters, Attached(f)
      PROVE  /\ kinds = {"SEC"} /\ Holds(dmx, f) /\ f \notin Sleepers
             /\ SlotSound(dmx, f) /\ ByPid(dmx, Sleepers)
  <2>1. kinds = {"SEC"} /\ Holds(dmx, f) /\ f \notin Sleepers
    BY <1>1, AttachedIs DEF IInv
  <2> QED
    BY <2>1 DEF IInv, Sec
<1>2. StartedReceives
  BY <1>1 DEF StartedReceives, SlotSound
<1>3. OnItsPid
  BY <1>1 DEF OnItsPid, ByPid
<1> QED
  BY <1>2, <1>3 DEF ReceivesItsPid

\* A started section filter has its channel and its filter enabled, on its own PID, until it is
\* itself stopped or reset: another slot's stop disables a channel only for its last user.
THEOREM StartedAlwaysReceives == InOrder => (Spec => []ReceivesItsPid)
BY Invariance, InvReceives, PTL

LEMMA InvAccounted == IInv => ChannelsAccounted
<1> SUFFICES ASSUME IInv PROVE ChannelsAccounted
  OBVIOUS
<1>1. CASE kinds = {"SEC"}
  <2>1. Sec(dmx, Sleepers, Sleepers)
    BY <1>1 DEF IInv
  <2>2. \A f \in Filters : Attached(f) <=> Holds(dmx, f) /\ f \notin Sleepers
    BY <1>1, AttachedIs
  <2>3. TypeOK
    BY <2>1 DEF IInv, Sec, TypeOK
  <2>4. InUseCounts
    <3>1. \A c \in Channels : {f \in Filters : Attached(f) /\ dmx.filter[f].chid = c}
                                = Users(dmx, Sleepers, c)
      BY <2>2 DEF Users
    <3> QED
      BY <2>1, <3>1 DEF InUseCounts, Sec, Counted
  <2>5. OneChannelPerPid
    BY <2>1, <2>2 DEF OneChannelPerPid, Sec, ByPid
  <2>6. PesOwnsChannel
    BY <2>1 DEF PesOwnsChannel, Sec, SlotSound, Holds
  <2>7. NothingLeaks
    <3>1. \A f \in Filters : Holds(dmx, f) => dmx.filter[f].states # FREE
      BY DEF Holds, FREE, SET
    <3> QED
      BY <2>1, <3>1 DEF NothingLeaks, Sec, Owned, Valid, Assigned
  <2> QED
    BY <2>3, <2>4, <2>5, <2>6, <2>7 DEF ChannelsAccounted
<1>2. CASE kinds = {"MEMORY"}
  <2>1. Pes(dmx, {})
    BY <1>2 DEF IInv
  <2>2. \A f \in Filters : ~Attached(f)
    BY <1>2, AttachedIs
  <2>3. TypeOK
    BY <2>1 DEF IInv, Pes, TypeOK
  <2>4. InUseCounts
    <3>1. \A c \in Channels : {f \in Filters : Attached(f) /\ dmx.filter[f].chid = c} = {}
      BY <2>2
    <3> QED
      BY <2>1, <3>1, FS_EmptySet DEF InUseCounts, Pes
  <2>5. OneChannelPerPid
    BY <2>2 DEF OneChannelPerPid
  <2>6. PesOwnsChannel
    <3> SUFFICES ASSUME NEW f \in Filters, dmx.filter[f].chid # NONE
                 PROVE  LET s == dmx.filter[f]
                        IN  /\ Valid(dmx, s.chid)
                            /\ dmx.channel[s.chid].pid = s.pes
                            /\ s.states = START => dmx.channel[s.chid].status = "ENABLED"
                            /\ \A g \in Filters : g # f => dmx.filter[g].chid # s.chid
      BY DEF PesOwnsChannel
    <3>1. PesSound(dmx, {}, f) /\ dmx.filter[f].chid \in Channels
      BY <2>1, FieldTypes DEF Pes
    <3> QED
      BY <3>1 DEF PesSound, Valid
  <2>7. NothingLeaks
    <3>1. \A f \in Filters : dmx.filter[f].chid # NONE => dmx.filter[f].states # FREE
      BY <2>1 DEF Pes, PesSound, Holds, FREE, SET
    <3>2. \A b \in Blocks : ~Assigned(dmx, b)
      BY <2>1 DEF Pes, Assigned
    <3>3. \A c \in Channels : c # NONE
      BY NoneIsNone
    <3> QED
      BY <2>1, <3>1, <3>2, <3>3 DEF NothingLeaks, Pes, Valid
  <2> QED
    BY <2>3, <2>4, <2>5, <2>6, <2>7 DEF ChannelsAccounted
<1> QED
  BY <1>1, <1>2 DEF IInv

\* Channels are shared by PID, counted, and returned with their last user: the count of a
\* channel is its attached slots, and a channel or a filter in use belongs to an open slot.
THEOREM AlwaysAccounted == InOrder => (Spec => []ChannelsAccounted)
BY Invariance, InvAccounted, PTL
===============================================================================
