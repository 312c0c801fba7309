------------------------------ MODULE XpFilter ------------------------------
(***************************************************************************)
(* The table-section filters of the transport unit (demux/xp_osi_filte.c): *)
(* 4-byte hardware filter blocks, filters made of several of them, and the  *)
(* chain of blocks that the hardware walks for each channel.                *)
(*                                                                         *)
(* The chain is a table in row order: column k holds the k-th block of      *)
(* every filter of the channel, the last block of a column is marked        *)
(* endOfColumn, the last block of the chain links to itself.  The driver    *)
(* keeps a shadow of the links (XpFilterHwData) and writes the registers    *)
(* one at a time while the hardware may be walking them.                    *)
(***************************************************************************)
EXTENDS Integers, Sequences, FiniteSets, SequencesExt

CONSTANTS FltBlocks,     \* XP_FILTER_MAX_BLOCKS: blocks, and filter numbers
          FltChannels,   \* the channels that filter table sections
          FltSlots,      \* filters of one channel (32: bits of a match word)
          FltSizes,      \* block counts an application asks for
          ShortMiss,     \* a short section misses (XP_FILTER_SHORT_MISS)
          FltEnvs        \* what may happen around the filters: sets of
                         \* "control", "set", "busy", "stop", "sections"

Blocks == 0 .. FltBlocks - 1
SlotIds == 0 .. FltSlots - 1
Unused == FltBlocks      \* FILTER_ID_UNUSED
NoChannel == "none"      \* XP_CHANNEL_COUNT

VARIABLES
  flt,         \* FilterInfo and the registers it drives:
               \*   f: pXpFilterData    b: XpFilterHwData    c: XpFilterChData
               \*   r: registers        change: ulXpFilterSectionChange
  fltWrites,   \* the link registers after each write of the last call
  fltActive,   \* channels enabled with their queue enabled
  sfchng,      \* SFCHNG: channels the hardware has not yet acknowledged
  fltTold,     \* the last section: the match ids that were enabled, due, notified
  fltEnv       \* what happens around the filters in this behaviour

fltVars == <<flt, fltWrites, fltActive, sfchng, fltTold, fltEnv>>

\* The counts 1 to n of a for loop.
UpTo(n) == [k \in 1 .. n |-> k]

SlotOrder == [k \in 1 .. FltSlots |-> k - 1]

NoSlots == [k \in SlotIds |-> Unused]

NoFilter == [state |-> "NULL", pending |-> "NONE", ch |-> NoChannel,
             match |-> 0, blocks |-> <<>>, soft |-> FALSE]

NoSection == [enabled |-> {}, due |-> {}, notified |-> {}]

FltInit ==
  /\ flt = [f |-> [i \in Blocks |-> NoFilter],
            b |-> [i \in Blocks |-> [inuse |-> FALSE, next |-> 0, prev |-> 0,
                                     eoc |-> FALSE]],
            c |-> [k \in FltChannels |->
                     [count |-> 0, inuse |-> 0, first |-> 0, pending |-> FALSE,
                      slot |-> NoSlots]],
            r |-> [link |-> [i \in Blocks |-> [next |-> 0, eoc |-> FALSE]],
                   enbl |-> [i \in Blocks |-> FALSE],
                   sfid |-> [i \in Blocks |-> 0],
                   fsf |-> [k \in FltChannels |-> 0]],
            w |-> <<>>, change |-> {}]
  /\ fltWrites = <<>> /\ fltActive = {} /\ sfchng = {} /\ fltTold = NoSection
  /\ fltEnv \in FltEnvs

-----------------------------------------------------------------------------
(* Register writes.  s.w remembers what the hardware could see after each.  *)

Visible(s) == [s EXCEPT !.w = Append(@, [link |-> s.r.link, fsf |-> s.r.fsf])]

\* xp_atom_dcr_write_filter_link with the shadow's link.
write_filter_link(s, b) ==
  Visible([s EXCEPT !.r.link[b] = [next |-> s.b[b].next, eoc |-> s.b[b].eoc]])

write_fsf(s, c, b) == Visible([s EXCEPT !.r.fsf[c] = b])

\* The control word of the k-th block, its link included: a filter is switched
\* by its first block.
write_dram_filter(s, i, k) ==
  LET f == s.f[i]
      b == f.blocks[k]
  IN  write_filter_link([s EXCEPT !.r.enbl[b] = f.state = "ENABLED" \/ k > 1,
                                  !.r.sfid[b] = f.match], b)

hw_filter_set(s, i) ==
  FoldLeft(LAMBDA t, k : write_dram_filter(t, i, k), s, UpTo(Len(s.f[i].blocks)))

-----------------------------------------------------------------------------
(* Blocks.                                                                  *)

FreeBlocks(s) == {b \in Blocks : ~ s.b[b].inuse}

\* The first n free blocks, in ascending order.
Reserved(s, n) == SubSeq(SetToSortSeq(FreeBlocks(s), <), 1, n)

\* Links of a filter that stands alone: a chain of one-block columns.
init_filter_links(s, blocks) ==
  LET n == Len(blocks)
      One(t, k) ==
        [t EXCEPT !.b[blocks[k]].next = blocks[IF k = n THEN n ELSE k + 1],
                  !.b[blocks[k]].prev = blocks[IF k = 1 THEN 1 ELSE k - 1],
                  !.b[blocks[k]].eoc = TRUE]
  IN  FoldLeft(One, s, UpTo(n))

\* As update_links, with the two register writes the other way round.
update_links_swapped(s, a, b) ==
  LET next == s.b[a].next
      s1 == [s EXCEPT !.b[b].next = IF next = a THEN @ ELSE next,
                      !.b[a].next = b, !.b[b].prev = a, !.b[a].eoc = FALSE]
      s2 == write_filter_link(
              IF next = a THEN s1 ELSE [s1 EXCEPT !.b[next].prev = b], a)
  IN  IF next = a THEN s2 ELSE write_filter_link(s2, b)

\* Block b goes into the chain after block a.
update_links(s, a, b) ==
  LET next == s.b[a].next
      s1 == IF next = a THEN s
            ELSE write_filter_link([s EXCEPT !.b[b].next = next,
                                             !.b[next].prev = b], b)
  IN  write_filter_link([s1 EXCEPT !.b[a].next = b, !.b[b].prev = a,
                                   !.b[a].eoc = FALSE], a)

\* The pairs <<end of a column, block to put behind it>>, last column first:
\* the forward walk of the chain pairs columns with blocks, the backward
\* walk lists the pairs.
ColumnEnds(h, first, b0) ==
  LET Fwd[p \in Blocks \X Blocks] ==
        IF h[p[1]].next = p[1] \/ (h[p[1]].eoc /\ h[p[2]].next = p[2]) THEN p
        ELSE Fwd[<<h[p[1]].next, IF h[p[1]].eoc THEN h[p[2]].next ELSE p[2]>>]
      Back[p \in Blocks \X Blocks] ==
        (IF h[p[1]].eoc THEN <<p>> ELSE <<>>)
        \o (IF h[p[1]].prev = p[1] THEN <<>>
            ELSE Back[<<h[p[1]].prev,
                        IF h[p[1]].eoc THEN h[p[2]].prev ELSE p[2]>>])
  IN  Back[Fwd[<<first, b0>>]]

hw_filter_add(s, c, i) ==
  LET f == s.f[i]
      Name(t, b) == [t EXCEPT !.r.sfid[b] = f.match]
      s1 == FoldLeft(Name, s, f.blocks)
      Link(t, p) == update_links(t, p[1], p[2])
  IN  IF s.c[c].inuse = 0
      THEN write_fsf([s1 EXCEPT !.c[c].first = f.blocks[1]], c, f.blocks[1])
      ELSE FoldLeft(Link, s1, ColumnEnds(s.b, s.c[c].first, f.blocks[1]))

\* A block leaves the chain.
unlink_block(s, b) ==
  LET next == s.b[b].next
      prev == s.b[b].prev
      s1 == [s EXCEPT !.b[next].prev = prev]
      s2 == [s1 EXCEPT !.b[prev].next = next]
  IN  write_filter_link([s2 EXCEPT !.b[prev].eoc = @ \/ s2.b[b].eoc], prev)

hw_filter_delete(s, c, i) ==
  LET blocks == s.f[i].blocks
      n == Len(blocks)
      b1 == blocks[1]
      head == s.c[c].first = b1
      s1 == IF ~ head THEN s
            ELSE LET next == s.b[b1].next
                 IN  [write_fsf(s, c, next) EXCEPT !.c[c].first = next,
                                                   !.b[next].prev = next]
      rest == SubSeq(blocks, IF head THEN 2 ELSE 1, n)
      last == blocks[n]
      \* prev of the last block unlinked, read before it was unlinked
      Step(p, b) == [s |-> unlink_block(p.s, b), prev |-> p.s.b[b].prev]
      End(p) == IF p.s.b[last].next # last THEN p.s
                ELSE write_filter_link([p.s EXCEPT !.b[p.prev].next = p.prev], p.prev)
  IN  End(FoldLeft(Step, [s |-> s1, prev |-> 0], rest))

-----------------------------------------------------------------------------
(* Filters.                                                                 *)

xp_osi_filter_valid(s, i) == i \in Blocks /\ s.f[i].state # "NULL"

\* xp_osi_filter_control; a refused call changes nothing.
filter_control(s, i, on) ==
  IF /\ xp_osi_filter_valid(s, i)
     /\ s.f[i].state \in {"ENABLED", "DISABLED"}
     /\ s.f[i].pending # "FREE"
  THEN [s EXCEPT !.r.enbl[s.f[i].blocks[1]] = on,
                 !.f[i].state = IF on THEN "ENABLED" ELSE "DISABLED"]
  ELSE s

clear_hw_block(s, b) == [s EXCEPT !.b[b].inuse = FALSE]

free_filter(s, i) ==
  [FoldLeft(clear_hw_block, s, s.f[i].blocks) EXCEPT !.f[i] = NoFilter]

\* The filter in slot k leaves channel c.  For the last filter of a channel
\* the code disables a filter instead of unlinking: the one whose number is
\* the number of the channel's first block.
delete_filter(s, c, i, k) ==
  LET s1 == IF s.c[c].inuse = 1 THEN filter_control(s, s.c[c].first, FALSE)
            ELSE hw_filter_delete(s, c, i)
      s2 == init_filter_links(s1, s.f[i].blocks)
  IN  [s2 EXCEPT !.c[c].slot[k] = Unused,
                 !.c[c].inuse = IF @ > 0 THEN @ - 1 ELSE @,
                 !.f[i].ch = NoChannel, !.f[i].pending = "NONE"]

\* The requests that waited for the hardware to finish its section.
xp_osi_filter_process_pending(s, c) ==
  LET Slot(t, k) ==
        LET i == t.c[c].slot[k]
        IN  IF k >= t.c[c].count \/ i = Unused THEN t
            ELSE CASE t.f[i].pending = "FREE" ->
                        free_filter(delete_filter(t, c, i, k), i)
                   [] t.f[i].pending = "DELETE" -> delete_filter(t, c, i, k)
                   [] OTHER -> t
  IN  IF s.c[c].pending
      THEN FoldLeft(Slot, [s EXCEPT !.c[c].pending = FALSE],
                    SlotOrder)
      ELSE s

\* Channels whose bit was set when it was last saved, and is clear now.
process_section_change(s) ==
  LET Done(t, c) == xp_osi_filter_process_pending(t, c)
  IN  IF s.change = {} THEN s
      ELSE FoldLeft(Done, s, SetToSeq(s.change \ sfchng))

-----------------------------------------------------------------------------
(* The functions of the component, as operators on its state.               *)

\* Filter i, and the blocks it needs, are taken.
Allocated(s, i, blocks) ==
  LET Take(t, b) == [t EXCEPT !.b[b].inuse = TRUE]
  IN  init_filter_links([FoldLeft(Take, s, blocks) EXCEPT
        !.f[i] = [NoFilter EXCEPT !.state = "UNUSED", !.blocks = blocks]], blocks)

FreeFilters(s) == {i \in Blocks : s.f[i].state = "NULL"}

AllocateIn(s, n) ==
  LET i == CHOOSE j \in FreeFilters(s) : \A k \in FreeFilters(s) : j <= k
  IN  IF FreeFilters(s) = {} \/ Cardinality(FreeBlocks(s)) < n
      THEN [s |-> s, id |-> Unused]
      ELSE [s |-> Allocated(s, i, Reserved(s, n)), id |-> i]

filter_allocate(s, n) == AllocateIn(process_section_change(s), n)

filter_set(s, i) ==
  IF ~ xp_osi_filter_valid(s, i) \/ s.f[i].pending = "FREE" THEN s
  ELSE hw_filter_set(
         [s EXCEPT !.f[i].state = IF @ = "UNUSED" THEN "DEFINED" ELSE @,
                   !.f[i].soft = @ \/ s.f[i].state = "ENABLED"], i)

\* The first slot that is free, if the filter can be added.
OpenSlots(s, c) ==
  {k \in SlotIds : k >= s.c[c].count \/ s.c[c].slot[k] = Unused}

filter_add_to_channel(s, c, i) ==
  LET k == CHOOSE j \in OpenSlots(s, c) : \A l \in OpenSlots(s, c) : j <= l
      s1 == [s EXCEPT !.c[c].slot = IF s.c[c].count = 0 THEN NoSlots ELSE @,
                      !.c[c].count = FltSlots,
                      !.f[i].state = "DISABLED", !.f[i].ch = c,
                      !.f[i].match = k]
  IN  [hw_filter_add(s1, c, i) EXCEPT !.c[c].slot[k] = i, !.c[c].inuse = @ + 1]

\* A filter that has left the hardware is not unlinked from the chain.
filter_delete_lazy(s, c, i, busy, active) ==
  LET found == {k \in SlotIds : k < s.c[c].count /\ s.c[c].slot[k] = i}
  IN  IF s.f[i].state \notin {"ENABLED", "DISABLED"} \/ found = {} THEN s
      ELSE [s EXCEPT !.c[c].slot[CHOOSE k \in found : TRUE] = Unused,
                     !.c[c].inuse = @ - 1,
                     !.f[i].state = "DEFINED", !.f[i].ch = NoChannel]

\* xp_osi_filter_delete_from_channel.  busy: the hardware is inside a section
\* and leaves the channel's bit set; active: channel and queue are enabled.
filter_delete(s, c, i, busy, active) ==
  LET f == s.f[i]
      s1 == filter_control(s, i, FALSE)
      found == {k \in SlotIds : k < s.c[c].count /\ s.c[c].slot[k] = i}
      k == CHOOSE j \in found : \A l \in found : j <= l
      s2 == [s1 EXCEPT !.f[i].state = "DEFINED",
                       !.change = sfchng \cup (IF busy THEN {c} ELSE {})]
  IN  CASE \/ ~ xp_osi_filter_valid(s, i) \/ f.pending # "NONE"
           \/ f.state \notin {"ENABLED", "DISABLED"} -> s
        [] OTHER ->
             IF found = {} THEN s1
             ELSE IF active /\ c \in s2.change
             THEN [s2 EXCEPT !.f[i].pending = "DELETE", !.c[c].pending = TRUE]
             ELSE delete_filter(s2, c, i, k)

filter_free(s, i) ==
  IF ~ xp_osi_filter_valid(s, i) \/ s.f[i].state \in {"ENABLED", "DISABLED"}
  THEN s
  ELSE IF s.f[i].pending = "NONE" THEN free_filter(s, i)
  ELSE [s EXCEPT !.f[i].pending = "FREE"]

filter_free_channel(s0, c) ==
  LET Slot(s, k) ==
        LET i == s.c[c].slot[k]
        IN  IF k >= s.c[c].count \/ i = Unused THEN s
            ELSE filter_free(filter_delete(s, c, i, FALSE, FALSE), i)
  IN  [FoldLeft(Slot, s0, SlotOrder) EXCEPT !.c[c].count = 0, !.c[c].slot = NoSlots]

-----------------------------------------------------------------------------
(* The calls of the driver.                                                 *)

Fresh == [flt EXCEPT !.w = <<>>]

Do(s) == flt' = [s EXCEPT !.w = <<>>] /\ fltWrites' = s.w

\* No section is delivered by the step.
Silent == fltTold' = NoSection /\ UNCHANGED fltEnv

Quiet == Silent /\ UNCHANGED <<fltActive, sfchng>>

\* The first filter of a shared channel, or one more, of n blocks.
DemuxFilterAcquire(c, n) ==
  LET Add(s, i) == IF OpenSlots(s, c) = {} THEN filter_free(s, i)
                   ELSE filter_control(filter_add_to_channel(s, c, i), i, FALSE)
      Use(a) == IF a.id = Unused THEN a.s ELSE Add(filter_set(a.s, a.id), a.id)
  IN  Do(Use(filter_allocate(Fresh, n))) /\ Quiet

\* DemuxGetFilterNumber: the answer is not modelled, the processing of the
\* acknowledged changes is.
xp_osi_filter_get_available == Do(process_section_change(Fresh)) /\ Quiet

\* DemuxFilterStart and DemuxFilterStop.
xp_osi_filter_control(i, on) ==
  "control" \in fltEnv /\ Do(filter_control(Fresh, i, on)) /\ Quiet

\* New data for an enabled filter.
xp_osi_filter_set(i) ==
  /\ "set" \in fltEnv
  /\ flt.f[i].state = "ENABLED"
  /\ Do(filter_set(Fresh, i)) /\ Quiet

\* DemuxFilterReset of a filter on a channel that others use.
DemuxFilterRelease(c, i, busy) ==
  /\ flt.f[i].ch = c /\ flt.f[i].pending = "NONE"
  /\ busy => "busy" \in fltEnv /\ c \in fltActive
  /\ sfchng' = IF busy THEN sfchng \cup {c} ELSE sfchng
  /\ Do(filter_free(filter_delete(Fresh, c, i, busy, c \in fltActive), i))
  /\ Silent /\ UNCHANGED fltActive

xp_osi_channel_enable(c) ==
  /\ fltActive' = fltActive \cup {c}
  /\ fltWrites' = <<>> /\ Silent /\ UNCHANGED <<flt, sfchng>>

\* Disabling a channel does what was pending on it.
xp_osi_channel_disable(c) ==
  /\ "stop" \in fltEnv /\ c \in fltActive
  /\ fltActive' = fltActive \ {c}
  /\ Do(xp_osi_filter_process_pending(Fresh, c))
  /\ Silent /\ UNCHANGED sfchng

\* The channel is stopped first, then its filters go.
xp_osi_channel_free(c) ==
  /\ "stop" \in fltEnv
  /\ fltActive' = fltActive \ {c}
  /\ Do(filter_free_channel(xp_osi_filter_process_pending(Fresh, c), c))
  /\ Silent /\ UNCHANGED sfchng

-----------------------------------------------------------------------------
(* The hardware, and the sections it hands over.                            *)

\* The blocks the hardware visits from block b on: at most FltBlocks + 1.
Walk(link, b) ==
  LET W[n \in 0 .. FltBlocks] ==
        IF n = 0 THEN <<b>>
        ELSE LET w == W[n - 1]
                 next == link[Last(w)].next
             IN  IF next = Last(w) THEN w ELSE Append(w, next)
  IN  W[FltBlocks]

\* Match ids of the enabled rows of the chain: the first column.
Rows(c) ==
  LET w == Walk(flt.r.link, flt.r.fsf[c])
      End == {k \in 1 .. Len(w) : flt.r.link[w[k]].eoc}
      n == IF End = {} THEN Len(w) ELSE CHOOSE k \in End : \A l \in End : k <= l
  IN  {flt.r.sfid[b] : b \in {b \in {w[k] : k \in 1 .. n} : flt.r.enbl[b]}}

\* Whether the section matches a filter's new data; missed: the slots of those
\* it does not match.
filter_match(k, missed) == k \notin missed

\* check_filters: the bits of the match word that survive.  skip is carried
\* from one bit to the next.
check_filters(c, matched, short, missed) ==
  LET ch == flt.c[c]
      F(k) == flt.f[ch.slot[k]]
      Bit(a, k) ==
        LET skip ==
              CASE k >= ch.inuse -> TRUE
                [] k < ch.inuse /\ ch.slot[k] = Unused -> TRUE
                [] k < ch.inuse /\ ch.slot[k] # Unused ->
                     CASE F(k).state # "ENABLED" -> TRUE
                       [] F(k).state = "ENABLED" /\ k \in short ->
                            a.skip \/ ShortMiss
                       [] F(k).state = "ENABLED" /\ k \notin short ->
                            F(k).soft /\ ~filter_match(k, missed)
        IN  IF k \notin matched THEN a
            ELSE [skip |-> skip,
                  word |-> IF skip THEN a.word \ {k} ELSE a.word,
                  hard |-> IF ~ skip /\ k \notin short THEN a.hard \cup {k}
                           ELSE a.hard]
  IN  FoldLeft(Bit, [skip |-> FALSE, word |-> matched, hard |-> {}],
               SlotOrder)

EnabledSlots(c) ==
  {k \in SlotIds : /\ k < flt.c[c].count /\ flt.c[c].slot[k] # Unused
                   /\ flt.f[flt.c[c].slot[k]].state = "ENABLED"}

\* A section that matched some rows is checked and notified, then what was
\* pending is done.  short: filters longer than the section; missed: filters
\* whose new data the section does not match.
process_table_data(c, matched, short, missed) ==
  /\ "sections" \in fltEnv /\ c \in fltActive
  /\ matched # {} /\ matched \subseteq Rows(c)
  /\ LET a == check_filters(c, matched, short, missed)
         Heard(t, k) == IF k \notin a.hard THEN t
                        ELSE [t EXCEPT !.f[t.c[c].slot[k]].soft = FALSE]
         s == FoldLeft(Heard, Fresh, SlotOrder)
     IN  /\ Do(xp_osi_filter_process_pending(s, c))
         /\ fltTold' = [enabled |-> EnabledSlots(c), notified |-> a.word,
                        due |-> {k \in (matched \cap EnabledSlots(c)) \ short :
                                   flt.f[flt.c[c].slot[k]].soft => filter_match(k, missed)}]
  /\ UNCHANGED <<fltActive, sfchng, fltEnv>>

\* The hardware reaches the end of its section.
SectionEnds(c) ==
  /\ c \in sfchng
  /\ sfchng' = sfchng \ {c}
  /\ fltWrites' = <<>> /\ Silent /\ UNCHANGED <<flt, fltActive>>

FltNext ==
  \/ xp_osi_filter_get_available
  \/ \E i \in Blocks :
       \/ xp_osi_filter_set(i)
       \/ \E on \in BOOLEAN : xp_osi_filter_control(i, on)
       \/ \E c \in FltChannels, busy \in BOOLEAN : DemuxFilterRelease(c, i, busy)
  \/ \E c \in FltChannels :
       \/ \E n \in FltSizes : DemuxFilterAcquire(c, n)
       \/ xp_osi_channel_enable(c) \/ xp_osi_channel_disable(c)
       \/ xp_osi_channel_free(c) \/ SectionEnds(c)
       \/ \E matched \in SUBSET SlotIds :
            \E short, missed \in SUBSET matched :
              process_table_data(c, matched, short, missed)

FltSpec == FltInit /\ [][FltNext]_fltVars

-----------------------------------------------------------------------------
(* What must hold.                                                          *)

\* The filters that have been put on a channel and not taken off it.
OnChannel(s, c) == {i \in Blocks : s.f[i].ch = c}

\* The k-th blocks of the filters I.
Column(s, I, k) ==
  {s.f[i].blocks[k] : i \in {j \in I : Len(s.f[j].blocks) >= k}}

\* The chain a channel's registers describe is the table of its filters: the
\* walk from the first block passes the first blocks of all of them, an end
\* of column, all the second blocks, ... and stops at the last.
ChainIsTheTable ==
  \A c \in FltChannels : flt.c[c].inuse > 0 =>
    LET w == Walk(flt.r.link, flt.r.fsf[c])
        ends == {k \in 1 .. Len(w) : flt.r.link[w[k]].eoc}
        Col(k) == Cardinality({e \in ends : e < k}) + 1
        I == OnChannel(flt, c)
    IN  /\ flt.r.link[Last(w)].next = Last(w)
        /\ Len(w) = Cardinality(ToSet(w)) /\ Len(w) \in ends
        /\ \A n \in 1 .. FltBlocks :
             {w[k] : k \in {j \in 1 .. Len(w) : Col(j) = n}} = Column(flt, I, n)

\* A block in use belongs to exactly one filter, a free block to none, and
\* the count of a channel is the number of its filters.
BlocksConserved ==
  /\ \A b \in Blocks :
       Cardinality({i \in Blocks : b \in ToSet(flt.f[i].blocks)})
         = (IF flt.b[b].inuse THEN 1 ELSE 0)

\* While filters are added to an active channel or taken off it, the chain
\* passes after every register write through all the blocks of the filters
\* that stay, through no block of another channel, and it ends.
WalkedWhileWritten ==
  [][\A c \in fltActive : \A w \in ToSet(fltWrites') :
       LET stay == {i \in OnChannel(flt, c) \cap OnChannel(flt', c) :
                      flt.f[i].pending = "NONE"}
           seen == ToSet(Walk(w.link, w.fsf[c]))
           mine == UNION {ToSet(flt.f[i].blocks) : i \in OnChannel(flt, c)}
                   \cup UNION {ToSet(flt'.f[i].blocks) : i \in OnChannel(flt', c)}
       IN  stay # {} =>
             /\ \A i \in stay : ToSet(flt.f[i].blocks) \subseteq seen
             /\ seen \subseteq mine
             /\ \E b \in seen : w.link[b].next = b]_fltVars

\* A section is announced only for filters that are enabled: no section
\* arrives for a filter once it has been deleted from its channel.
NotifiedIsEnabled == fltTold.notified \subseteq fltTold.enabled

\* A section the hardware matched for an enabled filter, long enough for it
\* and matching its data, reaches the application.
EnabledFilterIsHeard == fltTold.due \subseteq fltTold.notified

\* Registers, filters, blocks and counts tell one story.
TablesAgree == ChainIsTheTable /\ BlocksConserved /\ NotifiedIsEnabled
=============================================================================
