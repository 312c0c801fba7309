------------------------------- MODULE DemuxDrv -------------------------------
(***************************************************************************)
(* The demultiplexer's character device (demux/xp_osd_drv.c): the filter   *)
(* slots that applications open, the transport channels and table-section  *)
(* filters the slots acquire, and the sharing of one channel by all the    *)
(* section filters of a PID.                                               *)
(*                                                                         *)
(* The kernel is a uniprocessor, non-preemptive one, so a system call runs *)
(* to its end or to the point where it sleeps.  The only sleep in these    *)
(* handlers is the 40-jiffy one in the middle of DemuxFilterReset for a    *)
(* section filter; every handler that resets its slot is therefore two     *)
(* steps, the second (Wake) doing what the handler had left to do.  The    *)
(* order of the steps inside each operator is the order of the code.       *)
(*                                                                         *)
(* Data buffers, mmap and the decoder, bucket and TS kinds are left out.   *)
(***************************************************************************)
EXTENDS Integers, FiniteSets, FiniteSetsExt

CONSTANTS NumFilter,    \* uFilterNum: filter slots of the device
          NumChannel,   \* channels XP_CHANNEL_PES_MIN..XP_CHANNEL_PES_MAX
          NumBlock,     \* table-section filters of the hardware
          MaxPending,   \* deletions the hardware may be sitting on at once
          NumPid,       \* PIDs the applications ask for: 1..NumPid
          Uses,         \* what applications set: sets of kinds, of "SEC",
                        \* "MEMORY" and "NOTHING", one set to a behaviour
          Parallel      \* may a call start while another sleeps in a reset?

ASSUME DemuxAssumption ==
  /\ NumFilter \in Nat \ {0} /\ NumChannel \in Nat \ {0}
  /\ NumBlock \in Nat \ {0} /\ MaxPending \in Nat /\ NumPid \in Nat \ {0}
  /\ Uses \subseteq SUBSET {"SEC", "MEMORY", "NOTHING"}
  /\ Parallel \in BOOLEAN

Filters  == 1..NumFilter
Channels == 1..NumChannel
Blocks   == 1..NumBlock
Pids     == 1..NumPid
NONE     == 0            \* ILLEGAL_CHANNEL, ILLEGAL_FILTER, para.pid = -1

FREE  == 0               \* FILTER_STAT_FREE ... FILTER_STAT_START
ALLOC == 1
SET   == 2
READY == 3
START == 4

VARIABLES dmx,    \* the driver's tables, see Tables
          kinds,  \* the kinds applications set in this behaviour
          todo    \* per slot: what the call asleep in its reset is to do

vars == <<dmx, kinds, todo>>

(* filter : the DEMUX_FILTER slots; pid is para.pid, pes is pes_para.pid,   *)
(*          out is pes_para.output.                                         *)
(* dev    : DEMUX_DEVICE.chid[], the driver's own account of the channels.  *)
(* channel: XpChannelData[], the channels themselves.                       *)
(* block  : pXpFilterData[], the table-section filters; "PENDING" is one    *)
(*          whose deletion waits for the hardware.                          *)
Tables ==
  [filter  : [Filters -> [states : FREE..START, type : {"none", "SEC", "PES"},
                          chid : Channels \cup {NONE},
                          fid : Blocks \cup {NONE}, pid : Pids \cup {NONE},
                          pes : Pids \cup {NONE},
                          out : {"MEMORY", "NOTHING"}]],
   dev     : [Channels -> [inuse : -NumFilter..NumFilter,
                           state : {"UNUSED", "DISABLED", "ENABLED"}]],
   channel : [Channels -> [status : {"UNUSED", "DISABLED", "ENABLED"},
                           pid : Pids \cup {NONE}]],
   block   : [Blocks -> [state : {"NULL", "DISABLED", "ENABLED", "PENDING"},
                         ch : Channels \cup {NONE}]]]

Todo == {"nothing", "close"} \cup kinds

-----------------------------------------------------------------------------
(* The transport layer underneath: channels and table-section filters.      *)

NullBlock == [state |-> "NULL", ch |-> NONE]

(* xp_osi_channel_valid *)
Valid(d, c) == c \in Channels /\ d.channel[c].status # "UNUSED"

(* A filter that is allocated, on a channel, and not being deleted.         *)
Assigned(d, b) == b \in Blocks /\ d.block[b].state \in {"DISABLED", "ENABLED"}

FreeBlocks(d, B) ==
  [d EXCEPT !.block = [b \in Blocks |-> IF b \in B THEN NullBlock ELSE @[b]]]

(* Deletions that waited for the hardware are carried out.                  *)
process_pending(d, c) ==
  FreeBlocks(d, {b \in Blocks : d.block[b] = [state |-> "PENDING", ch |-> c]})

(* xp_osi_channel_control with ENABLE and with DISABLE, of a valid channel. *)
channel_enable(d, c) == [d EXCEPT !.channel[c].status = "ENABLED"]
channel_disable(d, c) ==
  [process_pending(d, c) EXCEPT !.channel[c].status = "DISABLED"]

(* The channel goes with every table-section filter on it.                  *)
channel_free(d, c) ==
  IF Valid(d, c)
  THEN [FreeBlocks(d, {b \in Blocks : d.block[b].ch = c})
          EXCEPT !.channel[c].status = "UNUSED"]
  ELSE d

(* DemuxChannelAcquire: the highest free channel, disabled, on the PID.     *)
FreeChannels(d) == {c \in Channels : d.channel[c].status = "UNUSED"}
DemuxChannelAcquire(d, f, pid) ==
  LET c == Max(FreeChannels(d))
  IN  [d EXCEPT !.channel[c] = [status |-> "DISABLED", pid |-> pid],
                !.filter[f].chid = c]

(* xp_osi_filter_delete_from_channel and xp_osi_filter_free: on an enabled  *)
(* channel the hardware may still be using the filter (~ack).               *)
Pending(d) == {b \in Blocks : d.block[b].state = "PENDING"}
filter_delete(d, c, b, ack) ==
  IF ~(Valid(d, c) /\ Assigned(d, b)) THEN d
  ELSE IF d.block[b].ch # c THEN [d EXCEPT !.block[b].state = "DISABLED"]
  ELSE IF \/ ack
          \/ d.channel[c].status # "ENABLED"
          \/ Cardinality(Pending(d)) = MaxPending THEN FreeBlocks(d, {b})
  ELSE [d EXCEPT !.block[b].state = "PENDING"]

-----------------------------------------------------------------------------
(* The handlers of xp_osd_drv.c, as functions of the tables.                *)

Stopped(d, f) == [d EXCEPT !.filter[f].states = READY]

(* As DemuxFilterStop, disabling the channel whoever else uses it.          *)
DemuxFilterStop_alone(d, f) ==
  LET s == d.filter[f]
      e == [d EXCEPT !.block[s.fid].state = "DISABLED"]
  IN  IF s.states < START \/ ~Assigned(d, s.fid) \/ ~Valid(d, s.chid) THEN d
      ELSE Stopped([channel_disable(e, s.chid)
                      EXCEPT !.dev[s.chid].state = "DISABLED"], f)

(* A failing step of the code returns -1 with the slot still started.       *)
DemuxFilterStop(d, f) ==
  LET s == d.filter[f]
      c == s.chid
      SEC == LET e == [d EXCEPT !.block[s.fid].state = "DISABLED"]
             IN  IF ~Assigned(d, s.fid) THEN d
                 ELSE IF c = NONE THEN Stopped(e, f)
                 ELSE IF e.dev[c].inuse # 1 THEN Stopped(e, f)
                 ELSE IF ~Valid(e, c) THEN e
                 ELSE Stopped([channel_disable(e, c)
                                 EXCEPT !.dev[c].state = "DISABLED"], f)
      PES == IF c = NONE THEN Stopped(d, f)
             ELSE IF ~Valid(d, c) THEN d
             ELSE Stopped(channel_disable(d, c), f)
  IN  IF s.states < START THEN d ELSE IF s.type = "SEC" THEN SEC ELSE PES

(* A slot in SET also gets its buffer, and becomes READY, before it starts. *)
DemuxFilterStart(d0, f) ==
  LET d1 == DemuxFilterStop(d0, f)
      d  == [d1 EXCEPT !.filter[f].states = IF @ = SET THEN READY ELSE @]
      s  == d.filter[f]
      c  == s.chid
      Go(e) == [e EXCEPT !.filter[f].states = START]
      SEC == LET e == [d EXCEPT !.block[s.fid].state = "ENABLED"]
             IN  IF ~Assigned(d, s.fid) THEN d
                 ELSE IF c = NONE THEN Go(e)
                 ELSE IF e.dev[c].state = "ENABLED" THEN Go(e)
                 ELSE IF ~Valid(e, c) THEN e
                 ELSE Go([channel_enable(e, c)
                            EXCEPT !.dev[c].state = "ENABLED"])
      PES == IF Valid(d, c) THEN Go(channel_enable(d, c)) ELSE d
  IN  IF s.type = "SEC" THEN SEC ELSE PES

(* DemuxFilterReset of a section filter up to its sleep ...                 *)
ResetBegin(d, f) ==
  LET e == DemuxFilterStop(d, f)
      c == e.filter[f].chid
  IN  IF c = NONE THEN e ELSE [e EXCEPT !.dev[c].inuse = @ - 1]

Detached(d, f) ==
  [d EXCEPT !.filter[f].chid = NONE, !.filter[f].fid = NONE,
            !.filter[f].states = ALLOC]

(* As ResetEnd, one user off: the channel goes while somebody is on it.     *)
ResetEnd_early(d, f, ack) ==
  LET c == d.filter[f].chid
  IN  IF c # NONE /\ d.dev[c].inuse <= 1
      THEN Detached([channel_free(d, c) EXCEPT !.dev[c].state = "UNUSED"], f)
      ELSE Detached(filter_delete(d, c, d.filter[f].fid, ack), f)

(* ... and after it: the last user frees the channel, another one takes its *)
(* filter off it.  ack: see filter_delete.                                  *)
ResetEnd(d, f, ack) ==
  LET c == d.filter[f].chid
      b == d.filter[f].fid
  IN  IF c # NONE /\ d.dev[c].inuse = 0
      THEN Detached([channel_free(d, c) EXCEPT !.dev[c].state = "UNUSED"], f)
      ELSE IF c # NONE /\ b # NONE /\ d.dev[c].inuse > 0
      THEN Detached(filter_delete(d, c, b, ack), f)
      ELSE Detached(d, f)

(* DemuxFilterReset of the other types, which does not sleep: a PES slot    *)
(* frees its channel if its output is the memory; a slot never set (type 0) *)
(* keeps whatever it has.                                                   *)
ResetOther(d, f) ==
  LET e == DemuxFilterStop(d, f)
      s == e.filter[f]
      g == IF s.chid # NONE /\ s.out = "MEMORY"
           THEN channel_free(e, s.chid) ELSE e
  IN  IF s.type = "PES"
      THEN [g EXCEPT !.filter[f].chid = NONE, !.filter[f].states = ALLOC]
      ELSE [d EXCEPT !.filter[f].states = ALLOC]

(* As Sharing, without comparing the PIDs.                                  *)
Sharing_any(d, f) == {i \in Filters : d.filter[i].chid # NONE}

(* The first slot with the wanted PID and a channel.                        *)
Sharing(d, f) ==
  {i \in Filters : /\ d.filter[i].pid = d.filter[f].pid
                   /\ d.filter[i].chid # NONE}

(* DemuxFilterSectionSet's choice of a channel; "failed" is its early       *)
(* return.                                                                  *)
SectionChannel(d, f) ==
  LET c == d.filter[f].chid
      share == Sharing(d, f)
      disabled(e, k) == [e EXCEPT !.dev[k].state = "DISABLED"]
  IN  IF share # {}
      THEN [failed |-> FALSE,
            d |-> [d EXCEPT !.filter[f].chid = d.filter[Min(share)].chid]]
      ELSE IF c = NONE
      THEN IF FreeChannels(d) = {} THEN [failed |-> TRUE, d |-> d]
           ELSE LET e == DemuxChannelAcquire(d, f, d.filter[f].pid)
                IN  [failed |-> FALSE, d |-> disabled(e, e.filter[f].chid)]
      ELSE IF ~Valid(d, c) THEN [failed |-> TRUE, d |-> d]
      ELSE [failed |-> FALSE, d |-> disabled(channel_disable(d, c), c)]

(* DemuxFilterAcquire's allocation of a table-section filter on a channel.  *)
FreeBlockSet(d) == {b \in Blocks : d.block[b].state = "NULL"}

(* As SectionAttach, with the use of the channel not counted.               *)
SectionAttach_uncounted(d, f) ==
  LET r == SectionChannel(d, f)
      e == r.d
      c == e.filter[f].chid
      b == Min(FreeBlockSet(e))
  IN  IF r.failed \/ FreeBlockSet(e) = {} \/ ~Valid(e, c) THEN e
      ELSE [e EXCEPT !.block[b] = [state |-> "DISABLED", ch |-> c],
                     !.filter[f].fid = b, !.filter[f].type = "SEC",
                     !.filter[f].states = SET]

(* DemuxFilterSectionSet after the reset.                                   *)
SectionAttach(d, f) ==
  LET r == SectionChannel(d, f)
      e == r.d
      c == e.filter[f].chid
      b == Min(FreeBlockSet(e))
  IN  IF r.failed THEN e
      ELSE IF FreeBlockSet(e) = {} \/ ~Valid(e, c)
      THEN [e EXCEPT !.filter[f].pid = NONE]
      ELSE [e EXCEPT !.block[b] = [state |-> "DISABLED", ch |-> c],
                     !.filter[f].fid = b, !.filter[f].type = "SEC",
                     !.filter[f].states = SET, !.dev[c].inuse = @ + 1]

(* DemuxFilterPESMemorySet after the reset, for the PES type "other".       *)
PESMemoryAttach(d, f) ==
  LET e == [d EXCEPT !.filter[f].type = "PES", !.filter[f].states = SET]
      s == e.filter[f]
  IN  IF s.chid # NONE
      THEN IF Valid(e, s.chid) THEN [e EXCEPT !.channel[s.chid].pid = s.pes]
           ELSE e
      ELSE IF FreeChannels(e) = {} THEN e
      ELSE DemuxChannelAcquire(e, f, s.pes)

(* What a call still does once its slot is reset.                           *)
Finish(d, f, what) ==
  IF what = "SEC" THEN SectionAttach(d, f)
  ELSE IF what = "close" THEN [d EXCEPT !.filter[f].states = FREE]
  ELSE PESMemoryAttach(d, f)

-----------------------------------------------------------------------------
NoChannels == [c \in Channels |-> [status |-> "UNUSED", pid |-> NONE]]
NoBlocks   == [b \in Blocks |-> NullBlock]

Init ==
  /\ dmx = [filter  |-> [f \in Filters |->
                           [states |-> FREE, type |-> "none", chid |-> NONE,
                            fid |-> NONE, pid |-> NONE, pes |-> NONE,
                            out |-> "MEMORY"]],
            dev     |-> [c \in Channels |-> [inuse |-> 0, state |-> "UNUSED"]],
            channel |-> NoChannels,
            block   |-> NoBlocks]
  /\ kinds \in Uses
  /\ todo = [f \in Filters |-> "nothing"]

Asleep(f) == todo[f] # "nothing"

(* The application of slot f may make a call.                               *)
MayCall(f) ==
  /\ dmx.filter[f].states # FREE
  /\ ~Asleep(f)
  /\ Parallel \/ \A g \in Filters : ~Asleep(g)

(* Reset slot f in tables d, then finish.                                   *)
ResetAndFinish(d, f, what) ==
  IF d.filter[f].type = "SEC"
  THEN /\ dmx' = ResetBegin(d, f)
       /\ todo' = [todo EXCEPT ![f] = what]
  ELSE /\ dmx' = Finish(ResetOther(d, f), f, what)
       /\ UNCHANGED todo

(* The first open since the last close (of the last user) initialises the   *)
(* transport again; the driver's own tables stay as they are.               *)
Initialised(d) ==
  IF \A f \in Filters : d.filter[f].states = FREE
  THEN [d EXCEPT !.channel = NoChannels, !.block = NoBlocks] ELSE d

(* The first free slot; its para and pes_para are those of its last user.   *)
demux_filter_open ==
  LET free == {f \in Filters : dmx.filter[f].states = FREE}
      f == Min(free)
  IN  /\ free # {}
      /\ Parallel \/ \A g \in Filters : ~Asleep(g)
      /\ dmx' = [Initialised(dmx) EXCEPT !.filter[f] = [@ EXCEPT
                   !.chid = NONE, !.fid = NONE, !.type = "none",
                   !.states = ALLOC]]
      /\ UNCHANGED <<kinds, todo>>

demux_filter_release(f) ==
  /\ MayCall(f)
  /\ ResetAndFinish(dmx, f, "close")
  /\ UNCHANGED kinds

(* ioctl DEMUX_FILTER_SET: para is overwritten before anything else.        *)
DemuxFilterSectionSet(f, pid) ==
  LET d == [dmx EXCEPT !.filter[f].pid = pid]
  IN  /\ MayCall(f)
      /\ "SEC" \in kinds
      /\ IF dmx.filter[f].states >= SET THEN ResetAndFinish(d, f, "SEC")
         ELSE dmx' = SectionAttach(d, f) /\ UNCHANGED todo
      /\ UNCHANGED kinds

(* ioctl DEMUX_FILTER_PES_SET: pes_para is overwritten first.               *)
DemuxFilterPESMemorySet(f, pid, out) ==
  LET d == [dmx EXCEPT !.filter[f].pes = pid, !.filter[f].out = out]
  IN  /\ MayCall(f)
      /\ out \in kinds
      /\ IF dmx.filter[f].states >= SET THEN ResetAndFinish(d, f, out)
         ELSE dmx' = PESMemoryAttach(d, f) /\ UNCHANGED todo
      /\ UNCHANGED kinds

(* ioctl DEMUX_START and DEMUX_STOP.                                        *)
StartIoctl(f) ==
  /\ MayCall(f)
  /\ dmx.filter[f].states >= SET
  /\ dmx' = DemuxFilterStart(dmx, f)
  /\ UNCHANGED <<kinds, todo>>

StopIoctl(f) ==
  /\ MayCall(f)
  /\ dmx.filter[f].states >= START
  /\ dmx' = DemuxFilterStop(dmx, f)
  /\ UNCHANGED <<kinds, todo>>

(* A call that slept in DemuxFilterReset goes on.                           *)
Wake(f) ==
  /\ Asleep(f)
  /\ \E ack \in BOOLEAN : dmx' = Finish(ResetEnd(dmx, f, ack), f, todo[f])
  /\ todo' = [todo EXCEPT ![f] = "nothing"]
  /\ UNCHANGED kinds

(* The hardware has let go of the filters being deleted from a channel.     *)
SectionChange(c) ==
  /\ process_pending(dmx, c) # dmx
  /\ dmx' = process_pending(dmx, c)
  /\ UNCHANGED <<kinds, todo>>

(* The calls of demux_filter_ioctl on a descriptor.                         *)
demux_filter_ioctl(f) ==
  \/ StartIoctl(f) \/ StopIoctl(f)
  \/ \E pid \in Pids : DemuxFilterSectionSet(f, pid)
  \/ \E pid \in Pids, out \in {"MEMORY", "NOTHING"} : DemuxFilterPESMemorySet(f, pid, out)

Next ==
  \/ demux_filter_open
  \/ \E f \in Filters : demux_filter_ioctl(f) \/ demux_filter_release(f) \/ Wake(f)
  \/ \E c \in Channels : SectionChange(c)

Spec == Init /\ [][Next]_vars

-----------------------------------------------------------------------------
(* The driver's tables keep their shape; in particular the count of users   *)
(* of a channel stays within the number of slots.                           *)
TypeOK == dmx \in Tables /\ kinds \in Uses /\ todo \in [Filters -> Todo]

(* Slot f is a section filter that is set and not being reset.              *)
Attached(f) ==
  /\ dmx.filter[f].type = "SEC"
  /\ dmx.filter[f].states >= SET
  /\ ~Asleep(f)

(* The use count that decides when DemuxFilterReset frees a shared channel  *)
(* and when DemuxFilterStop disables it is the number of section filters    *)
(* attached to the channel.                                                 *)
InUseCounts ==
  \A c \in Channels :
    dmx.dev[c].inuse
      = Cardinality({f \in Filters : Attached(f) /\ dmx.filter[f].chid = c})

(* A section filter that is set keeps its channel and its table-section     *)
(* filter, and shares the latter with nobody, whatever the other slots of   *)
(* the device are stopped, reset, closed or set to.                         *)
KeepsWhatItSet ==
  \A f \in Filters : Attached(f) =>
    LET s == dmx.filter[f]
    IN  /\ Valid(dmx, s.chid)
        /\ Assigned(dmx, s.fid)
        /\ dmx.block[s.fid].ch = s.chid
        /\ \A g \in Filters : g # f /\ Attached(g) => dmx.filter[g].fid # s.fid

(* A section filter that was started receives: its channel and its          *)
(* table-section filter are enabled until it is itself stopped or reset.    *)
StartedReceives ==
  \A f \in Filters : Attached(f) /\ dmx.filter[f].states = START =>
    /\ dmx.channel[dmx.filter[f].chid].status = "ENABLED"
    /\ dmx.block[dmx.filter[f].fid].state = "ENABLED"

(* A section filter sits on a channel of the PID it was set to.             *)
OnItsPid ==
  \A f \in Filters :
    Attached(f) => dmx.channel[dmx.filter[f].chid].pid = dmx.filter[f].pid

(* A PES slot with a channel has it to itself, on its own PID, and enabled  *)
(* if the slot is started.                                                  *)
PesOwnsChannel ==
  \A f \in Filters :
    LET s == dmx.filter[f]
    IN  s.type = "PES" /\ s.states >= SET /\ s.chid # NONE =>
          /\ Valid(dmx, s.chid)
          /\ dmx.channel[s.chid].pid = s.pes
          /\ s.states = START => dmx.channel[s.chid].status = "ENABLED"
          /\ \A g \in Filters : g # f => dmx.filter[g].chid # s.chid

(* The section filters of one PID share one channel: DemuxFilterSectionSet  *)
(* finds it whatever the order in which they were set and closed.           *)
OneChannelPerPid ==
  \A f, g \in Filters :
    Attached(f) /\ Attached(g) /\ dmx.filter[f].pid = dmx.filter[g].pid
      => dmx.filter[f].chid = dmx.filter[g].chid

(* Nothing leaks: a channel in use belongs to an open slot, and so does a   *)
(* table-section filter unless its deletion waits for the hardware.         *)
NothingLeaks ==
  /\ \A c \in Channels : Valid(dmx, c) =>
       \E f \in Filters : dmx.filter[f].states # FREE /\ dmx.filter[f].chid = c
  /\ \A b \in Blocks : Assigned(dmx, b) =>
       \E f \in Filters : dmx.filter[f].states # FREE /\ dmx.filter[f].fid = b

(* A started section filter receives what it was set to receive.            *)
ReceivesItsPid == StartedReceives /\ OnItsPid

(* Channels are shared by PID, counted, and returned with their last user.  *)
ChannelsAccounted ==
  TypeOK /\ InUseCounts /\ OneChannelPerPid /\ PesOwnsChannel /\ NothingLeaks
=============================================================================
