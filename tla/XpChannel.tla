------------------------------ MODULE XpChannel ------------------------------
(***************************************************************************)
(* The transport channels and their interrupts (xp_osi_chann.c,            *)
(* xp_osi_inter.c and the channel handling of xp_osd_drv.c): a channel is  *)
(* allocated, given an unload type, a listener and a PID, started, stopped *)
(* and freed; the hardware latches events in the channel's QSTAT, the      *)
(* interrupt handler acknowledges them and posts a message per listener,   *)
(* and the interrupt task runs the listeners.                              *)
(*                                                                         *)
(* A call of the driver is one step: it holds the driver's mutex, and the  *)
(* parts that share state with the handler are critical sections.  Queue   *)
(* memory and section filters are modelled in XpQueue and XpFilter.        *)
(***************************************************************************)
EXTENDS XpNotify, Sequences, SequencesExt

CONSTANTS XcPes,     \* the channels XP_CHANNEL_PES_MIN..XP_CHANNEL_PES_MAX
          XcFixed,   \* dedicated channels: 0 subtitle, 1 teletext, 31 video
          XcQueue,   \* messages the interrupt task's queue holds (QUEUE_SIZE)
          XcVesta,   \* the chip: __DRV_FOR_VESTA__ has one mask register
          XcEnvs     \* which kinds of filter applications use: sets of kinds

ASSUME XcAssumption ==
  /\ XcPes \subseteq 2..29 /\ XcFixed \subseteq {0, 1, 30, 31} /\ 31 \in XcFixed
  /\ XcQueue \in Nat \ {0} /\ XcVesta \in BOOLEAN

XcChannels == XcPes \cup XcFixed
SUBTITLE == 0
VIDEO    == 31
NOBUCKET == 32        \* wXpChannelBucketId = XP_CHANNEL_COUNT
PRIMARY  == 34        \* the table of the primary interrupts
XcTables == XcChannels \cup {PRIMARY}
NULLPID  == 0

VARIABLES xc,      \* the transport's tables and registers, see XcInit
          xcUse,   \* what the device uses each channel for
          xcEnv,   \* the kinds of filter used in this behaviour
          xcLast   \* what the last step did with a message

xcVars == <<xc, xcUse, xcEnv, xcLast>>

XcNothing == [did |-> "nothing", c |-> 0, ev |-> {}]

-----------------------------------------------------------------------------
(* Interrupt masks and listeners.                                           *)

\* The masks of all channels, and of the primary interrupts with those that
\* are always on.
XpInterChanMask(d) == UNION {MasksOf(d.tab[c]) : c \in XcChannels}
XpInterPriMask(d) == MasksOf(d.tab[PRIMARY]) \cup {"QUE"}

\* As below, with the mask of the channel at hand only.
MaskWritten_own(d, c) ==
  IF XcVesta
  THEN [d EXCEPT !.reg.intmask = MasksOf(d.tab[c]) \cup XpInterPriMask(d)]
  ELSE [d EXCEPT !.reg.qstatmask = MasksOf(d.tab[c])]

MaskWritten(d, c) ==
  IF XcVesta
  THEN [d EXCEPT !.reg.intmask = XpInterChanMask(d) \cup XpInterPriMask(d)]
  ELSE [d EXCEPT !.reg.qstatmask = XpInterChanMask(d)]

\* xp_osi_interrupt_channel_control: ENABLE and DISABLE, and RESET.
interrupt_enable(d, c, on) ==
  [d EXCEPT !.reg.qint = IF on THEN @ \cup {c} ELSE @ \ {c}]
interrupt_reset(d, c) == [d EXCEPT !.reg.qstat[c] = {}]

\* As below, the channel's interrupt not enabled.
interrupt_channel_notify_off(d, cmd, c, m, fn) ==
  LET r == Changed(d.tab[c], cmd, m, fn)
  IN  IF r.ok THEN MaskWritten([d EXCEPT !.tab[c] = r.t], c) ELSE d

xp_osi_interrupt_channel_notify(d, cmd, c, m, fn) ==
  LET r == Changed(d.tab[c], cmd, m, fn)
      e == [d EXCEPT !.tab[c] = r.t]
  IN  IF ~r.ok THEN d
      ELSE IF cmd = "DELETE" /\ MasksOf(r.t) # {} THEN MaskWritten(e, c)
      ELSE MaskWritten(interrupt_enable(e, c, cmd = "ADD"), c)

xp_osi_interrupt_notify(d, cmd, m, fn) ==
  LET r == Changed(d.tab[PRIMARY], cmd, m, fn)
      e == [d EXCEPT !.tab[PRIMARY] = r.t]
  IN  IF ~r.ok THEN d
      ELSE [e EXCEPT !.reg.intmask =
              XpInterPriMask(e) \cup (IF XcVesta THEN XpInterChanMask(e) ELSE {})]

\* The table is gone; the registers stay as they are.
xp_osi_interrupt_channel_free(d, c) == [d EXCEPT !.tab[c] = reset_mask(@)]

-----------------------------------------------------------------------------
(* Channels.                                                                *)

XcValid(d, c) == d.ch[c].status # "UNUSED"

\* The channels a request may be given, in the order they are tried.
Candidates(d, type) ==
  CASE type = "BUCKET" -> IF d.bucket = NOBUCKET THEN XcPes ELSE {}
    [] type = "PES" -> XcPes
    [] type = "SUBTITLE" -> {SUBTITLE} \cap XcFixed
    [] type = "VIDEO" -> {VIDEO} \cap XcFixed
xp_osi_channel_get_available(d, type) ==
  {c \in Candidates(d, type) : ~XcValid(d, c)}

xp_osi_channel_allocate(d, type) ==
  LET c == Max(xp_osi_channel_get_available(d, type))
  IN  [d EXCEPT !.ch[c] = [@ EXCEPT !.status = "DISABLED", !.unload = "UNDEFINED"],
                !.bucket = IF type = "BUCKET" THEN c ELSE @]

channel_restart(d, c) ==
  LET e == interrupt_reset(d, c)
  IN  IF e.ch[c].status # "ENABLED" THEN e
      ELSE IF c = e.bucket THEN [e EXCEPT !.reg.bindx = c]
      ELSE [e EXCEPT !.reg.pid[c] = e.ch[c].pid]

\* xp_osi_channel_control.
channel_on(d, c) == channel_restart([d EXCEPT !.ch[c].status = "ENABLED"], c)
channel_off(d, c) ==
  LET e == [interrupt_reset(d, c) EXCEPT !.ch[c].status = "DISABLED"]
  IN  IF c = e.bucket THEN [e EXCEPT !.reg.bvalid = FALSE]
      ELSE [e EXCEPT !.reg.pid[c] = NULLPID]

XpChannelFree(d, c) ==
  LET e == xp_osi_interrupt_channel_free(channel_off(d, c), c)
  IN  IF ~XcValid(d, c) THEN d
      ELSE [e EXCEPT !.ch[c].status = "UNUSED",
                     !.bucket = IF @ = c THEN NOBUCKET ELSE @]

\* The PID register follows only while the channel is enabled.
xp_osi_channel_set_pid(d, c, pid) ==
  IF ~XcValid(d, c) THEN d
  ELSE [d EXCEPT !.ch[c].pid = pid,
                 !.reg.pid[c] = IF d.ch[c].status = "ENABLED" THEN pid ELSE NULLPID]

\* The events a channel's listener hears, by unload type.
ListenerMask(unload) ==
  CASE unload = "TRANSPORT" -> {"RPI", "BTI"}
    [] unload = "PES" -> {"RPI", "BTI", "PSE"}
    [] unload = "SECTION" -> {"RPI", "TSC", "PSE"}

set_notification_fn(d, c) ==
  IF d.ch[c].unload = "UNDEFINED" THEN d
  ELSE xp_osi_interrupt_channel_notify(d, "ADD", c, ListenerMask(d.ch[c].unload),
                                       "channel_data_notify")

-----------------------------------------------------------------------------
(* The device's calls.                                                      *)

\* The channel, unload type and PID the filter kinds ask for: the bucket has
\* none of its own, and takes what is left over.
BucketAsk == [type |-> "BUCKET", unload |-> "TRANSPORT", pid |-> NULLPID]

Asks == [SEC    |-> [type |-> "PES",      unload |-> "SECTION",   pid |-> 1],
         PES    |-> [type |-> "PES",      unload |-> "PES",       pid |-> 1],
         BUCKET |-> BucketAsk,
         TS     |-> [type |-> "SUBTITLE", unload |-> "TRANSPORT", pid |-> NULLPID]]

\* DemuxChannelAcquire once a channel is allocated.  Without memory for its
\* queue the channel is freed again.  A buffered filter listens through
\* channel_data_notify, an unbuffered one through DemuxCallback_nb.
ChannelSetUp(d, c, ask, memory, buffered) ==
  LET e == [d EXCEPT !.ch[c].unload = ask.unload]
      f == IF buffered THEN set_notification_fn(e, c) ELSE e
      g == channel_off(xp_osi_channel_set_pid(f, c, ask.pid), c)
  IN  IF ~memory THEN XpChannelFree(e, c)
      ELSE IF buffered THEN g
      ELSE xp_osi_interrupt_channel_notify(g, "ADD", c, {"RPI", "BTI"},
                                           "DemuxCallback_nb")

XcInit ==
  /\ xc = [ch |-> [c \in XcChannels |->
                     [status |-> "UNUSED", pid |-> NULLPID, unload |-> "UNDEFINED"]],
           bucket |-> NOBUCKET,
           tab |-> [k \in XcTables |-> << >>],
           reg |-> [pid |-> [c \in XcChannels |-> NULLPID], bvalid |-> FALSE,
                    bindx |-> NOBUCKET, qint |-> {}, qstatmask |-> {},
                    intmask |-> {"QUE"}, qstat |-> [c \in XcChannels |-> {}]],
           msgs |-> << >>]
  /\ xcUse = [c \in XcChannels |-> "none"]
  /\ xcEnv \in XcEnvs
  /\ xcLast = XcNothing

XcDo(d) == xc' = d /\ xcLast' = XcNothing /\ UNCHANGED xcEnv

\* DemuxFilterSectionSet, PESMemorySet, BucketSet and TSSet of a fresh slot.
XcAcquire(kind, memory, buffered) ==
  LET ask == Asks[kind]
      c == Max(xp_osi_channel_get_available(xc, ask.type))
  IN  /\ xp_osi_channel_get_available(xc, ask.type) # {}
      /\ kind \in xcEnv /\ (kind = "SEC" => buffered)
      /\ XcDo(ChannelSetUp(xp_osi_channel_allocate(xc, ask.type), c, ask,
                           memory, buffered))
      /\ xcUse' = [xcUse EXCEPT ![c] = IF memory THEN kind ELSE "none"]

\* A decoder takes its channel whoever has it: it is freed first.
DemuxFilterPESDecoderSet(pid) ==
  LET d == IF xp_osi_channel_get_available(xc, "VIDEO") = {}
           THEN XpChannelFree(xc, VIDEO) ELSE xc
  IN  /\ "DECODER" \in xcEnv
      /\ XcDo(xp_osi_channel_set_pid(xp_osi_channel_allocate(d, "VIDEO"), VIDEO, pid))
      /\ xcUse' = [xcUse EXCEPT ![VIDEO] = "DECODER"]

\* DemuxFilterStart and DemuxFilterStop: a bucket is switched in its register.
XcStart(c) ==
  /\ xcUse[c] # "none"
  /\ IF xcUse[c] = "BUCKET"
     THEN XcDo([xc EXCEPT !.reg.bvalid = TRUE, !.reg.bindx = c])
     ELSE xc.ch[c].status # "ENABLED" /\ XcDo(channel_on(xc, c))
  /\ UNCHANGED xcUse

XcStopped(c) ==
  IF xcUse[c] = "BUCKET" THEN [xc EXCEPT !.reg.bvalid = FALSE, !.reg.bindx = NOBUCKET]
  ELSE channel_off(xc, c)

XcStop(c) ==
  /\ xcUse[c] # "none"
  /\ XcDo(XcStopped(c))
  /\ UNCHANGED xcUse

\* DemuxFilterReset: a decoder's channel is only stopped.
XcReset(c) ==
  /\ xcUse[c] # "none"
  /\ XcDo(IF xcUse[c] = "DECODER" THEN XcStopped(c) ELSE XpChannelFree(XcStopped(c), c))
  /\ xcUse' = [xcUse EXCEPT ![c] = "none"]

\* xp_osi_pcr_sync_start and xp_osi_pcr_sync_stop listen to the PCR's events.
PcrNotify(cmd) ==
  /\ "PCR" \in xcEnv
  /\ XcDo(xp_osi_interrupt_notify(xc, cmd, {"PCRIS"}, "pcr_stc_inthdl"))
  /\ UNCHANGED xcUse

-----------------------------------------------------------------------------
(* The hardware, the interrupt handler and the interrupt task.              *)

XcReceives(c) == xc.reg.pid[c] # NULLPID \/ (xc.reg.bvalid /\ xc.reg.bindx = c)

XcEvent(c) ==
  /\ XcReceives(c)
  /\ xc.reg.qstat[c] = {}
  /\ XcDo([xc EXCEPT !.reg.qstat[c] =
             {IF xc.ch[c].unload = "SECTION" THEN "TSC" ELSE "BTI"}])
  /\ UNCHANGED xcUse

\* QINT & QINTMSK: the channels with an unmasked event.
XcMasked(d) == IF XcVesta THEN d.reg.intmask ELSE d.reg.qstatmask
Requests(d) == {c \in d.reg.qint : d.reg.qstat[c] \cap XcMasked(d) # {}}

\* A message for each listener of the events that are acknowledged.
process_channel_interrupt(d, c) ==
  LET ev == d.reg.qstat[c]
      hit == SelectSeq(d.tab[c], LAMBDA s : s.mask \cap ev # {})
  IN  [i \in DOMAIN hit |-> [c |-> c, ev |-> ev, fn |-> hit[i].fn]]

\* Posting fails when the task's queue is full; the failure is ignored.
Posted(msgs, new) == SubSeq(msgs \o new, 1, Min({XcQueue, Len(msgs \o new)}))

\* The channels in their order: their events are acknowledged, whether there is
\* room for the messages or not.
channel_interrupt(d) ==
  LET order == SetToSortSeq(Requests(d), <)
      new == [i \in DOMAIN order |-> process_channel_interrupt(d, order[i])]
  IN  [d EXCEPT !.reg.qstat =
                  [c \in XcChannels |-> IF c \in Requests(d) THEN {} ELSE d.reg.qstat[c]],
                !.msgs = Posted(@, FlattenSeq(new))]

\* The handler of one transport, entered for the others from the handler of
\* the first; the primary events it tells first are those of XpClock.
transport_interrupt(d) == IF Requests(d) = {} THEN d ELSE channel_interrupt(d)

XcInterrupt ==
  LET after == transport_interrupt(xc)
      dropped == {c \in Requests(xc) : \A i \in DOMAIN after.msgs : after.msgs[i].c # c}
  IN  /\ Requests(xc) # {}
      /\ xc' = after
      /\ xcLast' = IF dropped = {} THEN XcNothing
                   ELSE [did |-> "lost", c |-> Max(dropped), ev |-> {}]
      /\ UNCHANGED <<xcUse, xcEnv>>

\* xp_osi_task runs the listener of the oldest message: channel_data_notify
\* has the queue processed, DemuxCallback_nb wakes the reader of the channel.
XcTask ==
  LET m == Head(xc.msgs)
  IN  /\ xc.msgs # << >>
      /\ xc' = [xc EXCEPT !.msgs = Tail(@)]
      /\ xcLast' = [did |-> m.fn, c |-> m.c, ev |-> m.ev]
      /\ UNCHANGED <<xcUse, xcEnv>>

XcNext ==
  \/ \E kind \in DOMAIN Asks, memory, buffered \in BOOLEAN :
       XcAcquire(kind, memory, buffered)
  \/ DemuxFilterPESDecoderSet(1)
  \/ \E c \in XcChannels : XcStart(c) \/ XcStop(c) \/ XcReset(c) \/ XcEvent(c)
  \/ \E cmd \in {"ADD", "DELETE"} : PcrNotify(cmd)
  \/ XcInterrupt
  \/ XcTask

XcFairness == WF_xcVars(XcInterrupt) /\ WF_xcVars(XcTask)

XcSpec == XcInit /\ [][XcNext]_xcVars /\ XcFairness

-----------------------------------------------------------------------------
(* Properties.                                                              *)

\* Every listener can be heard: whatever was added, deleted or freed before,
\* on this channel or on others, the channel's interrupt is enabled and the
\* mask registers hold the events of every table
\* (xp_osi_interrupt_channel_notify, xp_osi_interrupt_notify).
ListenersUnmasked ==
  /\ \A c \in XcChannels :
       MasksOf(xc.tab[c]) # {} =>
         c \in xc.reg.qint /\ MasksOf(xc.tab[c]) \subseteq XcMasked(xc)
  /\ MasksOf(xc.tab[PRIMARY]) \subseteq xc.reg.intmask

\* The PID registers say what the driver believes: a channel matches its PID
\* while it is enabled and nothing otherwise, and the bucket register names a
\* channel that is the bucket's (xp_osi_channel_control, _set_pid, _free).
PidFollowsStatus ==
  /\ \A c \in XcChannels :
       c # xc.bucket =>
         xc.reg.pid[c] = IF xc.ch[c].status = "ENABLED" THEN xc.ch[c].pid ELSE NULLPID
  /\ xc.reg.bvalid => xc.reg.bindx = xc.bucket /\ xc.bucket \in XcChannels

\* An event of a running channel that has a listener is brought to it by the
\* task, unless the channel stops or the task's queue is full just then
\* (process_channel_interrupt, xp_osi_task).
EventsAreHandled ==
  \A c \in XcPes :
    (XcReceives(c) /\ xc.reg.qstat[c] # {}
       /\ \E i \in DOMAIN xc.tab[c] : xc.tab[c][i].mask \cap xc.reg.qstat[c] # {})
      ~> (\/ xcLast.c = c /\ xcLast.did # "nothing"
          \/ ~XcReceives(c))

\* The registers follow the tables, of listeners and of channels.
RegistersFollow == ListenersUnmasked /\ PidFollowsStatus
=============================================================================
