---------------------------- MODULE UnbufferedQueue ----------------------------
(***************************************************************************)
(* A demux filter opened without a buffer of its own (xp_osd_drv.c,        *)
(* FILTER_FLAG_UNBUFFERED): the application maps the channel's queue, asks *)
(* which part of it is filled (demux_filter_get_queue), reads there, and   *)
(* gives it back (demux_filter_set_readptr).  DemuxCallback_nb tells the   *)
(* filter how far the hardware has come.                                   *)
(*                                                                         *)
(* Offsets are counted in blocks of 256 bytes, the granularity of the read *)
(* pointer register.  The register names the start of the queue by its     *)
(* top, as in XpQueue; the hardware may name it either way in WSTART.      *)
(***************************************************************************)
EXTENDS Integers

CONSTANTS UbBlocks,    \* ulQueueSize in blocks
          UbEnvs       \* what may happen around the reader: sets of "full",
                       \* "restart", "reset", "nonblock", "signal"

ASSUME UbAssumption == UbBlocks \in Nat \ {0, 1}

VARIABLES ub,       \* the filter slot and its channel's registers, see UbInit
          ubReader, \* the application's thread: "idle" or "sleeping"
          ubTold,   \* the part of the queue the application reads
          ubUnread, \* blocks stored and not given back (history)
          ubEnv

ubVars == <<ub, ubReader, ubTold, ubUnread, ubEnv>>

UbOffsets == 0 .. UbBlocks - 1
UbNowhere == -1                 \* ulWrite before the first callback
UbNone == [r |-> 0, w |-> 0]

\* The blocks from r up to w, exclusive, around the ring.
UbCells(r, w) == IF r <= w THEN r .. w - 1 ELSE (r .. UbBlocks - 1) \cup (0 .. w - 1)

UbInit ==
  /\ ub = [states |-> "ALLOC", ulRead |-> 0, ulWrite |-> UbNowhere, mapped |-> "no",
           wstart |-> 0, rptr |-> UbBlocks, full |-> FALSE, run |-> FALSE,
           qstat |-> {}, posted |-> 0]
  /\ ubReader = "idle" /\ ubTold = UbNone /\ ubUnread = {}
  /\ ubEnv \in UbEnvs

UbStarted == ub.states = "START"

-----------------------------------------------------------------------------
(* Set-up: the filter is set, its queue mapped, it is started and stopped.  *)

\* DemuxFilterPESMemorySet of an unbuffered filter, the channel's queue
\* allocated, reset and enabled.
UbSet ==
  /\ ub.states = "ALLOC"
  /\ ub' = [ub EXCEPT !.states = "SET", !.wstart = 0, !.rptr = UbBlocks,
                      !.full = FALSE, !.run = FALSE, !.qstat = {}]
  /\ UNCHANGED <<ubReader, ubTold, ubUnread, ubEnv>>

\* Only between the setting and the first start, and once.
demux_filter_mmap ==
  /\ ub.states = "SET" /\ ub.mapped = "no"
  /\ ub' = [ub EXCEPT !.mapped = "queue"]
  /\ UNCHANGED <<ubReader, ubTold, ubUnread, ubEnv>>

vma_close ==
  /\ ub.mapped # "no"
  /\ ub' = [ub EXCEPT !.mapped = "no"]
  /\ UNCHANGED <<ubReader, ubTold, ubUnread, ubEnv>>

\* A channel that is restarted forgets the events latched for it.
UbStart ==
  /\ ub.states \in {"SET", "READY"}
  /\ ub' = [ub EXCEPT !.states = "START", !.run = TRUE, !.qstat = {}]
  /\ UNCHANGED <<ubReader, ubTold, ubUnread, ubEnv>>

\* A sleeping reader is woken and finds its filter not started.
UbStop ==
  /\ UbStarted /\ "restart" \in ubEnv
  /\ ub' = [ub EXCEPT !.states = "READY", !.run = FALSE, !.qstat = {}]
  /\ ubReader' = "idle"
  /\ UNCHANGED <<ubTold, ubUnread, ubEnv>>

\* As below; the offsets of the old queue stay.
UbReset_keeps ==
  /\ ub.states # "ALLOC" /\ "reset" \in ubEnv
  /\ ub' = [ub EXCEPT !.states = "ALLOC", !.run = FALSE, !.qstat = {},
                      !.mapped = IF @ = "queue" THEN "freed" ELSE @]
  /\ ubReader' = "idle" /\ ubTold' = UbNone /\ ubUnread' = {}
  /\ UNCHANGED ubEnv

\* DemuxFilterReset frees the channel and its queue, mapped or not.
UbReset ==
  /\ ub.states # "ALLOC" /\ "reset" \in ubEnv
  /\ ub' = [ub EXCEPT !.states = "ALLOC", !.run = FALSE, !.qstat = {},
                      !.ulRead = 0, !.ulWrite = UbNowhere,
                      !.mapped = IF @ = "queue" THEN "freed" ELSE @]
  /\ ubReader' = "idle" /\ ubTold' = UbNone /\ ubUnread' = {}
  /\ UNCHANGED ubEnv

-----------------------------------------------------------------------------
(* The hardware and the interrupt.                                          *)

\* The channel stores a block, announces it at its threshold (BTI), and stops
\* when it meets the read pointer.
UbStores(announced) ==
  LET w == (ub.wstart % UbBlocks) + 1
      met == w % UbBlocks = ub.rptr % UbBlocks
  IN  /\ ub.run /\ ~ub.full
      /\ met => "full" \in ubEnv
      /\ ub' = [ub EXCEPT !.wstart = w, !.full = met, !.run = ~met,
                          !.qstat = @ \cup (IF announced THEN {"BTI"} ELSE {})
                                      \cup (IF met THEN {"RPI"} ELSE {})]
      /\ ubUnread' = ubUnread \cup {w - 1}
      /\ UNCHANGED <<ubReader, ubTold, ubEnv>>

\* The handler acknowledges the events and posts a message; one without BTI
\* is dropped by the listener at once.
UbInterrupt ==
  /\ ub.qstat # {} /\ ub.posted < 1
  /\ ub' = [ub EXCEPT !.qstat = {}, !.posted = IF "BTI" \in ub.qstat THEN 1 ELSE 0]
  /\ UNCHANGED <<ubReader, ubTold, ubUnread, ubEnv>>

\* As below, the top of the queue taken for an offset.
UbCallback_top ==
  /\ ub.posted > 0
  /\ ub' = [ub EXCEPT !.posted = 0,
              !.ulWrite = IF ub.states = "ALLOC" THEN @ ELSE ub.wstart]
  /\ ubReader' = "idle"
  /\ UNCHANGED <<ubTold, ubUnread, ubEnv>>

\* DemuxCallback_nb: the write pointer is read when the message is handled,
\* which may be after the filter has been reset and set again.  The reader
\* woken asks again.
UbCallback ==
  /\ ub.posted > 0
  /\ ub' = [ub EXCEPT !.posted = 0,
              !.ulWrite = IF ub.states = "ALLOC" THEN @ ELSE ub.wstart % UbBlocks]
  /\ ubReader' = "idle"
  /\ UNCHANGED <<ubTold, ubUnread, ubEnv>>

-----------------------------------------------------------------------------
(* The application.                                                         *)

UbWritten == IF ub.ulWrite = UbNowhere THEN 0 ELSE ub.ulWrite

\* With nothing to read the caller sleeps, unless it asked not to; the test
\* and the sleep are one critical section.  A time-out or a signal ends the
\* sleep without an answer.
demux_filter_get_queue ==
  /\ UbStarted /\ ubReader = "idle"
  /\ IF ub.ulRead # UbWritten
     THEN ubTold' = [r |-> ub.ulRead, w |-> UbWritten] /\ UNCHANGED ubReader
     ELSE /\ "nonblock" \notin ubEnv
          /\ ubReader' = "sleeping" /\ UNCHANGED ubTold
  /\ UNCHANGED <<ub, ubUnread, ubEnv>>

UbGivesUp ==
  /\ ubReader = "sleeping" /\ "signal" \in ubEnv
  /\ ubReader' = "idle"
  /\ UNCHANGED <<ub, ubTold, ubUnread, ubEnv>>

\* The value of the read pointer register for an offset.
UbReadPointer(rp) == IF rp = 0 THEN UbBlocks ELSE rp

\* As below; the register is moved to the end of what is filled.
set_readptr_all(rp) ==
  /\ UbStarted
  /\ ub' = [ub EXCEPT !.ulRead = rp % UbBlocks, !.rptr = UbReadPointer(UbWritten),
                      !.full = @ /\ UbWritten = ub.rptr % UbBlocks]
  /\ ubTold' = [ubTold EXCEPT !.r = rp % UbBlocks]
  /\ ubUnread' = ubUnread \ UbCells(ub.ulRead, rp % UbBlocks)
  /\ UNCHANGED <<ubReader, ubEnv>>

\* The application gives back its part up to rp, which may be the top.  A
\* channel that has stopped at the register is not restarted.
demux_filter_set_readptr(rp) ==
  /\ UbStarted
  /\ ub' = [ub EXCEPT !.ulRead = rp % UbBlocks, !.rptr = UbReadPointer(rp),
                      !.full = @ /\ UbReadPointer(rp) = ub.rptr]
  /\ ubTold' = [ubTold EXCEPT !.r = rp % UbBlocks]
  /\ ubUnread' = ubUnread \ UbCells(ub.ulRead, rp % UbBlocks)
  /\ UNCHANGED <<ubReader, ubEnv>>

\* It gives back what it was told of, in order.
UbGivesBack ==
  \E rp \in 0 .. UbBlocks :
    /\ UbCells(ubTold.r, rp % UbBlocks) \subseteq UbCells(ubTold.r, ubTold.w)
    /\ UbCells(ubTold.r, rp % UbBlocks) # {}
    /\ ubReader = "idle"
    /\ demux_filter_set_readptr(rp)

UbNext ==
  \/ UbSet \/ demux_filter_mmap \/ vma_close \/ UbStart \/ UbStop \/ UbReset
  \/ \E announced \in BOOLEAN : UbStores(announced)
  \/ UbInterrupt \/ UbCallback
  \/ demux_filter_get_queue \/ UbGivesUp \/ UbGivesBack

UbSpec == UbInit /\ [][UbNext]_ubVars

-----------------------------------------------------------------------------
(* Properties.                                                              *)

\* What the application was told to read is data the hardware has stored and
\* nobody has given back, and the hardware cannot write there: through wraps,
\* stops and late callbacks, and after a reset the offsets of the old queue
\* are not taken for offsets of the new one (DemuxCallback_nb,
\* demux_filter_set_readptr, DemuxFilterReset).
ReaderHasItsBlocks ==
  /\ UbCells(ubTold.r, ubTold.w) \subseteq ubUnread
  /\ ub.states # "ALLOC" => UbCells(ub.ulRead, UbWritten) \subseteq ubUnread
  /\ ub.run /\ ~ub.full => ub.wstart % UbBlocks \notin ubUnread
=============================================================================
