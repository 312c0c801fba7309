----------------------------- MODULE ClipPlayer -----------------------------
(***************************************************************************)
(* The clip player (clip/clip.c) as the audio decoder, its mixer and the   *)
(* video decoder use it (aud_osd.c, aud_osi_clip.c, aud_osi_mixer.c,       *)
(* vid_osd.c): a process fills buffers and queues them as clips, and the   *)
(* decoder reads them one behind the other out of a register that holds    *)
(* one block address.  A block read raises an interrupt, whose task gives  *)
(* the oldest buffer back and writes the next block.  The process runs     *)
(* with interrupts on nearly everywhere, so the task may come between any  *)
(* two of its steps.  A clip's bytes are left out.                         *)
(***************************************************************************)
EXTENDS Integers, Sequences, FiniteSets

CONSTANTS ClipSegs,      \* buffers of a device, AUD_/VID_CLIP_QUEUE_SIZE
          ClipKinds,     \* the devices: subset of {"main", "mixer", "video"}
          ClipDrift,     \* bound on the counts nLeft may have lost
          ClipWindow     \* may the interrupt come between the look at the
                         \* block register and the writing of it?

ASSUME ClipAssumption ==
  /\ ClipSegs \in Nat \ {0} /\ ClipDrift \in Nat /\ ClipWindow \in BOOLEAN
  /\ ClipKinds \subseteq {"main", "mixer", "video"}

VARIABLES
  clipKind,   \* which of the three devices this is
  clipDev,    \* the CLIPDEV_T, or the closed device
  clipHw,     \* slot: the block register; cur: the block being read
  clipProc    \* the process: pc, the buffers it holds, what it has read

clipVars == <<clipKind, clipDev, clipHw, clipProc>>

ClipBufs == 1 .. ClipSegs
ClipInfos == [buf : ClipBufs, end : BOOLEAN]

ClipPcs == {"idle", "left", "start", "check", "ready", "take", "write", "flush"}

ClipTypeOK ==
  /\ clipKind \in ClipKinds
  /\ clipDev \in [open : BOOLEAN, playing : BOOLEAN,
                  sema : 0 .. ClipSegs, nLeft : -ClipDrift .. ClipSegs,
                  nOff : 0 .. ClipSegs,
                  bufq : Seq(ClipInfos), clipq : Seq(ClipInfos)]
  /\ clipHw \in [slot : SUBSET ClipBufs, cur : SUBSET ClipBufs]
  /\ clipProc.pc \in ClipPcs /\ clipProc.held \subseteq ClipInfos

-----------------------------------------------------------------------------
(* The device (clip.c).                                                     *)

\* clipdev_create: all buffers free, no clip.
clipdev_create ==
  [open |-> TRUE, playing |-> FALSE, sema |-> ClipSegs, nLeft |-> ClipSegs,
   nOff |-> 0, bufq |-> [i \in ClipBufs |-> [buf |-> i, end |-> FALSE]],
   clipq |-> <<>>]

clipdev_deleted == [clipdev_create EXCEPT !.open = FALSE]

\* The process holds the device's attention only in its critical sections.
ClipIdle == [pc |-> "idle", held |-> {}, left |-> 0, eos |-> FALSE]

\* clipdev_clipinfo_done: the oldest clip's buffer is free again.
clipdev_clipinfo_done(d) ==
  IF d.clipq = <<>> THEN d
  ELSE [d EXCEPT !.clipq = Tail(@), !.bufq = Append(@, Head(d.clipq)),
                 !.nOff = IF @ > 0 THEN @ - 1 ELSE @,
                 !.nLeft = IF @ < ClipSegs THEN @ + 1 ELSE ClipSegs,
                 !.sema = @ + 1]

\* clipdev_stop: every queued clip is given back, read or not, as
\* clipdev_clipinfo_done gives back one.
clipdev_stop(d) ==
  LET n == Len(d.clipq)
  IN  [d EXCEPT !.playing = FALSE, !.clipq = <<>>, !.bufq = @ \o d.clipq,
                !.nOff = IF @ > n THEN @ - n ELSE 0,
                !.nLeft = IF @ + n < ClipSegs THEN @ + n ELSE ClipSegs,
                !.sema = @ + n]

\* aud_atom_write_clip, aud_atom_mixer_write, vid_atom_write_clip: the block
\* register takes the buffer's address, over whatever it held.
WriteBlock(h, c) == [h EXCEPT !.slot = {c.buf}]

\* clipdev_hw_write run through by the task: a free register gets the next
\* clip that was not written yet.  0 is success.
NextUnwritten(d) == d.nOff < Len(d.clipq)

clipdev_hw_write(d, h) ==
  LET go == d.playing /\ h.slot = {} /\ NextUnwritten(d)
  IN  [dev |-> IF go THEN [d EXCEPT !.nOff = @ + 1] ELSE d,
       hw |-> IF go THEN WriteBlock(h, d.clipq[d.nOff + 1])
              ELSE h,
       ret |-> IF d.playing /\ d.clipq # <<>> THEN 0 ELSE -1]

\* clipdev_start: with nothing to write the device is stopped again.
clipdev_start(d, h) ==
  LET r == clipdev_hw_write([d EXCEPT !.playing = TRUE], h)
  IN  IF r.ret = 0 THEN r ELSE [r EXCEPT !.dev.playing = FALSE]

-----------------------------------------------------------------------------
ClipInit ==
  /\ clipKind \in ClipKinds
  /\ clipDev = clipdev_deleted
  /\ clipHw = [slot |-> {}, cur |-> {}]
  /\ clipProc = ClipIdle

Pc(p) == clipProc.pc = p
GoTo(p) == clipProc' = [clipProc EXCEPT !.pc = p]

\* A decoder set up for clips: its register is cleared.
ClipOpened ==
  /\ ~clipDev.open
  /\ clipDev' = clipdev_create
  /\ clipHw' = [slot |-> {}, cur |-> {}]
  /\ clipProc' = ClipIdle
  /\ UNCHANGED clipKind

\* By the selection of the source, or the opening of the mixer.
AudInitClip == clipKind = "main" /\ ClipOpened
aud_osi_init_mixer == clipKind = "mixer" /\ ClipOpened
VidInitClip == clipKind = "video" /\ ClipOpened

\* Clip mode is switched off in the decoder and the device deleted.
ClipClosed ==
  /\ clipDev.open /\ Pc("idle")
  /\ clipDev' = clipdev_deleted
  /\ clipHw' = [slot |-> {}, cur |-> {}]
  /\ clipProc' = ClipIdle
  /\ UNCHANGED clipKind

AudCloseClip == clipKind = "main" /\ ClipClosed
aud_osi_close_mixer == clipKind = "mixer" /\ ClipClosed
VidCloseClip == clipKind = "video" /\ ClipClosed

\* The clip buffer reset, called with the decoder stopped and drained: a new
\* device, the old one's clips gone.
ClipReset ==
  /\ clipDev.open /\ Pc("idle")
  /\ clipHw.slot = {} /\ clipHw.cur = {}
  /\ clipDev' = clipdev_create
  /\ clipProc' = [clipProc EXCEPT !.held = {}]
  /\ UNCHANGED <<clipKind, clipHw>>

aud_osi_reset_clipbuf == clipKind = "main" /\ ClipReset
vid_osi_reset_clipbuf == clipKind = "video" /\ ClipReset

\* clipdev_get_buf_wait, up to the reading of nLeft: the semaphore is taken
\* (the process sleeps while it is 0) and a free buffer with it.
GetBuf ==
  /\ clipDev.open /\ Pc("idle") /\ clipDev.sema > 0
  /\ IF clipDev.bufq = <<>>
     THEN UNCHANGED <<clipDev, clipProc>>
     ELSE /\ clipDev' = [clipDev EXCEPT !.sema = @ - 1, !.bufq = Tail(@)]
          /\ clipProc' = [clipProc EXCEPT !.pc = "left", !.left = clipDev.nLeft,
                                          !.held = @ \cup {Head(clipDev.bufq)}]
  /\ UNCHANGED <<clipKind, clipHw>>

\* ... its nLeft--, from the value read before.
CountDown ==
  /\ Pc("left")
  /\ clipDev' = [clipDev EXCEPT !.nLeft = clipProc.left - 1]
  /\ GoTo("idle")
  /\ UNCHANGED <<clipKind, clipHw>>

\* clipdev_get_buf_nowait: the same within a critical section, when nLeft
\* says that the semaphore will not make it wait.
GetBufNowait ==
  /\ clipDev.open /\ Pc("idle") /\ clipDev.nLeft > 0
  /\ clipDev.bufq # <<>> /\ clipDev.sema > 0
  /\ clipDev' = [clipDev EXCEPT !.sema = @ - 1, !.bufq = Tail(@), !.nLeft = @ - 1]
  /\ clipProc' = [clipProc EXCEPT !.held = @ \cup {Head(clipDev.bufq)}]
  /\ UNCHANGED <<clipKind, clipHw>>

\* aud_osd_end_stream, vid_osd_end_stream: the next buffer ends the stream.
EndStream ==
  /\ clipDev.open /\ Pc("idle") /\ ~clipProc.eos
  /\ clipProc' = [clipProc EXCEPT !.eos = TRUE]
  /\ UNCHANGED <<clipKind, clipHw, clipDev>>

\* clipdev_write_ex: a buffer held, filled by now, is queued as a clip and
\* the device started.
clipdev_write_ex(info, end) ==
  /\ clipDev.open /\ Pc("idle") /\ info \in clipProc.held
  /\ clipDev' = [clipDev EXCEPT !.clipq = Append(@, [info EXCEPT !.end = end])]
  /\ clipProc' = [clipProc EXCEPT !.pc = "start", !.held = @ \ {info}, !.eos = FALSE]
  /\ UNCHANGED <<clipKind, clipHw>>

\* aud_osd_write, also for the mixer: a buffer keeps the end-of-stream flag of
\* its last use; the video's is cleared first.
aud_osd_write(info) ==
  clipKind # "video" /\ clipdev_write_ex(info, info.end \/ clipProc.eos)

vid_osd_write(info) ==
  clipKind = "video" /\ clipdev_write_ex(info, clipProc.eos)

\* clipdev_start: the device plays...
Start ==
  /\ Pc("start")
  /\ clipDev' = [clipDev EXCEPT !.playing = TRUE]
  /\ GoTo("check")
  /\ UNCHANGED <<clipKind, clipHw>>

\* ... clipdev_hw_write looks at the status and at the queue...
HwCheck ==
  /\ Pc("check")
  /\ IF clipDev.playing /\ clipDev.clipq # <<>>
     THEN GoTo("ready") /\ UNCHANGED clipDev
     ELSE /\ GoTo("idle")
          /\ clipDev' = [clipDev EXCEPT !.playing = FALSE]
  /\ UNCHANGED <<clipKind, clipHw>>

\* ... at the block register, while clips are left...
HwReady ==
  /\ Pc("ready")
  /\ GoTo(IF clipDev.clipq # <<>> /\ clipHw.slot = {} THEN "take" ELSE "idle")
  /\ UNCHANGED <<clipKind, clipDev, clipHw>>

\* ... and takes the next clip in a critical section, to write it after that.
HwTake ==
  /\ Pc("take")
  /\ IF NextUnwritten(clipDev)
     THEN /\ clipProc' = [clipProc EXCEPT !.pc = "write",
                                          !.left = clipDev.clipq[clipDev.nOff + 1].buf]
          /\ clipDev' = [clipDev EXCEPT !.nOff = @ + 1]
     ELSE GoTo("idle") /\ UNCHANGED clipDev
  /\ UNCHANGED <<clipKind, clipHw>>

HwWrite ==
  /\ Pc("write")
  /\ clipHw' = WriteBlock(clipHw, [buf |-> clipProc.left])
  /\ GoTo("ready")
  /\ UNCHANGED <<clipKind, clipDev>>

\* A flush gives the clips back first...
ClipFlush ==
  /\ clipDev.open /\ Pc("idle")
  /\ clipDev' = clipdev_stop(clipDev)
  /\ GoTo("flush")
  /\ UNCHANGED <<clipKind, clipHw>>

aud_osi_clip_flush == clipKind = "main" /\ ClipFlush
vid_osi_clip_flush == clipKind = "video" /\ ClipFlush

\* ... and then the decoder's block register and rate buffer are reset.
FlushHw_register ==
  /\ Pc("flush")
  /\ clipHw' = [clipHw EXCEPT !.slot = {}]
  /\ GoTo("idle")
  /\ UNCHANGED <<clipKind, clipDev>>

FlushHw ==
  /\ Pc("flush")
  /\ clipHw' = [slot |-> {}, cur |-> {}]
  /\ GoTo("idle")
  /\ UNCHANGED <<clipKind, clipDev>>

\* The decoder starts on the block of its register, which is free again.
ReadBlock ==
  /\ clipHw.cur = {} /\ clipHw.slot # {}
  /\ clipHw' = [slot |-> {}, cur |-> clipHw.slot]
  /\ UNCHANGED <<clipKind, clipDev, clipProc>>

\* The tasks: a buffer is given back and the next block written; the mixer's
\* starts the device anew.
aud_osi_task(d, h) ==
  LET e == clipdev_clipinfo_done(d)
  IN  IF clipKind = "mixer" THEN clipdev_start(e, h) ELSE clipdev_hw_write(e, h)

vid_osi_task(d, h) == clipdev_hw_write(clipdev_clipinfo_done(d), h)

\* The decoder has read the block: the interrupt handler's message makes the
\* task run.
BlockRead ==
  /\ clipHw.cur # {}
  /\ clipProc.pc \in {"take", "write"} => ClipWindow
  /\ Pc("left") => Len(clipDev.bufq) + 1 - clipProc.left < ClipDrift
  /\ LET h == [clipHw EXCEPT !.cur = {}]
         r == IF clipKind = "video" THEN vid_osi_task(clipDev, h)
              ELSE aud_osi_task(clipDev, h)
     IN  clipDev' = r.dev /\ clipHw' = r.hw
  /\ UNCHANGED <<clipKind, clipProc>>

\* What aud_inf_ioctl and vid_inf_ioctl take of a process that has mapped the
\* buffers: a buffer at once or in time, a clip, the stream's end, a flush.
AudClipCalls ==
  /\ clipKind # "video"
  /\ \/ GetBufNowait \/ GetBuf \/ (\E info \in ClipInfos : aud_osd_write(info))
     \/ EndStream \/ aud_osi_reset_clipbuf \/ aud_osi_clip_flush

VidClipCalls ==
  /\ clipKind = "video"
  /\ \/ GetBufNowait \/ GetBuf \/ (\E info \in ClipInfos : vid_osd_write(info))
     \/ EndStream \/ vid_osi_reset_clipbuf \/ vid_osi_clip_flush

ClipNext ==
  \/ AudInitClip \/ aud_osi_init_mixer \/ VidInitClip
  \/ AudCloseClip \/ aud_osi_close_mixer \/ VidCloseClip
  \/ AudClipCalls \/ VidClipCalls \/ CountDown \/ FlushHw
  \/ Start \/ HwCheck \/ HwReady \/ HwTake \/ HwWrite
  \/ ReadBlock \/ BlockRead

ClipSpec == ClipInit /\ [][ClipNext]_clipVars

-----------------------------------------------------------------------------
(* Properties.                                                              *)

BufsIn(s) == {s[i].buf : i \in DOMAIN s}

\* While the decoder reads a block, or has its address, nobody may fill the
\* buffer: it is not free and no process holds it.  The task gives buffers
\* back by count, not by name, while the process adds clips, writes blocks
\* and flushes (clipdev_clipinfo_done, clipdev_hw_write, clipdev_stop).
NotFilledWhileRead ==
  clipProc.pc # "flush" =>
    (clipHw.slot \cup clipHw.cur)
      \cap (BufsIn(clipDev.bufq) \cup {i.buf : i \in clipProc.held}) = {}

\* clipdev_get_buf_nowait waits for the semaphore with interrupts off, where
\* no task could post it: whenever nLeft lets it in, a buffer must be there,
\* whatever became of the unprotected nLeft-- of clipdev_get_buf_wait.
NowaitNeverSleeps ==
  clipDev.open /\ Pc("idle") /\ clipDev.nLeft > 0 =>
    clipDev.sema > 0 /\ clipDev.bufq # <<>>

\* The buffers of a clip, between the player's task and the interrupt.
BuffersInTurn == ClipTypeOK /\ NotFilledWhileRead /\ NowaitNeverSleeps
=============================================================================
