------------------------------ MODULE AudioDec ------------------------------
(***************************************************************************)
(* The audio decoder driver: the device node (aud_inf.c), the decoder's    *)
(* state (aud_osi.c, aud_osi_mixer.c), its registers (aud_atom.c,          *)
(* aud_atom_mixer.c) and the synchronisation with video (aud_atom_sync.c,  *)
(* vid_atom_sync.c).  A call is a list of register reads, register writes  *)
(* and records; the interrupt handler, which writes the same registers,    *)
(* may come between any two of them.  The clip buffers are ClipPlayer's.   *)
(***************************************************************************)
EXTENDS Integers, Sequences

CONSTANTS AudCodes,   \* microcodes built in, of "stb", "dvd" and "dts"
          AudVolMax,  \* largest attenuation (63)
          AudWindow,  \* may the handler come in the middle of a mute?
          AudEnvs     \* sets of the calls that are made and may fail

ASSUME AudAssumption ==
  AudCodes \subseteq {"stb", "dvd", "dts"} /\ AudVolMax \in Nat /\ AudWindow \in BOOLEAN

VARIABLES
  aud,     \* _adec, _src, _open_count, _mixer_count, _mute, the IRQ installed
  areg,    \* the registers, and the value a call has read
  acall,   \* the steps left of the call being made
  audEnv

audVars == <<aud, areg, acall, audEnv>>

AudMinors == {"MPEG", "AC3", "PCM", "DTS", "LPCM"}
Streams == {"MPEG1", "PES", "ES", "PCM"}
AudChannels == {"STEREO", "MONOLEFT", "MONORIGHT"}

AudTypeOK ==
  /\ aud.count \in 0 .. 1 /\ aud.mixers \in 0 .. 1 /\ aud.isrc \in {-1, 0, 1}
  /\ aud.src \in {"NO", "DEMUX", "MEMORY"} /\ aud.state \in {"STOPPED", "PLAYING"}
  /\ areg.ctrl1.channel \in AudChannels /\ areg.vol \in 0 .. AudVolMax

-----------------------------------------------------------------------------
(* Steps.                                                                   *)

Get(r) == [k |-> "get", reg |-> r]
Put(r, f, v) == [k |-> "put", reg |-> r, field |-> f, val |-> v]
Rec(f, v) == [k |-> "rec", field |-> f, val |-> v]
Modified(r, f, v) == <<Get(r), Put(r, f, v)>>

\* aud_atom_sync_off, vid_atom_disable_sync: off, and what it was is kept.
aud_atom_sync_off == <<Get("ctrl0"), [k |-> "save"], Put("ctrl0", "sync", FALSE)>>
vid_atom_disable_sync == <<Get("chip"), [k |-> "save"], Put("chip", "sync", FALSE)>>

\* The end of every access: on again if it was on.
Resync(r) == [k |-> "resync", reg |-> r]

\* Writing STC: once the DSP is ready, or not at all.  Reading:
\* ready to be asked, and then busy with the answer.
Ready == [k |-> "ready"]
Words == [k |-> "words"]
aud_atom_get_pts == aud_atom_sync_off \o <<Ready, Ready, Words, Resync("ctrl0")>>
aud_atom_set_stc == aud_atom_sync_off \o <<Ready, Words, Resync("ctrl0")>>
aud_atom_get_stc == aud_atom_sync_off \o <<Ready, Ready, Words, Resync("ctrl0")>>

\* AUD_SYNC_RW_TIMEOUT tries later, the access ends.
TimedOut_lost(steps) ==
  LET i == CHOOSE i \in 1 .. Len(steps) :
             steps[i].k = "resync" /\ \A h \in 1 .. i - 1 : steps[h].k # "resync"
  IN  SubSeq(steps, i + 1, Len(steps))

TimedOut(steps) ==
  LET i == CHOOSE i \in 1 .. Len(steps) :
             steps[i].k = "resync" /\ \A h \in 1 .. i - 1 : steps[h].k # "resync"
  IN  SubSeq(steps, i, Len(steps))

\* vid_atom_set_stc, vid_atom_get_stc: two words, no wait.
vid_atom_set_stc == vid_atom_disable_sync \o <<Words, Resync("chip")>>
vid_atom_get_stc == vid_atom_disable_sync \o <<Words, Resync("chip")>>

\* aud_atom_sync_master: off, the master chosen, on.
aud_atom_sync_master(m) ==
  Modified("ctrl0", "sync", FALSE) \o Modified("dsr", "master", m)
  \o Modified("ctrl0", "sync", TRUE)

\* aud_atom_mute and aud_atom_unmute: two registers, then the record.
aud_atom_mute ==
  Modified("ctrl1", "soft", TRUE) \o Modified("ctrl2", "mute", TRUE) \o <<Rec("mute", TRUE)>>
aud_atom_unmute ==
  Modified("ctrl1", "soft", FALSE) \o Modified("ctrl2", "mute", FALSE)
  \o <<Rec("mute", FALSE)>>

\* aud_atom_stop and aud_atom_play: the decoder halts at the end of a frame.
aud_atom_stop == Modified("ctrl2", "halt", TRUE)
aud_atom_play == Modified("ctrl2", "halt", FALSE)

\* aud_atom_set_stream_type: an unknown type is refused after the reset.
aud_atom_set_stream_type(s) ==
  <<Get("ctrl0")>> \o (IF s \in Streams THEN <<Put("ctrl0", "type", s)>> ELSE <<>>)

\* aud_atom_set_channel.
aud_atom_set_channel(c) == Modified("ctrl1", "channel", c)

\* aud_atom_set_pcm_fmt: the format, then the order of bytes.
aud_atom_set_pcm_fmt(f) == Modified("dsp", "pcm", f) \o Modified("ctrl2", "endian", f)

\* aud_atom_set_mixer_fmt: other bits of the same register.
aud_atom_set_mixer_fmt(f) == Modified("dsp", "mix", f)

\* aud_atom_set_vol: what is too large is the largest.
aud_atom_set_vol(v) == IF v > AudVolMax THEN AudVolMax ELSE v

-----------------------------------------------------------------------------
(* The decoder (aud_osi.c).                                                 *)

\* aud_osi_stop.
aud_osi_stop(rest) ==
  (IF aud.state = "STOPPED" THEN <<>> ELSE aud_atom_stop \o <<Rec("state", "STOPPED")>>) \o rest

\* aud_osi_close_tv, aud_osi_close_clip: stopped, and without a source.
aud_osi_close_tv(rest) == aud_osi_stop(<<Rec("src", "NO")>> \o rest)

aud_osi_close_clip(rest) ==
  Modified("ctrl0", "clip", FALSE) \o aud_osi_stop(<<Rec("src", "NO")>> \o rest)

\* aud_osi_init_tv, aud_osi_init_clip: only without a source; the clip
\* device may not be created.
aud_osi_init_tv(rest) ==
  <<[k |-> "nosource"]>> \o Modified("ctrl0", "clip", FALSE)
  \o <<Rec("src", "DEMUX")>> \o rest

aud_osi_init_clip(rest) ==
  <<[k |-> "nosource"]>> \o Modified("ctrl0", "clip", TRUE)
  \o <<[k |-> "create"], Rec("src", "MEMORY")>> \o rest

\* The microcode a device node's mode runs, if it is built in (aud_atom_init).
Microcode(minor) ==
  CASE minor = "AC3" -> IF "dvd" \in AudCodes THEN "dvd" ELSE "stb"
    [] minor \in {"DTS", "LPCM"} -> "dts"
    [] OTHER -> "stb"

\* aud_atom_init writes all of CTRL0 and CTRL2, but only adds to CTRL1.
aud_atom_init(r) ==
  [r EXCEPT !.ctrl0 = [type |-> "none", clip |-> FALSE, mix |-> FALSE, sync |-> FALSE],
            !.ctrl2 = [halt |-> FALSE, mute |-> FALSE, endian |-> "default"]]

\* aud_osi_init: what is recorded of an opened decoder.
OpenedDecoder(d) ==
  [d EXCEPT !.src = "NO", !.state = "STOPPED", !.stream = "UNKNOWN",
            !.channel = "STEREO", !.sync = FALSE, !.open = TRUE, !.irq = TRUE]

-----------------------------------------------------------------------------
AudInit ==
  /\ audEnv \in AudEnvs
  /\ aud = [count |-> 0, mixers |-> 0, isrc |-> -1, open |-> FALSE, irq |-> FALSE,
            src |-> "NO", state |-> "STOPPED", stream |-> "UNKNOWN",
            channel |-> "STEREO", sync |-> FALSE, mute |-> FALSE]
  /\ areg = [ctrl0 |-> [type |-> "none", clip |-> FALSE, mix |-> FALSE, sync |-> FALSE],
             ctrl1 |-> [soft |-> FALSE, channel |-> "STEREO"],
             ctrl2 |-> [halt |-> FALSE, mute |-> FALSE, endian |-> "default"],
             dsr |-> [master |-> FALSE], dsp |-> [pcm |-> "default", mix |-> "default"],
             chip |-> [sync |-> FALSE], vol |-> 0, acc |-> <<>>, was |-> FALSE]
  /\ acall = <<>>

AudIdle == acall = <<>>
Asked(e) == e \in audEnv
MainOpen == AudIdle /\ aud.count = 1

\* aud_inf_open of a main device: refused while one is open, without its
\* microcode, or while the handler of a failed open is still installed.
aud_inf_open(minor) ==
  /\ AudIdle /\ aud.count = 0 /\ Microcode(minor) \in AudCodes /\ ~aud.irq
  /\ areg' = aud_atom_init(areg)
  /\ \/ aud' = [OpenedDecoder(aud) EXCEPT !.count = 1, !.isrc = -1]
     \/ Asked("fail") /\ aud' = [aud EXCEPT !.irq = TRUE]  \* os_add_irq_task fails
  /\ UNCHANGED <<acall, audEnv>>

\* aud_inf_open of the mixer, which needs an open main device.
OpenMixer ==
  /\ MainOpen /\ Asked("mixer") /\ aud.mixers = 0 /\ aud.open
  /\ aud' = [aud EXCEPT !.mixers = 1]
  /\ areg' = [areg EXCEPT !.ctrl0.mix = TRUE]
  /\ UNCHANGED <<acall, audEnv>>

\* aud_inf_release.
CloseMixer ==
  /\ AudIdle /\ aud.mixers = 1
  /\ aud' = [aud EXCEPT !.mixers = 0]
  /\ areg' = [areg EXCEPT !.ctrl0.mix = FALSE]
  /\ UNCHANGED <<acall, audEnv>>

aud_inf_release ==
  /\ MainOpen
  /\ acall' = CASE aud.src = "DEMUX" -> aud_osi_close_tv(<<[k |-> "closed"]>>)
                [] aud.src = "MEMORY" -> aud_osi_close_clip(<<[k |-> "closed"]>>)
                [] OTHER -> <<[k |-> "closed"]>>
  /\ UNCHANGED <<aud, areg, audEnv>>

\* aud_inf_ioctl, MPEG_AUD_SELECT_SOURCE: 0 is the demultiplexer, 1 memory.
AudSelectSource(p) ==
  LET done == <<Rec("isrc", p)>>
      init == IF p = 0 THEN aud_osi_init_tv(done) ELSE aud_osi_init_clip(done)
  IN  /\ MainOpen /\ Asked("source")
      /\ acall' = CASE aud.isrc = p -> done
                    [] aud.isrc = -1 -> init
                    [] aud.isrc = 0 /\ p = 1 -> aud_osi_close_tv(init)
                    [] OTHER -> aud_osi_close_clip(init)
      /\ UNCHANGED <<aud, areg, audEnv>>

\* MPEG_AUD_PLAY, MPEG_AUD_STOP.
aud_osi_play ==
  IF aud.src = "NO" \/ aud.stream = "UNKNOWN" \/ aud.state = "PLAYING" THEN <<>>
  ELSE aud_atom_play \o <<Rec("state", "PLAYING")>>

\* MPEG_AUD_SET_STREAM_TYPE: recorded though the decoder refused it.
aud_osi_set_stream_type(s) ==
  IF aud.stream = s THEN <<>> ELSE aud_atom_set_stream_type(s) \o <<Rec("stream", s)>>

\* MPEG_AUD_SELECT_CHANNEL.
aud_osi_set_channel(c) ==
  IF aud.channel = c THEN <<>> ELSE aud_atom_set_channel(c) \o <<Rec("channel", c)>>

\* MPEG_AUD_SYNC_ON, MPEG_AUD_SYNC_OFF.
aud_osi_enable_sync(m) == aud_atom_sync_master(m) \o <<Rec("sync", TRUE)>>
aud_osi_disable_sync ==
  IF ~aud.sync THEN <<>> ELSE Modified("ctrl0", "sync", FALSE) \o <<Rec("sync", FALSE)>>

\* The calls made on the main device's descriptor.
AudCall(e, steps) ==
  /\ MainOpen /\ Asked(e) /\ steps # <<>>
  /\ acall' = steps
  /\ UNCHANGED <<aud, areg, audEnv>>

\* aud_inf_ioctl: playing, muting, the stream and its channel;
AudPlayCalls ==
  \/ AudCall("play", aud_osi_play)
  \/ AudCall("play", aud_osi_stop(<<>>))
  \/ AudCall("mute", aud_atom_mute)
  \/ AudCall("mute", aud_atom_unmute)
  \/ \E s \in {"PES", "PCM", "bad"} : AudCall("play", aud_osi_set_stream_type(s))
  \/ \E c \in AudChannels : AudCall("channel", aud_osi_set_channel(c))

\* the formats of both nodes, and synchronisation.
AudFormatCalls ==
  \/ AudCall("format", aud_atom_set_pcm_fmt("asked"))
  \/ aud.mixers = 1 /\ AudCall("format", aud_atom_set_mixer_fmt("asked"))
AudSyncCalls ==
  \/ AudCall("sync", aud_atom_get_stc \o aud_atom_get_pts)
  \/ AudCall("sync", aud_atom_set_stc)
  \/ \E m \in BOOLEAN : AudCall("sync", aud_osi_enable_sync(m))
  \/ AudCall("sync", aud_osi_disable_sync)

\* The video driver's own calls of vid_atom_sync.c.
VideoCalls ==
  /\ AudIdle /\ Asked("video")
  /\ \/ acall' \in {vid_atom_set_stc, vid_atom_get_stc} /\ areg' = areg
     \/ acall' = <<>> /\ \E on \in BOOLEAN : areg' = [areg EXCEPT !.chip.sync = on]
  /\ UNCHANGED <<aud, audEnv>>

\* MPEG_AUD_SET_VOL; the mixer's volume is set through the same registers.
SetVol(v) ==
  /\ AudIdle /\ aud.count + aud.mixers > 0 /\ Asked("volume")
  /\ areg' = [areg EXCEPT !.vol = aud_atom_set_vol(v)]
  /\ UNCHANGED <<aud, acall, audEnv>>

-----------------------------------------------------------------------------
(* The steps, one by one.                                                   *)

\* A field of the value read is changed and the value written.
RunAccess(s) ==
  /\ s.k \in {"get", "put"}
  /\ areg' = IF s.k = "get" THEN [areg EXCEPT !.acc = areg[s.reg]]
             ELSE [areg EXCEPT ![s.reg] = [areg.acc EXCEPT ![s.field] = s.val]]
  /\ acall' = Tail(acall)
  /\ UNCHANGED aud

\* aud_osi_close: the interrupt removed, the mixer's left alone.
ClosedDecoder == [aud EXCEPT !.count = 0, !.open = FALSE, !.irq = FALSE, !.isrc = -1]

RunAudRecord(s) ==
  /\ s.k \in {"rec", "closed"}
  /\ aud' = IF s.k = "rec" THEN [aud EXCEPT ![s.field] = s.val] ELSE ClosedDecoder
  /\ acall' = Tail(acall)
  /\ UNCHANGED areg

\* What is kept of the synchronisation, and its return.
RunSync(s) ==
  /\ s.k \in {"save", "resync", "words"}
  /\ areg' = IF s.k = "save" THEN [areg EXCEPT !.was = areg.acc.sync] ELSE areg
  /\ acall' = (IF s.k = "resync" /\ areg.was THEN Modified(s.reg, "sync", TRUE) ELSE <<>>)
              \o Tail(acall)
  /\ UNCHANGED <<aud>>

\* The DSP is ready, or was not in time; the source is free, or not; the
\* clip device is created, or not.
RunAudTest(s, ok) ==
  /\ s.k \in {"ready", "nosource", "create"}
  /\ CASE s.k = "ready" -> acall' = IF ok THEN Tail(acall) ELSE TimedOut(acall)
       [] s.k = "nosource" -> ok = (aud.src = "NO") /\ acall' = IF ok THEN Tail(acall) ELSE <<>>
       [] OTHER -> (ok \/ Asked("fail")) /\ acall' = IF ok THEN Tail(acall) ELSE <<>>
  /\ UNCHANGED <<aud, areg>>

RunAudStep ==
  /\ acall # <<>>
  /\ LET s == Head(acall)
     IN  RunAccess(s) \/ RunAudRecord(s) \/ RunSync(s) \/ \E ok \in BOOLEAN : RunAudTest(s, ok)
  /\ UNCHANGED audEnv

-----------------------------------------------------------------------------
(* aud_atom_irq_handler and vid_atom_process_int, which the steps of a call *)
(* do not interleave with.                                                  *)

\* In the middle of a mute: the bits are being set and not yet recorded.
Muting == \E i \in 1 .. Len(acall) :
            acall[i].k = "rec" /\ acall[i].field = "mute" /\ acall[i].val

\* CCC: a channel change is complete; unmuted, unless it is muted.
ChannelChangeComplete ==
  /\ aud.irq /\ aud.open /\ (Muting => AudWindow)
  /\ ~aud.mute
  /\ areg' = [areg EXCEPT !.ctrl1.soft = FALSE, !.ctrl2.mute = FALSE]
  /\ UNCHANGED <<aud, acall, audEnv>>

\* AMSI, with audio the master: the audio PTS becomes the video STC.  Each
\* access turns synchronisation off and back on; one that was late leaves the
\* same.
Resynced(r) ==
  LET off == [areg[r] EXCEPT !.sync = FALSE]
  IN  IF areg[r].sync THEN [off EXCEPT !.sync = TRUE] ELSE off

MasterSync ==
  /\ aud.irq /\ aud.open /\ areg.dsr.master
  /\ areg' = [areg EXCEPT !.ctrl0 = Resynced("ctrl0"), !.chip = Resynced("chip")]
  /\ UNCHANGED <<aud, acall, audEnv>>

AudNext ==
  \/ \E m \in AudMinors : aud_inf_open(m)
  \/ aud_inf_release \/ OpenMixer \/ CloseMixer
  \/ \E p \in {0, 1} : AudSelectSource(p)
  \/ AudPlayCalls \/ AudFormatCalls \/ AudSyncCalls \/ VideoCalls \/ RunAudStep
  \/ \E v \in 0 .. AudVolMax + 1 : SetVol(v)
  \/ ChannelChangeComplete \/ MasterSync

AudSpec == AudInit /\ [][AudNext]_audVars

-----------------------------------------------------------------------------
(* Properties.                                                              *)

\* Between calls audio is synchronised just when that was asked for, whatever
\* reads and writes of PTS and STC, late ones too, and interrupts between
\* them turned it off for a moment.
SyncAsAsked ==
  MainOpen => areg.ctrl0.sync = aud.sync

\* What the user has muted stays muted when a channel change completes, and
\* over closing and opening the device (aud_atom_irq_handler).
MutedStaysMuted ==
  AudIdle /\ aud.mute => areg.ctrl1.soft

\* Between calls the node, the decoder and the clip bit of CTRL0 agree on the
\* source, if no clip device failed to be created (aud_inf_ioctl).
AudSourceAgrees ==
  MainOpen /\ ~Asked("fail") =>
    /\ aud.src = CASE aud.isrc = -1 -> "NO" [] aud.isrc = 0 -> "DEMUX" [] OTHER -> "MEMORY"
    /\ areg.ctrl0.clip = (aud.src = "MEMORY")

\* Node and decoder agree on what the user asked for.
AudioAsAsked == AudTypeOK /\ SyncAsAsked /\ MutedStaysMuted /\ AudSourceAgrees
=============================================================================
