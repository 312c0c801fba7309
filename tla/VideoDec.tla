------------------------------ MODULE VideoDec ------------------------------
(***************************************************************************)
(* The video decoder driver: the device node (vid_inf.c), the decoder's    *)
(* state (vid_osi.c, vid_osd.c), the screen manager (vid_osi_scr.c,        *)
(* vid_atom_denc.c) and the registers (vid_atom*.c).  A call is a list of  *)
(* steps, worked off one at a time because commands and waits sleep; the   *)
(* interrupt handler may come between any two of them.  Clips are          *)
(* ClipPlayer's, STC and PTS are AvSync's; sizes, borders and picture      *)
(* positions are left out.                                                 *)
(***************************************************************************)
EXTENDS Integers, Sequences, FiniteSets

CONSTANTS VidModes,   \* display modes an application sets, with "NORM",
                      \* "LETTERBOX" and "SCALE"
          VidFmtInit, \* module parameter _fmt: "NTSC" or "PAL"
          VidWindow,  \* may the handler come between the reading of a
                      \* register and the writing of it?
          VidEnvs     \* sets of the calls that are made and may fail

ASSUME VidAssumption ==
  VidFmtInit \in {"NTSC", "PAL"} /\ VidWindow \in BOOLEAN

VARIABLES
  vd,      \* _videoDecoder, and _src, _still_p, vid_sfm, video_open_count
  vreg,    \* the decoder's and the encoders' registers
  vint,    \* __..._PENDING and __..._COMPLETE
  vcall,   \* the steps left of the call being made
  vidEnv

vidVars == <<vd, vreg, vint, vcall, vidEnv>>

Formats == {"NTSC", "PAL"}
FieldModes == {"NORMAL", "TOP_ONLY", "BOTTOM_ONLY", "FIRST_ONLY"}
VidStates == {"STOPPED", "PLAYING", "PAUSED", "FREEZED", "SINGLE_FRAME",
              "FASTFORWORD", "SLOWMOTION", "STILLP"}
Pendings == {"PLAY", "CC", "ACC", "FF"}

VidTypeOK ==
  /\ vd.count \in 0 .. 1 /\ vd.src \in {"NO", "DEMUX", "MEMORY"}
  /\ vd.isrc \in {-1, 0, 1} /\ vd.state \in VidStates /\ vd.sfm \in FieldModes
  /\ vreg.sfm \in FieldModes /\ vreg.mask \subseteq {"PSTART", "SEND"}
  /\ vint.pending \subseteq Pendings

-----------------------------------------------------------------------------
(* Registers (vid_atom.c).                                                  *)

\* vid_atom_set_sfm: ignored while the user has locked the field mode.
set_sfm_unlocked(d, r, f) == [r EXCEPT !.sfm = f]

vid_atom_set_sfm(d, r, f) ==
  IF d.sfm # "NORMAL" THEN r ELSE [r EXCEPT !.sfm = f]

\* vid_atom_set_dispmode, with the recorded mode and size (vid_osi_set_disp).
vid_atom_set_dispmode(d, r) == [r EXCEPT !.mode = d.mode, !.wide = d.wide]

\* denc_atom_set_dispfmt: one encoder's format bits.
denc_atom_set_dispfmt(r, id, fmt) == [r EXCEPT !.denc[id] = fmt]

\* vid_atom_set_dispfmt: the decoder's, and where its frame buffers are.
vid_atom_set_dispfmt(r, fmt) == [r EXCEPT !.fmt = fmt, !.fbadr = fmt]

\* scrman_osi_set_fmt: both encoders first, then the decoder.
scrman_osi_set_fmt(r, fmt) ==
  vid_atom_set_dispfmt(
    denc_atom_set_dispfmt(denc_atom_set_dispfmt(r, 0, fmt), 1, fmt), fmt)

\* vid_atom_stop: no synchronisation, no decoding.
vid_atom_stop(r) == [r EXCEPT !.sync = FALSE, !.svd = FALSE]

\* vid_atom_enable_sync: one master, the clock followed.
vid_atom_enable_sync(r, master) == [r EXCEPT !.sync = TRUE, !.master = master]

\* vid_atom_init_clip, vid_atom_enter_stillp: clip mode, decoding on.
ClipMode(r) == [r EXCEPT !.clip = TRUE, !.svd = TRUE]

-----------------------------------------------------------------------------
(* Steps of calls.  A command that fails ends the function it is in: fail   *)
(* is what is still done.                                                   *)

Step(k) == [k |-> k]
Cmd(fail) == [k |-> "cmd", fail |-> fail]
SetState(s) == [k |-> "state", state |-> s]

\* vid_atom_freeze: FIRST_ONLY, the command, and vid_atom_ff_wait.  What
\* follows, rest, is done whether it succeeds or not.
vid_atom_freeze(rest) ==
  <<Step("syncoff"), Step("first"), Cmd(rest), Step("ffarm"), Step("ffwait")>> \o rest

\* vid_atom_pause, in the same way.
vid_atom_pause(rest) ==
  <<Step("syncoff"), Step("first"), Step("psclear"), Cmd(rest), Step("pswait")>> \o rest

\* vid_atom_single_frame and its wait for the decoder to clear SVD.
vid_atom_single_frame(rest) ==
  <<Step("first"), Cmd(rest), Step("sfwait")>> \o rest

\* vid_osi_stop: blanked, frozen and stopped.
vid_osi_stop(d, blank, rest) ==
  IF d.state = "STOPPED" THEN rest
  ELSE <<Step("syncoff")>> \o (IF blank THEN <<Step("blank")>> ELSE <<>>)
       \o vid_atom_freeze(<<Step("stop"), SetState("STOPPED")>> \o rest)

vid_osi_close_tv(d, rest) == vid_osi_stop(d, TRUE, <<Step("srcno")>> \o rest)

vid_osi_close_clip(d, rest) ==
  vid_osi_stop(d, TRUE, <<Step("clipoff"), Step("srcno")>> \o rest)

\* vid_osi_init_tv: refused when a source is in use.
vid_osi_init_tv(rest) == <<[k |-> "inittv", ok |-> rest]>>

\* vid_osi_init_clip: the decoder in clip mode, its rate buffer reset.
vid_osi_init_clip(rest) ==
  <<[k |-> "initclip", ok |-> <<Cmd(<<>>), Step("memory")>> \o rest]>>

\* vid_osi_init_stillp, vid_atom_enter_stillp: frozen, in clip mode, three
\* commands, and the sequence-end interrupt is let in.
vid_osi_init_stillp(rest) ==
  <<[k |-> "initstill",
     ok |-> vid_atom_freeze(
              <<Step("clipon"), Cmd(<<Step("enter")>>), Step("enter")>>)]>>
  \o rest

vid_atom_enter_stillp(rest) ==
  <<Cmd(<<>>), Cmd(<<>>), Cmd(<<>>), Step("getmask"), Step("sendon"),
    Step("memory"), SetState("STILLP")>> \o rest

\* vid_atom_exit_stillp: SEND masked, clip mode left, two commands.
vid_atom_exit_stillp(rest) ==
  <<Step("getmask"), Step("sendoff"), Step("clipoff"), Cmd(rest), Cmd(rest)>> \o rest

vid_osi_close_stillp(rest) == vid_atom_exit_stillp(<<Step("srcno")>> \o rest)

\* vid_osi_set_sfm: unlocked, set and locked to the mode asked for.
vid_osi_set_sfm(f) ==
  <<[k |-> "unlock", sfm |-> f], [k |-> "field", sfm |-> f], [k |-> "lock", sfm |-> f]>>

\* vid_osi_play: waiting for a picture that is not frozen.
vid_osi_play(d) ==
  <<Step("armplay")>> \o
  (IF d.src = "NO" \/ d.state = "PLAYING" THEN <<>>
   ELSE <<Cmd(<<>>), Step("svdon"), Step("syncon"), SetState("PLAYING")>>)

\* vid_osi_freeze and vid_osi_pause: nothing to do twice.
vid_osi_freeze(d) ==
  IF d.state = "FREEZED" THEN <<>> ELSE vid_atom_freeze(<<SetState("FREEZED")>>)

vid_osi_pause(d) ==
  IF d.state = "PAUSED" THEN <<>> ELSE vid_atom_pause(<<SetState("PAUSED")>>)

\* vid_osi_single_frame: the next one only lets the decoder go on.
vid_osi_single_frame(d) ==
  IF d.state = "SINGLE_FRAME" THEN <<Step("advance")>>
  ELSE vid_atom_single_frame(<<SetState("SINGLE_FRAME")>>)

\* vid_osi_fast_forward and vid_osi_slow_motion: one command each.
vid_osi_fast_forward == <<Cmd(<<>>), SetState("FASTFORWORD")>>
vid_osi_slow_motion == <<Cmd(<<>>), SetState("SLOWMOTION")>>

\* vid_osd_cc_complete: woken by the picture, or after five seconds.
vid_osd_cc_complete == <<Step("ccarm"), Step("ccwait")>>

-----------------------------------------------------------------------------
\* scrman_osi_init, vid_atom_init: module load, in the format of _fmt.
scrman_osi_init ==
  [svd |-> FALSE, clip |-> FALSE, blank |-> TRUE, sync |-> FALSE,
   master |-> "audio", mode |-> "NORM", wide |-> FALSE, sfm |-> "NORMAL",
   mask |-> {}, seen |-> {}, denc |-> [i \in 0 .. 1 |-> VidFmtInit],
   fmt |-> VidFmtInit, fbadr |-> VidFmtInit]

VidInit ==
  /\ vidEnv \in VidEnvs
  /\ vd = [count |-> 0, open |-> FALSE, src |-> "NO", isrc |-> -1,
           state |-> "STOPPED", still |-> FALSE, sfm |-> "NORMAL",
           mode |-> "NORM", wide |-> FALSE, seqend |-> FALSE,
           fmt |-> VidFmtInit]
  /\ vreg = scrman_osi_init
  /\ vint = [pending |-> {}, ff |-> FALSE, cc |-> FALSE, ps |-> FALSE, play |-> {}]
  /\ vcall = <<>>

VidIdle == vcall = <<>> /\ vd.count = 1
May(e) == e \in vidEnv

\* vid_atom_config_vdec: microcode loaded, neither decoding nor synchronised.
vid_atom_config_vdec(r) ==
  [r EXCEPT !.svd = FALSE, !.clip = FALSE, !.sync = FALSE, !.blank = FALSE]

\* vid_osi_init: stopped, no source, and the field mode unlocked.
vid_osi_init(d) ==
  [d EXCEPT !.open = TRUE, !.src = "NO", !.state = "STOPPED", !.sfm = "NORMAL",
            !.mode = "NORM", !.wide = FALSE]

\* vid_inf_open, vid_osd_init: the decoder is configured, frozen on black, its
\* interrupts let in; and counted open when that is done.
vid_inf_open ==
  /\ vcall = <<>> /\ vd.count = 0
  /\ vd' = [vid_osi_init(vd) EXCEPT !.count = 1]
  /\ vreg' = [vid_atom_set_dispmode(vd', vid_atom_config_vdec(vreg)) EXCEPT !.mask = {}]
  /\ vint' = [vint EXCEPT !.pending = @ \ {"PLAY"}, !.play = {}]
  /\ UNCHANGED <<vcall, vidEnv>>

\* vid_inf_release, vid_osd_close, vid_osi_close: the source is closed first.
vid_inf_release ==
  /\ VidIdle
  /\ vcall' = CASE vd.src = "DEMUX" -> vid_osi_close_tv(vd, <<Step("closed")>>)
                [] vd.src = "MEMORY" -> vid_osi_close_clip(vd, <<Step("closed")>>)
                [] OTHER -> <<Step("closed")>>
  /\ UNCHANGED <<vd, vreg, vint, vidEnv>>

\* vid_inf_ioctl, MPEG_VID_SELECT_SOURCE: 0 is the demultiplexer, 1 memory.
SelectSource(p) ==
  LET done == <<[k |-> "isrc", isrc |-> p]>>
      init == IF p = 0 THEN vid_osi_init_tv(done) ELSE vid_osi_init_clip(done)
  IN  /\ VidIdle /\ May("source")
      /\ vcall' = CASE vd.isrc = p -> done
                    [] vd.isrc = -1 -> init
                    [] vd.isrc = 0 /\ p = 1 -> vid_osi_close_tv(vd, init)
                    [] OTHER -> vid_osi_close_clip(vd, init)
      /\ UNCHANGED <<vd, vreg, vint, vidEnv>>

\* MPEG_VID_START_STILLP: the source of before is closed.
StartStillp ==
  /\ VidIdle /\ May("still")
  /\ LET still == vid_osi_init_stillp(<<>>)
     IN  vcall' = CASE vd.isrc = 1 -> vid_osi_close_clip(vd, still)
                    [] vd.isrc = 0 -> vid_osi_close_tv(vd, still)
                    [] OTHER -> still
  /\ UNCHANGED <<vd, vreg, vint, vidEnv>>

\* MPEG_VID_STOP_STILLP.
StopStillp ==
  /\ VidIdle /\ May("still") /\ vd.still
  /\ vcall' = vid_osi_close_stillp(<<Step("unstill")>>)
  /\ UNCHANGED <<vd, vreg, vint, vidEnv>>

\* vid_osi_stillp_ready: the sequence end is reported once.
StillpReady ==
  /\ VidIdle /\ vd.seqend
  /\ vd' = [vd EXCEPT !.seqend = FALSE]
  /\ UNCHANGED <<vreg, vint, vcall, vidEnv>>

\* The calls of vid_inf_ioctl that change what is played.
PlayCalls ==
  [play |-> vid_osi_play(vd),
   stop |-> vid_osi_stop(vd, TRUE, <<>>),
   hold |-> vid_osi_stop(vd, FALSE, <<>>),
   freeze |-> vid_osi_freeze(vd),
   pause |-> vid_osi_pause(vd),
   single |-> vid_osi_single_frame(vd),
   forward |-> vid_osi_fast_forward,
   slow |-> vid_osi_slow_motion,
   complete |-> vid_osd_cc_complete]

PlayCall(c) ==
  /\ VidIdle /\ May(c) /\ PlayCalls[c] # <<>>
  /\ vcall' = PlayCalls[c]
  /\ UNCHANGED <<vd, vreg, vint, vidEnv>>

\* vid_osi_play_status: a picture start that was reported is forgotten.
PlayStatus ==
  /\ VidIdle /\ May("status")
  /\ vint' = [vint EXCEPT !.pending = @ \cup {"PLAY"},
                          !.play = IF "picture" \in @ THEN {} ELSE @]
  /\ vreg' = [vreg EXCEPT !.mask = @ \cup {"PSTART"}]
  /\ UNCHANGED <<vd, vcall, vidEnv>>

\* MPEG_VID_SET_SFM.
SetSfm(f) ==
  /\ VidIdle /\ May("sfm")
  /\ vcall' = vid_osi_set_sfm(f)
  /\ UNCHANGED <<vd, vreg, vint, vidEnv>>

\* vid_osi_set_dispmode, vid_osi_set_dispsize: recorded, and the register
\* written from the record.
SetDisp(m, w) ==
  /\ VidIdle /\ May("display")
  /\ vd' = [vd EXCEPT !.mode = m, !.wide = w]
  /\ vreg' = vid_atom_set_dispmode(vd', vreg)
  /\ UNCHANGED <<vint, vcall, vidEnv>>

\* vid_osi_scale_off: the record keeps SCALE.
ScaleOff ==
  /\ VidIdle /\ May("display")
  /\ vreg' = [vreg EXCEPT !.mode = "NORM"]
  /\ UNCHANGED <<vd, vint, vcall, vidEnv>>

\* vid_osi_set_dispfmt: another format than the one recorded toggles it, and
\* the decoder is told by a command.
SetDispFmt(f) ==
  LET to == IF vd.fmt = "NTSC" THEN "PAL" ELSE "NTSC"
  IN  /\ VidIdle /\ May("format") /\ f # vd.fmt
      /\ vreg' = scrman_osi_set_fmt(vreg, to)
      /\ vd' = [vd EXCEPT !.fmt = to]
      /\ vcall' = <<Cmd(<<>>)>>
      /\ UNCHANGED <<vint, vidEnv>>

\* MPEG_VID_SYNC_ON, MPEG_VID_SYNC_OFF.
SetSync(on, master) ==
  /\ VidIdle /\ May("sync")
  /\ vreg' = IF on THEN vid_atom_enable_sync(vreg, master) ELSE [vreg EXCEPT !.sync = FALSE]
  /\ UNCHANGED <<vd, vint, vcall, vidEnv>>

-----------------------------------------------------------------------------
(* The steps.                                                               *)

\* vid_atom_exec_cmd: after a time-out the decoder is reset and the command
\* given once more; it may fail at the end.
RunCmd(s, failed) ==
  /\ failed => May("fail")
  /\ vcall' = IF failed THEN s.fail ELSE Tail(vcall)
  /\ UNCHANGED <<vd, vreg, vint>>

\* vid_osi_close: what vid_inf_release leaves.
vid_osi_close(d) == [d EXCEPT !.count = 0, !.open = FALSE, !.isrc = -1]

\* Steps that change what the driver records.
RunRecord(s) ==
  /\ s.k \in {"state", "isrc", "srcno", "memory", "unstill", "closed", "unlock", "lock"}
  /\ vd' = CASE s.k = "state" -> [vd EXCEPT !.state = s.state,
                                            !.still = @ \/ s.state = "STILLP",
                                            !.isrc = IF s.state = "STILLP" THEN 1 ELSE @,
                                            !.seqend = @ \/ s.state = "STILLP"]
              [] s.k = "isrc" -> [vd EXCEPT !.isrc = s.isrc]
              [] s.k = "srcno" -> [vd EXCEPT !.src = "NO"]
              [] s.k = "memory" -> [vd EXCEPT !.src = "MEMORY"]
              [] s.k = "unstill" -> [vd EXCEPT !.still = FALSE, !.isrc = -1]
              [] s.k = "closed" -> vid_osi_close(vd)
              [] s.k = "unlock" -> [vd EXCEPT !.sfm = "NORMAL"]
              [] s.k = "lock" -> [vd EXCEPT !.sfm = s.sfm]
  /\ vcall' = Tail(vcall)
  /\ UNCHANGED <<vreg, vint>>

\* Steps that change registers.
RunRegister(s) ==
  /\ s.k \in {"syncoff", "first", "field", "blank", "stop", "svdon", "advance", "syncon",
              "clipoff", "clipon", "getmask", "sendon", "sendoff"}
  /\ vreg' = CASE s.k = "syncoff" -> [vreg EXCEPT !.sync = FALSE]
                [] s.k = "first" -> vid_atom_set_sfm(vd, vreg, "FIRST_ONLY")
                [] s.k = "field" -> vid_atom_set_sfm(vd, vreg, s.sfm)
                [] s.k = "blank" -> [vreg EXCEPT !.blank = TRUE]
                [] s.k = "stop" -> vid_atom_stop(vreg)
                [] s.k = "svdon" -> [vreg EXCEPT !.svd = TRUE, !.blank = FALSE]
                [] s.k = "advance" -> [vreg EXCEPT !.svd = TRUE]
                [] s.k = "syncon" -> vid_atom_enable_sync(vreg, vreg.master)
                [] s.k = "clipoff" -> [vreg EXCEPT !.clip = FALSE]
                [] s.k = "clipon" -> ClipMode(vreg)
                [] s.k = "getmask" -> [vreg EXCEPT !.seen = vreg.mask]
                [] s.k = "sendon" -> [vreg EXCEPT !.mask = vreg.seen \cup {"SEND"}]
                [] s.k = "sendoff" -> [vreg EXCEPT !.mask = vreg.seen \ {"SEND"}]
  /\ vcall' = Tail(vcall)
  /\ UNCHANGED <<vd, vint>>

\* Steps that begin a wait: the flag first, then the interrupt is let in.
RunArm(s) ==
  LET p == [armplay |-> "PLAY", ffarm |-> "FF", ccarm |-> "CC"]
  IN  /\ s.k \in DOMAIN p
      /\ vint' = [vint EXCEPT !.pending = @ \cup {p[s.k]},
                              !.ff = @ /\ s.k # "ffarm", !.cc = @ /\ s.k # "ccarm",
                              !.play = IF s.k = "armplay" THEN {} ELSE @]
      /\ vreg' = [vreg EXCEPT !.mask = @ \cup {"PSTART"}]
      /\ vcall' = Tail(vcall)
      /\ UNCHANGED vd

\* Waits end when the handler has seen the event, or time is up.
vid_atom_ff_wait(late) ==
  /\ vint.ff \/ late
  /\ vint' = [vint EXCEPT !.pending = @ \ {"FF"}, !.ff = FALSE]

vid_atom_ps_wait(late) == (vint.ps \/ late) /\ UNCHANGED vint

CcWait(late) ==
  /\ vint.cc \/ late
  /\ vint' = [vint EXCEPT !.pending = @ \ {"CC"}, !.cc = FALSE]

RunWait(s, late) ==
  /\ s.k \in {"ffwait", "pswait", "ccwait", "sfwait", "psclear"}
  /\ CASE s.k = "ffwait" -> vid_atom_ff_wait(late)
       [] s.k = "ccwait" -> CcWait(late)
       [] s.k = "psclear" -> vint' = [vint EXCEPT !.ps = FALSE]
       [] s.k = "pswait" -> vid_atom_ps_wait(late)
       [] OTHER -> UNCHANGED vint
  /\ vreg' = IF s.k = "sfwait" /\ ~late THEN [vreg EXCEPT !.svd = FALSE] ELSE vreg
  /\ vcall' = Tail(vcall)
  /\ UNCHANGED vd

\* The guards of vid_osi_init_tv, vid_osi_init_clip and vid_osi_init_stillp.
RunInit(s) ==
  /\ s.k \in {"inittv", "initclip", "initstill", "enter"}
  /\ IF s.k = "enter" THEN /\ vcall' = vid_atom_enter_stillp(Tail(vcall))
                           /\ UNCHANGED <<vd, vreg>>
     ELSE IF vd.src # "NO" THEN vcall' = <<>> /\ UNCHANGED <<vd, vreg>>
     ELSE /\ vcall' = s.ok \o Tail(vcall)
          /\ vd' = IF s.k = "inittv" THEN [vd EXCEPT !.src = "DEMUX"] ELSE vd
          /\ vreg' = CASE s.k = "inittv" -> [vreg EXCEPT !.clip = FALSE]
                       [] s.k = "initclip" -> [ClipMode(vreg) EXCEPT !.blank = FALSE]
                       [] OTHER -> vreg
  /\ UNCHANGED vint

RunStep ==
  /\ vcall # <<>>
  /\ LET s == Head(vcall)
     IN  \/ s.k = "cmd" /\ \E failed \in BOOLEAN : RunCmd(s, failed)
         \/ RunRecord(s) \/ RunRegister(s) \/ RunArm(s) \/ RunInit(s)
         \/ \E late \in BOOLEAN : RunWait(s, late)
  /\ UNCHANGED vidEnv

-----------------------------------------------------------------------------
(* The interrupt handler, vid_atom_process_int.                             *)

\* The handler in the middle of a register's read and write, or of the
\* locking of the field mode.
InWindow ==
  vcall # <<>> /\ Head(vcall).k \in {"sendon", "sendoff", "field", "lock"}

\* CHAN_CHAN: the channel change is done; its first picture is waited for.
ChannelChanged ==
  /\ vd.count = 1 /\ May("cchan") /\ (InWindow => VidWindow)
  /\ vint' = [vint EXCEPT !.pending = @ \cup {"ACC"}]
  /\ vreg' = [vreg EXCEPT !.mask = @ \cup {"PSTART"}]
  /\ UNCHANGED <<vd, vcall, vidEnv>>

\* PSTART, with the frozen status or without: the pictures waited for come,
\* and end the single-field display...
SeenBy(pending, frozen) ==
  IF frozen THEN {"FF"} \cap pending ELSE {"PLAY", "CC", "ACC"} \cap pending

\* ... nobody waiting any more, the interrupt is masked.
MaskAfter_first(mask, left) == mask \ {"PSTART"}

MaskAfter(mask, left) == IF left = {} THEN mask \ {"PSTART"} ELSE mask

PictureStart(frozen) ==
  LET seen == SeenBy(vint.pending, frozen)
      left == vint.pending \ seen
  IN  /\ vd.count = 1 /\ "PSTART" \in vreg.mask /\ (InWindow => VidWindow)
      /\ frozen => May("freeze") \/ May("stop") \/ May("hold")
      /\ vint' = [vint EXCEPT
                    !.pending = left, !.ff = @ \/ "FF" \in seen,
                    !.cc = @ \/ "CC" \in seen,
                    !.play = IF "PLAY" \notin vint.pending THEN @
                             ELSE {"picture"} \cup
                                  (IF frozen /\ "picture" \notin @ THEN {"freeze"} ELSE @)]
      /\ vreg' = [(IF seen \cap {"PLAY", "CC", "ACC"} # {}
                   THEN vid_atom_set_sfm(vd, vreg, "NORMAL") ELSE vreg)
                  EXCEPT !.mask = MaskAfter(@, left)]
      /\ UNCHANGED <<vd, vcall, vidEnv>>

\* PS_STATUS: the pause or the single frame has been reached.
PauseReached ==
  /\ vd.count = 1 /\ (May("pause") \/ May("single")) /\ ~vint.ps
  /\ vint' = [vint EXCEPT !.ps = TRUE]
  /\ UNCHANGED <<vd, vreg, vcall, vidEnv>>

\* SEND: the end of a sequence, recorded by the task.
SequenceEnd ==
  /\ vd.count = 1 /\ "SEND" \in vreg.mask /\ ~vd.seqend
  /\ vd' = [vd EXCEPT !.seqend = TRUE]
  /\ UNCHANGED <<vreg, vint, vcall, vidEnv>>

-----------------------------------------------------------------------------
(* vid_inf_ioctl, in the order of its cases.                                *)

\* Playing, and the source;
VidPlayCalls == (\E c \in DOMAIN PlayCalls : PlayCall(c)) \/ \E p \in {0, 1} : SelectSource(p)

\* scaling, synchronisation and the display;
VidDisplayCalls ==
  \/ ScaleOff
  \/ \E on \in BOOLEAN, master \in {"audio", "video"} : SetSync(on, master)
  \/ \E m \in VidModes, w \in BOOLEAN : SetDisp(m, w)
  \/ \E f \in Formats : SetDispFmt(f)

\* still pictures;
VidStillCalls == StartStillp \/ StopStillp \/ StillpReady

\* the status of playing, and the field mode.
VidStatusCalls == PlayStatus \/ \E f \in FieldModes : SetSfm(f)

VidNext ==
  \/ vid_inf_open \/ vid_inf_release
  \/ VidPlayCalls \/ VidDisplayCalls \/ VidStillCalls \/ VidStatusCalls
  \/ RunStep \/ ChannelChanged \/ PauseReached \/ SequenceEnd
  \/ \E frozen \in BOOLEAN : PictureStart(frozen)

\* Calls are worked off, and while they are let in, pictures keep starting
\* that are not frozen.
VidFairness ==
  /\ WF_vidVars(RunStep)
  /\ WF_vidVars(PictureStart(FALSE))

VidSpec == VidInit /\ [][VidNext]_vidVars /\ VidFairness

-----------------------------------------------------------------------------
(* Properties.                                                              *)

\* Once play is asked for, the single-field display that a freeze or a pause
\* left behind ends with a picture, unless the user has locked the field mode
\* or something else is asked for: the PSTART interrupt that ends it is let in
\* and out by four kinds of wait.
PlayEndsFreeze ==
  "PLAY" \in vint.pending
    ~> (vreg.sfm = "NORMAL" \/ vd.sfm # "NORMAL" \/ vd.count = 0)

\* The field mode the user has locked is the one displayed, whatever freezes,
\* pauses and picture starts came meanwhile (vid_osi_set_sfm).
FieldModeLocked ==
  VidIdle /\ vd.sfm # "NORMAL" => vreg.sfm = vd.sfm

\* Both encoders, the decoder, the frame buffers and the record always have
\* one television format (scrman_osi_set_fmt).
FormatAgrees ==
  /\ \A i \in 0 .. 1 : vreg.denc[i] = vreg.fmt
  /\ vreg.fbadr = vreg.fmt
  /\ vd.fmt = vreg.fmt

\* Between calls the node's idea of the source is the decoder's, and the
\* decoder is in clip mode just when it plays from memory, if no command
\* failed in a change of source (vid_inf_ioctl).
SourceAgrees ==
  VidIdle /\ ~May("fail") =>
    /\ vd.src = CASE vd.isrc = -1 -> "NO" [] vd.isrc = 0 -> "DEMUX" [] OTHER -> "MEMORY"
    /\ vreg.clip = (vd.src = "MEMORY")

\* Node, decoder and encoders agree between calls.
VideoAgrees == VidTypeOK /\ FieldModeLocked /\ FormatAgrees /\ SourceAgrees
=============================================================================
