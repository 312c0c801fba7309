------------------------------- MODULE XpClock -------------------------------
(***************************************************************************)
(* Clock recovery and the change of channel on running decoders            *)
(* (xp_osi_clk.c, xp_osi_pcr.c, xp_osi_cchan.c).  The first PCR of a new   *)
(* PID loads the system time clock (STC) and raises STCL; pcr_interrupt    *)
(* counts the PCRs since then and steers the oscillator's pulse width      *)
(* (PWM), pcr_stc_inthdl hands the STC to the decoders.  Both listen to    *)
(* the same interrupt, in the order of the notification table.             *)
(*                                                                         *)
(* The values of PCR and STC are abstracted: the clock is the PID it was   *)
(* loaded from, and the adjustment computed from two PCRs is any of        *)
(* ClkAdjusts (a division by a PCR difference of zero included).           *)
(***************************************************************************)
EXTENDS XpNotify, Sequences, SequencesExt

CONSTANTS ClkPids,       \* the PIDs applications ask for
          ClkGain,       \* PCRS_HIGH_GAIN
          ClkClamp,      \* PWM_CLAMP
          ClkLoadClamp,  \* STC_LOAD_PWM_CLAMP
          PwmHalf,       \* 0x800: the PWM is a signed number of 12 bits
          ClkAdjusts,    \* the adjustments the PCRs may call for
          ClkEnvs        \* what happens in a behaviour, see ClkNext

ASSUME ClkAssumption ==
  /\ ClkPids \subseteq Nat \ {0} /\ ClkGain \in Nat \ {0} /\ XcSlots >= 6
  /\ ClkClamp \in 1..ClkLoadClamp /\ ClkLoadClamp \in 1..(PwmHalf - 1)
  /\ PwmHalf \in Nat /\ ClkAdjusts \subseteq Int

NOPID == 0      \* 0x1fff, the null PID
MediaKinds == {"audio", "video"}

VARIABLES clk,     \* ClkInfo, the clock's registers and the primary table
          cch,     \* ChanChanInfo and the channel change registers
          dec,     \* what the decoders were told of the clock
          clkEnv,  \* what happens in this behaviour
          ccLast   \* the PID last asked for, audio and video

clkVars == <<clk, cch, dec, clkEnv, ccLast>>

-----------------------------------------------------------------------------
(* The pulse width.                                                         *)

Within(a, c) == IF a > c THEN c ELSE IF a < -c THEN -c ELSE a
Clamped(a, npcrs) == Within(a, IF npcrs <= ClkGain THEN ClkLoadClamp ELSE ClkClamp)

\* pwm + pwm_adjust in unsigned words; the register keeps its low bits.
PwmWord(w) == w % (2 * PwmHalf)
Above(pwm, a) == pwm + a >= PwmHalf \/ pwm + a < 0
Below(pwm, a) == pwm + a < PwmHalf /\ pwm + a >= 0

\* As below, without looking at the half the width was in.
PwmNext_plain(pwm, a) == IF pwm + a >= PwmHalf /\ a > 0 THEN PwmHalf - 1
                         ELSE PwmWord(pwm + a)

PwmNext(pwm, a) ==
  IF pwm < PwmHalf /\ Above(pwm, a) /\ a > 0 THEN PwmHalf - 1
  ELSE IF pwm >= PwmHalf /\ Below(pwm, a) /\ a < 0 THEN PwmHalf
  ELSE PwmWord(pwm + a)

PwmSigned(w) == IF w < PwmHalf THEN w ELSE w - 2 * PwmHalf

-----------------------------------------------------------------------------
(* The clock.  d is [clk, cch, dec].                                        *)

\* xp_osi_clk_set_pid: the next PCR loads the STC.
xp_osi_clk_set_pid(d, pid) ==
  [d EXCEPT !.clk.pcrpid = pid, !.clk.fresh = TRUE, !.clk.npcrs = 0]

\* xp_osi_clk_get_stc_high: a recent PCR was received and counted.
StcValid(d) == d.clk.recent /\ d.clk.npcrs # 0

\* The audio decoder refuses the STC while a command is pending.
pcr_av_sync(d) ==
  [d EXCEPT !.dec.on = [k \in MediaKinds |-> k = "video" \/ ~d.dec.busy],
            !.dec.stc = [k \in MediaKinds |->
                           IF k = "video" \/ ~d.dec.busy THEN d.clk.stc ELSE @[k]]]

xp_osi_pcr_sync(d) == IF StcValid(d) THEN pcr_av_sync(d) ELSE d

\* pcr_interrupt.  in: what the handler reads; an inconsistent read returns at
\* once, a second error in a row sets the PID again.
pcr_interrupt(d, ev, in) ==
  LET n0 == IF "STCL" \in ev THEN 0 ELSE d.clk.npcrs
      n == IF n0 <= ClkGain THEN n0 + 1 ELSE n0
      counted == [d EXCEPT !.clk.npcrs = n]
  IN  IF ~in.consistent THEN d
      ELSE IF ~in.error
      THEN [counted EXCEPT !.clk.prevErr = FALSE,
                           !.clk.pwm = PwmNext(@, Clamped(in.adjust, n))]
      ELSE IF d.clk.prevErr
      THEN [xp_osi_clk_set_pid(counted, d.clk.pcrpid) EXCEPT !.clk.prevErr = FALSE]
      ELSE [counted EXCEPT !.clk.prevErr = TRUE]

pcr_stc_inthdl(d) == xp_osi_pcr_sync(d)

notify_primary(d, cmd, m, fn) == [d EXCEPT !.clk.pri = Changed(@, cmd, m, fn).t]

\* xp_osi_pcr_sync_start and _stop; XP_PCR_CONTINUOUS is never set.
xp_osi_pcr_sync_start(d) ==
  LET e == xp_osi_pcr_sync(d)
  IN  IF d.clk.registered THEN e
      ELSE [notify_primary(e, "ADD", {"STCL"}, "pcr_stc_inthdl")
              EXCEPT !.clk.registered = TRUE]
xp_osi_pcr_sync_stop(d) ==
  IF ~d.clk.registered THEN d
  ELSE [notify_primary(d, "DELETE", {"STCL"}, "pcr_stc_inthdl")
          EXCEPT !.clk.registered = FALSE]

-----------------------------------------------------------------------------
(* Events of the clock: a match of the STC with a value the application     *)
(* gave, a primary interrupt, and the first PCR, one of the front end's     *)
(* (status) interrupts.  DEMUX_GET_STC_EVENT sleeps until there is one.     *)

\* xp_osi_interrupt_status_notify: FEIMASK is the union of the table's masks.
notify_status(d, cmd, m, fn) ==
  LET r == Changed(d.clk.stat, cmd, m, fn)
  IN  IF r.ok THEN [d EXCEPT !.clk.stat = r.t, !.clk.feimask = MasksOf(r.t)] ELSE d

notify_stc(d, cmd) ==
  notify_status(notify_primary(d, cmd, {"STCC"}, "stc_interrupt"),
                cmd, {"FPCR"}, "first_pcr_interrupt")

xp_osi_clk_release_stc_event(d) ==
  IF ~d.clk.event THEN d ELSE [notify_stc(d, "DELETE") EXCEPT !.clk.event = FALSE]

\* The listeners before, if any, are taken off first.
xp_osi_clk_set_stc_event_notify(d) ==
  [notify_stc(xp_osi_clk_release_stc_event(d), "ADD") EXCEPT !.clk.event = TRUE]

\* stc_notify_fn is DemuxStcEvent: the event is kept and the sleeper woken.
DemuxStcEvent(d, ev) ==
  IF d.clk.event THEN [d EXCEPT !.clk.told = ev, !.clk.asleep = FALSE] ELSE d

\* The comparison is disarmed.
stc_interrupt(d) == DemuxStcEvent([d EXCEPT !.clk.armed = FALSE], "FIRED")

\* Looks for STCC among the status bits it is given, and never finds it.
first_pcr_interrupt(d, ev) == IF "STCC" \in ev THEN DemuxStcEvent(d, "PRESENT") ELSE d

\* The unmasked status bits are acknowledged, and their listeners run.
status_interrupt(d) ==
  LET ev == d.clk.festat \cap d.clk.feimask
      heard == \E i \in DOMAIN d.clk.stat : d.clk.stat[i].mask \cap ev # {}
      e == [d EXCEPT !.clk.festat = @ \ ev]
  IN  IF heard THEN first_pcr_interrupt(e, ev) ELSE e

-----------------------------------------------------------------------------
(* Changes of channel.                                                      *)

\* hardware_audio_cchan and hardware_video_cchan.
hardware_cchan(d, k, pid) ==
  [d EXCEPT !.cch.pending[k] = TRUE, !.cch.reg[k] = pid]

\* xp_osi_audio_cchan_auto and xp_osi_video_cchan_auto.  While a change is
\* pending the new one is issued too, and kept to be issued again.
cchan_auto(d, k, pid) ==
  IF ~d.cch.pending[k] THEN hardware_cchan(d, k, pid)
  ELSE [hardware_cchan(d, k, pid) EXCEPT !.cch.pending[k] = FALSE,
                                         !.cch.next = TRUE, !.cch.nextpid[k] = pid]

\* The changes kept are issued, audio first.
NextIssued(d) ==
  LET issue(e, k) == IF e.cch.nextpid[k] = NOPID THEN e
                     ELSE [hardware_cchan(e, k, e.cch.nextpid[k])
                             EXCEPT !.cch.nextpid[k] = NOPID]
  IN  [issue(issue(d, "audio"), "video") EXCEPT !.cch.next = FALSE]

aud_cc_done(d) ==
  LET e == [d EXCEPT !.dec.on["audio"] = FALSE, !.cch.pending["audio"] = FALSE]
  IN  xp_osi_pcr_sync(IF ~e.cch.pending["video"] /\ e.cch.next
                      THEN NextIssued(e) ELSE e)

\* A pending audio change that the decoder knows nothing of is over.
vid_cc_done(d) ==
  LET e == [d EXCEPT !.dec.on["video"] = FALSE, !.cch.pending["video"] = FALSE,
                     !.cch.pending["audio"] = @ /\ d.cch.changing["audio"]]
  IN  xp_osi_pcr_sync(IF ~e.cch.pending["audio"] /\ e.cch.next
                      THEN NextIssued(e) ELSE e)

\* xp_osi_pcr_cchan_auto.
pcr_cchan_auto(d, pid) ==
  LET e == xp_osi_clk_set_pid(d, pid)
  IN  IF pid = NOPID
      THEN [xp_osi_pcr_sync_stop(e) EXCEPT !.dec.on = [k \in MediaKinds |-> FALSE]]
      ELSE xp_osi_pcr_sync_start(e)

-----------------------------------------------------------------------------
(* Actions.                                                                 *)

\* The primary table after xp_osi_clk_start and xp_osi_cchan_init.
PrimaryTable ==
  LET a(t, m, fn) == add_mask(t, m, fn).t
  IN  a(a(a(a(<< >>, {"PCR", "STCL"}, "pcr_interrupt"),
            {"ACCC"}, "trans_aud_cc_done"),
          {"VCCC"}, "trans_vid_cc_done"),
        {"ACCC", "VCCC"}, "trans_audvid_cc_done")

ClkInit ==
  /\ clk = [pcrpid |-> NOPID, fresh |-> FALSE, recent |-> FALSE, stc |-> NOPID,
            npcrs |-> ClkGain, prevErr |-> FALSE, pwm |-> 0, ir |-> {},
            pri |-> PrimaryTable, registered |-> FALSE, event |-> FALSE,
            stat |-> << >>, festat |-> {}, feimask |-> {}, armed |-> FALSE,
            asleep |-> FALSE, told |-> "nothing"]
  /\ cch = [pending |-> [k \in MediaKinds |-> FALSE], next |-> FALSE,
            nextpid |-> [k \in MediaKinds |-> NOPID],
            reg |-> [k \in MediaKinds |-> NOPID],
            changing |-> [k \in MediaKinds |-> FALSE],
            pid |-> [k \in MediaKinds |-> NOPID]]
  /\ dec = [on |-> [k \in MediaKinds |-> FALSE], busy |-> FALSE,
            stc |-> [k \in MediaKinds |-> NOPID]]
  /\ clkEnv \in ClkEnvs
  /\ ccLast = [k \in MediaKinds |-> NOPID]

ClkState == [clk |-> clk, cch |-> cch, dec |-> dec]
ClkDo(d) == /\ \E r \in {d} : clk' = r.clk /\ cch' = r.cch /\ dec' = r.dec
            /\ UNCHANGED clkEnv

PcrRequest(pid) ==
  /\ "pcr" \in clkEnv \/ ("first" \in clkEnv /\ clk.pcrpid = NOPID /\ pid # NOPID)
  /\ ClkDo(pcr_cchan_auto(ClkState, pid))
  /\ UNCHANGED ccLast

MediaRequest(k, pid) ==
  /\ k \in clkEnv
  /\ ClkDo(cchan_auto(ClkState, k, pid))
  /\ ccLast' = [ccLast EXCEPT ![k] = pid]

\* DEMUX_REGISTER_STC and DEMUX_RELEASE_STC_EVENT: the comparison stays armed.
StcEvent(on) ==
  /\ "event" \in clkEnv
  /\ ClkDo(IF on THEN [xp_osi_clk_set_stc_event_notify(ClkState) EXCEPT !.clk.armed = TRUE]
           ELSE xp_osi_clk_release_stc_event(ClkState))
  /\ UNCHANGED ccLast

\* DEMUX_GET_STC_EVENT: an event of before is not remembered.
GetStcEvent ==
  /\ "match" \in clkEnv /\ clk.event /\ ~clk.asleep
  /\ ClkDo([ClkState EXCEPT !.clk.asleep = TRUE])
  /\ UNCHANGED ccLast

\* The STC matches; the primary interrupt is let in while it has a listener.
StcMatches ==
  /\ "match" \in clkEnv /\ clk.armed /\ clk.event /\ "STCC" \notin clk.ir
  /\ ClkDo([ClkState EXCEPT !.clk.ir = @ \cup {"STCC"}])
  /\ UNCHANGED ccLast

\* The front end has an unmasked event.
FrontEndRaises ==
  /\ clk.festat \cap clk.feimask # {} /\ "FES" \notin clk.ir
  /\ ClkDo([ClkState EXCEPT !.clk.ir = @ \cup {"FES"}])
  /\ UNCHANGED ccLast

\* A PCR of the PID arrives: the first one loads the STC, any may ask for the
\* oscillator to be steered.
PcrArrives ==
  /\ clk.pcrpid # NOPID
  /\ ClkDo([ClkState EXCEPT !.clk.ir = @ \cup (IF clk.fresh THEN {"STCL"} ELSE {"PCR"}),
                            !.clk.festat = @ \cup (IF clk.fresh /\ "match" \in clkEnv THEN {"FPCR"} ELSE {}),
                            !.clk.fresh = FALSE, !.clk.recent = TRUE,
                            !.clk.stc = clk.pcrpid])
  /\ UNCHANGED ccLast

\* No PCR came for so long that the last one no longer counts as recent (far
\* longer than an interrupt waits).
PcrCeases ==
  /\ "silence" \in clkEnv /\ clk.ir = {}
  /\ ClkDo([ClkState EXCEPT !.clk.recent = FALSE])
  /\ UNCHANGED ccLast

AudioBusy == /\ "busy" \in clkEnv
             /\ ClkDo([ClkState EXCEPT !.dec.busy = ~@])
             /\ UNCHANGED ccLast

\* The transport carries out a change: the channel is on its new PID, and the
\* transport and the decoder each raise an interrupt.
HwChange(k) ==
  /\ cch.reg[k] # NOPID /\ ~cch.changing[k]
  /\ ClkDo([ClkState EXCEPT !.cch.pid[k] = cch.reg[k], !.cch.reg[k] = NOPID,
                            !.cch.changing[k] = TRUE,
                            !.clk.ir = @ \cup {IF k = "audio" THEN "ACCC" ELSE "VCCC"}])
  /\ UNCHANGED ccLast

\* The decoders' interrupts.
DecoderInterrupt(k) ==
  /\ cch.changing[k]
  /\ LET d == [ClkState EXCEPT !.cch.changing[k] = FALSE]
     IN  ClkDo(IF k = "audio" THEN aud_cc_done(d) ELSE vid_cc_done(d))
  /\ UNCHANGED ccLast

\* What a listener of the primary interrupts does.
RunListener(d, fn, ev, in) ==
  CASE fn = "pcr_interrupt" -> pcr_interrupt(d, ev, in)
    [] fn = "pcr_stc_inthdl" -> pcr_stc_inthdl(d)
    [] fn = "trans_audvid_cc_done" -> xp_osi_pcr_sync(d)
    [] fn = "stc_interrupt" -> stc_interrupt(d)
    [] OTHER -> d

\* xp_osi_interrupt: the listeners of the events raised, in table order, and
\* the front end's.  The STC was just loaded from the PCR in an STCL interrupt:
\* no error there.
PrimaryInterrupt(in) ==
  LET ev == clk.ir
      hit == SelectSeq(clk.pri, LAMBDA s : s.mask \cap ev # {})
      d == [ClkState EXCEPT !.clk.ir = {}]
      done[i \in 0 .. Len(hit)] ==
        IF i = 0 THEN d ELSE RunListener(done[i - 1], hit[i].fn, ev, in)
  IN  /\ ev # {}
      /\ in.error => "errors" \in clkEnv /\ "STCL" \notin ev
      /\ in.consistent \/ "inconsistent" \in clkEnv
      /\ in.adjust # 0 => "pwm" \in clkEnv
      /\ ClkDo(IF "FES" \in ev THEN status_interrupt(done[Len(hit)]) ELSE done[Len(hit)])
      /\ UNCHANGED ccLast

ClkRead(c, e, a) == [consistent |-> c, error |-> e, adjust |-> a]
ClkInputs == {ClkRead(TRUE, FALSE, a) : a \in ClkAdjusts}
             \cup {ClkRead(TRUE, TRUE, 0), ClkRead(FALSE, FALSE, 0)}

ClkNext ==
  \/ \E pid \in ClkPids \cup {NOPID} : PcrRequest(pid)
  \/ \E k \in MediaKinds, pid \in ClkPids : MediaRequest(k, pid)
  \/ \E on \in BOOLEAN : StcEvent(on)
  \/ GetStcEvent \/ StcMatches \/ FrontEndRaises
  \/ PcrArrives \/ PcrCeases \/ AudioBusy
  \/ \E k \in MediaKinds : HwChange(k) \/ DecoderInterrupt(k)
  \/ \E in \in ClkInputs : PrimaryInterrupt(in)

\* While the clock runs (run), PCRs keep coming and interrupts are taken.
ClkFairness ==
  /\ WF_clkVars(PcrArrives)
  /\ WF_clkVars(\E in \in ClkInputs : PrimaryInterrupt(in))

ClkSpec == ClkInit /\ [][ClkNext]_clkVars /\ ClkFairness

-----------------------------------------------------------------------------
(* Properties.                                                              *)

\* The oscillator is never jerked: a PCR moves the pulse width, read as the
\* signed number it is, by no more than the clamp, and never through the end
\* of its range to the other one (pcr_interrupt).
PwmMovesSlowly ==
  [][LET step == PwmSigned(clk'.pwm) - PwmSigned(clk.pwm)
     IN  step <= ClkLoadClamp /\ step >= -ClkLoadClamp]_clkVars

\* Once a PCR PID is set the video decoder is given the clock of that PID and
\* synchronises to it, unless another PID is set: the STC is loaded once, and
\* in that one interrupt pcr_interrupt has to run before pcr_stc_inthdl asks
\* it whether the STC is valid, whatever listeners came and went.
VideoFollowsPcr ==
  \A pid \in ClkPids :
    clk.pcrpid = pid ~> \/ dec.stc["video"] = pid /\ dec.on["video"]
                        \/ clk.pcrpid # pid

\* When no change is outstanding, the decoders are on the PIDs asked for last
\* (the request that finds a change pending is to wait for it).
LastRequestWins ==
  \A k \in MediaKinds :
    cch.reg[k] = NOPID /\ ~cch.changing[k] => cch.pid[k] = ccLast[k]

\* Whoever registers for the clock's events again and again, or releases them,
\* with or without success, their two listeners come and go together, each
\* once, and the front end's mask is its table's.
StcListenersAgree ==
  /\ clk.feimask = MasksOf(clk.stat)
  /\ Cardinality(XcFound(clk.pri, {"STCC"}, "stc_interrupt")) = (IF clk.event THEN 1 ELSE 0)
  /\ Cardinality(XcFound(clk.stat, {"FPCR"}, "first_pcr_interrupt")) = (IF clk.event THEN 1 ELSE 0)

\* The clock, those who listen to it and the decoder go where the PCR leads.
ClockFollows == PwmMovesSlowly /\ VideoFollowsPcr /\ []StcListenersAgree
=============================================================================
