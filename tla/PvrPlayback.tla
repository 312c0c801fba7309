----------------------------- MODULE PvrPlayback -----------------------------
(***************************************************************************)
(* The configuration of transport 0 (xp_osi.c) and the playback of         *)
(* recorded streams into it (pvr_osd.c, pvr_osi.c), which borrows its      *)
(* input and its CPM bits.                                                 *)
(*                                                                         *)
(* Playback is a ping-pong: write() starts the DMA of the half filled by   *)
(* the previous chunk, copies the next chunk into the other half and       *)
(* sleeps until the DMA is complete.  A chunk is a number; the transport's *)
(* intake is the sequence of chunks the DMA has carried.  Calls are atomic *)
(* up to where they sleep.                                                 *)
(***************************************************************************)
EXTENDS Integers, Sequences, FiniteSets, SequencesExt

CONSTANTS
  PvrSources,   \* the inputs other than the PVR that the chip offers
  PvrChunks,    \* bound on the chunks written in a behaviour
  PvrSlots,     \* PVRBUFS_MAX
  PvrMms,       \* address spaces that share the descriptor
  PvrBlocks,    \* blocks of physical memory
  PvrEnvs       \* what happens in a behaviour, see PvrNext

ASSUME PvrAssumption ==
  /\ PvrChunks \in Nat /\ PvrSlots \in Nat \ {0}
  /\ "CI0" \in PvrSources /\ "PVR" \notin PvrSources
  /\ "none" \notin PvrMms /\ PvrBlocks \subseteq Nat \ {0}

VARIABLES
  cfg,      \* [up, reg, sw, ctl]: initialised, registers, xp0_configv, ulSavedCtlReg
  pvr,      \* the PVR driver's state
  dma,      \* the DMA engine: [on, at, torn, to, done]
  writer,   \* the process in pvr_osd_write or an ioctl that sleeps
  intake,   \* the chunks carried so far
  pvrHist,  \* what was asked, written and given up, and the memory in use
  pvrEnv

pvrVars == <<cfg, pvr, dma, writer, intake, pvrHist, pvrEnv>>

Halves == {0, 1}
NoBlock == 0
Torn == 0
NoSlot == [mm |-> "none", phys |-> NoBlock]

-----------------------------------------------------------------------------
(* The configuration.                                                      *)

xp0_configv_reset == [insel |-> "CI0", acpm |-> 0, vcpm |-> 0, pbe |-> 0, senbl |-> 1]

\* Every field is read back but senbl.
trans_get_configure(c) ==
  [c EXCEPT !.sw = [c.reg EXCEPT !.senbl = c.sw.senbl]]

\* All registers are written with the stream disabled, then it is enabled
\* again as configv says.
trans_set_configure(c) == [c EXCEPT !.reg = c.sw]

xp_osi_get_config_values(c) == trans_get_configure(c)
xp_osi_set_config_values(c, v) == trans_set_configure([c EXCEPT !.sw = v])

\* A software reset (done: it finished within 200 polls).
trans_reset(c, done) ==
  LET r == [c EXCEPT !.sw = xp0_configv_reset]
  IN  IF done THEN trans_set_configure(r)
      ELSE [r EXCEPT !.reg.senbl = 0, !.reg.pbe = 0]

\* The reset for recording whole transport streams leaves CONTROL1 at 0.
xp_osi_set_parse_bypass_mode(c) == [c EXCEPT !.reg.senbl = 0, !.reg.pbe = 0]
xp_osi_start_parse_bypass(c) ==
  [c EXCEPT !.ctl = [senbl |-> c.reg.senbl, pbe |-> c.reg.pbe],
            !.reg.senbl = 1, !.reg.pbe = 1]
xp_osi_stop_parse_bypass(c) ==
  [c EXCEPT !.reg.senbl = c.ctl.senbl, !.reg.pbe = c.ctl.pbe]

\* config3_save is part of the PVR driver: deconfig leaves a source chosen in
\* the meantime alone, and everything else with it.
pvr_osi_playback_config(c) == [c EXCEPT !.reg.insel = "PVR"]
pvr_osi_playback_deconfig(c, saved) ==
  IF c.reg.insel # "PVR" THEN c ELSE [c EXCEPT !.reg.insel = saved]

pvr_osi_flush(c) == [c EXCEPT !.reg.acpm = 1, !.reg.vcpm = 1]
pvr_osi_unflush(c) == [c EXCEPT !.reg.acpm = 0, !.reg.vcpm = 0]

-----------------------------------------------------------------------------
(* Actions.  A process in a call that does not sleep is not seen.          *)

PvrIdle == writer = [at |-> "user", left |-> 0]
Now(at, left) == writer' = [at |-> at, left |-> left]

Keep(unchanged) == UNCHANGED <<unchanged, pvrEnv>>

PvrInit ==
  /\ cfg = [up |-> FALSE, reg |-> xp0_configv_reset, sw |-> xp0_configv_reset,
            ctl |-> [senbl |-> 0, pbe |-> 0]]
  /\ pvr = [open |-> FALSE, status |-> "STOP", saved |-> "CI0", hMem |-> NoBlock,
            pingpong |-> 0, first_time |-> 0, last |-> 1,
            half |-> [h \in Halves |-> Torn], bufs |-> [i \in 1..PvrSlots |-> NoSlot]]
  /\ dma = [on |-> FALSE, at |-> 1, torn |-> FALSE, carries |-> Torn, complete |-> FALSE]
  /\ writer = [at |-> "user", left |-> 0]
  /\ intake = << >>
  /\ pvrHist = [asked |-> xp0_configv_reset, n |-> 0, dropped |-> {}, mem |-> {},
                lost |-> {}, signalled |-> FALSE, plays |-> FALSE]
  /\ pvrEnv \in PvrEnvs

\* The first open of the demultiplexer initialises it (xp_osi_init).
xp_osi_init(done) ==
  /\ ~pvr.open
  /\ cfg' = [trans_reset(cfg, done) EXCEPT !.up = done]
  /\ pvrHist' = [pvrHist EXCEPT !.asked = xp0_configv_reset]
  /\ Keep(<<pvr, dma, writer, intake>>)

Configured(field, v) ==
  /\ "config" \in pvrEnv /\ cfg.up
  /\ LET c == xp_osi_get_config_values(cfg)
     IN  cfg' = xp_osi_set_config_values(c, [c.sw EXCEPT ![field] = v])
  /\ pvrHist' = [pvrHist EXCEPT !.asked[field] = v, !.plays = @ /\ field # "insel"]
  /\ Keep(<<pvr, dma, writer, intake>>)

DemuxSelectSource(s) == Configured("insel", s)
DemuxSetACPM(v) == Configured("acpm", v)
DemuxSetVCPM(v) == Configured("vcpm", v)

\* DemuxFilterTSSet, and the start and stop of such a filter.
Bypass(op) ==
  /\ "ts" \in pvrEnv /\ cfg.up
  /\ cfg' = CASE op = "set" -> xp_osi_set_parse_bypass_mode(cfg)
              [] op = "start" -> xp_osi_start_parse_bypass(cfg)
              [] op = "stop" -> xp_osi_stop_parse_bypass(cfg)
  /\ Keep(<<pvr, dma, writer, intake, pvrHist>>)

FreeMemory == PvrBlocks \ pvrHist.mem

\* (The device is opened by applications that have the demultiplexer open.)
\* A chunk that waits in its half is given up when the first one starts anew.
PendingChunk == IF pvr.first_time = 1 THEN {pvr.half[pvr.last]} ELSE {}

pvr_osd_open ==
  /\ ~pvr.open /\ cfg.up
  /\ \E b \in FreeMemory, irq \in BOOLEAN :
       /\ irq \/ "badirq" \in pvrEnv
       /\ pvr' = IF irq
                 THEN [pvr EXCEPT !.open = TRUE, !.status = "READY", !.first_time = 0,
                         !.hMem = b, !.saved = cfg.reg.insel,
                         !.half = [h \in Halves |-> Torn],
                         !.bufs = [i \in 1..PvrSlots |-> NoSlot]]
                 ELSE [pvr EXCEPT !.hMem = b]
       /\ pvrHist' = [pvrHist EXCEPT !.mem = @ \cup {b}, !.plays = irq,
                                     !.lost = IF irq THEN @ ELSE @ \cup {b},
                                     !.dropped = IF irq THEN @ \cup PendingChunk ELSE @]
       /\ cfg' = IF irq THEN pvr_osi_playback_config(cfg) ELSE cfg
  /\ Keep(<<dma, writer, intake>>)

\* pvr_free_all_buffers
AllBuffers == {pvr.bufs[i].phys : i \in 1..PvrSlots} \ {NoBlock}

Released(b) == {b} \cup AllBuffers

\* The DMA is stopped only if the mode was set before.
pvr_osd_release ==
  /\ pvr.open /\ PvrIdle
  /\ dma' = [dma EXCEPT !.on = @ /\ pvr.status # "START"]
  /\ cfg' = pvr_osi_playback_deconfig(cfg, pvr.saved)
  /\ pvrHist' = [pvrHist EXCEPT !.mem = @ \ Released(pvr.hMem)]
  /\ pvr' = [pvr EXCEPT !.open = FALSE, !.status = "STOP",
                        !.bufs = [i \in 1..PvrSlots |-> NoSlot]]
  /\ Keep(<<writer, intake>>)

\* PVR_SET_MODE and PVR_STOP.
pvr_set_mode ==
  /\ pvr.open
  /\ pvr' = [pvr EXCEPT !.status = "START"]
  /\ Keep(<<cfg, dma, writer, intake, pvrHist>>)
pvr_stop ==
  /\ pvr.open /\ PvrIdle /\ pvr.status = "START"
  /\ pvr' = [pvr EXCEPT !.status = "STOP"]
  /\ dma' = [dma EXCEPT !.on = FALSE]
  /\ Keep(<<cfg, writer, intake, pvrHist>>)

\* PVR_BUFF_FLUSH sleeps between the two changes of CONFIG2.
FlushBegin ==
  /\ "flush" \in pvrEnv /\ pvr.open /\ PvrIdle
  /\ cfg' = pvr_osi_flush(cfg)
  /\ Now("flush", 0)
  /\ Keep(<<pvr, dma, intake, pvrHist>>)
FlushEnd ==
  /\ writer.at = "flush"
  /\ cfg' = pvr_osi_unflush(cfg)
  /\ pvrHist' = [pvrHist EXCEPT !.dropped = @ \cup PendingChunk]
  /\ pvr' = [pvr EXCEPT !.first_time = 0]
  /\ Now("user", 0)
  /\ Keep(<<dma, intake>>)

\* pvr_osi_set_dma and pvr_osi_playback_start for what is in memory at "at".
Started(at, chunk) ==
  [dma EXCEPT !.on = TRUE, !.at = at, !.carries = chunk, !.complete = FALSE,
              !.torn = FALSE]

pvr_osd_write(n) ==
  /\ "write" \in pvrEnv /\ pvr.open /\ PvrIdle /\ pvrHist.n + n <= PvrChunks
  /\ Now("write", n)
  /\ Keep(<<cfg, pvr, dma, intake, pvrHist>>)

\* As below, the half still being carried being filled.
NextHalf_same == pvr.last

NextHalf == IF pvr.pingpong = 0 \/ pvr.first_time = 0 THEN 0 ELSE 1

\* One turn of the loop: the DMA is started on the half filled before, and
\* the next chunk goes to the other one.
WriteChunk ==
  /\ writer.at = "write" /\ writer.left > 0
  /\ LET h == NextHalf
         n == pvrHist.n + 1
         start == pvr.first_time = 1
     IN  /\ pvr' = [pvr EXCEPT !.pingpong = 1 - h, !.first_time = 1, !.last = h,
                               !.half[h] = n]
         /\ dma' = LET d == IF start THEN Started(pvr.last, pvr.half[pvr.last])
                            ELSE [dma EXCEPT !.at = pvr.last]
                   IN  [d EXCEPT !.torn = @ \/ (d.on /\ d.at = h)]
         /\ pvrHist' = [pvrHist EXCEPT !.n = n]
         /\ Now(IF start THEN "wait" ELSE "write", writer.left - 1)
  /\ Keep(<<cfg, intake>>)

\* The test of __dma_complete and the sleep are one step: interrupts are off.
WriteWait ==
  /\ writer.at = "wait"
  /\ Now(IF dma.complete THEN "write" ELSE "asleep", writer.left)
  /\ Keep(<<cfg, pvr, dma, intake, pvrHist>>)
WriteSignal ==
  /\ "signal" \in pvrEnv /\ writer.at = "asleep"
  /\ Now("write", writer.left)
  /\ pvrHist' = [pvrHist EXCEPT !.signalled = TRUE]
  /\ Keep(<<cfg, pvr, dma, intake>>)
WriteReturns ==
  /\ writer.at = "write" /\ writer.left = 0
  /\ Now("user", 0)
  /\ Keep(<<cfg, pvr, dma, intake, pvrHist>>)

\* pvr_write_buffer: the DMA reads the application's own buffer.
pvr_write_buffer(mm, i) ==
  /\ "buffer" \in pvrEnv /\ pvr.open /\ PvrIdle /\ pvrHist.n < PvrChunks
  /\ pvr.bufs[i].mm = mm
  /\ dma' = Started(2, pvrHist.n + 1)
  /\ pvrHist' = [pvrHist EXCEPT !.n = @ + 1]
  /\ Now("wait", 0)
  /\ Keep(<<cfg, pvr, intake>>)

\* pvr_device_mmap fills the first free slot, or returns without memory.
pvr_device_mmap(mm) ==
  /\ "buffer" \in pvrEnv /\ pvr.open /\ PvrIdle
  /\ \E b \in FreeMemory, i \in 1..PvrSlots :
       /\ pvr.bufs[i] = NoSlot /\ \A j \in 1..(i - 1) : pvr.bufs[j] # NoSlot
       /\ pvr' = [pvr EXCEPT !.bufs[i] = [mm |-> mm, phys |-> b]]
       /\ pvrHist' = [pvrHist EXCEPT !.mem = @ \cup {b}]
  /\ Keep(<<cfg, dma, writer, intake>>)

\* PVR_ALLOCATE_BUFFER maps the device into the caller.
pvr_allocate_buffer(mm) == pvr_device_mmap(mm)

pvr_free_buffer(mm, i) ==
  /\ pvr.open /\ PvrIdle /\ pvr.bufs[i].mm = mm
  /\ pvr' = [pvr EXCEPT !.bufs[i] = NoSlot]
  /\ pvrHist' = [pvrHist EXCEPT !.mem = @ \ {pvr.bufs[i].phys}]
  /\ Keep(<<cfg, dma, writer, intake>>)

\* The DMA is done: the transport has the chunk, and pvr_isr wakes the writer.
pvr_isr ==
  /\ dma.on
  /\ dma' = [dma EXCEPT !.on = FALSE, !.complete = TRUE]
  /\ intake' = Append(intake, IF dma.torn THEN Torn ELSE dma.carries)
  /\ writer' = IF writer.at = "asleep" THEN [writer EXCEPT !.at = "write"] ELSE writer
  /\ Keep(<<cfg, pvr, pvrHist>>)

PvrNext ==
  \/ \E done \in BOOLEAN : xp_osi_init(done)
  \/ \E s \in PvrSources : DemuxSelectSource(s)
  \/ \E v \in {0, 1} : DemuxSetACPM(v) \/ DemuxSetVCPM(v)
  \/ \E op \in {"set", "start", "stop"} : Bypass(op)
  \/ pvr_osd_open \/ pvr_osd_release \/ pvr_set_mode \/ pvr_stop
  \/ FlushBegin \/ FlushEnd
  \/ \E n \in 1..3 : pvr_osd_write(n)
  \/ WriteChunk \/ WriteWait \/ WriteSignal \/ WriteReturns
  \/ \E mm \in PvrMms : \/ pvr_allocate_buffer(mm)
                        \/ \E i \in 1..PvrSlots : pvr_write_buffer(mm, i)
                                                   \/ pvr_free_buffer(mm, i)
  \/ pvr_isr

PvrSpec == PvrInit /\ [][PvrNext]_pvrVars

-----------------------------------------------------------------------------
(* Properties.                                                             *)

\* The transport takes in the chunks in the order they were written, each
\* once and whole, and between two calls only the one that waits in its half
\* is missing, or was given up with a flush or a close (pvr_osd_write).  A
\* signal ends this: the wait it cuts short is not taken up again.
PlaysInOrder ==
  ~pvrHist.signalled =>
    /\ \A i \in DOMAIN intake : intake[i] # Torn
    /\ \A i, j \in DOMAIN intake : i < j => intake[i] < intake[j]
    /\ PvrIdle => 1..pvrHist.n \ (ToSet(intake) \cup pvrHist.dropped) = PendingChunk

\* The registers hold what applications asked for, whatever the two drivers
\* did to them in between: the input, which is the PVR from its open to its
\* close or the next choice of a source, and the CPM bits outside a flush
\* (DemuxSelectSource, DemuxSetACPM, pvr_osi_playback_deconfig).
ConfigAsAsked ==
  cfg.up => /\ cfg.reg.insel = IF pvr.open /\ pvrHist.plays THEN "PVR"
                               ELSE pvrHist.asked.insel
            /\ writer.at # "flush" => /\ cfg.reg.acpm = pvrHist.asked.acpm
                                      /\ cfg.reg.vcpm = pvrHist.asked.vcpm

\* Physical memory is given back once and only by its owner: the driver holds
\* the block of an open device and those of its buffers (pvr_osd_release,
\* pvr_free_buffer), what an open that failed forgot aside, and no DMA reads
\* the memory of a closed device.
PvrMemoryConserved ==
  /\ pvrHist.mem = AllBuffers \cup (IF pvr.open THEN {pvr.hMem} ELSE {}) \cup pvrHist.lost
  /\ dma.on /\ ~pvrHist.signalled => pvr.open

\* Playback as the application asked for it, from memory that is there.
PlaybackAsAsked == PlaysInOrder /\ ConfigAsAsked /\ PvrMemoryConserved
=============================================================================
