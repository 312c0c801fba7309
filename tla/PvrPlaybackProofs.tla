-------------------------- MODULE PvrPlaybackProofs --------------------------
(***************************************************************************)
(* Playback is as the application asked for it (PvrPlayback), for every     *)
(* number of chunks, slots and blocks.                                     *)
(*                                                                         *)
(* PlaybackAsAsked is not inductive.  The inductive invariant adds where a  *)
(* chunk can be: in the transport's intake, with the DMA, in the half that  *)
(* waits, or given up; that the half filled next is never the one the DMA   *)
(* reads; what the driver saved of the configuration while it borrows it;   *)
(* and that no block of memory has two owners.                             *)
(***************************************************************************)
EXTENDS PvrPlayback, TLAPS

\* A device is played to with write() or with mapped buffers, and CPM bits are
\* not set around a flush: pvr_write_buffer does not look for the chunk that
\* waits in its half, pvr_osi_unflush sets the bits to 0 whatever they were.
OneWayToPlay ==
  \A E \in PvrEnvs : ~({"write", "buffer"} \subseteq E) /\ ~({"flush", "config"} \subseteq E)

-----------------------------------------------------------------------------
(* The inductive invariant.                                                *)

Bits == {0, 1}
Inputs == PvrSources \cup {"PVR"}
RegValues == [insel : Inputs, acpm : Bits, vcpm : Bits, pbe : Bits, senbl : Bits]
SlotValues == [mm : PvrMms \cup {"none"}, phys : PvrBlocks \cup {NoBlock}]

PvrTypeOK ==
  /\ cfg \in [up : BOOLEAN, reg : RegValues, sw : RegValues, ctl : [senbl : Bits, pbe : Bits]]
  /\ pvr \in [open : BOOLEAN, status : {"STOP", "READY", "START"}, saved : Inputs,
              hMem : PvrBlocks \cup {NoBlock}, pingpong : Halves, first_time : Bits,
              last : Halves, half : [Halves -> Nat], bufs : [1..PvrSlots -> SlotValues]]
  /\ dma \in [on : BOOLEAN, at : 0..2, torn : BOOLEAN, carries : Nat, complete : BOOLEAN]
  /\ writer \in [at : {"user", "flush", "write", "wait", "asleep"}, left : Nat]
  /\ intake \in Seq(Nat)
  /\ pvrHist \in [asked : RegValues, n : Nat, dropped : SUBSET Nat, mem : SUBSET PvrBlocks,
                  lost : SUBSET PvrBlocks, signalled : BOOLEAN, plays : BOOLEAN]
  /\ pvrEnv \in PvrEnvs

\* A process is in a call only on an open device, of a demultiplexer that is
\* initialised.
Inside ==
  /\ pvr.open => cfg.up
  /\ writer.at # "user" => pvr.open
  /\ writer.at = "user" => writer.left = 0
  /\ writer.at = "flush" => "flush" \in pvrEnv
  /\ writer.left > 0 => "write" \in pvrEnv

\* No block has two owners, and a closed device has no buffers.
OwnersApart ==
  /\ pvrHist.mem = AllBuffers \cup (IF pvr.open THEN {pvr.hMem} ELSE {}) \cup pvrHist.lost
  /\ \A i \in 1..PvrSlots : pvr.bufs[i].mm = "none" <=> pvr.bufs[i].phys = NoBlock
  /\ \A i, j \in 1..PvrSlots :
       pvr.bufs[i].phys = pvr.bufs[j].phys /\ pvr.bufs[i].phys # NoBlock => i = j
  /\ \A i \in 1..PvrSlots : pvr.bufs[i].phys \notin pvrHist.lost
  /\ pvr.open => /\ pvr.hMem \notin pvrHist.lost
                 /\ \A i \in 1..PvrSlots : pvr.bufs[i].phys # pvr.hMem
  /\ ~pvr.open => \A i \in 1..PvrSlots : pvr.bufs[i] = NoSlot

\* What the driver saved is what was asked for, as long as it has the input.
Borrowed ==
  /\ ConfigAsAsked
  /\ pvrHist.asked.insel \in PvrSources
  /\ pvr.open /\ pvrHist.plays => pvr.saved = pvrHist.asked.insel
  /\ "config" \notin pvrEnv => pvrHist.asked.acpm = 0 /\ pvrHist.asked.vcpm = 0

\* The chunk the DMA carries.
Carried == IF dma.on THEN {dma.carries} ELSE {}

\* The two halves take turns, and the DMA runs only under the writer's eyes.
TakesTurns ==
  /\ pvr.first_time = 1 => /\ pvr.pingpong = 1 - pvr.last
                           /\ pvr.half[pvr.last] = pvrHist.n
                           /\ "write" \in pvrEnv
  /\ ~pvrHist.signalled =>
       /\ ~dma.torn
       /\ dma.on => writer.at \in {"wait", "asleep"} /\ ~dma.complete
       /\ writer.at = "asleep" => dma.on
       /\ writer.at = "wait" => dma.on \/ dma.complete

\* Where the chunks are.
ChunksInOrder ==
  /\ pvrHist.dropped \subseteq 1..pvrHist.n
  /\ PendingChunk \subseteq 1..pvrHist.n
  /\ ~pvrHist.signalled =>
       /\ \A i \in DOMAIN intake : intake[i] \in 1..pvrHist.n
       /\ \A i, j \in DOMAIN intake : i < j => intake[i] < intake[j]
       /\ Carried \subseteq 1..pvrHist.n
       /\ \A c \in Carried, i \in DOMAIN intake : intake[i] < c
       /\ \A c \in PendingChunk, i \in DOMAIN intake : intake[i] < c
       /\ \A c \in Carried, p \in PendingChunk : c < p
       /\ 1..pvrHist.n \ (ToSet(intake) \cup pvrHist.dropped) = Carried \cup PendingChunk

IInv ==
  /\ PvrTypeOK /\ Inside /\ OwnersApart /\ Borrowed /\ TakesTurns /\ ChunksInOrder

-----------------------------------------------------------------------------
(* What a step leaves alone, it cannot spoil.                              *)

LEMMA OwnersSame ==
  ASSUME OwnersApart, pvr'.bufs = pvr.bufs, pvr'.open = pvr.open, pvr'.hMem = pvr.hMem,
         pvrHist'.mem = pvrHist.mem, pvrHist'.lost = pvrHist.lost
  PROVE  OwnersApart'
BY DEF OwnersApart, AllBuffers

LEMMA BorrowedSame ==
  ASSUME Borrowed, cfg' = cfg, pvr'.open = pvr.open, pvr'.saved = pvr.saved,
         writer.at = "flush" <=> writer'.at = "flush",
         pvrHist'.plays = pvrHist.plays, pvrHist'.asked = pvrHist.asked, pvrEnv' = pvrEnv
  PROVE  Borrowed'
BY DEF Borrowed, ConfigAsAsked

LEMMA ChunksSame ==
  ASSUME ChunksInOrder, intake' = intake, dma'.on = dma.on, dma'.carries = dma.carries,
         pvr'.first_time = pvr.first_time, pvr'.half = pvr.half, pvr'.last = pvr.last,
         pvrHist'.n = pvrHist.n, pvrHist'.dropped = pvrHist.dropped,
         pvrHist'.signalled = pvrHist.signalled
  PROVE  ChunksInOrder'
BY DEF ChunksInOrder, Carried, PendingChunk

LEMMA TurnsSame ==
  ASSUME TakesTurns, dma'.on = dma.on, dma'.torn = dma.torn, dma'.complete = dma.complete,
         writer'.at = writer.at,
         pvr'.first_time = pvr.first_time, pvr'.half = pvr.half, pvr'.last = pvr.last,
         pvr'.pingpong = pvr.pingpong,
         pvrHist'.n = pvrHist.n, pvrHist'.signalled = pvrHist.signalled, pvrEnv' = pvrEnv
  PROVE  TakesTurns'
BY DEF TakesTurns

-----------------------------------------------------------------------------
(* The configuration.                                                      *)

LEMMA InitInv == PvrInit => IInv
<1> SUFFICES ASSUME PvrInit PROVE IInv
  OBVIOUS
<1>1. PvrTypeOK
  BY PvrAssumption DEF PvrInit, PvrTypeOK, RegValues, Bits, Inputs, SlotValues, NoSlot, NoBlock,
     Halves, Torn, xp0_configv_reset
<1>2. Inside
  BY DEF PvrInit, Inside
<1>3. OwnersApart
  BY DEF PvrInit, OwnersApart, AllBuffers, NoSlot, NoBlock
<1>4. Borrowed
  BY PvrAssumption DEF PvrInit, Borrowed, ConfigAsAsked, xp0_configv_reset
<1>5. TakesTurns
  BY DEF PvrInit, TakesTurns
<1>6. ChunksInOrder
  BY DEF PvrInit, ChunksInOrder, Carried, PendingChunk, ToSet
<1> QED
  BY <1>1, <1>2, <1>3, <1>4, <1>5, <1>6 DEF IInv

LEMMA KeepsInit ==
  ASSUME IInv, NEW done \in BOOLEAN, xp_osi_init(done)
  PROVE  IInv'
<1> USE DEF IInv
<1>1. /\ cfg' = [trans_reset(cfg, done) EXCEPT !.up = done]
      /\ pvrHist' = [pvrHist EXCEPT !.asked = xp0_configv_reset]
      /\ ~pvr.open
      /\ pvr' = pvr /\ dma' = dma /\ writer' = writer /\ intake' = intake /\ pvrEnv' = pvrEnv
  BY DEF xp_osi_init, Keep
<1>2. xp0_configv_reset \in RegValues
  BY PvrAssumption DEF xp0_configv_reset, RegValues, Bits, Inputs
<1>3. PvrTypeOK'
  BY <1>1, <1>2 DEF PvrTypeOK, trans_reset, trans_set_configure, RegValues, Bits
<1>4. Inside'
  BY <1>1 DEF Inside
<1>5. OwnersApart'
  BY <1>1, OwnersSame DEF PvrTypeOK
<1>6. Borrowed'
  BY <1>1, PvrAssumption DEF Borrowed, ConfigAsAsked, PvrTypeOK, trans_reset, trans_set_configure,
     xp0_configv_reset
<1>7. TakesTurns'
  BY <1>1, TurnsSame DEF PvrTypeOK
<1>8. ChunksInOrder'
  BY <1>1, ChunksSame DEF PvrTypeOK
<1> QED
  BY <1>3, <1>4, <1>5, <1>6, <1>7, <1>8

LEMMA KeepsConfigured ==
  ASSUME IInv, OneWayToPlay, NEW field \in {"insel", "acpm", "vcpm"}, NEW v,
         field = "insel" => v \in PvrSources, field # "insel" => v \in Bits,
         Configured(field, v)
  PROVE  IInv'
<1> USE DEF IInv
<1> PICK c : c = trans_get_configure(cfg)
  OBVIOUS
<1>1. /\ cfg.up /\ "config" \in pvrEnv
      /\ cfg' = xp_osi_set_config_values(c, [c.sw EXCEPT ![field] = v])
      /\ pvrHist' = [pvrHist EXCEPT !.asked[field] = v, !.plays = @ /\ field # "insel"]
      /\ pvr' = pvr /\ dma' = dma /\ writer' = writer /\ intake' = intake /\ pvrEnv' = pvrEnv
  BY DEF Configured, Keep, xp_osi_get_config_values
<1>2. /\ c = [up |-> cfg.up, reg |-> cfg.reg, ctl |-> cfg.ctl,
              sw |-> [cfg.reg EXCEPT !.senbl = cfg.sw.senbl]]
  BY DEF trans_get_configure, PvrTypeOK
<1>b. c.sw = [cfg.reg EXCEPT !.senbl = cfg.sw.senbl]
  BY <1>2
<1>d. cfg.reg \in RegValues /\ cfg.sw \in RegValues
  BY DEF PvrTypeOK
<1>a. c.sw \in RegValues
  BY <1>b, <1>d DEF RegValues
<1>3. [c.sw EXCEPT ![field] = v] \in RegValues
  BY <1>a DEF RegValues, Inputs, Bits
<1> PICK w : w = [c.sw EXCEPT ![field] = v]
  OBVIOUS
<1>c. cfg' = [up |-> cfg.up, reg |-> w, sw |-> w, ctl |-> cfg.ctl]
  <2>1. cfg' = [[c EXCEPT !.sw = w] EXCEPT !.reg = [c EXCEPT !.sw = w].sw]
    BY <1>1, Zenon DEF xp_osi_set_config_values, trans_set_configure
  <2>2. [c EXCEPT !.sw = w] = [up |-> cfg.up, reg |-> cfg.reg, ctl |-> cfg.ctl, sw |-> w]
    BY <1>2
  <2> QED
    BY <2>1, <2>2
<1>4. /\ cfg'.reg = [c.sw EXCEPT ![field] = v] /\ cfg'.sw = [c.sw EXCEPT ![field] = v]
      /\ cfg'.up = cfg.up /\ cfg'.ctl = cfg.ctl
  BY <1>c
<1>5. /\ pvrHist'.asked = [pvrHist.asked EXCEPT ![field] = v]
      /\ pvrHist'.asked \in RegValues
      /\ pvrHist'.plays = (pvrHist.plays /\ field # "insel")
      /\ pvrHist' = [pvrHist EXCEPT !.asked = pvrHist'.asked, !.plays = pvrHist'.plays]
  BY <1>1 DEF PvrTypeOK, RegValues, Inputs, Bits
<1>6. PvrTypeOK'
  <2>1. cfg' \in [up : BOOLEAN, reg : RegValues, sw : RegValues, ctl : [senbl : Bits, pbe : Bits]]
    BY <1>3, <1>c DEF PvrTypeOK
  <2>2. pvrHist' \in [asked : RegValues, n : Nat, dropped : SUBSET Nat, mem : SUBSET PvrBlocks,
                      lost : SUBSET PvrBlocks, signalled : BOOLEAN, plays : BOOLEAN]
    BY <1>5 DEF PvrTypeOK
  <2> QED
    BY <2>1, <2>2, <1>1 DEF PvrTypeOK
<1>7. Inside'
  BY <1>1, <1>4 DEF Inside
<1>8. OwnersApart'
  BY <1>1, <1>5, OwnersSame DEF PvrTypeOK
<1>9. Borrowed'
  <2>1. writer.at # "flush"
    BY <1>1 DEF OneWayToPlay, Inside, PvrTypeOK
  <2>2. /\ field = "insel" => cfg'.reg.insel = v /\ pvrHist'.asked.insel = v
        /\ field # "insel" => cfg'.reg.insel = cfg.reg.insel /\ pvrHist'.asked.insel = pvrHist.asked.insel
        /\ field = "acpm" => cfg'.reg.acpm = v /\ pvrHist'.asked.acpm = v
        /\ field # "acpm" => cfg'.reg.acpm = cfg.reg.acpm /\ pvrHist'.asked.acpm = pvrHist.asked.acpm
        /\ field = "vcpm" => cfg'.reg.vcpm = v /\ pvrHist'.asked.vcpm = v
        /\ field # "vcpm" => cfg'.reg.vcpm = cfg.reg.vcpm /\ pvrHist'.asked.vcpm = pvrHist.asked.vcpm
    BY <1>b, <1>4, <1>5 DEF PvrTypeOK, RegValues
  <2> QED
    BY <2>1, <2>2, <1>1, <1>4, <1>5 DEF Borrowed, ConfigAsAsked
<1>10. TakesTurns'
  BY <1>1, <1>5, TurnsSame DEF PvrTypeOK
<1>11. ChunksInOrder'
  BY <1>1, <1>5, ChunksSame DEF PvrTypeOK
<1> QED
  BY <1>6, <1>7, <1>8, <1>9, <1>10, <1>11

LEMMA KeepsBypass ==
  ASSUME IInv, NEW op \in {"set", "start", "stop"}, Bypass(op)
  PROVE  IInv'
<1> USE DEF IInv
<1>1. pvr' = pvr /\ dma' = dma /\ writer' = writer /\ intake' = intake /\ pvrEnv' = pvrEnv
      /\ pvrHist' = pvrHist
  BY DEF Bypass, Keep
<1>2. /\ cfg' \in [up : BOOLEAN, reg : RegValues, sw : RegValues, ctl : [senbl : Bits, pbe : Bits]]
      /\ cfg'.up = cfg.up /\ cfg'.reg.insel = cfg.reg.insel
      /\ cfg'.reg.acpm = cfg.reg.acpm /\ cfg'.reg.vcpm = cfg.reg.vcpm
  BY DEF Bypass, PvrTypeOK, RegValues, Bits, xp_osi_set_parse_bypass_mode, xp_osi_start_parse_bypass,
     xp_osi_stop_parse_bypass
<1>3. PvrTypeOK'
  BY <1>1, <1>2 DEF PvrTypeOK
<1>4. Inside'
  BY <1>1, <1>2 DEF Inside
<1>5. OwnersApart'
  BY <1>1, OwnersSame
<1>6. Borrowed'
  BY <1>1, <1>2 DEF Borrowed, ConfigAsAsked
<1>7. TakesTurns' /\ ChunksInOrder'
  BY <1>1, TurnsSame, ChunksSame
<1> QED
  BY <1>3, <1>4, <1>5, <1>6, <1>7

-----------------------------------------------------------------------------
(* The device, up to its writing.                                          *)

LEMMA KeepsOpen ==
  ASSUME IInv, pvr_osd_open
  PROVE  IInv'
<1> USE DEF IInv
<1> PICK b \in FreeMemory, irq \in BOOLEAN :
      /\ pvr' = IF irq
                THEN [pvr EXCEPT !.open = TRUE, !.status = "READY", !.first_time = 0,
                        !.hMem = b, !.saved = cfg.reg.insel,
                        !.half = [h \in Halves |-> Torn],
                        !.bufs = [i \in 1..PvrSlots |-> NoSlot]]
                ELSE [pvr EXCEPT !.hMem = b]
      /\ pvrHist' = [pvrHist EXCEPT !.mem = @ \cup {b}, !.plays = irq,
                                    !.lost = IF irq THEN @ ELSE @ \cup {b},
                                    !.dropped = IF irq THEN @ \cup PendingChunk ELSE @]
      /\ cfg' = IF irq THEN pvr_osi_playback_config(cfg) ELSE cfg
  BY DEF pvr_osd_open
<1>1. /\ ~pvr.open /\ cfg.up
      /\ dma' = dma /\ writer' = writer /\ intake' = intake /\ pvrEnv' = pvrEnv
      /\ b \in PvrBlocks /\ b \notin pvrHist.mem /\ b # NoBlock
  BY PvrAssumption DEF pvr_osd_open, Keep, FreeMemory, NoBlock
<1>2. writer.at = "user"
  BY <1>1 DEF Inside
<1>3. PendingChunk \subseteq Nat
  BY DEF PendingChunk, PvrTypeOK
<1>4. /\ [h \in Halves |-> Torn] \in [Halves -> Nat]
      /\ [i \in 1..PvrSlots |-> NoSlot] \in [1..PvrSlots -> SlotValues]
  BY DEF Torn, NoSlot, SlotValues
<1>5. PvrTypeOK'
  <2>1. cfg' \in [up : BOOLEAN, reg : RegValues, sw : RegValues, ctl : [senbl : Bits, pbe : Bits]]
    BY DEF PvrTypeOK, pvr_osi_playback_config, RegValues, Inputs
  <2>2. pvr' \in [open : BOOLEAN, status : {"STOP", "READY", "START"}, saved : Inputs,
                  hMem : PvrBlocks \cup {NoBlock}, pingpong : Halves, first_time : Bits,
                  last : Halves, half : [Halves -> Nat], bufs : [1..PvrSlots -> SlotValues]]
    BY <1>1, <1>4 DEF PvrTypeOK, Bits, RegValues
  <2>3. pvrHist' \in [asked : RegValues, n : Nat, dropped : SUBSET Nat, mem : SUBSET PvrBlocks,
                      lost : SUBSET PvrBlocks, signalled : BOOLEAN, plays : BOOLEAN]
    BY <1>1, <1>3 DEF PvrTypeOK
  <2> QED
    BY <2>1, <2>2, <2>3, <1>1 DEF PvrTypeOK
<1>6. CASE irq
  <2>1. /\ pvr'.open /\ pvr'.saved = cfg.reg.insel /\ pvr'.hMem = b /\ pvr'.first_time = 0
        /\ pvr'.bufs = [i \in 1..PvrSlots |-> NoSlot]
    BY <1>6 DEF PvrTypeOK
  <2>2. /\ pvrHist'.mem = pvrHist.mem \cup {b} /\ pvrHist'.lost = pvrHist.lost /\ pvrHist'.plays
        /\ pvrHist'.asked = pvrHist.asked /\ pvrHist'.n = pvrHist.n
        /\ pvrHist'.signalled = pvrHist.signalled
        /\ pvrHist'.dropped = pvrHist.dropped \cup PendingChunk
    BY <1>6 DEF PvrTypeOK
  <2>3. /\ cfg'.up = cfg.up /\ cfg'.reg.insel = "PVR"
        /\ cfg'.reg.acpm = cfg.reg.acpm /\ cfg'.reg.vcpm = cfg.reg.vcpm
    BY <1>6 DEF PvrTypeOK, pvr_osi_playback_config, RegValues
  <2>4. Inside'
    BY <1>1, <1>2, <2>1, <2>3 DEF Inside
  <2>5. OwnersApart'
    <3>1. AllBuffers = {} /\ AllBuffers' = {}
      BY <1>1, <2>1 DEF AllBuffers, OwnersApart, NoSlot, NoBlock
    <3> QED
      BY <3>1, <1>1, <2>1, <2>2 DEF OwnersApart, NoSlot, NoBlock
  <2>6. Borrowed'
    BY <1>1, <1>2, <2>1, <2>2, <2>3 DEF Borrowed, ConfigAsAsked
  <2>7. TakesTurns'
    BY <1>1, <2>1, <2>2 DEF TakesTurns
  <2>8. ChunksInOrder'
    <3>1. PendingChunk' = {} /\ Carried' = Carried
      BY <2>1, <1>1 DEF PendingChunk, Carried
    <3>2. ~pvrHist.signalled => ~dma.on
      BY <1>2 DEF TakesTurns
    <3>3. PendingChunk \subseteq 1..pvrHist.n
      BY DEF ChunksInOrder
    <3> QED
      BY <3>1, <3>2, <3>3, <1>1, <2>2 DEF ChunksInOrder, Carried
  <2> QED
    BY <1>5, <2>4, <2>5, <2>6, <2>7, <2>8
<1>7. CASE ~irq
  <2>1. /\ pvr'.open = pvr.open /\ pvr'.saved = pvr.saved /\ pvr'.first_time = pvr.first_time
        /\ pvr'.bufs = pvr.bufs /\ pvr'.half = pvr.half /\ pvr'.last = pvr.last
        /\ pvr'.pingpong = pvr.pingpong
    BY <1>7 DEF PvrTypeOK
  <2>2. /\ pvrHist'.mem = pvrHist.mem \cup {b} /\ pvrHist'.lost = pvrHist.lost \cup {b}
        /\ pvrHist'.asked = pvrHist.asked /\ pvrHist'.n = pvrHist.n
        /\ pvrHist'.signalled = pvrHist.signalled /\ pvrHist'.dropped = pvrHist.dropped
    BY <1>7 DEF PvrTypeOK
  <2>3. cfg' = cfg
    BY <1>7
  <2>4. Inside'
    BY <1>1, <2>1, <2>3 DEF Inside
  <2>5. OwnersApart'
    BY <1>1, <2>1, <2>2 DEF OwnersApart, AllBuffers, NoSlot, NoBlock
  <2>6. Borrowed'
    BY <1>1, <2>1, <2>2, <2>3 DEF Borrowed, ConfigAsAsked
  <2>7. TakesTurns' /\ ChunksInOrder'
    BY <1>1, <2>1, <2>2, TurnsSame, ChunksSame
  <2> QED
    BY <1>5, <2>4, <2>5, <2>6, <2>7
<1> QED
  BY <1>6, <1>7

LEMMA KeepsRelease ==
  ASSUME IInv, pvr_osd_release
  PROVE  IInv'
<1> USE DEF IInv
<1>1. /\ pvr.open /\ writer = [at |-> "user", left |-> 0]
      /\ dma' = [dma EXCEPT !.on = @ /\ pvr.status # "START"]
      /\ cfg' = pvr_osi_playback_deconfig(cfg, pvr.saved)
      /\ pvrHist' = [pvrHist EXCEPT !.mem = @ \ Released(pvr.hMem)]
      /\ pvr' = [pvr EXCEPT !.open = FALSE, !.status = "STOP",
                        !.bufs = [i \in 1..PvrSlots |-> NoSlot]]
      /\ writer' = writer /\ intake' = intake /\ pvrEnv' = pvrEnv
  BY DEF pvr_osd_release, PvrIdle, Keep
<1>2. [i \in 1..PvrSlots |-> NoSlot] \in [1..PvrSlots -> SlotValues]
  BY DEF NoSlot, SlotValues
<1>3. PvrTypeOK'
  BY <1>1, <1>2 DEF PvrTypeOK, pvr_osi_playback_deconfig, RegValues
<1>4. /\ ~pvr'.open /\ pvr'.bufs = [i \in 1..PvrSlots |-> NoSlot]
      /\ pvr'.first_time = pvr.first_time /\ pvr'.half = pvr.half /\ pvr'.last = pvr.last
      /\ pvr'.pingpong = pvr.pingpong
  BY <1>1 DEF PvrTypeOK
<1>5. /\ pvrHist'.mem = pvrHist.mem \ Released(pvr.hMem) /\ pvrHist'.lost = pvrHist.lost
      /\ pvrHist'.asked = pvrHist.asked /\ pvrHist'.n = pvrHist.n /\ pvrHist'.plays = pvrHist.plays
      /\ pvrHist'.signalled = pvrHist.signalled /\ pvrHist'.dropped = pvrHist.dropped
  BY <1>1 DEF PvrTypeOK
<1>6. Inside'
  BY <1>1, <1>4 DEF Inside
<1>7. OwnersApart'
  <2>1. AllBuffers' = {}
    BY <1>4 DEF AllBuffers, NoSlot, NoBlock
  <2>2. pvrHist'.mem = pvrHist'.lost
    <3>1. AllBuffers \cap pvrHist.lost = {} /\ pvr.hMem \notin pvrHist.lost
      BY <1>1 DEF OwnersApart, AllBuffers
    <3>2. pvrHist.mem = AllBuffers \cup {pvr.hMem} \cup pvrHist.lost
      BY <1>1 DEF OwnersApart
    <3> QED
      BY <3>1, <3>2, <1>5 DEF Released
  <2>3. NoBlock \notin pvrHist'.lost
    BY <1>3, PvrAssumption DEF PvrTypeOK, NoBlock
  <2> QED
    BY <2>1, <2>2, <2>3, <1>4 DEF OwnersApart, NoSlot
<1>8. Borrowed'
  <2>1. /\ cfg'.up = cfg.up /\ cfg'.reg.acpm = cfg.reg.acpm /\ cfg'.reg.vcpm = cfg.reg.vcpm
        /\ cfg'.reg.insel = IF cfg.reg.insel # "PVR" THEN cfg.reg.insel ELSE pvr.saved
    BY <1>1 DEF PvrTypeOK, pvr_osi_playback_deconfig, RegValues
  <2> QED
    BY <2>1, <1>1, <1>4, <1>5, PvrAssumption DEF Borrowed, ConfigAsAsked, Inside
<1>9. ~pvrHist.signalled => dma'.on = dma.on
  BY <1>1 DEF TakesTurns, PvrTypeOK
<1>10. dma'.torn = dma.torn /\ dma'.complete = dma.complete /\ dma'.carries = dma.carries
  BY <1>1 DEF PvrTypeOK
<1>11. TakesTurns'
  BY <1>1, <1>4, <1>5, <1>9, <1>10 DEF TakesTurns
<1>12. ChunksInOrder'
  BY <1>1, <1>4, <1>5, <1>9, <1>10 DEF ChunksInOrder, Carried, PendingChunk
<1> QED
  BY <1>3, <1>6, <1>7, <1>8, <1>11, <1>12

LEMMA KeepsMode ==
  ASSUME IInv, pvr_set_mode \/ pvr_stop
  PROVE  IInv'
<1> USE DEF IInv
<1>1. /\ pvr.open /\ \E s \in {"START", "STOP"} : pvr' = [pvr EXCEPT !.status = s]
      /\ dma' = dma \/ (writer.at = "user" /\ dma' = [dma EXCEPT !.on = FALSE])
      /\ cfg' = cfg /\ writer' = writer /\ intake' = intake /\ pvrEnv' = pvrEnv
      /\ pvrHist' = pvrHist
  BY DEF pvr_set_mode, pvr_stop, PvrIdle, Keep
<1>2. PvrTypeOK'
  BY <1>1 DEF PvrTypeOK
<1>3. /\ pvr'.open = pvr.open /\ pvr'.bufs = pvr.bufs /\ pvr'.hMem = pvr.hMem
      /\ pvr'.first_time = pvr.first_time /\ pvr'.half = pvr.half /\ pvr'.last = pvr.last
      /\ pvr'.pingpong = pvr.pingpong /\ pvr'.saved = pvr.saved
  BY <1>1 DEF PvrTypeOK
<1>4. Inside'
  BY <1>1, <1>3 DEF Inside
<1>5. OwnersApart' /\ Borrowed'
  BY <1>1, <1>3, OwnersSame, BorrowedSame
<1>6. /\ ~pvrHist.signalled => dma'.on = dma.on
      /\ dma'.torn = dma.torn /\ dma'.complete = dma.complete /\ dma'.carries = dma.carries
  BY <1>1 DEF PvrTypeOK, TakesTurns
<1>7. TakesTurns'
  BY <1>1, <1>3, <1>6 DEF TakesTurns
<1>8. ChunksInOrder'
  BY <1>1, <1>3, <1>6 DEF ChunksInOrder, Carried, PendingChunk
<1> QED
  BY <1>2, <1>4, <1>5, <1>7, <1>8

LEMMA KeepsFlushBegin ==
  ASSUME IInv, FlushBegin
  PROVE  IInv'
<1> USE DEF IInv
<1>1. /\ "flush" \in pvrEnv /\ pvr.open /\ writer = [at |-> "user", left |-> 0]
      /\ cfg' = pvr_osi_flush(cfg) /\ writer' = [at |-> "flush", left |-> 0]
      /\ pvr' = pvr /\ dma' = dma /\ intake' = intake /\ pvrEnv' = pvrEnv /\ pvrHist' = pvrHist
  BY DEF FlushBegin, PvrIdle, Now, Keep
<1>2. /\ cfg' \in [up : BOOLEAN, reg : RegValues, sw : RegValues, ctl : [senbl : Bits, pbe : Bits]]
      /\ cfg'.up = cfg.up /\ cfg'.reg.insel = cfg.reg.insel
  BY <1>1 DEF PvrTypeOK, pvr_osi_flush, RegValues, Bits
<1>3. PvrTypeOK'
  BY <1>1, <1>2 DEF PvrTypeOK
<1>4. Inside' /\ Borrowed' /\ TakesTurns'
  BY <1>1, <1>2 DEF Inside, Borrowed, ConfigAsAsked, TakesTurns
<1>5. OwnersApart' /\ ChunksInOrder'
  BY <1>1, OwnersSame, ChunksSame
<1> QED
  BY <1>3, <1>4, <1>5

LEMMA KeepsFlushEnd ==
  ASSUME IInv, OneWayToPlay, FlushEnd
  PROVE  IInv'
<1> USE DEF IInv
<1>1. /\ writer.at = "flush"
      /\ cfg' = pvr_osi_unflush(cfg) /\ writer' = [at |-> "user", left |-> 0]
      /\ pvrHist' = [pvrHist EXCEPT !.dropped = @ \cup PendingChunk]
      /\ pvr' = [pvr EXCEPT !.first_time = 0]
      /\ dma' = dma /\ intake' = intake /\ pvrEnv' = pvrEnv
  BY DEF FlushEnd, Now, Keep
<1>2. /\ cfg' \in [up : BOOLEAN, reg : RegValues, sw : RegValues, ctl : [senbl : Bits, pbe : Bits]]
      /\ cfg'.up = cfg.up /\ cfg'.reg.insel = cfg.reg.insel
      /\ cfg'.reg.acpm = 0 /\ cfg'.reg.vcpm = 0
  BY <1>1 DEF PvrTypeOK, pvr_osi_unflush, RegValues, Bits
<1>3. PendingChunk \subseteq Nat
  BY DEF PendingChunk, PvrTypeOK
<1>4. PvrTypeOK'
  BY <1>1, <1>2, <1>3 DEF PvrTypeOK, Bits
<1>5. /\ pvr'.open = pvr.open /\ pvr'.bufs = pvr.bufs /\ pvr'.hMem = pvr.hMem
      /\ pvr'.first_time = 0 /\ pvr'.saved = pvr.saved
  BY <1>1 DEF PvrTypeOK
<1>6. /\ pvrHist'.mem = pvrHist.mem /\ pvrHist'.lost = pvrHist.lost
      /\ pvrHist'.asked = pvrHist.asked /\ pvrHist'.n = pvrHist.n /\ pvrHist'.plays = pvrHist.plays
      /\ pvrHist'.signalled = pvrHist.signalled
      /\ pvrHist'.dropped = pvrHist.dropped \cup PendingChunk
  BY <1>1 DEF PvrTypeOK
<1>7. Inside' /\ TakesTurns'
  BY <1>1, <1>2, <1>5, <1>6 DEF Inside, TakesTurns
<1>8. OwnersApart'
  BY <1>5, <1>6, OwnersSame
<1>9. Borrowed'
  <2>1. "config" \notin pvrEnv
    BY <1>1 DEF Inside, OneWayToPlay, PvrTypeOK
  <2> QED
    BY <2>1, <1>1, <1>2, <1>5, <1>6 DEF Borrowed, ConfigAsAsked
<1>10. ChunksInOrder'
  <2>1. PendingChunk' = {} /\ Carried' = Carried
    BY <1>5, <1>1 DEF PendingChunk, Carried
  <2>2. ~pvrHist.signalled => ~dma.on
    BY <1>1 DEF TakesTurns
  <2>3. PendingChunk \subseteq 1..pvrHist.n
    BY DEF ChunksInOrder
  <2> QED
    BY <2>1, <2>2, <2>3, <1>1, <1>6 DEF ChunksInOrder, Carried
<1> QED
  BY <1>4, <1>7, <1>8, <1>9, <1>10

-----------------------------------------------------------------------------
(* Writing.                                                                *)

LEMMA KeepsWrite ==
  ASSUME IInv, NEW n \in 1..3, pvr_osd_write(n)
  PROVE  IInv'
<1> USE DEF IInv
<1>1. /\ "write" \in pvrEnv /\ pvr.open /\ writer = [at |-> "user", left |-> 0]
      /\ writer' = [at |-> "write", left |-> n]
      /\ cfg' = cfg /\ pvr' = pvr /\ dma' = dma /\ intake' = intake /\ pvrEnv' = pvrEnv
      /\ pvrHist' = pvrHist
  BY DEF pvr_osd_write, PvrIdle, Now, Keep
<1>2. PvrTypeOK' /\ Inside' /\ TakesTurns'
  BY <1>1 DEF PvrTypeOK, Inside, TakesTurns
<1>3. OwnersApart' /\ Borrowed' /\ ChunksInOrder'
  BY <1>1, OwnersSame, BorrowedSame, ChunksSame
<1> QED
  BY <1>2, <1>3

LEMMA KeepsWait ==
  ASSUME IInv, WriteWait \/ WriteSignal \/ WriteReturns
  PROVE  IInv'
<1> USE DEF IInv
<1>1. /\ cfg' = cfg /\ pvr' = pvr /\ dma' = dma /\ intake' = intake /\ pvrEnv' = pvrEnv
      /\ pvrHist' \in {pvrHist, [pvrHist EXCEPT !.signalled = TRUE]}
      /\ writer.at \in {"wait", "asleep", "write"} /\ writer'.left = writer.left
      /\ writer' = [at |-> writer'.at, left |-> writer'.left]
      /\ \/ writer'.at = "write" /\ writer.at = "wait" /\ dma.complete /\ pvrHist' = pvrHist
         \/ writer'.at = "asleep" /\ writer.at = "wait" /\ ~dma.complete /\ pvrHist' = pvrHist
         \/ writer'.at = "write" /\ writer.at = "asleep" /\ pvrHist'.signalled
         \/ writer'.at = "user" /\ writer.at = "write" /\ writer.left = 0 /\ pvrHist' = pvrHist
  BY DEF WriteWait, WriteSignal, WriteReturns, Now, Keep, PvrTypeOK
<1>2. /\ pvrHist'.mem = pvrHist.mem /\ pvrHist'.lost = pvrHist.lost
      /\ pvrHist'.asked = pvrHist.asked /\ pvrHist'.n = pvrHist.n /\ pvrHist'.plays = pvrHist.plays
      /\ pvrHist'.dropped = pvrHist.dropped
      /\ pvrHist.signalled => pvrHist'.signalled
  BY <1>1 DEF PvrTypeOK
<1>3. PvrTypeOK' /\ Inside'
  BY <1>1 DEF PvrTypeOK, Inside
<1>4. OwnersApart' /\ Borrowed'
  BY <1>1, <1>2, OwnersSame, BorrowedSame
<1>5. TakesTurns'
  BY <1>1, <1>2 DEF TakesTurns
<1>6. ChunksInOrder'
  BY <1>1, <1>2 DEF ChunksInOrder, Carried, PendingChunk
<1> QED
  BY <1>3, <1>4, <1>5, <1>6

DmaStates == [on : BOOLEAN, at : 0..2, torn : BOOLEAN, carries : Nat, complete : BOOLEAN]

LEMMA StartedIs ==
  ASSUME dma \in DmaStates, NEW at, NEW chunk, at \in 0..2, chunk \in Nat,
         NEW d, d = Started(at, chunk)
  PROVE  /\ d \in DmaStates
         /\ d = [on |-> TRUE, at |-> at, torn |-> FALSE, carries |-> chunk, complete |-> FALSE]
<1>1. d = [on |-> TRUE, at |-> at, torn |-> FALSE, carries |-> chunk, complete |-> FALSE]
  BY DEF Started, DmaStates
<1>2. [on |-> TRUE, at |-> at, torn |-> FALSE, carries |-> chunk, complete |-> FALSE] \in DmaStates
  BY Zenon DEF DmaStates
<1> QED
  BY <1>1, <1>2

\* A turn of the loop: the half filled before goes to the DMA, which reads
\* nothing else, and the next chunk to the other half.
LEMMA KeepsChunk ==
  ASSUME IInv, OneWayToPlay, WriteChunk
  PROVE  IInv'
<1> USE DEF IInv
<1> DEFINE start == pvr.first_time = 1
<1> PICK h, d :
      /\ h = NextHalf
      /\ d = IF start THEN Started(pvr.last, pvr.half[pvr.last])
             ELSE [dma EXCEPT !.at = pvr.last]
  OBVIOUS
<1>1. /\ writer.at = "write" /\ writer.left > 0
      /\ pvr' = [pvr EXCEPT !.pingpong = 1 - h, !.first_time = 1, !.last = h,
                            !.half[h] = pvrHist.n + 1]
      /\ dma' = [d EXCEPT !.torn = @ \/ (d.on /\ d.at = h)]
      /\ pvrHist' = [pvrHist EXCEPT !.n = pvrHist.n + 1]
      /\ writer' = [at |-> IF start THEN "wait" ELSE "write", left |-> writer.left - 1]
      /\ cfg' = cfg /\ intake' = intake /\ pvrEnv' = pvrEnv
  BY DEF WriteChunk, Now, Keep
<1>2. /\ h \in Halves /\ pvr.last \in Halves /\ pvr.half[pvr.last] \in Nat
      /\ start => h # pvr.last
  <2>1. pvr.last \in {0, 1} /\ pvr.pingpong \in {0, 1} /\ pvr.half[pvr.last] \in Nat
    BY DEF PvrTypeOK, Halves
  <2>2. start => pvr.pingpong = 1 - pvr.last
    BY DEF TakesTurns
  <2>3. h = IF pvr.pingpong = 0 \/ pvr.first_time = 0 THEN 0 ELSE 1
    BY DEF NextHalf
  <2> QED
    BY <2>1, <2>2, <2>3 DEF Halves
<1>3. /\ d.on <=> (start \/ dma.on)
      /\ d.torn <=> (~start /\ dma.torn)
      /\ d.at = pvr.last /\ d.carries = (IF start THEN pvr.half[pvr.last] ELSE dma.carries)
      /\ d.complete <=> (~start /\ dma.complete)
      /\ d \in [on : BOOLEAN, at : 0..2, torn : BOOLEAN, carries : Nat, complete : BOOLEAN]
  <2>1. dma \in [on : BOOLEAN, at : 0..2, torn : BOOLEAN, carries : Nat, complete : BOOLEAN]
    BY DEF PvrTypeOK
  <2>2. CASE start
    <3>1. pvr.last \in 0..2 /\ pvr.half[pvr.last] \in Nat
      BY <1>2 DEF Halves
    <3>a. d = [on |-> TRUE, at |-> pvr.last, torn |-> FALSE, carries |-> pvr.half[pvr.last],
               complete |-> FALSE]
          /\ d \in DmaStates
      BY <3>1, <2>1, <2>2, StartedIs DEF DmaStates
    <3>2. d.on /\ ~d.torn /\ ~d.complete /\ d.at = pvr.last /\ d.carries = pvr.half[pvr.last]
      BY <3>a
    <3> QED
      BY <3>2, <3>a, <2>2 DEF DmaStates
  <2>3. CASE ~start
    <3>1. d = [dma EXCEPT !.at = pvr.last]
      BY <2>3
    <3> QED
      BY <3>1, <2>1, <2>3, <1>2 DEF Halves
  <2> QED
    BY <2>2, <2>3
<1>4. /\ dma'.on <=> (start \/ dma.on)
      /\ dma'.carries = d.carries /\ dma'.complete = d.complete
      /\ dma'.torn <=> (d.torn \/ (d.on /\ d.at = h))
      /\ dma' \in [on : BOOLEAN, at : 0..2, torn : BOOLEAN, carries : Nat, complete : BOOLEAN]
  BY <1>1, <1>3
<1>5. /\ pvr'.open = pvr.open /\ pvr'.bufs = pvr.bufs /\ pvr'.hMem = pvr.hMem
      /\ pvr'.saved = pvr.saved /\ pvr'.first_time = 1 /\ pvr'.last = h /\ pvr'.pingpong = 1 - h
      /\ pvr'.half = [pvr.half EXCEPT ![h] = pvrHist.n + 1]
      /\ pvr'.half[h] = pvrHist.n + 1
  BY <1>1, <1>2 DEF PvrTypeOK
<1>6. /\ pvrHist'.mem = pvrHist.mem /\ pvrHist'.lost = pvrHist.lost
      /\ pvrHist'.asked = pvrHist.asked /\ pvrHist'.n = pvrHist.n + 1
      /\ pvrHist'.plays = pvrHist.plays /\ pvrHist'.dropped = pvrHist.dropped
      /\ pvrHist'.signalled = pvrHist.signalled /\ pvrHist.n \in Nat
  BY <1>1 DEF PvrTypeOK
<1>7. PvrTypeOK'
  <2>1. pvr' \in [open : BOOLEAN, status : {"STOP", "READY", "START"}, saved : Inputs,
                  hMem : PvrBlocks \cup {NoBlock}, pingpong : Halves, first_time : Bits,
                  last : Halves, half : [Halves -> Nat], bufs : [1..PvrSlots -> SlotValues]]
    <3>1. 1 - h \in Halves /\ pvrHist.n + 1 \in Nat
      BY <1>2, <1>6 DEF Halves
    <3>2. [pvr.half EXCEPT ![h] = pvrHist.n + 1] \in [Halves -> Nat]
      BY <3>1 DEF PvrTypeOK
    <3>3. /\ pvr'.pingpong \in Halves /\ pvr'.first_time \in Bits /\ pvr'.last \in Halves
          /\ pvr'.half \in [Halves -> Nat]
      BY <3>1, <3>2, <1>2, <1>5 DEF Bits
    <3>4. pvr' = [open |-> pvr.open, status |-> pvr.status, saved |-> pvr.saved, hMem |-> pvr.hMem,
                  pingpong |-> pvr'.pingpong, first_time |-> pvr'.first_time, last |-> pvr'.last,
                  half |-> pvr'.half, bufs |-> pvr.bufs]
      BY <1>1 DEF PvrTypeOK
    <3> QED
      BY <3>3, <3>4 DEF PvrTypeOK
  <2>2. pvrHist' \in [asked : RegValues, n : Nat, dropped : SUBSET Nat, mem : SUBSET PvrBlocks,
                      lost : SUBSET PvrBlocks, signalled : BOOLEAN, plays : BOOLEAN]
    <3>1. pvrHist.n + 1 \in Nat
      BY <1>6
    <3> QED
      BY <3>1, <1>1 DEF PvrTypeOK
  <2>3. writer' \in [at : {"user", "flush", "write", "wait", "asleep"}, left : Nat]
    <3>1. writer.left - 1 \in Nat
      BY <1>1 DEF PvrTypeOK
    <3> QED
      BY <3>1, <1>1
  <2> QED
    BY <2>1, <2>2, <2>3, <1>1, <1>4 DEF PvrTypeOK
<1>8. Inside'
  BY <1>1, <1>5 DEF Inside, PvrTypeOK
<1>9. OwnersApart' /\ Borrowed'
  BY <1>1, <1>5, <1>6, OwnersSame, BorrowedSame
<1>10. ~pvrHist.signalled => ~dma.on /\ ~dma.torn
  BY <1>1 DEF TakesTurns
<1>11. TakesTurns'
  BY <1>1, <1>2, <1>3, <1>4, <1>5, <1>6, <1>10 DEF TakesTurns, Inside
<1>12. PendingChunk' = {pvrHist.n + 1}
  BY <1>5 DEF PendingChunk
<1>13. PendingChunk = IF start THEN {pvrHist.n} ELSE {}
  BY DEF PendingChunk, TakesTurns
<1>14. start => pvr.half[pvr.last] = pvrHist.n
  BY DEF TakesTurns
<1>15. ~pvrHist.signalled => Carried' = IF start THEN {pvrHist.n} ELSE {}
  BY <1>3, <1>4, <1>10, <1>14 DEF Carried
<1>16. ~pvrHist.signalled => Carried = {}
  BY <1>10 DEF Carried
<1>17. ChunksInOrder'
  <2>1. PendingChunk' \subseteq 1..pvrHist'.n /\ pvrHist'.dropped \subseteq 1..pvrHist'.n
    BY <1>6, <1>12 DEF ChunksInOrder
  <2> SUFFICES ASSUME ~pvrHist.signalled PROVE ChunksInOrder'
    BY <2>1, <1>6 DEF ChunksInOrder
  <2>2. /\ \A i \in DOMAIN intake : intake[i] \in 1..pvrHist.n
        /\ \A i, j \in DOMAIN intake : i < j => intake[i] < intake[j]
        /\ \A i \in DOMAIN intake : start => intake[i] < pvrHist.n
        /\ start => pvrHist.n \in 1..pvrHist.n
    BY <1>13 DEF ChunksInOrder
  <2>3. 1..pvrHist.n \ (ToSet(intake) \cup pvrHist.dropped) = IF start THEN {pvrHist.n} ELSE {}
    BY <1>13, <1>16 DEF ChunksInOrder
  <2>4. ToSet(intake) \subseteq 1..pvrHist.n
    BY <2>2 DEF ToSet
  <2>5. 1..(pvrHist.n + 1) = 1..pvrHist.n \cup {pvrHist.n + 1} /\ pvrHist.n + 1 \notin 1..pvrHist.n
    BY <1>6
  <2>6. pvrHist.n + 1 \notin ToSet(intake) \cup pvrHist.dropped
    BY <2>4, <2>5 DEF ChunksInOrder
  <2>7. 1..pvrHist'.n \ (ToSet(intake') \cup pvrHist'.dropped) = Carried' \cup PendingChunk'
    BY <2>3, <2>5, <2>6, <1>1, <1>6, <1>12, <1>15
  <2>8. /\ \A i \in DOMAIN intake' : intake'[i] \in 1..pvrHist'.n
        /\ \A i, j \in DOMAIN intake' : i < j => intake'[i] < intake'[j]
        /\ \A c \in Carried', i \in DOMAIN intake' : intake'[i] < c
        /\ \A c \in PendingChunk', i \in DOMAIN intake' : intake'[i] < c
        /\ \A c \in Carried', p \in PendingChunk' : c < p
        /\ Carried' \subseteq 1..pvrHist'.n
    BY <2>2, <1>1, <1>6, <1>12, <1>15
  <2> QED
    BY <2>1, <2>7, <2>8 DEF ChunksInOrder
<1> QED
  BY <1>7, <1>8, <1>9, <1>11, <1>17

\* The interrupt: what the DMA carried is in the transport.
LEMMA KeepsIsr ==
  ASSUME IInv, pvr_isr
  PROVE  IInv'
<1> USE DEF IInv
<1> PICK x : x = IF dma.torn THEN Torn ELSE dma.carries
  OBVIOUS
<1>1. /\ dma.on /\ dma' = [dma EXCEPT !.on = FALSE, !.complete = TRUE]
      /\ intake' = Append(intake, x)
      /\ writer' = IF writer.at = "asleep" THEN [writer EXCEPT !.at = "write"] ELSE writer
      /\ cfg' = cfg /\ pvr' = pvr /\ pvrHist' = pvrHist /\ pvrEnv' = pvrEnv
  BY DEF pvr_isr, Keep
<1>2. /\ ~dma'.on /\ dma'.complete /\ dma'.torn = dma.torn /\ dma'.carries = dma.carries
      /\ writer'.left = writer.left
      /\ writer'.at = IF writer.at = "asleep" THEN "write" ELSE writer.at
  BY <1>1 DEF PvrTypeOK
<1>3. x \in Nat /\ intake \in Seq(Nat)
  BY DEF PvrTypeOK, Torn
<1>4. /\ DOMAIN intake = 1..Len(intake) /\ Len(intake) \in Nat
      /\ DOMAIN intake' = 1..(Len(intake) + 1)
      /\ intake'[Len(intake) + 1] = x
      /\ \A i \in DOMAIN intake : intake'[i] = intake[i]
  BY <1>1, <1>3
<1>5. PvrTypeOK'
  <2>1. intake' \in Seq(Nat)
    BY <1>1, <1>3
  <2> QED
    BY <2>1, <1>1 DEF PvrTypeOK
<1>6. Inside'
  BY <1>1, <1>2 DEF Inside
<1>7. OwnersApart' /\ Borrowed'
  BY <1>1, <1>2, OwnersSame, BorrowedSame
<1>8. TakesTurns'
  BY <1>1, <1>2 DEF TakesTurns
<1>9. ChunksInOrder'
  <2>1. PendingChunk' = PendingChunk /\ Carried' = {}
    BY <1>1, <1>2 DEF PendingChunk, Carried
  <2> SUFFICES ASSUME ~pvrHist.signalled PROVE ChunksInOrder'
    BY <2>1, <1>1 DEF ChunksInOrder
  <2>2. x = dma.carries /\ Carried = {x}
    BY <1>1 DEF TakesTurns, Carried
  <2>3. ToSet(intake') = ToSet(intake) \cup {x}
    BY <1>4 DEF ToSet
  <2>4. /\ \A i \in DOMAIN intake : intake[i] \in 1..pvrHist.n
        /\ \A i, j \in DOMAIN intake : i < j => intake[i] < intake[j]
        /\ x \in 1..pvrHist.n
        /\ \A i \in DOMAIN intake : intake[i] < x
        /\ \A c \in PendingChunk, i \in DOMAIN intake : intake[i] < c
        /\ \A p \in PendingChunk : x < p
        /\ 1..pvrHist.n \ (ToSet(intake) \cup pvrHist.dropped) = {x} \cup PendingChunk
        /\ PendingChunk \subseteq 1..pvrHist.n
        /\ pvrHist.dropped \subseteq 1..pvrHist.n
    BY <2>2 DEF ChunksInOrder
  <2>5. x \notin PendingChunk
    BY <2>4, <1>3
  <2>6. 1..pvrHist.n \ (ToSet(intake') \cup pvrHist.dropped) = PendingChunk
    BY <2>3, <2>4, <2>5
  <2>7. \A i \in DOMAIN intake' : i \in DOMAIN intake \/ (i = Len(intake) + 1 /\ intake'[i] = x)
    BY <1>4
  <2>8. /\ \A i \in DOMAIN intake' : intake'[i] \in 1..pvrHist.n
        /\ \A c \in PendingChunk, i \in DOMAIN intake' : intake'[i] < c
    BY <2>4, <2>7, <1>4
  <2>9. ASSUME NEW i \in DOMAIN intake', NEW j \in DOMAIN intake', i < j
        PROVE  intake'[i] < intake'[j]
    <3>1. i \in DOMAIN intake
      BY <2>9, <1>4
    <3>2. CASE j \in DOMAIN intake
      BY <3>1, <3>2, <2>4, <2>9, <1>4
    <3>3. CASE j = Len(intake) + 1
      BY <3>1, <3>3, <2>4, <1>4
    <3> QED
      BY <3>2, <3>3, <2>7
  <2> QED
    BY <2>1, <2>4, <2>6, <2>8, <2>9, <1>1 DEF ChunksInOrder
<1> QED
  BY <1>5, <1>6, <1>7, <1>8, <1>9

-----------------------------------------------------------------------------
(* Mapped buffers.                                                         *)

LEMMA KeepsBuffer ==
  ASSUME IInv, OneWayToPlay, NEW mm \in PvrMms, NEW i \in 1..PvrSlots, pvr_write_buffer(mm, i)
  PROVE  IInv'
<1> USE DEF IInv
<1> PICK d : d = Started(2, pvrHist.n + 1)
  OBVIOUS
<1>1. /\ "buffer" \in pvrEnv /\ pvr.open /\ writer = [at |-> "user", left |-> 0]
      /\ dma' = d
      /\ pvrHist' = [pvrHist EXCEPT !.n = pvrHist.n + 1]
      /\ writer' = [at |-> "wait", left |-> 0]
      /\ cfg' = cfg /\ pvr' = pvr /\ intake' = intake /\ pvrEnv' = pvrEnv
  BY DEF pvr_write_buffer, PvrIdle, Now, Keep
<1>2. pvrHist.n \in Nat /\ pvrHist.n + 1 \in Nat
  BY DEF PvrTypeOK
<1>3. /\ d \in DmaStates
      /\ d = [on |-> TRUE, at |-> 2, torn |-> FALSE, carries |-> pvrHist.n + 1, complete |-> FALSE]
  <2>1. dma \in DmaStates
    BY DEF PvrTypeOK, DmaStates
  <2>2. 2 \in 0..2
    OBVIOUS
  <2> QED
    BY <1>2, <2>1, <2>2, StartedIs
<1>4. dma'.on /\ ~dma'.torn /\ ~dma'.complete /\ dma'.carries = pvrHist.n + 1
  BY <1>1, <1>3
<1>5. /\ pvrHist'.mem = pvrHist.mem /\ pvrHist'.lost = pvrHist.lost
      /\ pvrHist'.asked = pvrHist.asked /\ pvrHist'.n = pvrHist.n + 1
      /\ pvrHist'.plays = pvrHist.plays /\ pvrHist'.dropped = pvrHist.dropped
      /\ pvrHist'.signalled = pvrHist.signalled
  BY <1>1 DEF PvrTypeOK
<1>6. PvrTypeOK'
  <2>1. pvrHist' \in [asked : RegValues, n : Nat, dropped : SUBSET Nat, mem : SUBSET PvrBlocks,
                      lost : SUBSET PvrBlocks, signalled : BOOLEAN, plays : BOOLEAN]
    BY <1>1, <1>2 DEF PvrTypeOK
  <2> QED
    BY <2>1, <1>1, <1>3 DEF PvrTypeOK, DmaStates
<1>7. Inside'
  BY <1>1 DEF Inside
<1>8. OwnersApart' /\ Borrowed'
  BY <1>1, <1>5, OwnersSame, BorrowedSame
<1>9. pvr.first_time # 1
  BY <1>1 DEF OneWayToPlay, TakesTurns, PvrTypeOK
<1>10. TakesTurns'
  BY <1>1, <1>4, <1>5, <1>9 DEF TakesTurns
<1>11. ChunksInOrder'
  <2>1. PendingChunk = {} /\ PendingChunk' = {}
    BY <1>1, <1>9 DEF PendingChunk
  <2>2. Carried' = {pvrHist.n + 1}
    BY <1>4 DEF Carried
  <2>3. pvrHist'.dropped \subseteq 1..pvrHist'.n
    BY <1>2, <1>5 DEF ChunksInOrder
  <2> SUFFICES ASSUME ~pvrHist.signalled PROVE ChunksInOrder'
    BY <2>1, <2>3, <1>5 DEF ChunksInOrder
  <2>4. Carried = {}
    BY <1>1 DEF Carried, TakesTurns
  <2>5. /\ \A j \in DOMAIN intake : intake[j] \in 1..pvrHist.n
        /\ \A j, k \in DOMAIN intake : j < k => intake[j] < intake[k]
        /\ 1..pvrHist.n \ (ToSet(intake) \cup pvrHist.dropped) = {}
        /\ pvrHist.dropped \subseteq 1..pvrHist.n
    BY <2>1, <2>4 DEF ChunksInOrder
  <2>6. ToSet(intake) \subseteq 1..pvrHist.n
    BY <2>5 DEF ToSet
  <2>7. 1..(pvrHist.n + 1) = 1..pvrHist.n \cup {pvrHist.n + 1} /\ pvrHist.n + 1 \notin 1..pvrHist.n
    BY <1>2
  <2>8. 1..(pvrHist.n + 1) \ (ToSet(intake) \cup pvrHist.dropped) = {pvrHist.n + 1}
    BY <2>5, <2>6, <2>7
  <2>9. \A j \in DOMAIN intake : intake[j] \in 1..(pvrHist.n + 1) /\ intake[j] < pvrHist.n + 1
    BY <2>5, <1>2
  <2> QED
    BY <2>1, <2>2, <2>3, <2>5, <2>7, <2>8, <2>9, <1>1, <1>5 DEF ChunksInOrder
<1> QED
  BY <1>6, <1>7, <1>8, <1>10, <1>11

\* A buffer is mapped to a slot that is free, or given back from the slot it is in.
LEMMA KeepsSlots ==
  ASSUME IInv, NEW mm \in PvrMms,
         pvr_allocate_buffer(mm) \/ \E i \in 1..PvrSlots : pvr_free_buffer(mm, i)
  PROVE  IInv'
<1> USE DEF IInv
<1>0. pvrHist.mem \subseteq PvrBlocks
  BY DEF PvrTypeOK
<1> PICK i \in 1..PvrSlots, s \in SlotValues, m \in SUBSET PvrBlocks :
      /\ pvr' = [pvr EXCEPT !.bufs[i] = s]
      /\ pvrHist' = [pvrHist EXCEPT !.mem = m]
      /\ \/ /\ s.mm = mm /\ s.phys \in PvrBlocks \ pvrHist.mem
            /\ pvr.bufs[i] = NoSlot /\ m = pvrHist.mem \cup {s.phys}
         \/ /\ s = NoSlot /\ pvr.bufs[i].mm = mm /\ m = pvrHist.mem \ {pvr.bufs[i].phys}
  <2>1. CASE pvr_allocate_buffer(mm)
    <3>1. PICK b \in FreeMemory, i \in 1..PvrSlots :
            /\ pvr.bufs[i] = NoSlot
            /\ pvr' = [pvr EXCEPT !.bufs[i] = [mm |-> mm, phys |-> b]]
            /\ pvrHist' = [pvrHist EXCEPT !.mem = pvrHist.mem \cup {b}]
      BY <2>1 DEF pvr_allocate_buffer, pvr_device_mmap
    <3>2. [mm |-> mm, phys |-> b] \in SlotValues /\ b \in PvrBlocks \ pvrHist.mem
      BY DEF SlotValues, FreeMemory
    <3> USE <3>2
    <3>3. pvrHist.mem \cup {b} \in SUBSET PvrBlocks
      BY <3>2, <1>0
    <3> USE <3>3
    <3> WITNESS i \in 1..PvrSlots, [mm |-> mm, phys |-> b] \in SlotValues,
                pvrHist.mem \cup {b} \in SUBSET PvrBlocks
    <3> QED
      BY <3>1, <3>2
  <2>2. CASE \E i \in 1..PvrSlots : pvr_free_buffer(mm, i)
    <3>1. PICK i \in 1..PvrSlots :
            /\ pvr.bufs[i].mm = mm
            /\ pvr' = [pvr EXCEPT !.bufs[i] = NoSlot]
            /\ pvrHist' = [pvrHist EXCEPT !.mem = pvrHist.mem \ {pvr.bufs[i].phys}]
      BY <2>2 DEF pvr_free_buffer
    <3>2. NoSlot \in SlotValues
      BY DEF NoSlot, SlotValues
    <3> USE <3>2
    <3>3. pvrHist.mem \ {pvr.bufs[i].phys} \in SUBSET PvrBlocks
      BY <1>0
    <3> USE <3>3
    <3> WITNESS i \in 1..PvrSlots, NoSlot \in SlotValues,
                pvrHist.mem \ {pvr.bufs[i].phys} \in SUBSET PvrBlocks
    <3> QED
      BY <3>1
  <2> QED
    BY <2>1, <2>2
<1>1. /\ cfg' = cfg /\ dma' = dma /\ writer' = writer /\ intake' = intake /\ pvrEnv' = pvrEnv
      /\ pvr.open
  BY DEF pvr_allocate_buffer, pvr_device_mmap, pvr_free_buffer, Keep
<1>2. pvr.bufs \in [1..PvrSlots -> SlotValues] /\ pvrHist.mem \subseteq PvrBlocks
  BY DEF PvrTypeOK
<1>3. m \subseteq PvrBlocks
  OBVIOUS
<1>4. /\ pvr'.open = pvr.open /\ pvr'.hMem = pvr.hMem /\ pvr'.saved = pvr.saved
      /\ pvr'.first_time = pvr.first_time /\ pvr'.half = pvr.half /\ pvr'.last = pvr.last
      /\ pvr'.pingpong = pvr.pingpong
      /\ pvr'.bufs = [pvr.bufs EXCEPT ![i] = s]
  BY DEF PvrTypeOK
<1>5. /\ pvrHist'.mem = m /\ pvrHist'.lost = pvrHist.lost
      /\ pvrHist'.asked = pvrHist.asked /\ pvrHist'.n = pvrHist.n
      /\ pvrHist'.plays = pvrHist.plays /\ pvrHist'.dropped = pvrHist.dropped
      /\ pvrHist'.signalled = pvrHist.signalled
  BY DEF PvrTypeOK
<1>6. PvrTypeOK'
  BY <1>1, <1>3 DEF PvrTypeOK
<1>7. Inside'
  BY <1>1, <1>4 DEF Inside
<1>8. Borrowed' /\ TakesTurns' /\ ChunksInOrder'
  BY <1>1, <1>4, <1>5, BorrowedSame, TurnsSame, ChunksSame
<1>9. /\ pvr'.bufs[i] = s /\ \A j \in 1..PvrSlots : j # i => pvr'.bufs[j] = pvr.bufs[j]
  BY <1>2, <1>4
<1>10. /\ s.phys \in PvrBlocks => s.phys # NoBlock
       /\ NoSlot.phys = NoBlock /\ NoSlot.mm = "none" /\ NoBlock \notin PvrBlocks
       /\ mm # "none"
  BY PvrAssumption DEF NoSlot, NoBlock
<1>11. /\ pvrHist.mem = AllBuffers \cup {pvr.hMem} \cup pvrHist.lost
       /\ \A j \in 1..PvrSlots : pvr.bufs[j].phys # NoBlock => pvr.bufs[j].phys \in AllBuffers
       /\ AllBuffers' = {pvr'.bufs[j].phys : j \in 1..PvrSlots} \ {NoBlock}
  BY <1>1 DEF OwnersApart, AllBuffers
<1>12. OwnersApart'
  <2>1. CASE /\ s.mm = mm /\ s.phys \in PvrBlocks \ pvrHist.mem
             /\ pvr.bufs[i] = NoSlot /\ m = pvrHist.mem \cup {s.phys}
    <3>1. AllBuffers' = AllBuffers \cup {s.phys}
      BY <2>1, <1>9, <1>10, <1>11 DEF AllBuffers
    <3>2. pvrHist'.mem = AllBuffers' \cup {pvr'.hMem} \cup pvrHist'.lost
      BY <3>1, <2>1, <1>4, <1>5, <1>11
    <3>3. s.phys \notin AllBuffers \cup {pvr.hMem} \cup pvrHist.lost
      BY <2>1, <1>11
    <3>4. \A j, k \in 1..PvrSlots :
            pvr'.bufs[j].phys = pvr'.bufs[k].phys /\ pvr'.bufs[j].phys # NoBlock => j = k
      BY <3>3, <1>9, <1>11 DEF OwnersApart
    <3>5. \A j \in 1..PvrSlots : pvr'.bufs[j].mm = "none" <=> pvr'.bufs[j].phys = NoBlock
      BY <2>1, <1>9, <1>10 DEF OwnersApart
    <3>6. \A j \in 1..PvrSlots : pvr'.bufs[j].phys \notin pvrHist.lost /\ pvr'.bufs[j].phys # pvr.hMem
      BY <3>3, <1>1, <1>9 DEF OwnersApart
    <3> QED
      BY <3>2, <3>4, <3>5, <3>6, <1>1, <1>4, <1>5 DEF OwnersApart
  <2>2. CASE s = NoSlot /\ pvr.bufs[i].mm = mm /\ m = pvrHist.mem \ {pvr.bufs[i].phys}
    <3>0. PICK b : b = pvr.bufs[i].phys
      OBVIOUS
    <3>1. b # NoBlock /\ b \in AllBuffers
      BY <2>2, <3>0, <1>10, <1>11 DEF OwnersApart
    <3>2. \A j \in 1..PvrSlots : j # i => pvr.bufs[j].phys # b
      BY <3>0, <3>1 DEF OwnersApart
    <3>3. AllBuffers' = AllBuffers \ {b}
      BY <2>2, <3>0, <3>2, <1>9, <1>10, <1>11 DEF AllBuffers
    <3>4. b \notin pvrHist.lost /\ b # pvr.hMem
      BY <3>0, <1>1 DEF OwnersApart
    <3>5. pvrHist'.mem = AllBuffers' \cup {pvr'.hMem} \cup pvrHist'.lost
      BY <3>0, <3>3, <3>4, <2>2, <1>4, <1>5, <1>11
    <3>6. \A j, k \in 1..PvrSlots :
            pvr'.bufs[j].phys = pvr'.bufs[k].phys /\ pvr'.bufs[j].phys # NoBlock => j = k
      BY <2>2, <1>9, <1>10 DEF OwnersApart
    <3>7. \A j \in 1..PvrSlots : pvr'.bufs[j].mm = "none" <=> pvr'.bufs[j].phys = NoBlock
      BY <2>2, <1>9, <1>10 DEF OwnersApart
    <3>8. pvrHist.lost \subseteq PvrBlocks
      BY DEF PvrTypeOK
    <3>9. pvr.hMem # NoBlock
      BY <1>2, <1>10, <1>11
    <3>10. \A j \in 1..PvrSlots : pvr'.bufs[j].phys \notin pvrHist.lost /\ pvr'.bufs[j].phys # pvr.hMem
      BY <2>2, <3>8, <3>9, <1>1, <1>9, <1>10 DEF OwnersApart
    <3> QED
      BY <3>5, <3>6, <3>7, <3>10, <1>1, <1>4, <1>5 DEF OwnersApart
  <2> QED
    BY <2>1, <2>2
<1> QED
  BY <1>6, <1>7, <1>8, <1>12

-----------------------------------------------------------------------------
(* Together.                                                               *)

LEMMA NextKeepsInv ==
  ASSUME IInv, OneWayToPlay, [PvrNext]_pvrVars
  PROVE  IInv'
<1>1. CASE \E done \in BOOLEAN : xp_osi_init(done)
  BY <1>1, KeepsInit
<1>2. CASE \E s \in PvrSources : DemuxSelectSource(s)
  BY <1>2, KeepsConfigured DEF DemuxSelectSource
<1>3. CASE \E v \in {0, 1} : DemuxSetACPM(v) \/ DemuxSetVCPM(v)
  BY <1>3, KeepsConfigured DEF DemuxSetACPM, DemuxSetVCPM, Bits
<1>4. CASE \E op \in {"set", "start", "stop"} : Bypass(op)
  BY <1>4, KeepsBypass
<1>5. CASE pvr_osd_open
  BY <1>5, KeepsOpen
<1>6. CASE pvr_osd_release
  BY <1>6, KeepsRelease
<1>7. CASE pvr_set_mode \/ pvr_stop
  BY <1>7, KeepsMode
<1>8. CASE FlushBegin
  BY <1>8, KeepsFlushBegin
<1>9. CASE FlushEnd
  BY <1>9, KeepsFlushEnd
<1>10. CASE \E n \in 1..3 : pvr_osd_write(n)
  BY <1>10, KeepsWrite
<1>11. CASE WriteChunk
  BY <1>11, KeepsChunk
<1>12. CASE WriteWait \/ WriteSignal \/ WriteReturns
  BY <1>12, KeepsWait
<1>13. CASE \E mm \in PvrMms : pvr_allocate_buffer(mm) \/ \E i \in 1..PvrSlots : pvr_free_buffer(mm, i)
  BY <1>13, KeepsSlots
<1>14. CASE \E mm \in PvrMms, i \in 1..PvrSlots : pvr_write_buffer(mm, i)
  BY <1>14, KeepsBuffer
<1>15. CASE pvr_isr
  BY <1>15, KeepsIsr
<1>16. CASE UNCHANGED pvrVars
  <2>1. /\ cfg' = cfg /\ pvr' = pvr /\ dma' = dma /\ writer' = writer /\ intake' = intake
        /\ pvrHist' = pvrHist /\ pvrEnv' = pvrEnv
    BY <1>16 DEF pvrVars
  <2>2. PvrTypeOK' /\ Inside'
    BY <2>1 DEF IInv, PvrTypeOK, Inside
  <2>3. OwnersApart' /\ Borrowed' /\ TakesTurns' /\ ChunksInOrder'
    BY <2>1, OwnersSame, BorrowedSame, TurnsSame, ChunksSame DEF IInv
  <2> QED
    BY <2>2, <2>3 DEF IInv
<1> QED
  BY <1>1, <1>2, <1>3, <1>4, <1>5, <1>6, <1>7, <1>8, <1>9, <1>10, <1>11, <1>12, <1>13, <1>14,
     <1>15, <1>16 DEF PvrNext

\* The inductive invariant holds of every behaviour.
THEOREM Invariance == OneWayToPlay => (PvrSpec => []IInv)
<1> SUFFICES ASSUME OneWayToPlay PROVE PvrSpec => []IInv
  OBVIOUS
<1>1. PvrInit => IInv
  BY InitInv
<1>2. IInv /\ [PvrNext]_pvrVars => IInv'
  BY NextKeepsInv
<1> QED
  BY <1>1, <1>2, PTL DEF PvrSpec

LEMMA InvPlayback == IInv => PlaybackAsAsked
<1> SUFFICES ASSUME IInv PROVE PlaybackAsAsked
  OBVIOUS
<1> USE DEF IInv
<1>1. PlaysInOrder
  <2> SUFFICES ASSUME ~pvrHist.signalled PROVE PlaysInOrder
    BY DEF PlaysInOrder
  <2>1. /\ \A i \in DOMAIN intake : intake[i] \in 1..pvrHist.n
        /\ \A i, j \in DOMAIN intake : i < j => intake[i] < intake[j]
    BY DEF ChunksInOrder
  <2>2. \A i \in DOMAIN intake : intake[i] # Torn
    BY <2>1 DEF Torn, PvrTypeOK
  <2>3. PvrIdle => Carried = {}
    BY DEF PvrIdle, TakesTurns, Carried
  <2> QED
    BY <2>1, <2>2, <2>3 DEF PlaysInOrder, ChunksInOrder
<1>2. ConfigAsAsked
  BY DEF Borrowed
<1>3. PvrMemoryConserved
  BY DEF PvrMemoryConserved, OwnersApart, TakesTurns, Inside
<1> QED
  BY <1>1, <1>2, <1>3 DEF PlaybackAsAsked

\* Chunks reach the transport whole, once and in order, the registers hold what
\* was asked for between the two drivers, and memory has one owner
\* (pvr_osd_write, pvr_osi_playback_deconfig, pvr_osd_release).
THEOREM PlaysAsAsked == OneWayToPlay => (PvrSpec => []PlaybackAsAsked)
BY Invariance, InvPlayback, PTL
==============================================================================
