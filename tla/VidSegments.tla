----------------------------- MODULE VidSegments -----------------------------
(***************************************************************************)
(* vid_atom_init (vid_atom.c) lays the memory the video decoder may use    *)
(* out in up to eight segments: the frame buffer, the video memory, and    *)
(* the memory graphics surfaces are taken from, in pieces of the largest   *)
(* segment.  A segment is a power of two of megabytes and begins on a      *)
(* megabyte; the decoder sees the segments one after the other, and the    *)
(* graphics driver gives it guGraphicsVideoOffset plus a surface's offset. *)
(* Addresses are counted in units of which SegMega make a megabyte.        *)
(***************************************************************************)
EXTENDS Integers, Sequences

CONSTANTS SegMega,     \* units in a megabyte (2^20 bytes in the code)
          SegMax,      \* log2 of the largest segment in megabytes (4)
          SegRegs,     \* segment registers (8)
          SegVideo,    \* sizes of the video memory, in units
          SegBases,    \* physical addresses of the graphics memory
          SegSizes     \* sizes of the graphics memory

ASSUME SegAssumption == SegMega \in Nat \ {0} /\ SegMax \in Nat /\ SegRegs \in Nat \ {0, 1}

VARIABLES
  segs,    \* the segment registers written so far: base and log2 of the size
  segAt,   \* segaddr: where the last of them begins, as the decoder counts
  segGfx,  \* guGraphicsVideoOffset
  segLeft, \* ulTempAddr and iTempSize: the graphics memory still to be mapped
  segCfg,  \* the memory map compiled in
  segPc

segVars == <<segs, segAt, segGfx, segLeft, segCfg, segPc>>

InMega(a) == a % SegMega
LargestSegment == SegMega * 2 ^ SegMax

-----------------------------------------------------------------------------
\* How many bits there are in the number of the last megabyte: the loop that
\* shifts i until it is zero.
SegSize_short(addr, size) ==
  LET i == (size - 1) \div SegMega
  IN  CHOOSE n \in 0 .. i + 1 : i < 2 ^ n /\ (n > 0 => 2 ^ (n - 1) <= i)

SegSize(addr, size) ==
  LET i == (InMega(addr) + size - 1) \div SegMega
  IN  CHOOSE n \in 0 .. i + 1 : i < 2 ^ n /\ (n > 0 => 2 ^ (n - 1) <= i)

\* __vid_init_segment_reg: the low bits of the address are not kept.
vid_init_segment_reg(size, addr) == [base |-> addr - InMega(addr), size |-> size]

Units(seg) == SegMega * 2 ^ seg.size

SegInit ==
  /\ segs = <<>> /\ segAt = 0 /\ segGfx = 0 /\ segPc = "frame"
  /\ segCfg \in [frame : {100 * SegMega, 100 * SegMega + 1}, video : {200 * SegMega + 1},
                 vsize : SegVideo, gfx : SegBases, gsize : SegSizes,
                 own : BOOLEAN]
  /\ segLeft = [addr |-> segCfg.gfx, size |-> segCfg.gsize]

\* Segment 0: two megabytes of frame buffer, on a megabyte.
FrameSegment ==
  /\ segPc = "frame"
  /\ segPc' = IF InMega(segCfg.frame) # 0 THEN "refused" ELSE "video"
  /\ segs' = IF InMega(segCfg.frame) # 0 THEN segs
             ELSE <<vid_init_segment_reg(1, segCfg.frame)>>
  /\ segAt' = 2 * SegMega
  /\ UNCHANGED <<segGfx, segLeft, segCfg>>

\* Segment 1: the video memory, which must fit one segment.
VideoSegment ==
  LET size == SegSize(segCfg.video, segCfg.vsize)
  IN  /\ segPc = "video"
      /\ segPc' = IF size > SegMax THEN "refused" ELSE "graphics"
      /\ segs' = IF size > SegMax THEN segs
                 ELSE Append(segs, vid_init_segment_reg(size, segCfg.video))
      /\ segGfx' = segAt + SegMega * 2 ^ size + InMega(segLeft.addr)
      /\ UNCHANGED <<segAt, segLeft, segCfg>>

\* One turn of the loop over the graphics memory: a largest piece or the rest.
NextSegment ==
  LET inc == IF segLeft.size > LargestSegment THEN LargestSegment ELSE segLeft.size
      size == SegSize(segLeft.addr, inc)
      fits == IF size > SegMax THEN SegMax ELSE size
  IN  /\ segLeft.size > 0 /\ Len(segs) < SegRegs
      /\ segAt' = segAt + Units(segs[Len(segs)])
      /\ segs' = Append(segs, vid_init_segment_reg(fits, segLeft.addr))
      /\ segLeft' = [addr |-> segLeft.addr + inc, size |-> segLeft.size - inc]
      /\ UNCHANGED <<segGfx, segCfg, segPc>>

\* Graphics memory of its own, or what pm_alloc gives out: two loops.
GraphicsSegment == segPc = "graphics" /\ segCfg.own /\ NextSegment
AllocSegment == segPc = "graphics" /\ ~segCfg.own /\ NextSegment

SegmentsDone ==
  /\ segPc = "graphics" /\ (segLeft.size <= 0 \/ Len(segs) = SegRegs)
  /\ segPc' = "done"
  /\ UNCHANGED <<segs, segAt, segGfx, segLeft, segCfg>>

SegNext == FrameSegment \/ VideoSegment \/ GraphicsSegment \/ AllocSegment \/ SegmentsDone

SegSpec == SegInit /\ [][SegNext]_segVars

-----------------------------------------------------------------------------
(* vid_atom_set_fb_adr (vid_atom_others.c): the luminance and chrominance of *)
(* the three frame buffers, in the two megabytes of segment 0.  On a Pallas  *)
(* the base computed for NTSC is not used.                                   *)

FbModes == {"PAL", "NTSC"}
FbChips == {"PALLAS", "VESTA"}

FbBase(chip, mode) ==
  CASE chip = "PALLAS" -> IF mode = "PAL" THEN \h1780 ELSE 0
    [] chip = "VESTA" -> IF mode = "PAL" THEN \h16900 ELSE \h21D00

\* Luminance and chrominance of a buffer: of the third, which shows pictures
\* that nothing is predicted from, PAL keeps half the chrominance.
FbLum(mode) == IF mode = "PAL" THEN \h65400 ELSE \h54600
FbChr(chip, mode, buf) ==
  CASE mode = "NTSC" -> \h2A300
    [] mode = "PAL" /\ buf # 2 -> \h32A00
    [] mode = "PAL" /\ buf = 2 -> IF chip = "PALLAS" THEN \h19500 ELSE \h19E00

\* As below, the first buffer right behind the small one's luminance.
FbStart_tight(chip, mode, buf) ==
  CASE buf = 2 -> 0
    [] buf = 0 -> \h65400
    [] buf = 1 -> IF mode = "PAL" THEN \h131280 ELSE \h11D780

FbStart(chip, mode, buf) ==
  CASE buf = 2 -> 0
    [] buf = 0 /\ mode = "PAL"  -> IF chip = "PALLAS" THEN \h99480 ELSE \h84E00
    [] buf = 0 /\ mode = "NTSC" -> IF chip = "PALLAS" THEN \h9EE80 ELSE \h89D00
    [] buf = 1 /\ mode = "PAL"  -> IF chip = "PALLAS" THEN \h131280 ELSE \h11CC00
    [] buf = 1 /\ mode = "NTSC" -> IF chip = "PALLAS" THEN \h11D780 ELSE \h108600

vid_atom_set_fb_adr(chip, mode) ==
  LET lum(b) == FbBase(chip, mode) + FbStart(chip, mode, b)
  IN  {[at |-> lum(b), size |-> FbLum(mode)] : b \in 0 .. 2}
      \cup {[at |-> lum(b) + FbLum(mode), size |-> FbChr(chip, mode, b)] : b \in 0 .. 2}

-----------------------------------------------------------------------------
\* Where the decoder sees segment k begin, and what it reads at address v.
Begins[k \in 1 .. SegRegs] == IF k = 1 THEN 0 ELSE Begins[k - 1] + Units(segs[k - 1])
Reads(v, p) == \E k \in 1 .. Len(segs) :
  /\ Begins[k] <= v /\ v < Begins[k] + Units(segs[k])
  /\ p = segs[k].base + v - Begins[k]

\* Every unit of the graphics memory is where guGraphicsVideoOffset says, over
\* all the segments it is cut into, unless the registers ran out, or the last
\* piece and the part of a megabyte before it exceed the largest segment: then
\* segsize is cut to it and the tail is unmapped (vid_atom_init).
GraphicsAddressed ==
  LET last == ((segCfg.gsize - 1) % LargestSegment) + 1
  IN  segPc = "done" /\ segLeft.size <= 0 /\ InMega(segCfg.gfx) + last <= LargestSegment =>
        \A off \in 0 .. segCfg.gsize - 1 : Reads(segGfx + off, segCfg.gfx + off)

\* In every mode of every chip no two parts of the frame buffers overlap, and
\* all lie in the segment that was made for them (vid_atom_set_fb_adr).
FramesApart ==
  \A chip \in FbChips, mode \in FbModes :
    LET parts == vid_atom_set_fb_adr(chip, mode)
    IN  \A x \in parts :
          /\ x.at + x.size <= 2 * \h100000
          /\ \A y \in parts \ {x} : x.at + x.size <= y.at \/ y.at + y.size <= x.at

\* What the decoder draws, from surfaces and into frame buffers, is where it is
\* meant to be.
SurfacesAddressed == GraphicsAddressed /\ FramesApart
=============================================================================
