------------------------------- MODULE GfxLayout -------------------------------
(***************************************************************************)
(* The memory of a graphics surface (gfx_osi_surface.c): its size rounded  *)
(* to what its pixels need, one allocation cut into pages for the control  *)
(* header, its palette and the planes, later dimensions that must fit the  *)
(* planes allocated first, and the palette the display reads.              *)
(*                                                                         *)
(* The RGB and the YCbCr configuration of a kind are laid out alike; "P"   *)
(* kinds have pixels twice as wide.  Of a palette, the last entry is kept, *)
(* with the colours on the grey axis.                                      *)
(***************************************************************************)
EXTENDS Integers, Sequences, FiniteSets

CONSTANTS LayPage,    \* OSD_BUFFER_ALIGNMENT
          LayWidths,  \* widths asked for
          LayHeights, \* heights asked for
          LayKinds,   \* plane configurations used
          LayPalBound,\* bound: palettes are set on surfaces narrower than this
          LayAlphas,  \* alpha values of palette entries
          LayGreys    \* grey levels of palette entries

ASSUME LayAssumption == LayPage \in Nat \ {0}

VARIABLES
  laySurf,  \* the surface, or NoLayout
  layPal    \* its palette: what was asked, and what the display reads

layVars == <<laySurf, layPal>>

Indexed == {"CLUT8", "CLUT8P", "CLUT4", "CLUT4P", "CLUT2", "CLUT2P"}
Cursors == {"CUR4", "CUR4P", "CUR2", "CUR2P"}
Twins == {"A422", "A420"}
Yuvs == {"Y422", "Y420"} \cup Twins
Doubled == {"CLUT8P", "CLUT4P", "CLUT2P", "CUR4P", "CUR2P"}
Raws == {"ARGB", "RAW8", "RAW1"}

NoLayout == [kind |-> "none"]
NoPalette == <<>>

RoundUp(n, unit) == ((n + unit - 1) \div unit) * unit

\* __gfx_osi_adjust_surface_wh: pixels to a byte boundary of the line, an even
\* number of lines; the memory kinds are taken as they are.
LineUnit(kind) == CASE kind \in {"CLUT8"} \cup Yuvs -> 4
                    [] kind \in {"CLUT8P", "CLUT4", "CUR4"} -> 8
                    [] kind \in {"CLUT4P", "CLUT2", "CUR4P", "CUR2"} -> 16
                    [] kind \in {"CLUT2P", "CUR2P"} -> 32
                    [] OTHER -> 1

AdjustedWidth(kind, w) == RoundUp(w, LineUnit(kind))
AdjustedHeight(kind, h) == IF kind \in Raws THEN h ELSE RoundUp(h, 2)

BytePerLine(kind, w) == CASE kind = "ARGB" -> 4 * w
                          [] kind = "RAW8" -> w
                          [] kind = "RAW1" -> (w + 7) \div 8
                          [] OTHER -> (4 * w) \div LineUnit(kind)

\* A cursor has lines of at most 32 bytes, says the creation; a new dimension
\* is not asked.
TooWide(kind, w) == kind \in Cursors /\ BytePerLine(kind, AdjustedWidth(kind, w)) > 32

BadDimension(w, h) == w < 4 \/ h < 2 \/ w > 1020 \/ h > 1022

-----------------------------------------------------------------------------
\* The table of configurations: planes, their heights, the bits of a pixel and
\* the colours the header has room for.
PlaneCount(kind) == CASE kind \in Twins -> 3 [] kind \in Yuvs -> 2 [] OTHER -> 1

PlaneHeight(kind, p, h) == IF kind \in {"Y420", "A420"} /\ p = 2 THEN h \div 2 ELSE h

PixelSize(kind) == CASE kind \in {"CLUT4", "CLUT4P"} \cup Cursors -> 4
                     [] kind \in {"CLUT2", "CLUT2P"} -> 2
                     [] kind = "ARGB" -> 32
                     [] kind = "RAW1" -> 1
                     [] OTHER -> 8

HasPalette(kind) == kind \in Indexed \cup Cursors

AllocWidth(kind, w) == IF kind \in Doubled THEN w \div 2 ELSE w

HeaderColours(kind) == CASE kind \in {"CLUT8", "CLUT8P"} -> 256
                         [] kind \in {"CLUT4", "CLUT4P", "CUR4", "CUR4P"} -> 16
                         [] kind \in {"CLUT2", "CLUT2P", "CUR2", "CUR2P"} -> 4
                         [] OTHER -> 0

ControlBlock(kind) == CASE kind \in Raws -> 0 [] kind \in Cursors -> 12 [] OTHER -> 16

\* Header: link aligned; a twin has two, each on pages of its own in the
\* reckoning, the second right behind the first in the memory.
HeaderSize(kind) == RoundUp(ControlBlock(kind) + 2 * HeaderColours(kind), 32)
HeaderPages(kind) ==
  (IF kind \in Twins THEN 2 ELSE 1) * ((HeaderSize(kind) + LayPage - 1) \div LayPage)
SecondHeader(kind) == RoundUp(HeaderSize(kind), 4)

PlaneBytes(kind, p, w, h) == RoundUp(PlaneHeight(kind, p, h) * BytePerLine(kind, w), LayPage)

\* uBMLA of plane p: behind the header and the planes before it.
PlaneStart(kind, p, w, h) ==
  LET before[q \in 0 .. 3] == IF q = 0 THEN HeaderPages(kind) * LayPage
                              ELSE before[q - 1] + PlaneBytes(kind, q, w, h)
  IN  before[p - 1]

\* The region the display's header describes: words of a line, pairs of lines.
RegionWords(kind, w) == (AllocWidth(kind, w) * PixelSize(kind)) \div 32

Layout(kind, w, h) ==
  LET n == PlaneCount(kind)
  IN  [kind |-> kind, bound |-> <<w - 1, h - 1>>, width |-> AllocWidth(kind, w),
       bpl |-> BytePerLine(kind, w), height |-> [p \in 1 .. n |-> PlaneHeight(kind, p, h)],
       start |-> [p \in 1 .. n |-> PlaneStart(kind, p, w, h)],
       room |-> [p \in 1 .. n |-> PlaneBytes(kind, p, w, h)],
       size |-> PlaneStart(kind, n, w, h) + PlaneBytes(kind, n, w, h),
       words |-> RegionWords(kind, w)]

-----------------------------------------------------------------------------
\* gfx_osi_rgb2ycbcr and gfx_osi_ycbcr2rgb, on a grey.
Luma(v) == ((8432 + 16425 + 3176) * v + 16 * 32768) \div 32768
Chroma(v) == (128 * 32768 + 14345 * v - (4818 + 9527) * v) \div 32768

Clamp(v) == IF v > 255 THEN 255 ELSE IF v < 0 THEN 0 ELSE v
Grey(y, c) == <<Clamp((38142 * y + 52298 * c - 7287603) \div 32768),
                Clamp((38142 * y + 4439671 - 26640 * c - 12812 * c) \div 32768),
                Clamp((38142 * y + 66126 * c - 9074377) \div 32768)>>

\* A physical entry: four levels of blending and a transparent one, for which
\* the blend bits are left as they were; a cursor's are steady.
BlendLevel(a) == (285 - a) \div 65

Entry(kind, rgb, old, a, v) ==
  LET y == (IF rgb THEN Luma(v) ELSE v) \div 4
      c == (IF rgb THEN Chroma(v) ELSE v) \div 16
  IN  CASE kind \in Cursors -> [y |-> IF a = 0 THEN 0 ELSE y, c |-> IF a = 0 THEN 0 ELSE c, bf |-> 2]
        [] BlendLevel(a) > 3 -> [y |-> 0, c |-> 0, bf |-> old.bf]
        [] OTHER -> [y |-> y, c |-> c, bf |-> BlendLevel(a)]

\* gfx_osi_set_surface_palette: clipped to the colours of the pixel size.
PaletteMax(kind) == CASE PixelSize(kind) = 8 -> 256 [] PixelSize(kind) = 4 -> 16 [] OTHER -> 4
Touched(kind, i, start, n) == start < PaletteMax(kind) /\ i >= start /\ i < start + n

PaletteSet(kind, rgb, slot, start, n, a, v) ==
  LET i == PaletteMax(kind) - 1
  IN  IF ~Touched(kind, i, start, n) THEN slot
      ELSE [a |-> a, v |-> v, rgb |-> rgb, at |-> ControlBlock(kind) + 2 * i,
            hw |-> Entry(kind, rgb, IF slot = NoPalette THEN [bf |-> 0] ELSE slot.hw, a, v)]

\* gfx_osi_reset_surface_palette: as many default colours as the kind has,
\* which for a two-bit cursor is fewer than its pixel size says.
PaletteReset(kind) ==
  IF ~HasPalette(kind) THEN NoPalette
  ELSE PaletteSet(kind, TRUE, NoPalette, 0, HeaderColours(kind), 255, 0)

-----------------------------------------------------------------------------
LayInit == laySurf = NoLayout /\ layPal = NoPalette

\* gfx_osi_create_surface, when the memory can be had.
LayCreate(kind, w, h) ==
  /\ laySurf = NoLayout /\ ~BadDimension(w, h) /\ ~TooWide(kind, w)
  /\ laySurf' = Layout(kind, AdjustedWidth(kind, w), AdjustedHeight(kind, h))
  /\ layPal' = PaletteReset(kind)

Exceeds_rows(surf, bpl, h) == h > surf.height[1]
\* Only the first plane is asked whether a new dimension fits.
Exceeds(surf, bpl, h) == bpl * h > surf.room[1]

\* gfx_osi_reconfig_surface_dimension: the words of a line are now reckoned
\* from the pixel size the wrong way round.
LayReconfig(w, h) ==
  LET kind == laySurf.kind
      aw == AdjustedWidth(kind, w)
      ah == AdjustedHeight(kind, h)
  IN  /\ laySurf # NoLayout /\ ~BadDimension(w, h)
      /\ ~Exceeds(laySurf, BytePerLine(kind, aw), ah)
      /\ laySurf' = [laySurf EXCEPT !.bound = <<aw - 1, ah - 1>>, !.width = AllocWidth(kind, aw),
                                    !.bpl = BytePerLine(kind, aw),
                                    !.height = [p \in DOMAIN @ |-> PlaneHeight(kind, p, ah)],
                                    !.words = IF kind \in Raws THEN @
                                              ELSE (AllocWidth(kind, aw) * 2) \div PixelSize(kind)]
      /\ UNCHANGED layPal

LaySetPalette(rgb, start, n, a, v) ==
  /\ laySurf # NoLayout /\ HasPalette(laySurf.kind) /\ laySurf.bound[1] < LayPalBound
  /\ layPal' = PaletteSet(laySurf.kind, rgb, layPal, start, n, a, v)
  /\ UNCHANGED laySurf

LayDestroy ==
  /\ laySurf # NoLayout /\ laySurf' = NoLayout /\ layPal' = NoPalette

LayNext ==
  \/ \E kind \in LayKinds, w \in LayWidths, h \in LayHeights : LayCreate(kind, w, h)
  \/ \E w \in LayWidths, h \in LayHeights : LayReconfig(w, h)
  \/ \E start \in {0, 3, 15}, n \in {1, 256}, a \in LayAlphas, v \in LayGreys, rgb \in BOOLEAN :
       LaySetPalette(rgb, start, n, a, v)
  \/ LayDestroy

LaySpec == LayInit /\ [][LayNext]_layVars

-----------------------------------------------------------------------------
\* The header, its twin, the colours written to it and the planes have memory
\* of their own inside the allocation, with every later dimension too: a new
\* dimension is checked against the first plane only, after the rounding of
\* each plane to pages.
SurfacesFit ==
  laySurf # NoLayout =>
    LET kind == laySurf.kind
        n == PlaneCount(kind)
        used(p) == laySurf.height[p] * laySurf.bpl
        headers == IF kind \in Twins THEN SecondHeader(kind) + 16 ELSE HeaderSize(kind)
    IN  /\ headers <= laySurf.start[1]
        /\ layPal # NoPalette => layPal.at + 2 <= laySurf.start[1]
        /\ \A p \in 1 .. n : laySurf.start[p] + used(p) <=
                               (IF p = n THEN laySurf.size ELSE laySurf.start[p + 1])
        /\ \A p \in 1 .. n : laySurf.start[p] % LayPage = 0
        /\ (laySurf.bound[1] + 1) * PixelSize(kind) <= 8 * laySurf.bpl * (IF kind \in Doubled THEN 2 ELSE 1)
           \/ kind \in {"CUR2", "CUR2P"}

\* The colour the display shows for a palette entry is the one last set: as
\* opaque as the table in the code says for its alpha, and as bright, after
\* the conversion to YCbCr and the six bits there are for it.
PaletteAsAsked ==
  layPal # NoPalette =>
    LET a == layPal.a
        hw == layPal.hw
        level == CASE a <= 25 -> 4 [] a <= 90 -> 3 [] a <= 155 -> 2 [] a <= 220 -> 1 [] OTHER -> 0
        clear == IF laySurf.kind \in Cursors THEN a = 0 ELSE level = 4
        shown == Grey(4 * hw.y, 128)
    IN  IF clear THEN hw.y = 0 /\ hw.c = 0
        ELSE /\ laySurf.kind \notin Cursors => hw.bf = level
             /\ layPal.rgb => \A i \in 1 .. 3 : shown[i] - layPal.v \in -6 .. 6

\* What the display reads of a surface is there and as it was set.
LayoutIsSound == SurfacesFit /\ PaletteAsAsked
=============================================================================
