-------------------------------- MODULE GfxDraw --------------------------------
(***************************************************************************)
(* Drawing on graphics surfaces in software (gfx_osi.c, gfx_osi_engine.c): *)
(* an operation justifies its coordinates, clips its rectangle and runs    *)
(* the engine's primitives for the pixel types of the two surfaces.  Of a  *)
(* primitive the model keeps the bytes it touches: an area of a plane with *)
(* its first column and line, its width in bytes, its lines, and how many  *)
(* lines apart they are.                                                   *)
(***************************************************************************)
EXTENDS Integers

CONSTANTS DrawKinds,   \* <<destination, source, mask>> types drawn with
          DrawSize,    \* <<width, height>> of every surface
          DrawXs,      \* <<destination, source, mask, width>> asked for across
          DrawYs,      \* the same down
          DrawSpans,   \* <<first, length>> of a resize
          DrawClips,   \* <<x1, y1, x2, y2>> asked for
          DrawWord     \* numbers of an unsigned int

ASSUME DrawAssumption == DrawSize \in (Nat \ {0}) \X (Nat \ {0}) /\ DrawWord \in Nat

VARIABLES
  surfs,  \* types of the three surfaces: "FREE" is not allocated, "OTHER" has
          \* no engine type, a mask of "none" is not given
  clip,   \* clip region of the destination
  drew    \* the call that is on: what it asked, what was left of it, the areas

drawVars == <<surfs, clip, drew>>

Width == DrawSize[1]
Height == DrawSize[2]
Full == [x1 |-> 0, y1 |-> 0, x2 |-> Width - 1, y2 |-> Height - 1]
Nothing == [op |-> "none"]

Alphas == {"A422", "A420"}
Chromas == {"Y422", "Y420"} \cup Alphas
Thinned(kind) == kind \in {"Y420", "A420"}    \* chroma for every second line
Valid(kind) == kind # "FREE"
Engine(kind) == kind \notin {"FREE", "OTHER"} \* IS_SURFACE_G2D_COMP
PixelJustify(kind) == IF kind \in Chromas THEN 2 ELSE 1

-----------------------------------------------------------------------------
DrawLater(a, b) == IF a > b THEN a ELSE b
Sooner(a, b) == IF a < b THEN a ELSE b

gfx_osi_pixelJustify(unit, n) == ((n + unit - 1) \div unit) * unit

NoSpan == [at |-> 0, len |-> 0]

\* One axis of gfx_osi_ClipExtRect.
ClipSpan(lo, hi, at, len) ==
  LET v1 == DrawLater(lo, at)
      v2 == Sooner(hi, at + len - 1)
  IN  IF len = 0 \/ v1 > v2 THEN NoSpan ELSE [at |-> v1, len |-> v2 - v1 + 1]

Follow_still(src, moved) == src
\* The source follows a destination that was moved by its clip.
Follow(src, moved) == src + moved

\* One axis of gfx_osi_ClipExtBLTRect: clipped by the source's bound, then by
\* the destination's clip; adj is how far the start moved.
ClipPair(bound, lo, hi, des, src, len) ==
  LET s == ClipSpan(0, bound, src, len)
      at == des + (s.at - src)
      d == ClipSpan(lo, hi, at, s.len)
  IN  IF s.len = 0 \/ d.len = 0 THEN [des |-> 0, src |-> 0, len |-> 0, adj |-> 0]
      ELSE [des |-> d.at, src |-> Follow(s.at, d.at - at), len |-> d.len,
            adj |-> (s.at - src) + (d.at - at)]

Rect(x, y) == [dx |-> x.des, dy |-> y.des, sx |-> x.src, sy |-> y.src, w |-> x.len, h |-> y.len,
               xadj |-> x.adj, yadj |-> y.adj]
Empty(r) == r.w = 0 \/ r.h = 0

gfx_osi_ClipExtBLTRect(a) ==
  Rect(ClipPair(Width - 1, clip.x1, clip.x2, a.dx, a.sx, a.w),
       ClipPair(Height - 1, clip.y1, clip.y2, a.dy, a.sy, a.h))

gfx_osi_ClipExtRect(a) ==
  LET x == ClipSpan(clip.x1, clip.x2, a.dx, a.w)
      y == ClipSpan(clip.y1, clip.y2, a.dy, a.h)
  IN  [a EXCEPT !.dx = x.at, !.dy = y.at, !.w = x.len, !.h = y.len]

\* gfx_osi_ClipRect: the line is compared with the width, and what is left of
\* the height is unsigned.
gfx_osi_ClipRect(x, y, w, h) ==
  LET cw == IF x + w > Width THEN Width - x ELSE w
      ch == IF y + h > Height THEN (Height - y) % DrawWord ELSE h
  IN  IF w = 0 \/ h = 0 \/ x >= Width \/ y >= Width \/ ch = 0 THEN [w |-> 0, h |-> 0]
      ELSE [w |-> cw, h |-> ch]

\* A mask cuts what is left once more, and the rest moves with it.
MaskRect(r, a) ==
  LET x == ClipSpan(0, Width - 1, a.mx + r.xadj, r.w)
      y == ClipSpan(0, Height - 1, a.my + r.yadj, r.h)
      nx == x.at - (a.mx + r.xadj)
      ny == y.at - (a.my + r.yadj)
  IN  IF x.len = 0 \/ y.len = 0 THEN [r EXCEPT !.w = 0]
      ELSE [r EXCEPT !.dx = @ + nx, !.sx = @ + nx, !.dy = @ + ny, !.sy = @ + ny,
                     !.w = x.len, !.h = y.len]

-----------------------------------------------------------------------------
\* Areas, and the primitives of the engine.
Area(on, plane, x, y, w, h, apart) ==
  [on |-> on, plane |-> plane, x |-> x, y |-> y, w |-> w, h |-> h, apart |-> apart]
Des(plane, x, y, w, h) == Area("des", plane, x, y, w, h, 1)
Src(plane, x, y, w, h) == Area("src", plane, x, y, w, h, 1)

Even(n) == 2 * (n \div 2)
Halved(r) == [r EXCEPT !.dy = @ \div 2, !.sy = @ \div 2, !.h = @ \div 2]
ChromaOf(kind, r) == IF Thinned(kind) THEN Halved(r) ELSE r
Apart(kind) == IF Thinned(kind) THEN 2 ELSE 1

fillblt8(plane, r) == {Des(plane, r.dx, r.dy, r.w, r.h)}
fillblt32(r) == {Des(0, 4 * r.dx, r.dy, 4 * r.w, r.h)}
fillblt_uv(r) == {Des(1, r.dx, r.dy, Even(r.w + 1), r.h)}

\* Whole bytes between the ends of a line of bits; the last bits are written
\* from the top of the plane and not from the line asked for.
fillblt1(r) ==
  LET s == r.dx % 8
      ends == s > 0 \/ r.w < 8
      first == IF ends THEN r.dx + s ELSE r.dx
      rest == IF ~ends THEN r.w ELSE IF r.w + s >= 8 THEN r.w - (8 - s) ELSE 0
  IN  (IF ends THEN {Des(0, r.dx \div 8, r.dy, 1, r.h)} ELSE {})
      \cup (IF rest % 8 > 0 THEN {Des(0, rest \div 8, 0, 1, r.h)} ELSE {})
      \cup (IF rest >= 8 THEN {Des(0, first \div 8, r.dy, rest \div 8, r.h)} ELSE {})

\* The bytes that hold a line's bits.
Bits(on, r, apart) ==
  Area(on, 0, r.sx \div 8, r.sy, (r.sx + r.w - 1) \div 8 - r.sx \div 8 + 1, r.h, apart)

bitblt_1_8(on, plane, r, apart) == {Des(plane, r.dx, r.dy, r.w, r.h), Bits(on, r, apart)}
bitblt_1_uv(on, r, apart) == {Des(1, r.dx, r.dy, r.w, r.h), Bits(on, r, apart)}
bitblt_1_32(on, r) == {Des(0, 4 * r.dx, r.dy, 4 * r.w, r.h), Bits(on, r, 1)}

\* Only the pixels whose bit is set.
maskflt8(plane, r, apart) == {Des(plane, r.dx, r.dy, r.w, r.h), Bits("mask", r, apart)}
maskflt32(r) == {Des(0, 4 * r.dx, r.dy, 4 * r.w, r.h), Bits("mask", r, 1)}

bitblt8(plane, r, apart) ==
  {Des(plane, r.dx, r.dy, r.w, r.h), Area("src", plane, r.sx, r.sy, r.w, r.h, apart)}

\* A line of chroma twice, for the even and for the odd lines.
Doubled8(r) ==
  {Area("des", 1, r.dx, r.dy, r.w, r.h, 2),
   Area("des", 1, r.dx + Width, r.dy, r.w, r.h, 2), Src(1, r.sx, r.sy, r.w, r.h)}

bitblt_clut_8(plane, r) == {Des(plane, r.dx, r.dy, r.w, r.h), Src(0, r.sx, r.sy, r.w, r.h)}
bitblt_clut_uv(r, apart) ==
  {Des(1, r.dx, r.dy, Even(r.w + 1), r.h), Area("src", 0, r.sx, r.sy, Even(r.w + 1), r.h, apart)}
bitblt_clut_32(r) == {Des(0, 4 * r.dx, r.dy, 4 * r.w, r.h), Src(0, r.sx, r.sy, r.w, r.h)}
bitblt_32(r) == {Des(0, 4 * r.dx, r.dy, 4 * r.w, r.h), Src(0, 4 * r.sx, r.sy, 4 * r.w, r.h)}

\* The chroma beside a rectangle of luma at (x, y): pairs from the even column,
\* and for thinned chroma the line of every second one.
Beside(on, kind, x, y, w, h) ==
  LET top == IF Thinned(kind) THEN y \div 2 ELSE y
      bottom == IF Thinned(kind) THEN (y + h - 1) \div 2 ELSE y + h - 1
  IN  Area(on, 1, Even(x), top, Even(w + 1), bottom - top + 1, 1)

bitblt_yuv_32(kind, r) ==
  {Des(0, 4 * r.dx, r.dy, 4 * r.w, r.h), Src(0, r.sx, r.sy, r.w, r.h),
   Beside("src", kind, r.sx, r.sy, r.w, r.h)}
  \cup (IF kind \in Alphas THEN {Src(2, r.sx, r.sy, r.w, r.h)} ELSE {})

bitblt_32_yuv(kind, r) ==
  {Des(0, r.dx, r.dy, r.w, r.h), Beside("des", kind, r.dx, r.dy, r.w, r.h),
   Src(0, 4 * r.sx, r.sy, 4 * r.w, r.h)}
  \cup (IF kind \in Alphas THEN {Des(2, r.dx, r.dy, r.w, r.h)} ELSE {})

\* The width is multiplied by four and every step still takes four bytes.
blend32(r) == {Des(0, 4 * r.dx, r.dy, 16 * r.w, r.h), Src(0, 4 * r.sx, r.sy, 16 * r.w, r.h)}

-----------------------------------------------------------------------------
\* Resizing; z has a rectangle of the destination and one of the source.  The
\* nearest pixel is rounded, so that the last may be one too far; the bilinear
\* primitives look at the next pixel when there is one.
Nearest(n, of) == (((n * of - of) * 256) \div n + 128) \div 256 + 1
Reach(n, of) == Sooner(((n - 1) * of) \div n + 2, of)

HalvedDes(z) == [z EXCEPT !.dy = @ \div 2, !.dh = @ \div 2]
HalvedSrc(z) == [z EXCEPT !.sy = @ \div 2, !.sh = @ \div 2]

resize_nn8(z) == {Des(0, z.dx, z.dy, z.dw, z.dh),
                  Src(0, z.sx, z.sy, Nearest(z.dw, z.sw), Nearest(z.dh, z.sh))}
resize_bl8(z) == {Des(0, z.dx, z.dy, z.dw, z.dh),
                  Src(0, z.sx, z.sy, Reach(z.dw, z.sw), Reach(z.dh, z.sh))}
resize_clut_8(z) == resize_nn8(z)
resize_clut_32(z) == {Des(0, 4 * z.dx, z.dy, 4 * z.dw, z.dh),
                      Src(0, z.sx, z.sy, Nearest(z.dw, z.sw), Nearest(z.dh, z.sh))}
resize_clut_uv(z) ==
  IF Even(z.dw) = 0 \/ z.dh = 0 THEN {}
  ELSE {Des(1, z.dx, z.dy, Even(z.dw), z.dh),
        Src(0, z.sx, z.sy, Nearest(Even(z.dw), z.sw), Nearest(z.dh, z.sh))}
resize_uv(z) ==
  IF z.dw < 2 \/ z.dh = 0 THEN {}
  ELSE {Des(1, z.dx, z.dy, Even(z.dw), z.dh),
        Src(1, z.sx, z.sy, 2 * Nearest(z.dw \div 2, z.sw \div 2), Nearest(z.dh, z.sh))}
resize_32(z) == {Des(0, 4 * z.dx, z.dy, 4 * z.dw, z.dh),
                 Src(0, 4 * z.sx, z.sy, 4 * Reach(z.dw, z.sw), Reach(z.dh, z.sh))}
resize_32_yuv(kind, z) ==
  {Des(0, z.dx, z.dy, z.dw, z.dh),
   IF Thinned(kind) THEN Des(1, z.dx, z.dy \div 2, z.dw, (z.dh + 1) \div 2)
   ELSE Des(1, z.dx, z.dy, z.dw, z.dh),
   Src(0, 4 * z.sx, z.sy, 4 * Reach(z.dw, z.sw), Reach(z.dh, z.sh))}
resize_yuv_32(kind, z) ==
  {Des(0, 4 * z.dx, z.dy, 4 * z.dw, z.dh),
   Src(0, z.sx, z.sy, Reach(z.dw, z.sw), Reach(z.dh, z.sh)),
   Beside("src", kind, z.sx, z.sy, Reach(z.dw, z.sw), ((z.dh - 1) * z.sh) \div z.dh + 1)}

-----------------------------------------------------------------------------
\* gfx_osi_bitBLT, by the type of the source.
AlphaPlane(des, sel, copy, fill) ==
  CASE des \notin Alphas -> {} [] sel = "SOURCE" -> copy [] sel = "GIVEN" -> fill [] OTHER -> {}

FromClut1(des, sel, r) ==
  CASE des = "CLUT8" -> bitblt_1_8("src", 0, r, 1)
    [] des \in Chromas -> AlphaPlane(des, sel, bitblt_1_8("src", 2, r, 1), fillblt8(2, r))
                          \cup bitblt_1_8("src", 0, r, 1)
                          \cup bitblt_1_uv("src", ChromaOf(des, r), Apart(des))
    [] des = "ARGB" -> bitblt_1_32("src", r)
    [] OTHER -> {}

FromClut8(des, sel, r) ==
  CASE des = "CLUT8" -> bitblt8(0, r, 1)
    [] des \in Chromas -> AlphaPlane(des, sel, bitblt_clut_8(2, r), fillblt8(2, r))
                          \cup bitblt_clut_8(0, r) \cup bitblt_clut_uv(ChromaOf(des, r), Apart(des))
    [] des = "ARGB" -> bitblt_clut_32(r)
    [] OTHER -> {}

FromDirect(des, src, r) ==
  CASE des \in Chromas /\ src \in Chromas ->
         bitblt8(0, r, 1) \cup
         (CASE Thinned(des) -> bitblt8(1, Halved(r), IF Thinned(src) THEN 1 ELSE 2)
            [] Thinned(src) -> Doubled8(Halved(r))
            [] OTHER -> bitblt8(1, r, 1))
    [] des \in Chromas /\ src = "ARGB" -> bitblt_32_yuv(des, r)
    [] des = "ARGB" /\ src \in Chromas -> bitblt_yuv_32(src, r)
    [] des = "ARGB" /\ src = "ARGB" -> bitblt_32(r)
    [] OTHER -> {}

\* Alpha from a source that has none is opaque.
DirectAlpha(des, src, sel, r) ==
  IF src \notin Chromas THEN {}
  ELSE AlphaPlane(des, sel, IF src \in Alphas THEN bitblt8(2, r, 1) ELSE fillblt8(2, r), fillblt8(2, r))

BitBltAreas(des, src, sel, r) ==
  CASE src = "CLUT1" -> FromClut1(des, sel, r)
    [] src = "CLUT8" -> FromClut8(des, sel, r)
    [] OTHER -> FromDirect(des, src, r) \cup DirectAlpha(des, src, sel, r)

\* Two cases lack a break and report a failure although they have drawn.
BitBltFails(des, src) ==
  \/ des = "CLUT1"
  \/ des = "CLUT8" /\ src \notin {"CLUT1", "CLUT8"}
  \/ <<des, src>> = <<"ARGB", "CLUT1">>
  \/ Thinned(des) /\ src = "ARGB"

FillAreas(des, r) ==
  CASE des = "CLUT1" -> fillblt1(r)
    [] des = "CLUT8" -> fillblt8(0, r)
    [] des = "ARGB" -> fillblt32(r)
    [] des \in Chromas -> AlphaPlane(des, "GIVEN", {}, fillblt8(2, r)) \cup fillblt8(0, r)
                          \cup fillblt_uv(ChromaOf(des, r))
    [] OTHER -> {}

\* The chroma of a masked fill is written as bytes of one plane.
MaskedAreas(des, clear, r) ==
  LET each(plane, q, apart) == IF clear THEN maskflt8(plane, q, apart)
                               ELSE bitblt_1_8("mask", plane, q, apart)
  IN  CASE des = "CLUT8" -> each(0, r, 1)
        [] des = "ARGB" -> IF clear THEN maskflt32(r) ELSE bitblt_1_32("mask", r)
        [] des \in Chromas -> (IF des \in Alphas THEN each(2, r, 1) ELSE {}) \cup each(0, r, 1)
                              \cup each(1, ChromaOf(des, r), Apart(des))
        [] OTHER -> {}

\* Where the alpha of a blend is read from, four steps a pixel as well.
AlphaAreas(input, r, a) ==
  CASE input = "SOURCE" -> {Src(0, 4 * r.sx, r.sy, 16 * r.w, r.h)}
    [] input = "DESTINATION" -> {Des(0, 4 * r.dx, r.dy, 16 * r.w, r.h)}
    [] input = "PATTERN" -> {Area("mask", 0, a.mx + (r.dx - a.dx), a.my + (r.dy - a.dy), 4 * r.w, r.h, 1)}
    [] OTHER -> {}

ResizeAreas(des, src, z) ==
  LET uv == IF Thinned(des) THEN HalvedDes(z) ELSE z
      alpha == IF des \in Alphas THEN {Des(2, z.dx, z.dy, z.dw, z.dh)} ELSE {}
  IN  CASE src = "CLUT8" /\ des = "CLUT8" -> resize_nn8(z)
        [] src = "CLUT8" /\ des \in Chromas -> alpha \cup resize_clut_8(z) \cup resize_clut_uv(uv)
        [] src = "CLUT8" /\ des = "ARGB" -> resize_clut_32(z)
        [] des \in Chromas /\ src \in Chromas ->
             alpha \cup resize_bl8(z) \cup resize_uv(IF Thinned(src) THEN HalvedSrc(uv) ELSE uv)
        [] des \in Chromas /\ src = "ARGB" -> alpha \cup resize_32_yuv(des, z)
        [] des = "ARGB" /\ src \in Chromas -> resize_yuv_32(src, z)
        [] des = "ARGB" /\ src = "ARGB" -> resize_32(z)
        [] OTHER -> {}

-----------------------------------------------------------------------------
DrawInit == surfs \in DrawKinds /\ clip = Full /\ drew = Nothing

Call(op, asked, got, areas, ok) ==
  /\ drew' = [op |-> op, asked |-> asked, got |-> got, areas |-> areas, ok |-> ok]
  /\ UNCHANGED <<surfs, clip>>
Refused(op, asked) == Call(op, asked, [asked EXCEPT !.w = 0], {}, FALSE)
Done(op, asked) == Call(op, asked, [asked EXCEPT !.w = 0], {}, TRUE)

\* pixelJustify of the source and of the destination, in that order.
Justified(a, both) ==
  LET ds == PixelJustify(surfs[1])
      sr == IF both THEN PixelJustify(surfs[2]) ELSE 1
  IN  [a EXCEPT !.dx = gfx_osi_pixelJustify(ds, @), !.sx = gfx_osi_pixelJustify(sr, @),
                !.w = gfx_osi_pixelJustify(ds, gfx_osi_pixelJustify(sr, @))]

Asked(x, y) == [dx |-> x[1], sx |-> x[2], mx |-> x[3], w |-> x[4],
                dy |-> y[1], sy |-> y[2], my |-> y[3], h |-> y[4]]

\* gfx_osi_set_surface_clip_region: the last column is justified upwards as
\* if it were a width.
gfx_inf_h_set_surface_clip_rect(c) ==
  LET unit == PixelJustify(surfs[1])
  IN  /\ drew = Nothing /\ Valid(surfs[1])
      /\ ~(c[1] > c[3] \/ c[1] >= Width \/ c[2] > c[4] \/ c[2] >= Height \/ c[3] < 0 \/ c[4] < 0)
      /\ clip' = [x1 |-> gfx_osi_pixelJustify(unit, DrawLater(c[1], 0)), y1 |-> DrawLater(c[2], 0),
                  x2 |-> gfx_osi_pixelJustify(unit, Sooner(c[3], Width - 1)),
                  y2 |-> Sooner(c[4], Height - 1)]
      /\ UNCHANGED <<surfs, drew>>

\* The operations on surfaces that are allocated; a0 is what was asked for.
gfx_osi_bitBLT(a0, sel) ==
  LET des == surfs[1]
      src == surfs[2]
      a == Justified(a0, TRUE)
      r == gfx_osi_ClipExtBLTRect(a)
  IN  IF ~Engine(des) \/ ~Engine(src) THEN Refused("bitBLT", a)
      ELSE IF Empty(r) THEN Done("bitBLT", a)
      ELSE Call("bitBLT", a, r, BitBltAreas(des, src, sel, r), ~BitBltFails(des, src))

\* Clips, by the mask too, and then draws nothing.
gfx_osi_advancedBitBLT(a0) ==
  LET a == Justified(a0, TRUE)
  IN  IF Empty(gfx_osi_ClipExtBLTRect(a)) THEN Done("advancedBitBLT", a)
      ELSE Refused("advancedBitBLT", a)

gfx_osi_fillBLT(op, a0) ==
  LET a == Justified(a0, FALSE)
      r == gfx_osi_ClipExtRect(a)
  IN  IF Empty(r) THEN Done(op, a) ELSE Call(op, a, r, FillAreas(surfs[1], r), surfs[1] # "OTHER")

MaskGiven == surfs[3] # "none"

\* Without a mask the clipped rectangle is filled, justified and clipped again.
gfx_osi_advancedFillBLT(a0, clear) ==
  LET des == surfs[1]
      j == Justified(a0, FALSE)
      a == [j EXCEPT !.sx = a0.mx, !.sy = a0.my]
      r == gfx_osi_ClipExtBLTRect(a)
      plain == gfx_osi_ClipExtRect(j)
  IN  IF ~MaskGiven
      THEN IF Empty(plain) THEN Done("fillBLT", j) ELSE gfx_osi_fillBLT("fillBLT", plain)
      ELSE IF Empty(r) THEN Done("advancedFillBLT", a)
      ELSE Call("advancedFillBLT", a, r, MaskedAreas(des, clear, r), des \notin {"OTHER", "CLUT1"})

\* Blending is for ARGB only.
gfx_osi_blend(a, input) ==
  LET r == gfx_osi_ClipExtBLTRect(a)
  IN  IF Empty(r) THEN Done("blend", a)
      ELSE IF surfs[1] # "ARGB" \/ surfs[2] # "ARGB" THEN Refused("blend", a)
      ELSE Call("blend", a, r, blend32(r) \cup AlphaAreas(input, r, a), TRUE)

\* Without an alpha surface the pattern falls back to the source's alpha.
gfx_osi_advancedBlend(a, input) ==
  LET r0 == gfx_osi_ClipExtBLTRect(a)
      r == IF MaskGiven THEN MaskRect(r0, a) ELSE r0
      from == IF input = "PATTERN" /\ ~MaskGiven THEN "SOURCE" ELSE input
  IN  IF MaskGiven /\ surfs[3] # "CLUT8" THEN Refused("advancedBlend", a)
      ELSE IF Empty(r0) THEN Done("advancedBlend", a)
      ELSE IF Empty(r) \/ surfs[1] # "ARGB" \/ surfs[2] # "ARGB" THEN Refused("advancedBlend", a)
      ELSE Call("advancedBlend", a, r, blend32(r) \cup AlphaAreas(from, r, a), TRUE)

\* Clips and then draws nothing.
gfx_osi_colorKey(a) ==
  IF Empty(gfx_osi_ClipExtBLTRect(a)) THEN Done("colorKey", a) ELSE Refused("colorKey", a)

gfx_osi_resize(dx, dy, sx, sy) ==
  LET des == surfs[1]
      src == surfs[2]
      ju(kind, n) == gfx_osi_pixelJustify(PixelJustify(kind), n)
      d == gfx_osi_ClipRect(ju(des, dx[1]), dy[1], ju(des, dx[2]), dy[2])
      s == gfx_osi_ClipRect(ju(src, sx[1]), sy[1], ju(src, sx[2]), sy[2])
      z == [dx |-> ju(des, dx[1]), dy |-> dy[1], dw |-> d.w, dh |-> d.h,
            sx |-> ju(src, sx[1]), sy |-> sy[1], sw |-> s.w, sh |-> s.h]
      asked == [dx |-> z.dx, dy |-> z.dy, w |-> ju(des, dx[2]), h |-> dy[2]]
  IN  IF d.w = 0 \/ s.w = 0 THEN Done("resize", asked)
      ELSE Call("resize", asked, [dx |-> z.dx, dy |-> z.dy, w |-> z.dw, h |-> z.dh],
                ResizeAreas(des, src, z), ResizeAreas(des, src, z) # {})

-----------------------------------------------------------------------------
\* The calls by handle: surfaces that are not allocated are refused, a mask
\* before the mutex is taken.
Given(used) == \A i \in used : Valid(surfs[i])

gfx_inf_h_bitBLT(a, sel) ==
  ~MaskGiven /\ IF Given({1, 2}) THEN gfx_osi_bitBLT(a, sel) ELSE Refused("bitBLT", a)

gfx_inf_h_advancedBitBLT(a) ==
  IF Given({1, 2, 3}) THEN gfx_osi_advancedBitBLT(a) ELSE Refused("advancedBitBLT", a)

gfx_inf_h_fillBLT(a) ==
  ~MaskGiven /\ IF Given({1}) THEN gfx_osi_fillBLT("fillBLT", a) ELSE Refused("fillBLT", a)

gfx_inf_h_advancedFillBLT(a, clear) ==
  IF Given({1, 3}) THEN gfx_osi_advancedFillBLT(a, clear) ELSE Refused("advancedFillBLT", a)

gfx_inf_h_blend(a, input) ==
  ~MaskGiven /\ IF Given({1, 2}) THEN gfx_osi_blend(a, input) ELSE Refused("blend", a)

gfx_inf_h_advancedBlend(a, input) ==
  IF Given({1, 2, 3}) THEN gfx_osi_advancedBlend(a, input) ELSE Refused("advancedBlend", a)

gfx_inf_h_colorKey(a) ==
  ~MaskGiven /\ IF Given({1, 2}) THEN gfx_osi_colorKey(a) ELSE Refused("colorKey", a)

gfx_inf_h_resize(dx, dy, sx, sy) ==
  /\ ~MaskGiven
  /\ IF Given({1, 2}) THEN gfx_osi_resize(dx, dy, sx, sy)
     ELSE Refused("resize", [dx |-> dx[1], dy |-> dy[1], w |-> dx[2], h |-> dy[2]])

\* gfx_osi_run_engine has nothing left to run; the call returns.
gfx_osi_run_engine == drew # Nothing /\ drew' = Nothing /\ UNCHANGED <<surfs, clip>>

\* gGFXMutex: one call at a time.
DrawCall ==
  /\ drew = Nothing
  /\ \/ \E x \in DrawXs, y \in DrawYs :
          LET a == Asked(x, y)
          IN  \/ \E sel \in {"SOURCE", "GIVEN", "DESTINATION"} : gfx_inf_h_bitBLT(a, sel)
              \/ gfx_inf_h_advancedBitBLT(a)
              \/ gfx_inf_h_fillBLT(a)
              \/ \E clear \in BOOLEAN : gfx_inf_h_advancedFillBLT(a, clear)
              \/ \E input \in {"SOURCE", "GIVEN", "DESTINATION", "PATTERN"} :
                   gfx_inf_h_blend(a, input) \/ gfx_inf_h_advancedBlend(a, input)
              \/ gfx_inf_h_colorKey(a)
     \/ \E dx, dy, sx, sy \in DrawSpans : gfx_inf_h_resize(dx, dy, sx, sy)

DrawNext ==
  \/ DrawCall
  \/ \E c \in DrawClips : gfx_inf_h_set_surface_clip_rect(c)
  \/ gfx_osi_run_engine

DrawSpec == DrawInit /\ [][DrawNext]_drawVars

-----------------------------------------------------------------------------
\* What is drawn is exactly what was asked for, in the clip, from pixels the
\* source and the mask have, and each pixel comes from the place asked for:
\* gfx_osi_ClipExtBLTRect clips twice, and each time the other side follows.
ClippedExactly ==
  drew # Nothing /\ drew.op # "resize" /\ drew.ok =>
    LET a == drew.asked
        r == drew.got
        sourced == drew.op # "fillBLT"
        on(x, y) == x \in 0 .. Width - 1 /\ y \in 0 .. Height - 1
        wanted == {p \in (0 .. a.w - 1) \X (0 .. a.h - 1) :
                     /\ a.dx + p[1] \in clip.x1 .. clip.x2 /\ a.dy + p[2] \in clip.y1 .. clip.y2
                     /\ sourced => on(a.sx + p[1], a.sy + p[2])
                     /\ drew.op = "advancedBlend" /\ MaskGiven => on(a.mx + p[1], a.my + p[2])}
        from(p) == IF sourced THEN <<a.sx + p[1], a.sy + p[2]>> ELSE <<0, 0>>
        drawn == {<<r.dx + p[1], r.dy + p[2], IF sourced THEN <<r.sx + p[1], r.sy + p[2]>> ELSE <<0, 0>> >> :
                    p \in (0 .. r.w - 1) \X (0 .. r.h - 1)}
    IN  drawn = {<<a.dx + p[1], a.dy + p[2], from(p)>> : p \in wanted}

\* No primitive writes outside the clip region of the destination (a resize:
\* outside the surface), in any of its planes and for any pair of pixel types;
\* chroma goes up to the pair of columns and of lines it shares.  Blending,
\* which runs four times too far, and bits, whose ends are misplaced, are left
\* out.
DrawnInside ==
  drew # Nothing /\ drew.op \notin {"blend", "advancedBlend"} /\ surfs[1] # "CLUT1" =>
    LET wide == IF surfs[1] = "ARGB" THEN 4 ELSE 1
        c == IF drew.op = "resize" THEN Full ELSE clip
        inside(a) ==
          LET first == IF a.apart = 2 THEN a.x % Width ELSE a.x
          IN  IF a.plane = 1
              THEN /\ first >= Even(c.x1) /\ first + a.w <= c.x2 + 2
                   /\ a.apart * a.y >= (IF Thinned(surfs[1]) THEN c.y1 \div 2 ELSE Even(c.y1))
                   /\ a.apart * (a.y + a.h - 1) + a.x \div (Width + 2) <= (IF Thinned(surfs[1]) THEN c.y2 \div 2 ELSE c.y2)
              ELSE /\ a.x >= wide * c.x1 /\ a.x + a.w <= wide * (c.x2 + 1)
                   /\ a.y >= c.y1 /\ a.y + a.h - 1 <= c.y2
    IN  \A a \in drew.areas : a.on = "des" /\ a.w > 0 /\ a.h > 0 => inside(a)

\* A resize that goes on has a rectangle of the surface: gfx_osi_ClipRect
\* returns -1 when nothing of the rectangle is on it.
ResizeClipped ==
  drew # Nothing /\ drew.op = "resize" /\ drew.got.w > 0 =>
    /\ drew.got.h > 0 /\ drew.got.dy + drew.got.h <= Height
    /\ drew.got.dx + drew.got.w <= Width

\* What is drawn is what was asked for, and nothing besides it.
DrawnAsAsked == ClippedExactly /\ DrawnInside
=============================================================================
