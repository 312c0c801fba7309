------------------------------- MODULE OsdPlane -------------------------------
(***************************************************************************)
(* The on-screen display of the graphics driver (osd_osi.c, osd_atom.c):   *)
(* three planes (cursor, graphics, image), the chain of surfaces attached  *)
(* to each, of which the first is displayed, and the registers that show   *)
(* it.  A 32-bit surface ("twin") has a second header, which the graphics  *)
(* plane borrows the image plane for.                                      *)
(*                                                                         *)
(* The module has no variables: o is the state of the display, s the table *)
(* of surfaces (kind, attachedDev), h a surface.                           *)
(***************************************************************************)
EXTENDS Integers, Sequences, SequencesExt

OsdDevs == {"CUR", "GFX", "IMG"}
NoSurface == "none"

\* The planes a kind of surface may be shown on: the GFX_COMP_ bits of its
\* plane configuration.
OsdComp(kind) == CASE kind = "cursor" -> {"CUR"}
                   [] kind \in {"clut", "yuv"} -> {"GFX", "IMG"}
                   [] kind = "twin" -> {"GFX"}
                   [] OTHER -> {}

IsTwin(s, h) == s[h].kind = "twin"

\* osd_atom_set_display_control: the field of the mode register, as wide as it
\* is; the animation bit is set together with the interrupt's mask.
OsdField(cntl, attr) ==
  CASE cntl \in {"AFVP", "EDAF", "E32BCO", "ANIM"} -> IF attr = 0 THEN 0 ELSE 1
    [] cntl \in {"AFDT", "VPAFC"} -> attr % 4
    [] cntl = "ANIMR" -> attr % 8
    [] cntl = "CHFSR" -> attr % 512
    [] cntl = "BACKCOLOR" -> attr % 65536

OsdControls == {"AFVP", "EDAF", "AFDT", "VPAFC", "E32BCO", "ANIM", "ANIMR", "CHFSR", "BACKCOLOR"}

osd_atom_set_display_control(o, cntl, attr) ==
  [o EXCEPT !.disp[cntl] = OsdField(cntl, attr),
            !.mask = IF cntl = "ANIM" THEN attr # 0 ELSE o.mask]

\* osd_atom_set_plane_control, ENABLE and DISABLE.
osd_atom_set_plane_control(o, dev, on) == [o EXCEPT !.on[dev] = on]

\* osd_osi_init: every plane off and empty, the controls at their defaults.
osd_osi_init ==
  [chain |-> [d \in OsdDevs |-> <<>>], on |-> [d \in OsdDevs |-> FALSE],
   base |-> [d \in OsdDevs |-> <<-1, 0>>], blend |-> FALSE, mask |-> FALSE, ok |-> TRUE,
   disp |-> [c \in OsdControls |-> CASE c = "CHFSR" -> 256 [] c = "BACKCOLOR" -> 136 [] OTHER -> 0]]

-----------------------------------------------------------------------------
\* osd_atom_set_base_address for a plane, and its ENABLE and BMLA bits.
Show(o, dev, addr) == [o EXCEPT !.base[dev] = addr, !.on[dev] = TRUE]

\* __update_device_surface for the graphics plane.
ShowGraphics(o, s, h) ==
  LET shown == [Show(o, "GFX", <<h, 1>>) EXCEPT !.blend = TRUE]
  IN  IF IsTwin(s, h)
      THEN osd_atom_set_display_control(Show(shown, "IMG", <<h, 2>>), "E32BCO", 1)
      ELSE [osd_atom_set_display_control(shown, "E32BCO", 0)
              EXCEPT !.blend = s[h].kind = "clut"]

\* For the image plane: refused while the graphics plane uses it.
ShowImage(o, h) ==
  IF o.disp["E32BCO"] = 1 THEN o ELSE [Show(o, "IMG", <<h, 1>>) EXCEPT !.blend = FALSE]

update_device_surface(o, s, dev, h) ==
  CASE dev = "CUR" -> Show(o, "CUR", <<h, 1>>)
    [] dev = "GFX" -> ShowGraphics(o, s, h)
    [] dev = "IMG" -> ShowImage(o, h)

Top(o, dev) == Head(o.chain[dev])
Without(chain, h) == SelectSeq(chain, LAMBDA x : x # h)

-----------------------------------------------------------------------------
\* osd_osi_attach_comp_gfx_surface: what is refused ...
AttachRefused(o, s, dev, h) ==
  \/ s[h].kind = NoSurface \/ OsdComp(s[h].kind) = {}
  \/ s[h].att \notin {NoSurface, dev}
  \/ dev \notin OsdComp(s[h].kind)

\* ... a surface already there, which becomes the top most one ...
Raise(o, s, dev, h) ==
  IF h = Top(o, dev) THEN o
  ELSE update_device_surface([o EXCEPT !.chain[dev] = <<h>> \o Without(@, h)], s, dev, h)

\* ... and a new one.
Push(o, s, dev, h) ==
  LET shown == update_device_surface([o EXCEPT !.chain[dev] = <<h>> \o @], s, dev, h)
  IN  IF dev = "GFX" /\ o.chain["IMG"] = <<>> /\ ~IsTwin(s, h)
      THEN osd_atom_set_plane_control(shown, "IMG", FALSE) ELSE shown

osd_osi_attach(o, s, dev, h) ==
  CASE AttachRefused(o, s, dev, h) -> o
    [] h \in ToSet(o.chain[dev]) -> Raise(o, s, dev, h)
    [] OTHER -> Push(o, s, dev, h)

\* osd_osi_detach_comp_gfx_surface: what is refused ...
DetachRefused(o, s, dev, h) ==
  s[h].kind = NoSurface \/ dev = NoSurface \/ s[h].att # dev \/ h \notin ToSet(o.chain[dev])

\* ... the plane that lost its last surface: the image plane is the graphics
\* plane's as well, and with a surface on the image plane the code updates
\* the graphics plane, which has none ...
Shutdown(o, s, dev) ==
  LET off == osd_atom_set_plane_control(o, dev, FALSE)
      plain == osd_atom_set_display_control(off, "E32BCO", 0)
  IN  CASE dev = "CUR" -> off
        [] dev = "GFX" -> IF o.chain["IMG"] # <<>> THEN [plain EXCEPT !.ok = FALSE]
                          ELSE osd_atom_set_plane_control(plain, "IMG", FALSE)
        [] dev = "IMG" -> IF o.chain["GFX"] # <<>> /\ IsTwin(s, Top(o, "GFX"))
                          THEN ShowGraphics(off, s, Top(o, "GFX")) ELSE off

\* ... and one that has another surface to show.
ShowNext(o, s, dev, twin) ==
  LET image == IF twin /\ o.chain["IMG"] # <<>> THEN ShowImage(o, Top(o, "IMG")) ELSE o
  IN  update_device_surface(image, s, dev, Top(o, dev))

osd_osi_detach(o, s, dev, h) ==
  LET rest == [o EXCEPT !.chain[dev] = Without(@, h)]
  IN  CASE DetachRefused(o, s, dev, h) -> o
        [] h # Top(o, dev) -> rest
        [] rest.chain[dev] = <<>> -> Shutdown(rest, s, dev)
        [] OTHER -> ShowNext(rest, s, dev, dev = "GFX" /\ IsTwin(s, h))

-----------------------------------------------------------------------------
\* osd_osi_set_comp_gfx_surface_parm, SCREEN_OFFSET: refused outside the
\* screen; the header of a cursor keeps the odd pixel, the others do not.
SetOffset(surface, x, width) ==
  CASE x >= width -> surface
    [] surface.kind = "cursor" -> [surface EXCEPT !.x = x]
    [] OTHER -> [surface EXCEPT !.x = 2 * (x \div 2)]

\* osd_osi_set_cursor_position: the cursor on top, clamped to the screen.
CursorTo(o, s, x, range, width) ==
  IF o.chain["CUR"] = <<>> THEN s
  ELSE LET at == IF x > range THEN range ELSE x
       IN  [s EXCEPT ![Top(o, "CUR")] = SetOffset(@, at, width)]
=============================================================================
