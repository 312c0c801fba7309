----------------------------- MODULE FrameBuffer -----------------------------
(***************************************************************************)
(* The frame buffer driver (osd_inf_fb.c), a client of the graphics driver *)
(* inside the kernel: it creates a surface, places and attaches it,        *)
(* registers /dev/fb and shares the surface with the applications of       *)
(* /dev/stbgfx, whose calls come between its own.  The consoles have a     *)
(* mode and a colour map each; the current one's are in the hardware.      *)
(* A colour map is a value; of the mode, the left margin, the offset and   *)
(* the width matter here.                                                  *)
(***************************************************************************)
EXTENDS GfxSurface

CONSTANTS FbConsoles,  \* virtual consoles
          FbMaps,      \* colour maps
          FbDefault,   \* fb_default_cmap
          FbBuffer     \* osd_buf_x, the width of the surface

VARIABLES
  fbPc,    \* how far the driver has come
  fbH,     \* hFbSurface
  fbVar,   \* fb_display[con].var
  fbCmap,  \* fb_display[con].cmap, or none
  fbHw,    \* the palette of the surface
  fbCon,   \* currcon
  fbAsked  \* the colour map last set for a console

fbVars == <<fbPc, fbH, fbVar, fbCmap, fbHw, fbCon, fbAsked>>

\* Two modes that fit the surface, one panned too far, one too wide.
FbModes == [left : GsMargins, off : {0}, res : {FbBuffer}, virt : {FbBuffer}]
             \cup {[left |-> GsMargin, off |-> 1, res |-> FbBuffer, virt |-> FbBuffer],
                   [left |-> GsMargin, off |-> 1, res |-> FbBuffer, virt |-> FbBuffer + 1]}
FbMode0 == [left |-> GsMargin, off |-> 0, res |-> FbBuffer, virt |-> FbBuffer]
NoMap == "none"

FbCon0 == CHOOSE c \in FbConsoles : TRUE
FbVar0 == [c \in FbConsoles |-> FbMode0]
FbCmap0 == [c \in FbConsoles |-> NoMap]
FbAsked0 == [c \in FbConsoles |-> FbDefault]

FbInit ==
  /\ fbPc = "off" /\ fbH = -1 /\ fbHw = FbDefault
  /\ fbCon = FbCon0 /\ fbVar = FbVar0 /\ fbCmap = FbCmap0 /\ fbAsked = FbAsked0

\* A call of this driver to the graphics driver.
FbCall(at) == fbPc = at /\ gsOsd.ok /\ gsBusy = GsNobody /\ GsMay("fb")
Later(at) == fbPc' = at /\ UNCHANGED <<fbH, fbVar, fbCmap, fbHw, fbCon, fbAsked>>
Keeps == UNCHANGED <<gsSwap, gsHooks, gsFile, gsMaps, gsEnv>>

-----------------------------------------------------------------------------
\* osd_inf_fb_init: the surface, which the creation fills with default colours ...
FbCreate ==
  /\ FbCall("off")
  /\ CreateSurface("clut")
  /\ fbPc' = "created" /\ fbH' = FreeHandle /\ fbHw' = FbDefault
  /\ gsOwn' = [gsOwn EXCEPT ![FreeHandle] = {"fb"}]
  /\ UNCHANGED <<fbVar, fbCmap, fbCon, fbAsked, gsOsd, gsShared, gsLeft, gsBusy>> /\ Keeps

\* ... the margins of the screen ...
FbScreen ==
  /\ FbCall("created") /\ SetScreenInfo(GsMargin) /\ Later("screen")
  /\ UNCHANGED <<gsOsd, gsCount, gsShared, gsBusy, gsOwn>> /\ Keeps

\* ... the window ...
FbPlace ==
  /\ FbCall("screen") /\ SetDisplayParm(fbH, 0) /\ Later("placed")
  /\ UNCHANGED <<gsOsd, gsCount, gsShared, gsLeft, gsBusy, gsOwn>> /\ Keeps

\* ... the plane; without it the surface is given back.
FbAttach ==
  /\ FbCall("placed")
  /\ gsOsd' = osd_osi_attach(gsOsd, gsSurf, "GFX", fbH)
  /\ gsSurf' = Attached(gsOsd, gsSurf, "GFX", fbH)
  /\ Later(IF AttachRefused(gsOsd, gsSurf, "GFX", fbH) THEN "undo" ELSE "attached")
  /\ UNCHANGED <<gsCount, gsShared, gsLeft, gsBusy, gsOwn>> /\ Keeps

\* register_framebuffer, and the surface shared with the applications.
FbRegister ==
  /\ FbCall("attached")
  /\ \/ Later("up") /\ gsShared' = fbH
     \/ GsMay("fail") /\ Later("detach") /\ UNCHANGED gsShared
  /\ UNCHANGED <<gsSurf, gsOsd, gsCount, gsLeft, gsBusy, gsOwn>> /\ Keeps

\* osd_inf_fb_deinit, and the error path: detached and destroyed.  A later
\* osd_inf_fb_init finds the driver newly loaded.
FbUnregister ==
  /\ fbPc = "up" /\ gsOsd.ok /\ Later("detach")
  /\ UNCHANGED gsVars

FbDetach ==
  /\ FbCall("detach")
  /\ gsOsd' = osd_osi_detach(gsOsd, gsSurf, "GFX", fbH)
  /\ gsSurf' = Detached(gsOsd, gsSurf, "GFX", fbH)
  /\ Later("undo")
  /\ UNCHANGED <<gsCount, gsShared, gsLeft, gsBusy, gsOwn>> /\ Keeps

FbDestroy ==
  /\ FbCall("undo")
  /\ IF Exists(fbH) THEN BeginDestroy("fb", fbH) ELSE UNCHANGED gsVars
  /\ fbPc' = "off" /\ fbH' = -1 /\ fbHw' = FbDefault
  /\ fbCon' = FbCon0 /\ fbVar' = FbVar0 /\ fbCmap' = FbCmap0 /\ fbAsked' = FbAsked0

-----------------------------------------------------------------------------
\* osd_inf_fb_update_var: the margins of the mode and the window, for the
\* current console; osd_inf_fb_pan_display sets the window once more.
UpdateVar(var) ==
  LET moved == ScreenMoved(var.left)
  IN  /\ gsLeft' = var.left
      /\ gsSurf' = [moved EXCEPT ![fbH] = SetOffset(@, var.left, GsScreen)]

VarRefused(var) == var.virt > FbBuffer \/ var.res > var.virt \/ var.off + var.res > var.virt

\* osd_inf_fb_set_var: refused if it does not fit the surface.
osd_inf_fb_set_var(con, var) ==
  /\ FbCall("up") /\ GsMay("mode") /\ ~VarRefused(var)
  /\ fbVar' = [fbVar EXCEPT ![con] = var]
  /\ IF con = fbCon THEN UpdateVar(var) ELSE UNCHANGED <<gsLeft, gsSurf>>
  /\ UNCHANGED <<fbPc, fbH, fbCmap, fbHw, fbCon, fbAsked, gsOsd, gsCount, gsShared, gsBusy, gsOwn>>
  /\ Keeps

\* osd_inf_fb_pan_display: the offset is checked; only the window is set.
osd_inf_fb_pan_display(var) ==
  /\ FbCall("up") /\ GsMay("mode") /\ var.off + var.res <= var.virt
  /\ SetDisplayParm(fbH, 0)
  /\ UNCHANGED <<fbVars, gsOsd, gsCount, gsShared, gsLeft, gsBusy, gsOwn>> /\ Keeps

\* osd_inf_fb_set_cmap: into the hardware for the current console, which has a
\* map allocated to be saved in; into the map of the others.
osd_inf_fb_set_cmap(con, map) ==
  /\ FbCall("up") /\ GsMay("cmap")
  /\ fbAsked' = [fbAsked EXCEPT ![con] = map]
  /\ fbHw' = IF con = fbCon THEN map ELSE fbHw
  /\ fbCmap' = [fbCmap EXCEPT ![con] = IF con # fbCon THEN map
                                       ELSE IF @ = NoMap THEN FbDefault ELSE @]
  /\ UNCHANGED <<fbPc, fbH, fbVar, fbCon, gsVars>>

\* osd_inf_fb_switch: the map of the old console is read back from the
\* hardware, if it has one; the new one's is installed, with its mode.
SavedMap_never(con) == fbCmap
SavedMap(con) == [fbCmap EXCEPT ![con] = IF @ = NoMap THEN @ ELSE fbHw]

osd_inf_fb_switch(con) ==
  /\ FbCall("up")
  /\ LET saved == SavedMap(fbCon)
     IN  /\ fbCmap' = saved
         /\ fbHw' = IF saved[con] = NoMap THEN FbDefault ELSE saved[con]
  /\ fbCon' = con
  /\ UpdateVar(fbVar[con])
  /\ UNCHANGED <<fbPc, fbH, fbVar, fbAsked, gsOsd, gsCount, gsShared, gsBusy, gsOwn>> /\ Keeps

FbNext ==
  \/ GsNext /\ UNCHANGED fbVars
  \/ FbCreate \/ FbScreen \/ FbPlace \/ FbAttach \/ FbRegister \/ FbUnregister \/ FbDetach \/ FbDestroy
  \/ \E con \in FbConsoles :
       \/ \E var \in FbModes : osd_inf_fb_set_var(con, var)
       \/ \E map \in FbMaps : osd_inf_fb_set_cmap(con, map)
       \/ osd_inf_fb_switch(con)
  \/ \E var \in FbModes : osd_inf_fb_pan_display(var)

FbSpec == GsInit /\ FbInit /\ [][FbNext]_<<gsVars, fbVars>>

-----------------------------------------------------------------------------
\* While the frame buffer is up, its surface exists, is on the graphics plane,
\* and lies at the margin of the screen, wherever the applications and the
\* consoles have moved that.
FrameBufferStands ==
  fbPc = "up" =>
    /\ gsSurf[fbH].kind = "clut" /\ gsSurf[fbH].att = "GFX"
    /\ gsLeft < GsScreen => gsSurf[fbH].x = 2 * (gsLeft \div 2)

\* The current console has the colours last set for it, before or since it
\* became current.
ColoursFollowConsole == fbPc = "up" => fbHw = fbAsked[fbCon]

\* Chains, registers, hooks, counters and colours tell one story.
ScreenAgrees ==
  ChainIsAttached /\ PlaneShowsTop /\ HandlesCounted /\ HooksAreCurrent
    /\ FrameBufferStands /\ ColoursFollowConsole
=============================================================================
