------------------------------ MODULE GfxSurface ------------------------------
(***************************************************************************)
(* /dev/stbgfx (gfx_inf.c, gfx_inf_helper.c): the table of graphics        *)
(* surfaces, which of them a file has hooked (they are destroyed when it   *)
(* is closed), the locks, the shared surface, what is attached to the      *)
(* planes, the margins of the screen, and the swap of two surfaces at the  *)
(* next OSD animation interrupt (gfx_atom.c).                              *)
(*                                                                         *)
(* gGFXMutex serialises the calls: a call is a step, except a swap that    *)
(* waits for the interrupt with the mutex held, and a destruction, which   *)
(* the interrupt can come between the two halves of.  The interrupt takes  *)
(* no notice of the mutex.  Vertical offsets are treated like horizontal   *)
(* ones and left out; so is missedInts, a count for the application.       *)
(***************************************************************************)
EXTENDS OsdPlane, FiniteSets

CONSTANTS GsFiles,    \* open files
          GsMax,      \* guMaxHandles
          GsMaxLocks, \* bound on the locks of a surface
          GsMargin,   \* OSD_DEFAULT_TV_LEFT_MARGIN
          GsMargins,  \* left margins an application may set
          GsWindows,  \* horizontal positions it may give a surface
          GsScreen,   \* OSD_SURFACE_MAX_WIDTH
          GsWindow,   \* TRUE: the interrupt may also come inside gfx_osi_destroy_surface
          GsEnvs      \* what the applications do

ASSUME GsAssumption == GsMax \in Nat \ {0} /\ GsMaxLocks \in Nat \ {0} /\ GsWindow \in BOOLEAN

VARIABLES
  gsSurf,   \* gpHandles: kind, attachedDev, uLocks, offset on the screen
  gsOsd,    \* the display
  gsCount,  \* guFreeHandles and guLockedHandles
  gsShared, \* ghShared
  gsLeft,   \* gScreenInfo.uLeft
  gsSwap,   \* osdanim_swap
  gsHooks,  \* private_data of the open files
  gsBusy,   \* who holds gGFXMutex, and where
  gsFile,   \* whether a file is open, closing or closed
  gsOwn,    \* the files that hooked a surface since it was created
  gsMaps,   \* the last mapping made, and whether its address was found valid
  gsEnv

gsVars == <<gsSurf, gsOsd, gsCount, gsShared, gsLeft, gsSwap, gsHooks, gsBusy, gsFile, gsOwn,
            gsMaps, gsEnv>>

GsHandles == 0 .. GsMax - 1
Alien == -1   \* memory of no surface
GsNobody == [f |-> "none", h |-> 0, at |-> "idle"]
GsKinds == {"cursor", "clut", "yuv", "twin", "raw"}
EmptyHandle == [kind |-> NoSurface, att |-> NoSurface, locks |-> 0, x |-> 0]

Exists(h) == gsSurf[h].kind # NoSurface
GsMay(what) == what \in gsEnv

\* gfx_inf_h_init, osd_osi_init and gfx_atom_init, when they succeed: the
\* default margin, and the anti-flicker control that is switched on.
GsInit ==
  /\ gsSurf = [h \in GsHandles |-> EmptyHandle]
  /\ gsOsd = osd_atom_set_display_control(osd_atom_set_display_control(
               osd_osi_init, "EDAF", 1), "AFDT", 2)
  /\ gsCount = [free |-> GsMax, locked |-> 0]
  /\ gsShared = -1 /\ gsLeft = GsMargin
  /\ gsSwap = [ready |-> FALSE, old |-> 0, new |-> 0, dev |-> "GFX", sem |-> 0]
  /\ gsHooks = [f \in GsFiles |-> {}] /\ gsBusy = GsNobody
  /\ gsFile = [f \in GsFiles |-> "closed"]
  /\ gsOwn = [h \in GsHandles |-> {}] /\ gsMaps = [of |-> Alien, valid |-> TRUE]
  /\ gsEnv \in GsEnvs

\* A call of an open file that takes gGFXMutex.
GsCall(f) == gsOsd.ok /\ gsFile[f] = "open" /\ gsBusy = GsNobody

\* One that does not, while another file's call may be under way.
GsLooseCall(f) == gsOsd.ok /\ gsFile[f] = "open" /\ gsBusy.f # f

-----------------------------------------------------------------------------
gfx_inf_open(f) ==
  /\ gsOsd.ok /\ gsFile[f] = "closed"
  /\ GsMay("second") \/ f = CHOOSE g \in GsFiles : TRUE
  /\ gsFile' = [gsFile EXCEPT ![f] = "open"]
  /\ gsHooks' = [gsHooks EXCEPT ![f] = {}]
  /\ UNCHANGED <<gsSurf, gsOsd, gsCount, gsShared, gsLeft, gsSwap, gsBusy, gsOwn, gsMaps, gsEnv>>

\* gfx_inf_h_create_surface: the first free handle, with the offset of the
\* margin; memory may run out.  The file hooks it.
FreeHandle == CHOOSE h \in GsHandles : ~Exists(h) /\ \A g \in GsHandles : g < h => Exists(g)

Created(kind) == IF kind = "cursor" \/ OsdComp(kind) = {} THEN [EmptyHandle EXCEPT !.kind = kind]
                 ELSE SetOffset([EmptyHandle EXCEPT !.kind = kind], gsLeft, GsScreen)

CreateSurface(kind) ==
  /\ gsCount.free > 0
  /\ gsSurf' = [gsSurf EXCEPT ![FreeHandle] = Created(kind)]
  /\ gsCount' = [gsCount EXCEPT !.free = @ - 1]

gfx_inf_create(f, kind) ==
  /\ GsCall(f) /\ GsMay(kind)
  /\ CreateSurface(kind)
  /\ gsHooks' = [gsHooks EXCEPT ![f] = @ \cup {FreeHandle}]
  /\ gsOwn' = [gsOwn EXCEPT ![FreeHandle] = {f}]
  /\ UNCHANGED <<gsOsd, gsShared, gsLeft, gsSwap, gsBusy, gsFile, gsMaps, gsEnv>>

\* gfx_inf_h_destroy_surface, first half: the surface is detached, unless a
\* signal interrupts the wait for gOSDMutex.  A lock does not protect it.
BeginDestroy(f, h) ==
  /\ Exists(h)
  /\ gsBusy' = [f |-> f, h |-> h, at |-> "check"]
  /\ \/ /\ gsOsd' = osd_osi_detach(gsOsd, gsSurf, gsSurf[h].att, h)
        /\ gsSurf' = [gsSurf EXCEPT ![h].att = NoSurface]
     \/ GsMay("signal") /\ UNCHANGED <<gsOsd, gsSurf>>
  /\ UNCHANGED <<gsCount, gsShared, gsLeft, gsSwap, gsHooks, gsFile, gsOwn, gsMaps, gsEnv>>

\* gfx_osi_destroy_surface refuses an attached surface.
DestroyRefused(h) == gsSurf[h].att # NoSurface

\* Second half: the surface is freed, the handle cleared and the file's hook dropped.
FreeSurface(f, h) ==
  /\ gsSurf' = [gsSurf EXCEPT ![h] = EmptyHandle]
  /\ gsCount' = [gsCount EXCEPT !.free = @ + 1]
  /\ gsOwn' = [gsOwn EXCEPT ![h] = {}]
  /\ gsHooks' = [g \in GsFiles |-> IF g = f THEN gsHooks[g] \ {h} ELSE gsHooks[g]]

EndDestroy ==
  /\ gsOsd.ok /\ gsBusy # GsNobody
  /\ LET f == gsBusy.f
         h == gsBusy.h
         refused == gsBusy.at = "check" /\ DestroyRefused(h)
     IN  CASE gsBusy.at = "check" /\ GsWindow /\ ~refused ->
                gsBusy' = [gsBusy EXCEPT !.at = "free"]
                /\ UNCHANGED <<gsSurf, gsCount, gsOwn, gsHooks, gsShared>>
           [] gsBusy.at \in {"check", "free"} ->
                /\ gsBusy' = GsNobody
                /\ gsShared' = IF gsShared = h THEN -1 ELSE gsShared
                /\ IF refused THEN UNCHANGED <<gsSurf, gsCount, gsOwn>>
                     /\ gsHooks' = [g \in GsFiles |->
                          IF g = f /\ gsFile[g] = "closing" THEN gsHooks[g] \ {h} ELSE gsHooks[g]]
                   ELSE FreeSurface(f, h)
           [] OTHER -> FALSE
  /\ UNCHANGED <<gsOsd, gsLeft, gsSwap, gsFile, gsMaps, gsEnv>>

\* IOC_GFX_DESTROY_SURFACE takes any handle, whoever created it.
gfx_inf_destroy(f, h) ==
  /\ GsCall(f) /\ (GsMay("foreign") \/ gsOwn[h] = {f})
  /\ BeginDestroy(f, h)

\* gfx_inf_release: the surfaces the file has hooked, one after the other.
gfx_inf_release(f) ==
  /\ GsCall(f)
  /\ gsFile' = [gsFile EXCEPT ![f] = "closing"]
  /\ UNCHANGED <<gsSurf, gsOsd, gsCount, gsShared, gsLeft, gsSwap, gsHooks, gsBusy, gsOwn, gsMaps,
                 gsEnv>>

ReleaseNext(f) ==
  /\ gsOsd.ok /\ gsFile[f] = "closing" /\ gsBusy = GsNobody
  /\ IF gsHooks[f] = {}
     THEN /\ gsFile' = [gsFile EXCEPT ![f] = "closed"]
          /\ UNCHANGED <<gsSurf, gsOsd, gsCount, gsShared, gsLeft, gsSwap, gsHooks, gsBusy, gsOwn,
                         gsMaps, gsEnv>>
     ELSE LET h == CHOOSE h \in gsHooks[f] : \A g \in gsHooks[f] : h <= g
          IN  \/ BeginDestroy(f, h)
              \/ /\ ~Exists(h)
                 /\ gsHooks' = [gsHooks EXCEPT ![f] = @ \ {h}]
                 /\ UNCHANGED <<gsSurf, gsOsd, gsCount, gsShared, gsLeft, gsSwap, gsBusy, gsFile,
                                gsOwn, gsMaps, gsEnv>>

\* IOC_GFX_HOOK_SURFACE and UNHOOK: any handle, with or without a surface.
gfx_inf_hook(f, h, on) ==
  /\ GsLooseCall(f) /\ GsMay("hook") /\ (GsMay("foreign") \/ (Exists(h) /\ gsOwn[h] \subseteq {f}))
  /\ gsHooks' = [gsHooks EXCEPT ![f] = IF on THEN @ \cup {h} ELSE @ \ {h}]
  /\ gsOwn' = [gsOwn EXCEPT ![h] = IF Exists(h) THEN (IF on THEN @ \cup {f} ELSE @ \ {f}) ELSE @]
  /\ UNCHANGED <<gsSurf, gsOsd, gsCount, gsShared, gsLeft, gsSwap, gsBusy, gsFile, gsMaps, gsEnv>>

-----------------------------------------------------------------------------
\* gfx_inf_h_lock_surface.
LockSurface(h) ==
  /\ gsSurf[h].locks < GsMaxLocks /\ gsCount.locked <= GsMax
  /\ gsSurf' = [gsSurf EXCEPT ![h].locks = @ + 1]
  /\ gsCount' = [gsCount EXCEPT !.locked = IF gsSurf[h].locks = 0 THEN @ + 1 ELSE @]

\* IOC_GFX_LOCK_SURFACE.
gfx_inf_lock(f, h) ==
  /\ GsCall(f) /\ GsMay("locks") /\ Exists(h)
  /\ LockSurface(h)
  /\ UNCHANGED <<gsOsd, gsShared, gsLeft, gsSwap, gsHooks, gsBusy, gsFile, gsOwn, gsMaps, gsEnv>>

\* IOC_GFX_GET_SURFACE_INFO has no break: the surface is locked as well.
gfx_inf_get_info(f, h) ==
  /\ GsCall(f) /\ GsMay("locks") /\ Exists(h)
  /\ LockSurface(h)
  /\ UNCHANGED <<gsOsd, gsShared, gsLeft, gsSwap, gsHooks, gsBusy, gsFile, gsOwn, gsMaps, gsEnv>>

\* IOC_GFX_UNLOCK_SURFACE.
gfx_inf_unlock(f, h) ==
  /\ GsCall(f) /\ GsMay("locks") /\ Exists(h) /\ gsSurf[h].locks > 0
  /\ gsSurf' = [gsSurf EXCEPT ![h].locks = @ - 1]
  /\ gsCount' = [gsCount EXCEPT !.locked = IF gsSurf[h].locks = 1 THEN @ - 1 ELSE @]
  /\ UNCHANGED <<gsOsd, gsShared, gsLeft, gsSwap, gsHooks, gsBusy, gsFile, gsOwn, gsMaps, gsEnv>>

\* _gfx_inf_h_validate_surface_address: the plane of a locked surface.
ValidAddress(r) == gsCount.locked > 0 /\ r \in GsHandles /\ gsSurf[r].locks > 0

\* gfx_inf_mmap asks whether the address is valid and maps it anyway.
gfx_inf_mmap(f, r) ==
  /\ GsCall(f) /\ GsMay("mmap") /\ (r \in GsHandles => Exists(r))
  /\ gsMaps' = [of |-> r, valid |-> ValidAddress(r)]
  /\ UNCHANGED <<gsSurf, gsOsd, gsCount, gsShared, gsLeft, gsSwap, gsHooks, gsBusy, gsFile, gsOwn,
                 gsEnv>>

\* gfx_inf_h_set_shared_surface.
gfx_inf_set_shared(f, h) ==
  /\ GsCall(f) /\ GsMay("hook") /\ Exists(h) /\ gsShared' = h
  /\ UNCHANGED <<gsSurf, gsOsd, gsCount, gsLeft, gsSwap, gsHooks, gsBusy, gsFile, gsOwn, gsMaps, gsEnv>>

-----------------------------------------------------------------------------
\* Attaching h to dev: the chain, and attachedDev unless it was refused.
Attached(o, s, dev, h) ==
  IF AttachRefused(o, s, dev, h) THEN s ELSE [s EXCEPT ![h].att = dev]

Detached(o, s, dev, h) ==
  IF DetachRefused(o, s, dev, h) THEN s ELSE [s EXCEPT ![h].att = NoSurface]

gfx_inf_attach(f, h, dev) ==
  /\ GsCall(f) /\ GsMay(dev)
  /\ gsOsd' = osd_osi_attach(gsOsd, gsSurf, dev, h)
  /\ gsSurf' = Attached(gsOsd, gsSurf, dev, h)
  /\ UNCHANGED <<gsCount, gsShared, gsLeft, gsSwap, gsHooks, gsBusy, gsFile, gsOwn, gsMaps, gsEnv>>

\* With GFX_VDEV_NULL: from the device the surface is on.
gfx_inf_detach(f, h, dev) ==
  LET from == IF dev = NoSurface THEN gsSurf[h].att ELSE dev
  IN  /\ GsCall(f) /\ from \in gsEnv
      /\ gsOsd' = osd_osi_detach(gsOsd, gsSurf, from, h)
      /\ gsSurf' = Detached(gsOsd, gsSurf, from, h)
      /\ UNCHANGED <<gsCount, gsShared, gsLeft, gsSwap, gsHooks, gsBusy, gsFile, gsOwn, gsMaps, gsEnv>>

\* Handle 0 is "no old surface" to a swap.
SwapNow(dev, old, new) ==
  LET o == IF old = 0 THEN gsOsd ELSE osd_osi_detach(gsOsd, gsSurf, dev, old)
      s == IF old = 0 THEN gsSurf ELSE Detached(gsOsd, gsSurf, dev, old)
  IN  /\ gsOsd' = osd_osi_attach(o, s, dev, new)
      /\ gsSurf' = Attached(o, s, dev, new)

\* gfx_inf_h_swap_surface without the interrupt.
SwapAtOnce(f, dev, old, new) ==
  /\ GsCall(f) /\ GsMay("swap") /\ GsMay(dev) /\ ~gsSwap.ready
  /\ SwapNow(dev, old, new)
  /\ UNCHANGED <<gsCount, gsShared, gsLeft, gsSwap, gsHooks, gsBusy, gsFile, gsOwn, gsMaps, gsEnv>>

\* With it: the request is left for the interrupt, and the caller may wait.
SwapAtInterrupt(f, dev, old, new, wait) ==
  /\ GsCall(f) /\ GsMay("swap") /\ GsMay(dev) /\ ~gsSwap.ready
  /\ gsSwap' = [ready |-> TRUE, old |-> old, new |-> new, dev |-> dev, sem |-> 0]
  /\ gsBusy' = IF wait THEN [f |-> f, h |-> new, at |-> "swap"] ELSE GsNobody
  /\ UNCHANGED <<gsSurf, gsOsd, gsCount, gsShared, gsLeft, gsHooks, gsFile, gsOwn, gsMaps, gsEnv>>

\* down_interruptible returns; a signal is not told from the swap.
SwapReturn ==
  /\ gsOsd.ok /\ gsBusy # GsNobody /\ gsBusy.at = "swap"
  /\ gsSwap.sem > 0 \/ GsMay("signal")
  /\ gsBusy' = GsNobody
  /\ gsSwap' = [gsSwap EXCEPT !.sem = IF @ > 0 THEN @ - 1 ELSE @]
  /\ UNCHANGED <<gsSurf, gsOsd, gsCount, gsShared, gsLeft, gsHooks, gsFile, gsOwn, gsMaps, gsEnv>>

\* gfx_atom_osdanim_irq_handler: the semaphore goes up at every interrupt.
OsdAnimInterrupt ==
  /\ gsOsd.ok /\ gsOsd.mask /\ GsMay("swap") /\ gsSwap.sem < 2
  /\ gsSwap' = [gsSwap EXCEPT !.ready = FALSE, !.sem = @ + 1]
  /\ IF gsSwap.ready THEN SwapNow(gsSwap.dev, gsSwap.old, gsSwap.new)
     ELSE UNCHANGED <<gsOsd, gsSurf>>
  /\ UNCHANGED <<gsCount, gsShared, gsLeft, gsHooks, gsBusy, gsFile, gsOwn, gsMaps, gsEnv>>

-----------------------------------------------------------------------------
\* As below, the surface put where the margin begins.
Shifted_plain(surface, old, new) == SetOffset(surface, surface.x + new, GsScreen)

\* gfx_inf_h_set_screen_info: the cursor is kept inside the margin, and every
\* surface of the other planes moves with it.
Shifted(surface, old, new) ==
  SetOffset(surface, IF surface.x < old THEN new ELSE surface.x - old + new, GsScreen)

ScreenMoved(new) ==
  LET cursor == IF gsOsd.chain["CUR"] = <<>> THEN gsSurf
                ELSE LET x == gsSurf[Top(gsOsd, "CUR")].x
                     IN  CursorTo(gsOsd, gsSurf, IF x < new THEN new ELSE x, GsScreen + 3, GsScreen)
  IN  [h \in GsHandles |-> IF OsdComp(cursor[h].kind) \in {{}, {"CUR"}} THEN cursor[h]
                           ELSE Shifted(cursor[h], gsLeft, new)]

SetScreenInfo(new) == gsLeft' = new /\ gsSurf' = ScreenMoved(new)

gfx_inf_set_screen_info(f, new) ==
  /\ GsCall(f) /\ GsMay("screen")
  /\ SetScreenInfo(new)
  /\ UNCHANGED <<gsOsd, gsCount, gsShared, gsSwap, gsHooks, gsBusy, gsFile, gsOwn, gsMaps, gsEnv>>

\* gfx_inf_h_set_surface_display_parm: the window, counted from the margin.
SetDisplayParm(h, win) ==
  gsSurf' = [gsSurf EXCEPT ![h] = IF OsdComp(@.kind) = {} THEN @
                                  ELSE SetOffset(@, gsLeft + win, GsScreen)]

gfx_inf_set_display_parm(f, h, win) ==
  /\ GsCall(f) /\ GsMay("window")
  /\ SetDisplayParm(h, win)
  /\ UNCHANGED <<gsOsd, gsCount, gsShared, gsLeft, gsSwap, gsHooks, gsBusy, gsFile, gsOwn, gsMaps,
                 gsEnv>>

\* gfx_inf_h_get_surface_display_parm, and report_cursor_position.
WindowOf(surface, left) == IF surface.x < left THEN 0 ELSE surface.x - left

\* gfx_inf_h_move_cursor, which takes no mutex.
gfx_inf_move_cursor(f, x) ==
  /\ GsLooseCall(f) /\ GsMay("window")
  /\ gsSurf' = CursorTo(gsOsd, gsSurf, x + gsLeft, GsScreen + 3, GsScreen)
  /\ UNCHANGED <<gsOsd, gsCount, gsShared, gsLeft, gsSwap, gsHooks, gsBusy, gsFile, gsOwn, gsMaps,
                 gsEnv>>

\* gfx_inf_h_set_display_control: the animation interrupt sets its rate first.
SetDisplayControl(o, cntl, attr) ==
  IF cntl = "ANIM" /\ attr = 1
  THEN osd_atom_set_display_control(osd_atom_set_display_control(o, "ANIMR", 0), "ANIM", 1)
  ELSE osd_atom_set_display_control(o, cntl, attr)

gfx_inf_set_display_control(f, cntl, attr) ==
  /\ GsLooseCall(f) /\ GsMay(cntl)
  /\ gsOsd' = SetDisplayControl(gsOsd, cntl, attr)
  /\ UNCHANGED <<gsSurf, gsCount, gsShared, gsLeft, gsSwap, gsHooks, gsBusy, gsFile, gsOwn, gsMaps,
                 gsEnv>>

\* gfx_inf_h_set_visual_device_control, GFX_VISUAL_DEVICE_ENABLE.
gfx_inf_set_device_control(f, dev, on) ==
  /\ GsLooseCall(f) /\ GsMay("enable")
  /\ gsOsd' = osd_atom_set_plane_control(gsOsd, dev, on)
  /\ UNCHANGED <<gsSurf, gsCount, gsShared, gsLeft, gsSwap, gsHooks, gsBusy, gsFile, gsOwn, gsMaps,
                 gsEnv>>

-----------------------------------------------------------------------------
\* gfx_inf_ioctl, in the order of its cases: the surfaces of a file, their
\* locks and their memory;
GsSurfaceCalls(f) ==
  \/ \E kind \in GsKinds : gfx_inf_create(f, kind)
  \/ \E h \in GsHandles :
       \/ gfx_inf_destroy(f, h) \/ \E on \in BOOLEAN : gfx_inf_hook(f, h, on)
       \/ gfx_inf_lock(f, h) \/ gfx_inf_get_info(f, h) \/ gfx_inf_unlock(f, h)

\* what is shared, what is attached to the planes, and the window of a surface;
GsPlaneCalls(f) ==
  \/ \E h \in GsHandles :
       \/ gfx_inf_set_shared(f, h)
       \/ \E dev \in OsdDevs : gfx_inf_attach(f, h, dev)
       \/ \E dev \in OsdDevs \cup {NoSurface} : gfx_inf_detach(f, h, dev)
       \/ \E win \in GsWindows : gfx_inf_set_display_parm(f, h, win)
  \/ \E dev \in OsdDevs, old, new \in GsHandles :
       SwapAtOnce(f, dev, old, new)
       \/ \E wait \in BOOLEAN : SwapAtInterrupt(f, dev, old, new, wait)

\* the cursor, the screen and the planes' controls.
GsScreenCalls(f) ==
  \/ \E x \in GsWindows : gfx_inf_move_cursor(f, x)
  \/ \E new \in GsMargins : gfx_inf_set_screen_info(f, new)
  \/ \E cntl \in OsdControls \ {"E32BCO"}, attr \in 0 .. 1 : gfx_inf_set_display_control(f, cntl, attr)
  \/ \E dev \in OsdDevs, on \in BOOLEAN : gfx_inf_set_device_control(f, dev, on)

GsFileCalls(f) ==
  \/ gfx_inf_open(f) \/ gfx_inf_release(f) \/ ReleaseNext(f)
  \/ GsSurfaceCalls(f) \/ GsPlaneCalls(f) \/ GsScreenCalls(f)
  \/ \E r \in GsHandles \cup {Alien} : gfx_inf_mmap(f, r)

GsNext == (\E f \in GsFiles : GsFileCalls(f)) \/ EndDestroy \/ SwapReturn \/ OsdAnimInterrupt

GsSpec == GsInit /\ [][GsNext]_gsVars

-----------------------------------------------------------------------------
\* The chain of a plane holds exactly the surfaces that say they are attached
\* to it, each once, and none that has been destroyed, whatever the animation
\* interrupt swaps while a surface is being destroyed.
ChainIsAttached ==
  \A dev \in OsdDevs :
    /\ ToSet(gsOsd.chain[dev]) = {h \in GsHandles : Exists(h) /\ gsSurf[h].att = dev}
    /\ Len(gsOsd.chain[dev]) = Cardinality(ToSet(gsOsd.chain[dev]))

\* What the registers show is the top most surface of each plane, and a plane
\* is on while it has one, unless the application switches planes itself: a
\* 32-bit surface on the graphics plane has the image plane too.
PlaneShowsTop ==
  gsOsd.ok =>
    LET gfx == gsOsd.chain["GFX"]
        img == gsOsd.chain["IMG"]
        twin == gfx # <<>> /\ IsTwin(gsSurf, Head(gfx))
        Shows(dev, addr) == IF addr = <<>> THEN ~gsOsd.on[dev] \/ GsMay("enable")
                            ELSE gsOsd.base[dev] = addr /\ (gsOsd.on[dev] \/ GsMay("enable"))
        First(chain) == IF chain = <<>> THEN <<>> ELSE <<Head(chain), 1>>
    IN  /\ \A dev \in {"CUR", "GFX"} : Shows(dev, First(gsOsd.chain[dev]))
        /\ Shows("IMG", IF twin THEN <<Head(gfx), 2>> ELSE First(img))
        /\ gsOsd.disp["E32BCO"] = (IF twin THEN 1 ELSE 0)

\* guFreeHandles counts the handles that are free, and guLockedHandles never
\* falls short of the surfaces that are locked (a locked surface that is
\* destroyed leaves it too high for good): the first bounds what can be
\* created, the second keeps an orderly gfx_inf_h_deinit(1) from taking the
\* memory an application still uses.
HandlesCounted ==
  /\ gsCount.free = Cardinality({h \in GsHandles : ~Exists(h)})
  /\ gsCount.locked >= Cardinality({h \in GsHandles : gsSurf[h].locks > 0})

\* A file's hook is on the surface it hooked, not on one created since under
\* the same handle: closing a file destroys its own surfaces only.
HooksAreCurrent ==
  \A f \in GsFiles : gsFile[f] # "closed" =>
    \A h \in gsHooks[f] : Exists(h) => f \in gsOwn[h]

\* Moving the margin leaves every surface where it was in the window, if there
\* is room for it on the screen.
WindowStays ==
  [][gsLeft' # gsLeft =>
       \A h \in GsHandles : (Exists(h) /\ OsdComp(gsSurf[h].kind) \notin {{}, {"CUR"}}
                             /\ gsSurf[h].x >= gsLeft /\ (gsSurf[h].x - gsLeft) + gsLeft' < GsScreen) =>
          WindowOf(gsSurf'[h], gsLeft') = WindowOf(gsSurf[h], gsLeft)]_gsVars

\* Only the memory of a locked surface is mapped: "Aliens are simply rejected".
AliensRejected == gsMaps.valid
=============================================================================
