------------------------------ MODULE MCConsole ------------------------------
(***************************************************************************)
(* Graphics, teletext, remote control and keyboard, which share no state   *)
(* with each other, for TLC: a behaviour is one of the part it names,      *)
(* while the others keep their first state.                                *)
(***************************************************************************)
EXTENDS FrameBuffer, GfxLayout, GfxDraw, MCGfxDma, MCIrRemote, IrKeyboard, Teletext

VARIABLE part

First(S) == CHOOSE x \in S : TRUE

PixelKinds == {"CLUT1", "CLUT8", "Y422", "Y420", "A422", "A420", "ARGB", "OTHER", "FREE"}
MCDrawKinds == (PixelKinds \X PixelKinds \X {"none"})
               \cup (PixelKinds \X {"ARGB", "Y422"} \X {"CLUT1", "CLUT8", "FREE"})
MCDrawSize == <<4, 4>>
MCDrawXs == {<<0, 0, 0, 4>>, <<-1, 0, 0, 3>>, <<1, -1, 1, 4>>, <<2, 1, -1, 2>>, <<3, 2, 2, 5>>,
             <<0, 3, 0, 1>>, <<0, 0, 0, 0>>, <<4, 0, 0, 1>>, <<-2, -2, -1, 6>>}
MCDrawYs == {<<0, 0, 0, 4>>, <<1, -1, 0, 3>>, <<-1, 1, 1, 2>>, <<1, 0, -1, 5>>, <<3, 3, 3, 1>>}
MCDrawSpans == {<<0, 4>>, <<1, 2>>, <<3, 5>>, <<0, 1>>}
MCDrawClips == {<<1, 1, 2, 2>>, <<-1, 0, 1, 9>>, <<2, 1, 1, 3>>}
MCKbJitters == {-208, 207}

ConsoleInit ==
  /\ part \in {"planes", "layout", "draw", "frames", "remote", "keyboard", "teletext"}
  /\ GsInit /\ FbInit /\ (part = "planes" \/ gsEnv = First(GsEnvs))
  /\ LayInit
  /\ DrawInit /\ (part = "draw" \/ surfs = First(DrawKinds))
  /\ DmaInit /\ (part = "frames" \/ dmaEnv = First(DmaEnvs))
  /\ IrInit /\ (part = "remote" \/ rcEnv = First(RcScripts))
  /\ KbInit /\ (part = "keyboard" \/ kbEnv = First(KbEnvs))
  /\ TtxInit /\ (part = "teletext" \/ (/\ ttxEnv = First(TtxEnvs) /\ vfield = 0
                                       /\ ttxCast.field = <<0>> /\ ttxCast.pts = <<TtxBase + First(TtxGaps)>>))

ConsoleNext ==
  /\ UNCHANGED part
  /\ \/ part = "planes" /\ FbNext /\ UNCHANGED <<layVars, drawVars, dmaVars, irVars, kbVars, ttxVars>>
     \/ part = "layout" /\ LayNext /\ UNCHANGED <<gsVars, fbVars, drawVars, dmaVars, irVars, kbVars, ttxVars>>
     \/ part = "draw" /\ DrawNext /\ UNCHANGED <<gsVars, fbVars, layVars, dmaVars, irVars, kbVars, ttxVars>>
     \/ part = "frames" /\ DmaNext /\ UNCHANGED <<gsVars, fbVars, layVars, drawVars, irVars, kbVars, ttxVars>>
     \/ part = "remote" /\ IrNext /\ UNCHANGED <<gsVars, fbVars, layVars, drawVars, dmaVars, kbVars, ttxVars>>
     \/ part = "keyboard" /\ KbNext /\ UNCHANGED <<gsVars, fbVars, layVars, drawVars, dmaVars, irVars, ttxVars>>
     \/ part = "teletext" /\ TtxNext /\ UNCHANGED <<gsVars, fbVars, layVars, drawVars, dmaVars, irVars, kbVars>>
==============================================================================
