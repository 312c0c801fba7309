------------------------------ MODULE MCDevices ------------------------------
(***************************************************************************)
(* The memory allocator, the smart card and the decoders with their clip   *)
(* player, which share no state with each other, for TLC: a behaviour is   *)
(* one of the part it names, while the others keep their first state.      *)
(***************************************************************************)
EXTENDS PmHeap, SmartCard, ClipPlayer, VideoDec, VidSegments, AudioDec

VARIABLE part

MCSciParams == {[T |-> 1, WWT |-> 3, BWT |-> 2, clk_p |-> 1]}

First(S) == CHOOSE x \in S : TRUE

DevicesInit ==
  /\ part \in {"heap", "card", "clip", "video", "segments", "audio"}
  /\ HeapInit
  /\ SciInit /\ (part = "card" \/ (sciEnv = First(SciEnvs) /\ hw.present))
  /\ ClipInit /\ (part = "clip" \/ clipKind = First(ClipKinds))
  /\ VidInit /\ (part = "video" \/ vidEnv = First(VidEnvs))
  /\ SegInit /\ (part = "segments" \/ /\ segCfg.frame = 100 * SegMega /\ segCfg.vsize = First(SegVideo)
                                      /\ segCfg.gfx = First(SegBases) /\ segCfg.gsize = First(SegSizes)
                                      /\ segCfg.own)
  /\ AudInit /\ (part = "audio" \/ audEnv = First(AudEnvs))

DevicesNext ==
  /\ UNCHANGED part
  /\ \/ part = "heap" /\ HeapNext /\ UNCHANGED <<sciVars, clipVars, vidVars, segVars, audVars>>
     \/ part = "card" /\ SciNext /\ UNCHANGED <<heapVars, clipVars, vidVars, segVars, audVars>>
     \/ part = "clip" /\ ClipNext /\ UNCHANGED <<heapVars, sciVars, vidVars, segVars, audVars>>
     \/ part = "video" /\ VidNext /\ UNCHANGED <<heapVars, sciVars, clipVars, segVars, audVars>>
     \/ part = "segments" /\ SegNext /\ UNCHANGED <<heapVars, sciVars, clipVars, vidVars, audVars>>
     \/ part = "audio" /\ AudNext /\ UNCHANGED <<heapVars, sciVars, clipVars, vidVars, segVars>>

\* SciFairness and VidFairness, each for its own behaviours.
DevicesSpec ==
  /\ DevicesInit
  /\ [][DevicesNext]_<<part, heapVars, sciVars, clipVars, vidVars, segVars, audVars>>
  /\ WF_sciVars(part = "card" /\ SciThread) /\ WF_sciVars(part = "card" /\ sci_osd_irq_handler)
  /\ WF_sciVars(part = "card" /\ HwTx) /\ WF_sciVars(part = "card" /\ HwRxEnd)
  /\ WF_sciVars(part = "card" /\ HwRxThreshold) /\ WF_sciVars(part = "card" /\ HwTxThreshold)
  /\ WF_sciVars(part = "card" /\ SciTimeout)
  /\ WF_vidVars(part = "video" /\ RunStep) /\ WF_vidVars(part = "video" /\ PictureStart(FALSE))
==============================================================================
