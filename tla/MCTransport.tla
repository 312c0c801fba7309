----------------------------- MODULE MCTransport -----------------------------
(***************************************************************************)
(* The parts of the transport driver that share no state with each other,  *)
(* for TLC: a behaviour is one of the part it names, while the others keep *)
(* their first state.                                                      *)
(***************************************************************************)
EXTENDS XpFilter, XpRegister, XpChannel, UnbufferedQueue, XpClock, PvrPlayback

VARIABLE part

MCAdjusts == {-5, -1, 0, 1, 5}

First(S) == CHOOSE x \in S : TRUE

TransportInit ==
  /\ part \in {"filters", "registers", "channels", "reader", "clock", "playback"}
  /\ FltInit /\ (part = "filters" \/ fltEnv = First(FltEnvs))
  /\ RegInit /\ (part = "registers" \/ regEnv = First(RegEnvs))
  /\ XcInit /\ (part = "channels" \/ xcEnv = First(XcEnvs))
  /\ UbInit /\ (part = "reader" \/ ubEnv = First(UbEnvs))
  /\ ClkInit /\ (part = "clock" \/ clkEnv = First(ClkEnvs))
  /\ PvrInit /\ (part = "playback" \/ pvrEnv = First(PvrEnvs))

TransportNext ==
  /\ UNCHANGED part
  /\ \/ part = "filters" /\ FltNext
        /\ UNCHANGED <<regVars, xcVars, ubVars, clkVars, pvrVars>>
     \/ part = "registers" /\ RegNext
        /\ UNCHANGED <<fltVars, xcVars, ubVars, clkVars, pvrVars>>
     \/ part = "channels" /\ XcNext
        /\ UNCHANGED <<fltVars, regVars, ubVars, clkVars, pvrVars>>
     \/ part = "reader" /\ UbNext
        /\ UNCHANGED <<fltVars, regVars, xcVars, clkVars, pvrVars>>
     \/ part = "clock" /\ ClkNext
        /\ UNCHANGED <<fltVars, regVars, xcVars, ubVars, pvrVars>>
     \/ part = "playback" /\ PvrNext
        /\ UNCHANGED <<fltVars, regVars, xcVars, ubVars, clkVars>>

\* XcFairness and ClkFairness, each for its own behaviours.
TransportSpec ==
  /\ TransportInit /\ [][TransportNext]_<<part, fltVars, regVars, xcVars, ubVars, clkVars, pvrVars>>
  /\ WF_xcVars(part = "channels" /\ XcInterrupt) /\ WF_xcVars(part = "channels" /\ XcTask)
  /\ WF_clkVars(part = "clock" /\ PcrArrives)
  /\ WF_clkVars(part = "clock" /\ \E in \in ClkInputs : PrimaryInterrupt(in))

\* The channels' registers follow their tables, and the reader of an
\* unbuffered channel has what it was told of (xp_osi_inter.c, xp_osi_chann.c,
\* demux_filter_get_queue, demux_filter_set_readptr).
ChannelsAgree == RegistersFollow /\ ReaderHasItsBlocks
==============================================================================
