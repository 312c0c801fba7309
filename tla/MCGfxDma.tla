------------------------------ MODULE MCGfxDma -------------------------------
(***************************************************************************)
(* Requests for TLC: frames of up to four lines, stretched in the ways the *)
(* drawing states allow, from both kinds of memory.                        *)
(***************************************************************************)
EXTENDS GfxDma

Frame(mem, mode, h, one, mx, m, off, ss, ds) ==
  [mem |-> mem, mode |-> mode, h |-> h, one |-> one, mx |-> mx, m |-> m, off |-> off, ss |-> ss, ds |-> ds]

MCDmaEnvs ==
  {{Frame("PHYS", mode, 4, 1, 1, 3, 0, 3, 2), Frame("PHYS", mode, 4, 2, 1, 2, 0, 2, 2),
    Frame("PHYS", mode, 2, 1, 0, 0, 0, 2, 2), Frame("PHYS", mode, 3, 0, 2, 2, 0, 2, 2)} :
     mode \in {"SYNCH", "ASYNCH"}}
  \cup
  {{Frame("USER", mode, 4, 1, 1, 2, off, 3, 2) : off \in 0 .. 3}
     \cup {Frame("USER", mode, 4, 1, 0, 1, 1, 2, 2)} : mode \in {"SYNCH", "ASYNCH"}}

\* One caller asks for both modes.
MixedModes == {{Frame("PHYS", mode, 2, 1, 0, 1, 0, 2, 2) : mode \in {"SYNCH", "ASYNCH"}}}
==============================================================================
