-------------------------------- MODULE GfxDma --------------------------------
(***************************************************************************)
(* Video frames moved to a surface by a DMA channel (gfx_atom.c): a frame  *)
(* of luma lines and half as many chroma lines, some of the lines repeated *)
(* to stretch the picture.  A physically contiguous source is walked line  *)
(* by line by the interrupt handler; a source in user memory is cut at its *)
(* page boundaries into a list before the first transfer.                  *)
(*                                                                         *)
(* A transfer of no bytes is taken to complete like any other.             *)
(***************************************************************************)
EXTENDS Integers, Sequences

CONSTANTS DmaPage,   \* PAGE_SIZE
          DmaEnvs,   \* the requests a behaviour may make: sets of GFX_DMABLT_PARM_T
          DmaMax     \* bound: requests made

ASSUME DmaAssumption == DmaPage \in Nat \ {0} /\ DmaMax \in Nat

VARIABLES
  dmaEnv,   \* the requests of this behaviour
  dmaReq,   \* the request being served, with pc of the caller
  dmaType,  \* dmablt_type
  dmaSem,   \* semaphore of each kind of source
  contig,   \* dmablt_contig, with the request it serves as p
  dmaList,  \* dmablt_kiobuf.list: entries left, the current one first
  channel,  \* the transfer the channel makes, or NoTransfer
  dmaMoved,    \* <<plane, byte of the destination, byte of the source>> moved so far
  dmaCount  \* requests made

dmaVars == <<dmaEnv, dmaReq, dmaType, dmaSem, contig, dmaList, channel, dmaMoved, dmaCount>>

NoTransfer == [plane |-> 0, dst |-> 0, src |-> 0, n |-> -1]
NoRequest == [mem |-> "none"]
Transfer(plane, dst, src, n) == [plane |-> plane, dst |-> dst, src |-> src, n |-> n]
BytesOf(t) == {<<t.plane, t.dst + k, t.src + k>> : k \in 0 .. t.n - 1}

DmaInit ==
  /\ dmaEnv \in DmaEnvs
  /\ dmaReq = [p |-> NoRequest, pc |-> "idle"] /\ dmaType = "none"
  /\ dmaSem = [mem \in {"PHYS", "USER"} |-> 1]
  /\ contig = [plane |-> 2, p |-> NoRequest] /\ dmaList = <<>> /\ channel = NoTransfer
  /\ dmaMoved = {} /\ dmaCount = 0

-----------------------------------------------------------------------------
\* The contiguous source.
StartState(p) == IF p.one # 0 THEN "DRAW1X" ELSE "DRAWMX"

ContigStart(p) ==
  [plane |-> 0, line |-> 0, src |-> 0, dst |-> 0, state |-> StartState(p),
   one |-> p.one, mx |-> p.mx, m |-> p.m, p |-> p]

\* The drawing state after a line; again: the same source line comes once more.
Advance(c) ==
  CASE c.state = "DRAW1X" /\ c.one > 1 -> [c EXCEPT !.one = @ - 1]
    [] c.state = "DRAW1X" -> [c EXCEPT !.one = c.p.one, !.state = IF c.p.mx # 0 THEN "DRAWMX" ELSE @]
    [] c.m > 1 -> [c EXCEPT !.m = @ - 1]
    [] c.mx > 1 -> [c EXCEPT !.m = c.p.m, !.mx = @ - 1]
    [] OTHER -> [c EXCEPT !.m = c.p.m, !.mx = c.p.mx, !.state = StartState(c.p)]

Again(c) == c.state = "DRAWMX" /\ c.m > 1

LastLine(c) == c.line + 1 = (IF c.plane = 0 THEN c.p.h ELSE c.p.h \div 2)

\* One interrupt: the next line of the plane, the first of the other plane,
\* or the end.
ContigNext_carried(c) ==
  LET a == [Advance(c) EXCEPT !.dst = c.dst + c.p.ds]
  IN  CASE Again(c) -> a
        [] LastLine(c) /\ c.plane = 0 -> [a EXCEPT !.plane = 1, !.line = 0, !.src = 0, !.dst = 0]
        [] LastLine(c) -> [a EXCEPT !.plane = 2]
        [] OTHER -> [a EXCEPT !.line = @ + 1, !.src = @ + c.p.ss]
ContigNext(c) ==
  LET a == [Advance(c) EXCEPT !.dst = c.dst + c.p.ds]
  IN  CASE Again(c) -> a
        [] LastLine(c) /\ c.plane = 0 -> [ContigStart(c.p) EXCEPT !.plane = 1]
        [] LastLine(c) -> [a EXCEPT !.plane = 2]
        [] OTHER -> [a EXCEPT !.line = @ + 1, !.src = @ + c.p.ss]

ContigTransfer(c) == Transfer(c.plane, c.dst, c.src, c.p.ds)

-----------------------------------------------------------------------------
\* The source in user memory, off bytes into its first page.  A position at
\* the end of a page is kept as such, and gives a piece of no bytes first.
Pieces(plane, pos, off, dst, n) ==
  LET at == (pos + off) % DmaPage
      room == IF at = 0 /\ pos + off > 0 THEN 0 ELSE DmaPage - at
      first == IF n > room THEN room ELSE n
  IN  IF first = n THEN <<Transfer(plane, dst, pos, n)>>
      ELSE <<Transfer(plane, dst, pos, first), Transfer(plane, dst + first, pos + first, n - first)>>

\* dmablt_kiobuf_addtransfer: every repetition repeats all that came before
\* it, so that two of them make four lines.
Copies(m) == 2 ^ (m - 1)
LineCopies(p, i) == IF i % (p.one + p.mx) < p.one THEN 1 ELSE Copies(p.m)

\* dmablt_kiobuf_transfer works in whole groups of lines, past the height too.
WholeGroups(p, lines) == ((lines + p.one + p.mx - 1) \div (p.one + p.mx)) * (p.one + p.mx)

PlaneList(p, plane, lines) ==
  LET upto[i \in 0 .. WholeGroups(p, lines)] ==
        IF i = 0 THEN [list |-> <<>>, dst |-> 0]
        ELSE LET before == upto[i - 1]
                 n == LineCopies(p, i - 1)
                 copy[k \in 0 .. n] == IF k = 0 THEN before.list
                   ELSE copy[k - 1] \o Pieces(plane, (i - 1) * p.ss, p.off, before.dst + (k - 1) * p.ds, p.ds)
             IN  [list |-> copy[n], dst |-> before.dst + n * p.ds]
  IN  upto[WholeGroups(p, lines)].list

\* The list has eight entries a line and takes no more.
KiobufList(p) ==
  LET all == PlaneList(p, 0, p.h) \o PlaneList(p, 1, p.h \div 2)
  IN  SubSeq(all, 1, IF Len(all) > 8 * p.h THEN 8 * p.h ELSE Len(all))

-----------------------------------------------------------------------------
\* gfx_atom_dmablt_handle_request: the interrupt handler is told the kind of
\* source at once; an asynchronous request then waits for the one before it.
gfx_atom_dmablt_handle_request(p) ==
  /\ dmaReq.pc = "idle" /\ dmaCount < DmaMax
  /\ dmaType' = p.mem
  /\ dmaReq' = [p |-> p, pc |-> IF p.mode = "ASYNCH" THEN "prior" ELSE "fill"]
  /\ dmaCount' = dmaCount + 1
  /\ UNCHANGED <<dmaEnv, dmaSem, contig, dmaList, channel, dmaMoved>>

DmaPrior ==
  /\ dmaReq.pc = "prior" /\ dmaSem[dmaReq.p.mem] > 0
  /\ dmaSem' = [dmaSem EXCEPT ![dmaReq.p.mem] = @ - 1]
  /\ dmaReq' = [dmaReq EXCEPT !.pc = "fill"]
  /\ UNCHANGED <<dmaEnv, dmaType, contig, dmaList, channel, dmaMoved, dmaCount>>

\* The first transfer is started; a synchronous caller makes the semaphore its
\* own and waits on it.
Begin(p) ==
  /\ dmaMoved' = {}
  /\ dmaReq' = [dmaReq EXCEPT !.pc = IF p.mode = "ASYNCH" THEN "idle" ELSE "done"]
  /\ dmaSem' = IF p.mode = "ASYNCH" THEN dmaSem ELSE [dmaSem EXCEPT ![p.mem] = 0]
  /\ UNCHANGED <<dmaEnv, dmaType, dmaCount>>

dmablt_contig_transfer ==
  LET p == dmaReq.p
  IN  /\ dmaReq.pc = "fill" /\ p.mem = "PHYS" /\ Begin(p)
      /\ contig' = ContigStart(p) /\ channel' = ContigTransfer(ContigStart(p))
      /\ UNCHANGED dmaList

dmablt_kiobuf_transfer ==
  LET p == dmaReq.p
  IN  /\ dmaReq.pc = "fill" /\ p.mem = "USER" /\ Begin(p)
      /\ dmaList' = KiobufList(p) /\ channel' = Head(KiobufList(p))
      /\ UNCHANGED contig

\* The end of a synchronous request.
DmaDone ==
  /\ dmaReq.pc = "done" /\ dmaSem[dmaReq.p.mem] > 0
  /\ dmaSem' = [dmaSem EXCEPT ![dmaReq.p.mem] = @ - 1]
  /\ dmaReq' = [dmaReq EXCEPT !.pc = "idle"]
  /\ UNCHANGED <<dmaEnv, dmaType, contig, dmaList, channel, dmaMoved, dmaCount>>

\* gfx_atom_dmablt_wait_handle_request: down and up again, when the last
\* request was asynchronous.
gfx_atom_dmablt_wait ==
  /\ dmaReq.pc = "idle" /\ dmaReq.p # NoRequest /\ dmaReq.p.mode = "ASYNCH"
  /\ dmaReq' = [dmaReq EXCEPT !.pc = "wait"]
  /\ UNCHANGED <<dmaEnv, dmaType, dmaSem, contig, dmaList, channel, dmaMoved, dmaCount>>

DmaWaited ==
  /\ dmaReq.pc = "wait" /\ dmaSem[dmaType] > 0
  /\ dmaReq' = [dmaReq EXCEPT !.pc = "idle"]
  /\ UNCHANGED <<dmaEnv, dmaType, dmaSem, contig, dmaList, channel, dmaMoved, dmaCount>>

\* gfx_atom_dmablt_irq_handler, once the channel has made its transfer.
DmaInterrupt ==
  LET c == ContigNext(contig)
      rest == Tail(dmaList)
      end == IF dmaType = "PHYS" THEN c.plane = 2 ELSE rest = <<>>
  IN  /\ channel # NoTransfer
      /\ dmaMoved' = dmaMoved \cup BytesOf(channel)
      /\ IF dmaType = "PHYS" THEN contig' = c /\ UNCHANGED dmaList
         ELSE dmaList' = rest /\ UNCHANGED contig
      /\ channel' = IF end THEN NoTransfer
                    ELSE IF dmaType = "PHYS" THEN ContigTransfer(c) ELSE Head(rest)
      /\ dmaSem' = IF end THEN [dmaSem EXCEPT ![dmaType] = @ + 1] ELSE dmaSem
      /\ UNCHANGED <<dmaEnv, dmaReq, dmaType, dmaCount>>

DmaStep == DmaPrior \/ dmablt_contig_transfer \/ dmablt_kiobuf_transfer \/ DmaDone \/ DmaWaited

\* What gfx_inf_ioctl takes of an application: a frame, and the wait for one.
DmaCalls == gfx_atom_dmablt_wait \/ \E p \in dmaEnv : gfx_atom_dmablt_handle_request(p)

DmaNext ==
  \/ DmaCalls
  \/ DmaPrior \/ dmablt_contig_transfer \/ dmablt_kiobuf_transfer \/ DmaDone \/ DmaWaited
  \/ DmaInterrupt

\* The channel interrupts when it is done; a caller that can go on goes on.
DmaFairness == WF_dmaVars(DmaStep) /\ WF_dmaVars(DmaInterrupt)

DmaSpec == DmaInit /\ [][DmaNext]_dmaVars /\ DmaFairness

-----------------------------------------------------------------------------
\* What a frame's picture should be: each source line once or m times.
Picture(p) ==
  LET lines(plane) == IF plane = 0 THEN p.h ELSE p.h \div 2
      times(i) == IF i % (p.one + p.mx) < p.one THEN 1 ELSE p.m
      row[i \in 0 .. p.h] == IF i = 0 THEN 0 ELSE row[i - 1] + times(i - 1)
  IN  UNION {BytesOf(Transfer(plane, (row[i] + k) * p.ds, i * p.ss, p.ds)) :
               <<plane, i, k>> \in {t \in {0, 1} \X (0 .. p.h - 1) \X (0 .. p.m) :
                                      t[2] < lines(t[1]) /\ t[3] < times(t[2])}}

\* The frame on the surface is the frame asked for, line by line in both
\* planes, whichever way the source was walked, and it is complete when the
\* semaphore says so: it is when the caller of a synchronous request returns
\* and when a next request may overwrite the lists.
FrameAsAsked ==
  dmaReq.p # NoRequest =>
    /\ dmaReq.pc \in {"idle", "wait", "done"} => dmaMoved \subseteq Picture(dmaReq.p)
    /\ dmaReq.pc \in {"idle", "wait", "done"}
         /\ (dmaSem[dmaType] > 0 \/ (dmaReq.pc = "idle" /\ dmaReq.p.mode # "ASYNCH")) =>
         channel = NoTransfer /\ dmaMoved = Picture(dmaReq.p)

\* "wait for prior DMA to finish": a request that waits before it starts waits
\* for a transfer that is on.
WaitsForPrior ==
  dmaReq.pc = "prior" => dmaSem[dmaReq.p.mem] > 0 \/ channel # NoTransfer

=============================================================================
