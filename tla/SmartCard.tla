------------------------------ MODULE SmartCard ------------------------------
(***************************************************************************)
(* One smart card controller: sci/sci_inf.c, sci_osd.c, sci_osi.c and      *)
(* sci_atom.c, with the controller's hardware, the card and the one thread *)
(* that may hold the device open.                                          *)
(*                                                                         *)
(* A step of the thread is a critical section, or code whose order with    *)
(* the handler does not matter; the handler may run between any two steps. *)
(* Bytes the driver sends are numbered 1, 2, ..., bytes of the card -1,    *)
(* -2, ..., so that order and origin of a byte can be seen.                *)
(***************************************************************************)
EXTENDS Integers, Sequences

CONSTANTS SciFifo,        \* bytes in a FIFO, 32
          SciHalf,        \* half of it, 16
          SciWrites,      \* lengths that are written
          SciReads,       \* lengths that are read
          SciParams,      \* parameters that are set, besides AtrParams
          SciMaxWait,     \* the longest waiting time that is accepted
          AnswerMax,      \* bytes the card sends without being asked again
          SciEnvs         \* what the surroundings do: each a subset of
                          \* {"signal", "fault", "late", "async", "any", "para"}

ASSUME SciAssumption ==
    /\ SciHalf \in Nat \ {0} /\ SciFifo = 2 * SciHalf
    /\ SciWrites \subseteq Nat \ {0} /\ SciReads \subseteq Nat \ {0}
    /\ AnswerMax \in Nat /\ SciMaxWait \in Nat \ {0}
    /\ SciParams \subseteq [T : Nat, WWT : Nat, BWT : Nat, clk_p : Nat]

VARIABLES sciEnv,
          hw,       \* the controller and the card
          cb,       \* sci_cb; buf stands for the bytes from p_read to p_write
          sciCall   \* the thread

sciVars == <<sciEnv, hw, cb, sciCall>>

Foreign == 0                               \* a byte of another message
RxMask == {"CDI", "ERR", "RFTHI", "REI"}   \* ERR: TSI, RFI, BOI, PARI
TxMask == {"CDI", "ERR", "LTXI"}
SciBits == RxMask \cup TxMask \cup {"TFHI", "BAD"}   \* BAD: RXLEN or CHI

\* The parameters every reset sets.
AtrParams == [T |-> 0, WWT |-> 1, BWT |-> 1, clk_p |-> 0]

SciTypeOK ==
    /\ hw.scint \subseteq SciBits /\ hw.scinten \subseteq SciBits
    /\ Len(hw.rx) <= SciFifo /\ Len(hw.tx) <= SciFifo
    /\ cb.state \in {"DEAC", "RX", "TX"}
    /\ cb.error \in {"OK", "HW", "ABORTED", "KERNEL"}
    /\ cb.bytes_expected = -1 \/ \E n \in SciReads : cb.bytes_expected \in 0 .. n
    /\ sciCall.pc \in {"closed", "idle", "wstart", "wfill", "wblock", "wsleep",
                       "rdecide", "rblock", "rsleep", "rcopy", "COLD", "WARM"}

-----------------------------------------------------------------------------
\* sci_osd_init: reg_init, and the deactivation of a controller in state INIT.
SciInit ==
    /\ sciEnv \in SciEnvs
    /\ \E p \in BOOLEAN :
          hw = [present |-> p, powered |-> FALSE, clocked |-> FALSE,
                scint |-> {}, scinten |-> {"CDI"},
                mode |-> "rx", half |-> FALSE, rx |-> <<>>, rxSent |-> 0, rxEnded |-> TRUE,
                tx |-> <<>>, sctxlen |-> 0, wire |-> <<>>, scbwt |-> 0]
    /\ cb = [state |-> "DEAC", error |-> "OK", waiting |-> FALSE, rx_complete |-> FALSE,
             bytes_expected |-> -1, atr_ready |-> FALSE, any |-> FALSE,
             sync |-> TRUE, rwAny |-> FALSE, buf |-> <<>>, taken |-> 0,
             para |-> [T |-> 0, WWT |-> 0, BWT |-> 0, clk_p |-> 0]]
    /\ sciCall = [pc |-> "closed", n |-> 0, woken |-> FALSE]

sci_osi_is_card_activated == cb.state \in {"RX", "TX"} /\ hw.powered

SciGoto(pc) == sciCall' = [sciCall EXCEPT !.pc = pc, !.n = IF pc = "idle" THEN 0 ELSE @]

\* wake_up_interruptible when somebody waits.
WakeIf(waits) == sciCall' = [sciCall EXCEPT !.woken = @ \/ waits]

-----------------------------------------------------------------------------
\* sci_osi_rx_start, on a control block c and hardware h: the buffer and both
\* FIFOs are emptied, the receive interrupts enabled.  (sctxlen and wire mean
\* nothing while receiving.)  taken: bytes of this reception callers have got.
RxStartCb(c) == [c EXCEPT !.state = "RX", !.buf = <<>>, !.taken = 0,
                          !.rx_complete = FALSE, !.bytes_expected = -1]
RxStartHw(h) == [h EXCEPT !.mode = "rx", !.half = TRUE, !.rx = <<>>, !.tx = <<>>,
                          !.rxSent = 0, !.rxEnded = FALSE,
                          !.sctxlen = 0, !.wire = <<>>,
                          !.scint = @ \cap {"CDI"}, !.scinten = RxMask]

\* sci_atom_read_fifo: everything, while the card is there; the bytes a
\* reader expects are counted down, and the threshold goes with them.
sci_atom_read_fifo(c, h) ==
    LET n == IF h.present THEN Len(h.rx) ELSE 0
        left == IF c.bytes_expected = -1 THEN -1
                ELSE IF c.bytes_expected > n THEN c.bytes_expected - n ELSE 0
    IN [cb |-> [c EXCEPT !.bytes_expected = left, !.buf = @ \o SubSeq(h.rx, 1, n)],
        hw |-> [h EXCEPT !.rx = SubSeq(@, n + 1, Len(@)),
                         !.half = @ /\ ~(n > 0 /\ left # -1 /\ left < SciHalf)]]

\* sci_osd_irq_handler in state RX.
RxInterrupt ==
    LET isr == hw.scint
        r == IF isr \cap {"RFTHI", "REI"} # {} THEN sci_atom_read_fifo(cb, hw)
             ELSE [cb |-> cb, hw |-> hw]
        c1 == IF "ERR" \in isr THEN [r.cb EXCEPT !.error = "HW", !.rx_complete = TRUE]
              ELSE r.cb
        wake == /\ "RFTHI" \in isr /\ "REI" \notin isr /\ c1.waiting
                /\ c1.any \/ c1.bytes_expected = 0
        c2 == IF wake THEN [c1 EXCEPT !.waiting = FALSE,
                                      !.bytes_expected = IF c1.any THEN @ ELSE -1]
              ELSE c1
        c3 == IF "REI" \in isr /\ ~c2.rx_complete
              THEN [c2 EXCEPT !.rx_complete = TRUE,
                              !.error = IF c2.para.T = 0 \/ "BAD" \in isr THEN "HW" ELSE @]
              ELSE c2
    IN /\ cb' = [c3 EXCEPT !.waiting = @ /\ ~c3.rx_complete]
       /\ WakeIf(wake \/ (c3.waiting /\ c3.rx_complete))
       /\ hw' = [r.hw EXCEPT !.scint = @ \ IF "REI" \in isr THEN {"ERR", "RFTHI", "REI", "BAD"}
                                            ELSE {"ERR", "RFTHI"}]

\* Bytes of buf that sci_atom_write_fifo takes; none without a card.
Fill(buf, n) == SubSeq(buf, 1, IF hw.present THEN IF Len(buf) < n THEN Len(buf) ELSE n ELSE 0)

\* The same in state TX: refill when the FIFO is under half; at the last byte
\* or an error wake the writer and start to receive.
TxInterrupt ==
    LET isr == hw.scint
        refill == "TFHI" \in isr /\ Len(hw.tx) < SciHalf
        some == IF refill THEN Fill(cb.buf, SciHalf) ELSE <<>>
        err == IF "ERR" \in isr THEN "HW" ELSE cb.error
        h1 == [hw EXCEPT !.tx = @ \o some, !.scint = @ \ {"TFHI", "ERR"},
                         !.scinten = IF refill /\ Len(cb.buf) <= SciHalf THEN @ \ {"TFHI"} ELSE @]
        c1 == [cb EXCEPT !.error = err, !.buf = SubSeq(@, Len(some) + 1, Len(@))]
    IN IF err # "OK" \/ "LTXI" \in isr
       THEN /\ cb' = RxStartCb([c1 EXCEPT !.waiting = FALSE])
            /\ hw' = RxStartHw(h1)
            /\ WakeIf(cb.waiting)
       ELSE cb' = c1 /\ hw' = h1 /\ UNCHANGED sciCall

\* The same when a card came or went, whatever else is pending.
CardInterrupt ==
    /\ cb' = [cb EXCEPT !.waiting = FALSE, !.rx_complete = @ \/ cb.waiting,
                        !.atr_ready = FALSE, !.state = "DEAC"]
    /\ hw' = [hw EXCEPT !.scint = {}]
    /\ WakeIf(cb.waiting)

sci_osd_irq_handler ==
    /\ hw.scint \cap hw.scinten # {}
    /\ \/ "CDI" \in hw.scint /\ CardInterrupt
       \/ "CDI" \notin hw.scint /\ cb.state = "RX" /\ RxInterrupt
       \/ "CDI" \notin hw.scint /\ cb.state = "TX" /\ TxInterrupt
    /\ UNCHANGED sciEnv

-----------------------------------------------------------------------------
\* sci_inf_write: the bytes are copied to write_buf before sci_osd_write
\* refuses them, over what a synchronous writer before has left unsent there.
sci_inf_write(n) ==
    /\ sciCall.pc = "idle"
    /\ IF sci_osi_is_card_activated /\ cb.atr_ready /\ cb.state # "TX"
       THEN sciCall' = [sciCall EXCEPT !.pc = "wstart", !.n = n] /\ UNCHANGED cb
       ELSE /\ cb' = IF cb.state = "TX" /\ cb.sync
                     THEN [cb EXCEPT !.buf = [i \in DOMAIN cb.buf |-> Foreign]] ELSE cb
            /\ UNCHANGED sciCall
    /\ UNCHANGED <<sciEnv, hw>>

\* sci_osi_tx_start.
sci_osi_tx_start ==
    /\ sciCall.pc = "wstart"
    /\ cb' = [cb EXCEPT !.state = "TX", !.error = "OK", !.buf = <<>>, !.taken = 0]
    /\ hw' = [hw EXCEPT !.mode = "tx", !.tx = <<>>, !.rx = <<>>, !.rxSent = 0, !.rxEnded = TRUE,
                        !.scinten = {"CDI"}, !.scint = @ \cap {"CDI"},
                        !.sctxlen = sciCall.n]
    /\ SciGoto("wfill")
    /\ UNCHANGED sciEnv

Message(n) == [i \in 1 .. n |-> i]

\* Up to 32 bytes go to the FIFO, then the transmit interrupts are enabled.
WriteFifo ==
    /\ sciCall.pc = "wfill"
    /\ hw' = [hw EXCEPT !.tx = @ \o Fill(Message(sciCall.n), SciFifo), !.scinten = TxMask]
    /\ SciGoto("wblock")
    /\ UNCHANGED <<sciEnv, cb>>

\* The critical section: the rest is left to the handler; a synchronous
\* writer sleeps while the state is TX.
SciWriteBlock ==
    LET n == sciCall.n
        c1 == IF n > SciFifo THEN [cb EXCEPT !.buf = SubSeq(Message(n), SciFifo + 1, n)] ELSE cb
    IN /\ sciCall.pc = "wblock"
       /\ hw' = IF n > SciFifo THEN [hw EXCEPT !.scinten = @ \cup {"TFHI"}] ELSE hw
       /\ IF cb.sync /\ cb.state = "TX"
          THEN /\ cb' = [c1 EXCEPT !.waiting = TRUE]
               /\ sciCall' = [sciCall EXCEPT !.pc = "wsleep", !.woken = FALSE]
          ELSE SciGoto("idle") /\ cb' = c1
       /\ UNCHANGED sciEnv

-----------------------------------------------------------------------------
\* sci_osd_read: the checks, the flags and the receive threshold.
sci_osd_read(n) ==
    /\ sciCall.pc = "idle"
    /\ sci_osi_is_card_activated
    /\ cb' = [cb EXCEPT !.any = cb.rwAny]
    /\ hw' = [hw EXCEPT !.half = IF cb.sync THEN n >= SciHalf ELSE @]
    /\ sciCall' = [sciCall EXCEPT !.pc = IF cb.sync THEN "rdecide" ELSE "rcopy", !.n = n]
    /\ UNCHANGED sciEnv

\* Whether to block, outside any critical section.
ReadDecide ==
    LET more == ~cb.rx_complete /\ Len(cb.buf) < sciCall.n
        block == \/ cb.state = "TX"
                 \/ cb.state # "TX" /\ cb.any /\ cb.buf = <<>>
                 \/ cb.state # "TX" /\ ~cb.any /\ more
    IN /\ sciCall.pc = "rdecide"
       /\ cb' = IF cb.state # "TX" /\ ~cb.any /\ more
                THEN [cb EXCEPT !.bytes_expected = sciCall.n] ELSE cb
       /\ SciGoto(IF block THEN "rblock" ELSE "rcopy")
       /\ UNCHANGED <<sciEnv, hw>>

\* Sleep, unless the reception has ended or the card has gone.
SciReadBlock ==
    /\ sciCall.pc = "rblock"
    /\ IF ~cb.rx_complete /\ sci_osi_is_card_activated
       THEN /\ cb' = [cb EXCEPT !.waiting = TRUE]
            /\ sciCall' = [sciCall EXCEPT !.pc = "rsleep", !.woken = FALSE]
       ELSE SciGoto("rcopy") /\ UNCHANGED cb
    /\ UNCHANGED <<sciEnv, hw>>

\* As ReadCopy, but p_read stays.
ReadCopy_again ==
    LET n == IF Len(cb.buf) > sciCall.n THEN sciCall.n ELSE Len(cb.buf)
    IN /\ sciCall.pc = "rcopy"
       /\ cb' = [cb EXCEPT !.error = "OK", !.taken = IF cb.state = "RX" THEN @ + n ELSE @]
       /\ SciGoto("idle")
       /\ UNCHANGED <<sciEnv, hw>>

\* What is there, up to what was asked for, and the error, which is reset.
ReadCopy ==
    LET n == IF Len(cb.buf) > sciCall.n THEN sciCall.n ELSE Len(cb.buf)
    IN /\ sciCall.pc = "rcopy"
       /\ cb' = [cb EXCEPT !.buf = SubSeq(@, n + 1, Len(@)), !.error = "OK",
                           !.taken = IF cb.state = "RX" THEN @ + n ELSE @]
       /\ SciGoto("idle")
       /\ UNCHANGED <<sciEnv, hw>>

\* The sleep of a writer or reader ends; err is what its result makes of error.
SciWakeUp(err) ==
    \/ /\ sciCall.pc = "wsleep"
       /\ cb' = [cb EXCEPT !.error = "OK"]
       /\ sciCall' = [sciCall EXCEPT !.pc = "idle", !.woken = FALSE, !.n = 0]
    \/ /\ sciCall.pc = "rsleep"
       /\ cb' = [cb EXCEPT !.error = IF err = "" THEN @ ELSE err]
       /\ sciCall' = [sciCall EXCEPT !.pc = "rcopy", !.woken = FALSE]

SciResume == sciCall.woken /\ SciWakeUp("") /\ UNCHANGED <<sciEnv, hw>>
SciSignal == "signal" \in sciEnv /\ ~sciCall.woken /\ SciWakeUp("") /\ UNCHANGED <<sciEnv, hw>>

-----------------------------------------------------------------------------
\* sci_osi_set_para: each parameter is taken or refused for itself (and only
\* the last result is returned).
AcceptT(old, p) == IF p.T \in {0, 1} THEN p.T ELSE old.T

\* Times between their limits; WWT and BWT stand for all of them.
AcceptTime(old, new) == IF new \in 1 .. SciMaxWait THEN new ELSE old

\* SCI_CLOCK_STOP_DISABLED and _LOW are taken, SCI_CLOCK_STOP_HIGH is not.
AcceptClk(old, p) == IF p.clk_p \in {0, 1} THEN p.clk_p ELSE old.clk_p

sci_osi_set_para(old, p) ==
    [T |-> AcceptT(old, p), WWT |-> AcceptTime(old.WWT, p.WWT),
     BWT |-> AcceptTime(old.BWT, p.BWT), clk_p |-> AcceptClk(old, p)]

\* The registers: only a parameter that changes is written, and WWT and BWT
\* share the one of the waiting time.
sci_atom_set_para(h, old, p) ==
    LET new == sci_osi_set_para(old, p)
    IN [h EXCEPT !.half = IF new.T # old.T THEN p.T = 1 ELSE @,
                 !.scbwt = IF p.T = 0 /\ new.WWT # old.WWT THEN p.WWT
                           ELSE IF p.T = 1 /\ new.BWT # old.BWT THEN p.BWT ELSE @]

sci_osi_set_parameters(p) ==
    /\ sciCall.pc = "idle" /\ "para" \in sciEnv
    /\ sci_osi_is_card_activated
    /\ cb' = [cb EXCEPT !.para = sci_osi_set_para(@, p)]
    /\ hw' = sci_atom_set_para(hw, cb.para, p)
    /\ UNCHANGED <<sciEnv, sciCall>>

\* sci_osd_reset: the critical section ...
sci_osd_reset ==
    LET c1 == [cb EXCEPT !.error = "OK", !.waiting = @ /\ cb.state = "DEAC"]
    IN /\ sciCall.pc = "idle"
       /\ hw.present
       /\ cb' = RxStartCb([c1 EXCEPT !.para = sci_osi_set_para(@, AtrParams)])
       /\ hw' = RxStartHw(sci_atom_set_para(hw, cb.para, AtrParams))
       /\ SciGoto(IF cb.state = "DEAC" THEN "COLD" ELSE "WARM")
       /\ UNCHANGED sciEnv

\* ... and sci_atom_HW_reset; only a cold reset switches the power on.
sci_atom_HW_reset ==
    /\ sciCall.pc \in {"COLD", "WARM"}
    /\ hw' = IF sciCall.pc = "COLD" THEN [hw EXCEPT !.powered = hw.present, !.clocked = hw.present]
             ELSE hw
    /\ SciGoto("idle")
    /\ UNCHANGED <<sciEnv, cb>>

\* sci_osd_deactivate: the power goes off only after an answer to reset.
DeactivateCb == IF cb.state = "DEAC" THEN cb
                ELSE [cb EXCEPT !.state = "DEAC", !.waiting = FALSE,
                                !.rx_complete = @ \/ cb.waiting,
                                !.error = IF cb.waiting THEN "ABORTED" ELSE @]
DeactivateHw == IF cb.state = "DEAC" THEN hw
                ELSE [hw EXCEPT !.scinten = {"CDI"}, !.scint = @ \cap {"CDI"},
                                !.powered = @ /\ ~cb.atr_ready,
                                !.clocked = @ /\ ~cb.atr_ready]

sci_osd_deactivate ==
    /\ sciCall.pc = "idle"
    /\ cb' = DeactivateCb /\ hw' = DeactivateHw
    /\ UNCHANGED <<sciEnv, sciCall>>

sci_osi_clock_stop ==
    /\ sciCall.pc = "idle"
    /\ sci_osi_is_card_activated /\ cb.para.clk_p # 0
    /\ hw' = [hw EXCEPT !.clocked = FALSE]
    /\ UNCHANGED <<sciEnv, cb, sciCall>>

sci_osi_clock_start ==
    /\ sciCall.pc = "idle"
    /\ sci_osi_is_card_activated
    /\ hw' = [hw EXCEPT !.clocked = TRUE]
    /\ UNCHANGED <<sciEnv, cb, sciCall>>

\* rw_mode, of sci_osi_set_modes; set here while the card is inactive.
sci_osi_set_modes ==
    /\ sciCall.pc = "idle" /\ cb.state = "DEAC"
    /\ \E sync, any \in BOOLEAN :
          /\ sync \/ "async" \in sciEnv
          /\ any => "any" \in sciEnv
          /\ cb' = [cb EXCEPT !.sync = sync, !.rwAny = any]
    /\ UNCHANGED <<sciEnv, hw, sciCall>>

\* IOCTL_SET_ATR_READY.
SetAtrReady ==
    /\ sciCall.pc = "idle"
    /\ cb' = [cb EXCEPT !.atr_ready = TRUE]
    /\ UNCHANGED <<sciEnv, hw, sciCall>>

\* sci_inf_open and sci_inf_release: one opener, while a card is present.
sci_inf_open ==
    /\ sciCall.pc = "closed" /\ hw.present
    /\ SciGoto("idle")
    /\ UNCHANGED <<sciEnv, hw, cb>>

sci_inf_release ==
    /\ sciCall.pc = "idle"
    /\ SciGoto("closed")
    /\ cb' = DeactivateCb /\ hw' = DeactivateHw
    /\ UNCHANGED sciEnv

-----------------------------------------------------------------------------
\* The hardware and the card.  Interrupt bits are latched, masked or not.
HwLatch(bits) == [hw EXCEPT !.scint = @ \cup bits]
Running == hw.present /\ hw.powered /\ hw.clocked
Receiving == Running /\ hw.mode = "rx" /\ ~hw.rxEnded

\* A card is pulled (which switches the power off) or put in.
CardMoves ==
    /\ hw' = [HwLatch({"CDI"}) EXCEPT !.present = ~@, !.powered = FALSE, !.clocked = FALSE]
    /\ UNCHANGED <<sciEnv, cb, sciCall>>

\* A byte of the card arrives; without room for it an overrun is flagged.
CardByte ==
    /\ Receiving /\ hw.rxSent < AnswerMax
    /\ \/ /\ Len(hw.rx) < SciFifo
          /\ hw' = [hw EXCEPT !.rx = Append(@, -(hw.rxSent + 1)), !.rxSent = @ + 1]
       \/ /\ Len(hw.rx) = SciFifo /\ "fault" \in sciEnv
          /\ hw' = [HwLatch({"ERR"}) EXCEPT !.rxSent = @ + 1]
    /\ UNCHANGED <<sciEnv, cb, sciCall>>

\* The receive FIFO is at its threshold.
HwRxThreshold ==
    /\ Len(hw.rx) >= IF hw.half THEN SciHalf ELSE 1
    /\ hw' = HwLatch({"RFTHI"}) /\ hw' # hw
    /\ UNCHANGED <<sciEnv, cb, sciCall>>

\* The last byte (T = 1), a waiting time that has passed, a bad checksum.
HwRxEnd ==
    /\ Receiving
    /\ \E bad \in {{}, {"BAD"}} :
          /\ bad # {} => "fault" \in sciEnv
          /\ hw' = [HwLatch({"REI"} \cup bad) EXCEPT !.rxEnded = TRUE]
    /\ UNCHANGED <<sciEnv, cb, sciCall>>

HwFault ==
    /\ "fault" \in sciEnv /\ Running
    /\ hw' = HwLatch({"ERR"}) /\ hw' # hw
    /\ UNCHANGED <<sciEnv, cb, sciCall>>

\* A byte leaves the transmitter; LTXI after sctxlen of them.
HwTx ==
    /\ Running /\ hw.mode = "tx" /\ hw.tx # <<>> /\ Len(hw.wire) < hw.sctxlen
    /\ hw' = [hw EXCEPT !.wire = Append(@, Head(hw.tx)), !.tx = Tail(@),
                        !.scint = @ \cup IF Len(hw.wire) + 1 = hw.sctxlen THEN {"LTXI"} ELSE {}]
    /\ UNCHANGED <<sciEnv, cb, sciCall>>

HwTxThreshold ==
    /\ Running /\ hw.mode = "tx" /\ Len(hw.tx) < SciHalf
    /\ hw' = HwLatch({"TFHI"}) /\ hw' # hw
    /\ UNCHANGED <<sciEnv, cb, sciCall>>

\* The timeout of a sleep is longer than whatever the hardware waits for; in
\* a "late" environment it may come at any time, after the wake-up too.
SciQuiet ==
    /\ hw.scint \cap hw.scinten = {}
    /\ ~Receiving
    /\ ~(Running /\ hw.mode = "tx" /\ hw.tx # <<>> /\ Len(hw.wire) < hw.sctxlen)
    /\ ~(Running /\ hw.mode = "tx" /\ Len(hw.tx) < SciHalf /\ "TFHI" \notin hw.scint)
    /\ Len(hw.rx) < IF hw.half THEN SciHalf ELSE 1
\* A sleep without a timeout.
SciTimeout_never == FALSE

SciTimeout ==
    /\ "late" \in sciEnv \/ SciQuiet
    /\ sciCall.woken => "late" \in sciEnv
    /\ SciWakeUp(IF cb.waiting THEN "ABORTED" ELSE "KERNEL")
    /\ UNCHANGED <<sciEnv, hw>>

-----------------------------------------------------------------------------
SciThread ==
    \/ sci_osi_tx_start \/ WriteFifo \/ SciWriteBlock
    \/ ReadDecide \/ SciReadBlock \/ ReadCopy \/ SciResume \/ sci_atom_HW_reset

SciHardware == HwTx \/ HwRxEnd \/ HwRxThreshold \/ HwTxThreshold

SciNext ==
    \/ SciThread
    \/ SciHardware
    \/ sci_osd_irq_handler
    \/ SciTimeout
    \/ SciSignal
    \/ \E n \in SciWrites : sci_inf_write(n)
    \/ \E n \in SciReads : sci_osd_read(n)
    \/ \E p \in SciParams : sci_osi_set_parameters(p)
    \/ sci_osd_reset \/ sci_osd_deactivate
    \/ sci_osi_clock_stop \/ sci_osi_clock_start
    \/ sci_osi_set_modes \/ SetAtrReady
    \/ sci_inf_open \/ sci_inf_release
    \/ CardMoves \/ CardByte \/ HwFault

\* Interrupts are taken, the thread runs, the transmitter and the waiting
\* times of the receiver run, and a sleep has a timeout.
SciFairness ==
    /\ WF_sciVars(SciThread) /\ WF_sciVars(sci_osd_irq_handler)
    /\ WF_sciVars(HwTx) /\ WF_sciVars(HwRxEnd)
    /\ WF_sciVars(HwRxThreshold) /\ WF_sciVars(HwTxThreshold)
    /\ WF_sciVars(SciTimeout)

SciSpec == SciInit /\ [][SciNext]_sciVars /\ SciFairness

-----------------------------------------------------------------------------
\* A thread that sleeps and has not been woken is marked as waiting, and what
\* it waits for can still come: its message is being sent, or its reception
\* neither has ended nor lost its card (the checks of sci_osd_write and
\* sci_osd_read inside their critical sections).
NoSleeperForgotten ==
    ~sciCall.woken =>
    /\ sciCall.pc = "wsleep" => cb.waiting /\ cb.state = "TX"
    /\ sciCall.pc = "rsleep" => cb.waiting /\ cb.state # "DEAC" /\ ~cb.rx_complete

\* Without faults, signals and early timeouts, while a card stays: a message
\* goes out once and whole, through FIFO, buffer and handler; what the card
\* sends is handed out once and in order.
Calm == sciEnv \cap {"signal", "fault", "late", "async"} = {}
BytesInOrder ==
    Calm /\ Running /\ "CDI" \notin hw.scint =>
    /\ cb.state = "TX" /\ sciCall.pc = "wsleep" =>
          hw.wire \o hw.tx \o cb.buf = Message(sciCall.n)
    /\ cb.state = "RX" /\ sciCall.pc # "wstart" =>
          cb.buf \o hw.rx = [i \in 1 .. (hw.rxSent - cb.taken) |-> -(cb.taken + i)]

\* Every call returns: a write ends with its last byte, a read with data, the
\* end of the reception, the removal of the card or the timeout.
CallReturns == sciCall.pc \notin {"closed", "idle"} ~> sciCall.pc \in {"closed", "idle"}

\* A reader of "any" data sleeps only when none has been received
\* (sci_osd_read, "but no data has been received, so block").
BlocksOnlyWithoutData ==
    sciCall.pc = "rsleep" /\ ~sciCall.woken /\ cb.any /\ cb.state = "RX" => cb.buf = <<>>

\* The two sides of a card call: its bytes, and the caller's sleep.
BytesAndSleepers ==
    SciTypeOK /\ BytesInOrder /\ NoSleeperForgotten
=============================================================================
