------------------------------- MODULE Teletext -------------------------------
(***************************************************************************)
(* The teletext driver (ttx/): transport packets written to the device are *)
(* gathered into PES packets, a PES packet waits in pes_queue for its time *)
(* stamp, the vertical blanking interrupt writes it to the VBI buffer of   *)
(* the field its lines belong to, and the next write frees it.             *)
(*                                                                         *)
(* A buffer (mbuf) is named by the packet it holds, <<PES packet, place>>, *)
(* and a chain is the sequence its m_pnext links form, so that an empty    *)
(* sequence is the null pointer.  The buffers no pointer of the driver     *)
(* leads to are the members of held outside Reachable.  Clock values are   *)
(* in units of 450 ticks (10 ms), the greatest common divisor of the       *)
(* windows the code compares with; a field lasts two.                      *)
(*                                                                         *)
(* ttx_write uses tables that the first close of the device frees, without *)
(* looking at ioenabled: the writer here writes only while it is open.     *)
(***************************************************************************)
EXTENDS Integers, Sequences, FiniteSets, SequencesExt

CONSTANTS TtxPes,      \* PES packets broadcast
          TtxPackets,  \* transport packets of each
          TtxGaps,     \* distances between their time stamps
          TtxStart,    \* the clock at the start
          TtxBase,     \* what the time stamps count from
          TtxWord,     \* clock values before the clock wraps round
          TtxFields,   \* bound: fields scanned
          TtxCalls,    \* bound: opens, closes, starts and stops
          TtxEnvs      \* what a behaviour may contain, out of TtxEvents

TtxEvents == {"corrupt", "badstart", "nomem", "stop", "restart", "join", "close", "novbi"}

ASSUME TtxAssumption ==
  /\ TtxPes \in Nat \ {0} /\ TtxPackets \in Nat \ {0} /\ TtxWord \in Nat \ {0}
  /\ TtxGaps \subseteq Nat /\ TtxStart \in Nat /\ TtxBase \in Nat /\ TtxFields \in Nat /\ TtxCalls \in Nat
  /\ TtxEnvs \subseteq SUBSET TtxEvents

VARIABLES
  ttxEnv,   \* what this behaviour may contain
  ttxCast,  \* the broadcast: time stamp and field of each PES packet, the packet that comes next
  ttxCalls, \* calls made on the device
  ttx,      \* ttx_stat with the entry of ttx_ctrl the driver uses; vsync: the interrupt handler is
            \* installed; denc: the encoder inserts teletext
  ttxHeld,     \* buffers allocated and not freed
  vclock,   \* the system time clock, without wrapping round
  vfield,   \* the field being scanned: 1 even, 0 odd
  vbi,      \* the VBI buffer of each field: the chain written to it
  queued,   \* history: <<PES packet, clock>> of the chains entered in pes_queue
  passed,   \* history: packets that were refused or had no buffer
  ttxShown     \* history: chains written to a VBI buffer, with the clock and the field

ttxVars == <<ttxEnv, ttxCast, ttxCalls, ttx, ttxHeld, vclock, vfield, vbi, queued, passed, ttxShown>>

NullPid == 0
TtxPid == 1

-----------------------------------------------------------------------------
\* Constants of the code, in units of the clock.
TTX_PTS_RECEIVE_DELAY == 4
TTX_PTS_MATCH_MIN == -3
TTX_PTS_MATCH_MAX == 3
TTX_PTS_OUTBOUND_LOW == -1
TTX_PTS_OUTBOUND_HIGH == 20

Places == 0 .. TtxPackets - 1
PesOf(mb) == mb[1]
IsPesStart(mb) == mb[2] = 0

\* extract_pts and the delay added to it: what comes out zero counts as no time stamp.
PtsOf(mb) ==
  IF IsPesStart(mb) THEN (ttxCast.pts[PesOf(mb)] + TTX_PTS_RECEIVE_DELAY) % TtxWord ELSE 0

\* The difference of two clock values as a signed number.
Signed(n) == LET d == n % TtxWord IN IF 2 * d >= TtxWord THEN d - TtxWord ELSE d

TtxInit ==
  /\ ttxEnv \in TtxEnvs /\ ttxCalls = 0
  /\ \E gap \in TtxGaps, f \in {0, 1} :
       ttxCast = [pts |-> <<TtxBase + gap>>, field |-> <<f>>, next |-> <<1, 0>>]
  /\ ttx = [ioenabled |-> FALSE, pid |-> NullPid, num |-> 0, last_chain |-> <<>>, last_mb |-> <<>>,
            pes_queue |-> <<>>, done_queue |-> <<>>, vsync |-> FALSE, denc |-> FALSE]
  /\ ttxHeld = {} /\ vclock = TtxStart /\ vfield \in {0, 1} /\ vbi = [f \in {0, 1} |-> <<>>]
  /\ queued = {} /\ passed = {} /\ ttxShown = <<>>

-----------------------------------------------------------------------------
\* Buffers.
BuffersOf(chains) == UNION {ToSet(chains[n]) : n \in DOMAIN chains}
Reachable(t) == ToSet(t.last_chain) \cup BuffersOf(t.pes_queue) \cup BuffersOf(t.done_queue)

\* ttx_m_cat goes to the end of the chain last_mb ends.  With no last_mb it returns the buffer,
\* which the caller does not keep.
ttx_m_cat(t, mb) ==
  IF t.last_chain # <<>> /\ Last(t.last_chain) = t.last_mb
  THEN [t EXCEPT !.last_chain = Append(@, mb)] ELSE t

ttx_m_free_p(chain) == ttxHeld' = ttxHeld \ ToSet(chain)

-----------------------------------------------------------------------------
\* A transport packet: its header, its PES header and its data identifier are in order, or it is
\* thrown away.  Damage of any of them has the same effect.
Damaged(mb) ==
  \/ "corrupt" \in ttxEnv /\ ~ IsPesStart(mb)
  \/ "badstart" \in ttxEnv /\ IsPesStart(mb)

Trash(mb) == passed' = passed \cup {mb} /\ UNCHANGED <<ttx, ttxHeld, queued>>

\* A valid packet: continues the chain or starts one, which completes the one before it.
Chained(mb) ==
  LET t == IF PtsOf(mb) = 0 THEN ttx_m_cat(ttx, mb)
           ELSE [ttx EXCEPT !.pes_queue = IF ttx.last_chain = <<>> THEN @ ELSE Append(@, ttx.last_chain),
                            !.last_chain = <<mb>>]
  IN [t EXCEPT !.last_mb = mb]

process_ttx_pes(mb) ==
  /\ ttx' = [Chained(mb) EXCEPT !.done_queue = <<>>]
  /\ ttxHeld' = (ttxHeld \cup {mb}) \ BuffersOf(ttx.done_queue)
  /\ queued' = queued \cup
       (IF PtsOf(mb) # 0 /\ ttx.last_chain # <<>> THEN {<<PesOf(Head(ttx.last_chain)), vclock>>} ELSE {})
  /\ UNCHANGED passed

\* The broadcaster settles the time stamp and the field of a PES packet when it comes to it.
NextPacket ==
  LET mb == ttxCast.next
  IN \/ /\ mb[2] < TtxPackets - 1
        /\ ttxCast' = [ttxCast EXCEPT !.next = <<mb[1], mb[2] + 1>>]
     \/ /\ mb[2] = TtxPackets - 1 /\ mb[1] < TtxPes
        /\ \E gap \in TtxGaps, f \in {0, 1} :
             ttxCast' = [pts |-> Append(ttxCast.pts, Last(ttxCast.pts) + gap), field |-> Append(ttxCast.field, f),
                         next |-> <<mb[1] + 1, 0>>]

\* No buffer can be had for a packet, it is thrown away, or it is taken.  The last of the broadcast
\* stays unsent, as it would change nothing.
ttx_write ==
  LET mb == ttxCast.next
  IN /\ ttx.ioenabled
     /\ NextPacket
     /\ \/ "nomem" \in ttxEnv /\ Trash(mb)
        \/ (ttx.pid # TtxPid \/ Damaged(mb)) /\ Trash(mb)
        \/ ttx.pid = TtxPid /\ process_ttx_pes(mb)
     /\ UNCHANGED <<ttxEnv, ttxCalls, vclock, vfield, vbi, ttxShown>>

-----------------------------------------------------------------------------
\* The parity of the first line of a chain stands for all its lines.
get_field(mb) == ttxCast.field[PesOf(mb)]

write_vbi(update, chain) == vbi' = [vbi EXCEPT ![update] = chain]

\* The vertical blanking interrupt of a field prepares the buffer of the other one.
Waits(mb, stc) ==
  LET delta == Signed(PtsOf(mb) - stc)
  IN TTX_PTS_OUTBOUND_LOW < delta /\ delta < TTX_PTS_OUTBOUND_HIGH

\* Mutant: what may still wait is left to wait, though it matches.
MatchesLate(mb, stc, update) ==
  ~ Waits(mb, stc) /\ Signed(PtsOf(mb) - stc) > TTX_PTS_MATCH_MIN /\ get_field(mb) = update

Matches(mb, stc, update) ==
  LET delta == Signed(PtsOf(mb) - stc)
  IN /\ TTX_PTS_MATCH_MIN < delta /\ delta < TTX_PTS_MATCH_MAX
     /\ get_field(mb) = update

\* The loop discards what is out of range and stops at what matches or waits.
Kept(stc, update) ==
  LET Stops(n) == Matches(Head(ttx.pes_queue[n]), stc, update) \/ Waits(Head(ttx.pes_queue[n]), stc)
      stops == {n \in DOMAIN ttx.pes_queue : Stops(n)}
  IN IF stops = {} THEN Len(ttx.pes_queue) + 1 ELSE CHOOSE n \in stops : \A m \in stops : n <= m

ttx_vbi_send(stc, update) ==
  LET n == Kept(stc, update)
      hit == n <= Len(ttx.pes_queue) /\ Matches(Head(ttx.pes_queue[n]), stc, update)
      done == IF hit THEN n ELSE n - 1
  IN /\ ttx' = [ttx EXCEPT !.pes_queue = SubSeq(@, done + 1, Len(@)),
                           !.done_queue = @ \o SubSeq(ttx.pes_queue, 1, done)]
     /\ write_vbi(update, IF hit THEN ttx.pes_queue[n] ELSE <<>>)
     /\ ttxShown' = IF hit THEN Append(ttxShown, [chain |-> ttx.pes_queue[n], at |-> vclock, field |-> update])
                 ELSE ttxShown

ttx_vsync_handler ==
  /\ vclock < TtxStart + 2 * TtxFields
  /\ vclock' = vclock + 2 /\ vfield' = 1 - vfield
  /\ IF ttx.vsync THEN ttx_vbi_send(vclock % TtxWord, vfield) ELSE UNCHANGED <<ttx, vbi, ttxShown>>
  /\ UNCHANGED <<ttxEnv, ttxCast, ttxCalls, ttxHeld, queued, passed>>

-----------------------------------------------------------------------------
\* Calls on the device.
TtxCall == ttxCalls < TtxCalls /\ ttxCalls' = ttxCalls + 1
           /\ UNCHANGED <<ttxEnv, ttxCast, vclock, vfield, vbi, passed, ttxShown>>

Inserted(t, pid) == [t EXCEPT !.last_chain = <<>>, !.last_mb = <<>>, !.pid = pid, !.num = 1]

ttx_on(t) == [t EXCEPT !.denc = t.ioenabled]
ttx_off(t) == [t EXCEPT !.denc = @ /\ ~ t.ioenabled]

\* ttx_vbi_init fails in a mode other than PAL, or when the VBI memory or the interrupt is not to be had.
ttx_vbi_init(t) == [t EXCEPT !.vsync = TRUE]
ttx_vbi_term(t) == [t EXCEPT !.vsync = FALSE]

\* A second open finds the device enabled.
ttx_initialize ==
  /\ TtxCall
  /\ \/ ttx.ioenabled /\ UNCHANGED ttx
     \/ ~ ttx.ioenabled /\ "novbi" \in ttxEnv /\ ttx' = [ttx EXCEPT !.num = 0]
     \/ ~ ttx.ioenabled /\ ttx' = ttx_on(Inserted([ttx_vbi_init(ttx) EXCEPT !.ioenabled = TRUE], NullPid))
  /\ UNCHANGED <<ttxHeld, queued>>

\* TTX_START.  A start over a running subscription forgets the chain begun.
ttx_insert_pid ==
  /\ TtxCall
  /\ "restart" \in ttxEnv \/ ttx.last_chain = <<>>
  /\ "join" \in ttxEnv \/ IsPesStart(ttxCast.next)
  /\ ttx' = IF ttx.ioenabled THEN Inserted(ttx, TtxPid) ELSE ttx
  /\ UNCHANGED <<ttxHeld, queued>>

\* TTX_STOP.
ttx_delete_pid ==
  /\ "stop" \in ttxEnv \/ "close" \in ttxEnv
  /\ TtxCall
  /\ IF ~ ttx.ioenabled THEN UNCHANGED <<ttx, ttxHeld, queued>>
     ELSE /\ ttx' = [ttx EXCEPT !.num = 0, !.pes_queue = <<>>, !.done_queue = <<>>,
                                !.pid = IF ttx.num = 0 THEN @ ELSE NullPid,
                                !.last_mb = IF ttx.num = 0 THEN @ ELSE <<>>,
                                !.last_chain = IF ttx.num = 0 THEN @ ELSE <<>>]
          /\ ttx_m_free_p((IF ttx.num = 0 THEN <<>> ELSE ttx.last_chain)
                            \o FlattenSeq(ttx.done_queue) \o FlattenSeq(ttx.pes_queue))
          /\ queued' = {q \in queued : \E n \in DOMAIN ttxShown : PesOf(Head(ttxShown[n].chain)) = q[1]}

\* The close of the device, by whichever descriptor: what waits in the queues stays there.
ttx_terminate ==
  /\ "close" \in ttxEnv
  /\ TtxCall
  /\ "restart" \in ttxEnv \/ ttx.last_chain = <<>>
  /\ ttx' = [ttx_vbi_term(ttx_off(ttx)) EXCEPT !.ioenabled = FALSE]
  /\ queued' = {q \in queued : \E n \in DOMAIN ttxShown : PesOf(Head(ttxShown[n].chain)) = q[1]}
  /\ UNCHANGED ttxHeld

TtxNext == ttx_write \/ ttx_vsync_handler \/ ttx_initialize \/ ttx_insert_pid \/ ttx_delete_pid \/ ttx_terminate

TtxSpec == TtxInit /\ [][TtxNext]_ttxVars

-----------------------------------------------------------------------------
\* Once in a revolution of the clock a time stamp comes out as zero, which the code takes for none.
NoZeroStamp == \A k \in DOMAIN ttxCast.pts : PtsOf(<<k, 0>>) # 0

\* A PES packet complete three clock units before its delayed time stamp, and less than the waiting
\* window ahead of it, is on the screen once and no more: whole, within the matching window
\* and in the field its lines are for (ttx_vbi_send against process_ttx_pes).  Time stamps lie at
\* least two fields apart and none is zero.
ShownOnTime ==
  NoZeroStamp =>
  \A q \in queued :
    LET k == q[1]
        due == ttxCast.pts[k] + TTX_PTS_RECEIVE_DELAY
        mine == {n \in DOMAIN ttxShown : Head(ttxShown[n].chain) = <<k, 0>>}
    IN /\ q[2] <= due - TTX_PTS_MATCH_MAX /\ due < q[2] + TTX_PTS_OUTBOUND_HIGH /\ vclock > due - TTX_PTS_MATCH_MIN
            => mine # {}
       /\ Cardinality(mine) <= 1
       /\ \A n \in mine :
            /\ ttxShown[n].field = ttxCast.field[k]
            /\ ttxShown[n].at - due \in (1 - TTX_PTS_MATCH_MAX) .. TTX_PTS_MATCH_MAX - 1
            /\ {mb \in ToSet(ttxShown[n].chain) : PesOf(mb) = k} = ({k} \X Places) \ passed

\* Buffers are neither lost nor freed while the interrupt may still read them, whatever writes,
\* interrupts, TTX_STOP and a full memory come between (ttx_m_getn against ttx_m_free*), provided
\* the stream is joined at a PES packet with a good start and TTX_STOP ends what TTX_START began.
MbufsConserved ==
  NoZeroStamp /\ ttxEnv \cap {"badstart", "nomem", "join", "restart"} = {} => ttxHeld = Reachable(ttx)

\* The screen and the memory a broadcast leaves behind.
TeletextAsSent == ShownOnTime /\ MbufsConserved
===============================================================================
