------------------------------ MODULE XpQueue ------------------------------
(***************************************************************************)
(* One demux channel's memory queue (demux/xp_osi_queue.c): the ring the   *)
(* transport hardware fills, the table of regions the driver has handed to *)
(* its client and locked, and the read pointer that keeps the hardware out *)
(* of them.  The bottom half, the client, the process context and the      *)
(* hardware interleave.                                                    *)
(*                                                                         *)
(* Addresses are words counted from the start of the queue: the hardware   *)
(* starts every unit on a word, so the code's alignment of a free block to *)
(* a word is the identity here.  The write pointers wrap to 0 at the top;  *)
(* the read pointer register names the start of the queue by its top.      *)
(***************************************************************************)
EXTENDS Integers, Sequences, SequencesExt, FiniteSets

CONSTANTS
    QueueSize,      \* ulQueueSize, in words
    Gran,           \* granularity of the read pointer register (256 bytes)
    MaxUnit,        \* longest packet or section the hardware delivers
    Setups,         \* the queues a behaviour may be about
    NULL

ASSUME QueueAssumption ==
    /\ Gran \in Nat \ {0}
    /\ QueueSize \in Nat \ {0} /\ QueueSize % Gran = 0
    /\ MaxUnit \in 1 .. QueueSize - 1
    /\ Setups \subseteq [type : {"PSI", "PES"}, locks : Nat \ {0},
                          env : SUBSET {"UnitEndsAtReadPtr", "Hold", "Release",
                                        "UnlockFront", "UnlockTail"}]
    /\ NULL \notin Int

VARIABLES
    setup,      \* the queue's type, the entries of its lock table, its environment
    ch,         \* the driver's queue structure and the channel's registers
    posted,     \* interrupt bits handed to the bottom half, not yet handled
    bh,         \* the bottom half's progress through channel_data_notify
    held,       \* regions the client was notified of and has not unlocked
    fresh       \* words of complete units not yet handed over (history)

vars == <<setup, ch, posted, bh, held, fresh>>

UnloadType == setup.type  \* "PSI": sections, each behind a match word; or "PES"
MaxLocks == setup.locks   \* entries of pLockData (128 / sizeof(QUEUE_LOCK_TYPE))
Env == setup.env          \* what the hardware and the client may do

Addr == 0 .. QueueSize - 1
Region == [b : Addr, e : Addr]
Bits == {"TSC", "RPI"}
MatchWord == IF UnloadType = "PSI" THEN 1 ELSE 0
Idle == [pc |-> "idle", cur |-> 0, end |-> 0, bits |-> {}]

\* The words of the region from b up to e (exclusive), around the ring.
Cells(b, e) == IF b <= e THEN b .. e - 1
                         ELSE (b .. QueueSize - 1) \cup (0 .. e - 1)

LockedCells == UNION {Cells(ch.pLockData[i].b, ch.pLockData[i].e) :
                         i \in DOMAIN ch.pLockData}
HeldCells == UNION {Cells(r.b, r.e) : r \in held}

TypeOK ==
    /\ setup \in Setups
    /\ ch \in [State : {"UNDEFINED", "ENABLED", "DISABLED"},
               Status : {"ENABLED", "DISABLED"},
               hMem : {"none", "live", "stale", "twice"},
               ppReadAddr : Addr, ppProcessAddr : Addr,
               ppLockAddr : Addr \cup {NULL},
               pLockData : Seq(Region), wLockAlloc : {0, MaxLocks},
               wRpiStatus : BOOLEAN, uwInternal : BOOLEAN,
               wptr : Addr, wstart : Addr, rptr : 1 .. QueueSize,
               full : BOOLEAN, enbl : BOOLEAN, run : BOOLEAN,
               qstat : SUBSET Bits]
    /\ posted \in SUBSET Bits
    /\ bh \in [pc : {"idle", "records", "interrupt"}, cur : Addr, end : Addr,
               bits : SUBSET Bits]
    /\ held \in SUBSET Region
    /\ fresh \in SUBSET Addr

\* xp_osi_init leaves every queue undefined; the channel has been allocated.
Init ==
    /\ setup \in Setups
    /\ ch = [State |-> "UNDEFINED", Status |-> "DISABLED", hMem |-> "none",
             ppReadAddr |-> 0, ppProcessAddr |-> 0, ppLockAddr |-> NULL,
             pLockData |-> <<>>, wLockAlloc |-> 0,
             wRpiStatus |-> FALSE, uwInternal |-> FALSE,
             wptr |-> 0, wstart |-> 0, rptr |-> QueueSize,
             full |-> FALSE, enbl |-> FALSE, run |-> FALSE, qstat |-> {}]
    /\ posted = {}
    /\ bh = Idle
    /\ held = {}
    /\ fresh = {}

----------------------------------------------------------------------------
(* The functions of xp_osi_queue.c as functions on the channel's record.   *)

\* xp_osi_channel_restart: acknowledge QSTAT, rewrite the PID if enabled.
channel_restart(c) ==
    [c EXCEPT !.qstat = {}, !.run = c.run \/ c.Status = "ENABLED"]

\* The value of the read pointer register for an address.
ReadPointer(a) == IF a \div Gran = 0 THEN QueueSize ELSE (a \div Gran) * Gran

\* The hardware has caught up with its read pointer until that changes.
write_rptr(c, r) ==
    [c EXCEPT !.rptr = r, !.full = c.full /\ r = c.rptr]

\* Mutant: the indicator is cleared, the channel stays stopped.
update_read_pointer_no_restart(c, a) ==
    [write_rptr(c, ReadPointer(a)) EXCEPT !.wRpiStatus = FALSE]

update_read_pointer(c, a) ==
    LET w == write_rptr(c, ReadPointer(a))
    IN IF c.wRpiStatus
       THEN channel_restart([w EXCEPT !.wRpiStatus = FALSE])
       ELSE w

\* Gap 0 lies between the last and the first region, gap i after region i.
\* (The code subtracts unsigned numbers; in a sorted table of disjoint regions
\* no difference is negative.)
GapBegin(l, i) == IF i = 0 THEN l[Len(l)].e ELSE l[i].e
GapEnd(l, i) == l[i + 1].b
GapSize(l, i) ==
    LET b == GapBegin(l, i)
        e == GapEnd(l, i)
    IN IF i = 0 /\ e <= b THEN QueueSize - (b - e) ELSE e - b

\* The scan keeps the first of the largest gaps.
LargestGap(l) ==
    CHOOSE i \in 0 .. Len(l) - 1 :
        \A j \in 0 .. Len(l) - 1 :
            \/ GapSize(l, j) < GapSize(l, i)
            \/ GapSize(l, j) = GapSize(l, i) /\ i <= j

\* Mutant: the write pointer moves, the address last read does not.
move_write_pointer_keeps_read(c, b, e) ==
    [update_read_pointer([c EXCEPT !.run = FALSE, !.wstart = b, !.wptr = b,
                                   !.full = FALSE], e)
        EXCEPT !.ppProcessAddr = b, !.ppLockAddr = e]

\* Stop the hardware and restart it in the block from b to e.
move_write_pointer(c, b, e) ==
    [update_read_pointer([c EXCEPT !.run = FALSE, !.wstart = b, !.wptr = b,
                                   !.full = FALSE], e)
        EXCEPT !.ppProcessAddr = b, !.ppReadAddr = b, !.ppLockAddr = e]

\* Mutant: everything the hardware has stored counts as processed.
process_read_pointer_eager(c) == update_read_pointer(c, c.wstart)

process_read_pointer(c) ==
    LET l == c.pLockData
        i == LargestGap(l)
    IN IF l = <<>> THEN update_read_pointer(c, c.ppProcessAddr)
       ELSE IF GapSize(l, i) >= Gran
       THEN move_write_pointer(c, GapBegin(l, i), GapEnd(l, i))
       ELSE c

\* The unlocked record leaves the table, or loses its front or its tail.
Unlocked(l, i, b, e) ==
    IF l[i].b = b /\ l[i].e = e THEN RemoveAt(l, i)
    ELSE IF l[i].b = b THEN [l EXCEPT ![i].b = e]
    ELSE [l EXCEPT ![i].e = b]

unlock_data(c, b, e) ==
    LET l == c.pLockData
        Match == {i \in DOMAIN l : l[i].b = b \/ l[i].e = e}
        i == CHOOSE k \in Match : \A m \in Match : k <= m
        d == [c EXCEPT !.pLockData = Unlocked(l, i, b, e)]
        next == IF i <= Len(d.pLockData) THEN d.pLockData[i].b
                                         ELSE d.pLockData[1].b
    IN IF Match = {} THEN c
       ELSE IF c.ppLockAddr = b
       THEN IF d.pLockData = <<>> THEN update_read_pointer(d, d.ppProcessAddr)
            ELSE update_read_pointer([d EXCEPT !.ppLockAddr = next], next)
       ELSE IF c.wRpiStatus THEN process_read_pointer(d)
       ELSE d

\* lock_data, mode SKIP: only the address last processed moves.
skip_data(c, e) ==
    LET d == [c EXCEPT !.ppProcessAddr = e]
    IN IF c.pLockData = <<>> THEN update_read_pointer(d, e) ELSE d

\* lock_data, mode LOCK: a record is inserted before the first that starts
\* behind it; the table is allocated once (ok: MALLOC succeeded), never grows.
CanLock(c, ok) == IF c.wLockAlloc = 0 THEN ok ELSE Len(c.pLockData) < MaxLocks

lock_data(c, b, e, ok) ==
    LET l == c.pLockData
        at == CHOOSE i \in 1 .. Len(l) + 1 :
                 /\ i = Len(l) + 1 \/ b < l[i].b
                 /\ \A j \in 1 .. i - 1 : b >= l[j].b
    IN IF ~CanLock(c, ok)
       THEN [c EXCEPT !.ppProcessAddr = e, !.uwInternal = TRUE]
       ELSE [c EXCEPT !.ppProcessAddr = e, !.wLockAlloc = MaxLocks,
                      !.ppLockAddr = IF l = <<>> THEN b ELSE c.ppLockAddr,
                      !.pLockData = InsertAt(l, at, [b |-> b, e |-> e])]

\* xp_osi_queue_control, one operator per command.
control_enable(c) ==
    channel_restart([c EXCEPT !.enbl = TRUE, !.State = "ENABLED"])

control_disable(c) ==
    [c EXCEPT !.run = FALSE, !.qstat = {}, !.enbl = FALSE,
              !.State = "DISABLED"]

\* Mutant: the locked regions survive the reset.
control_reset_keeps_locks(c) ==
    [control_disable(c) EXCEPT !.wptr = 0, !.wstart = 0, !.full = FALSE,
                               !.ppReadAddr = 0, !.ppProcessAddr = 0]

control_reset(c) ==
    LET d == IF c.State # "DISABLED" THEN control_disable(c) ELSE c
    IN [d EXCEPT !.wptr = 0, !.wstart = 0, !.full = FALSE,
                 !.ppReadAddr = 0, !.ppProcessAddr = 0,
                 !.pLockData = <<>>, !.ppLockAddr = NULL]

\* xp_osi_queue_allocate after its memory was found.
allocated(c) ==
    control_reset([c EXCEPT !.hMem = "live", !.pLockData = <<>>,
                            !.wLockAlloc = 0, !.ppLockAddr = NULL,
                            !.ppProcessAddr = 0, !.uwInternal = FALSE,
                            !.rptr = QueueSize,
                            !.full = c.full /\ c.rptr = QueueSize,
                            !.enbl = FALSE, !.State = "DISABLED"])

\* xp_osi_queue_free: the memory goes back only if the disable succeeded.
pm_free_physical(h) == IF h = "live" THEN "stale" ELSE "twice"

freed(c) ==
    LET valid == c.State # "UNDEFINED"
        d == IF valid THEN control_disable(c) ELSE c
    IN [d EXCEPT !.hMem = IF valid /\ c.hMem # "none"
                          THEN pm_free_physical(c.hMem) ELSE c.hMem,
                 !.State = "UNDEFINED", !.pLockData = <<>>,
                 !.ppLockAddr = NULL, !.wLockAlloc = 0]

----------------------------------------------------------------------------
(* The transport hardware.                                                 *)

HwCanWrite == ch.run /\ ch.enbl /\ ~ch.full

\* One word of the current unit; with done the unit is complete, WSTART moves
\* behind it.  Catching up with the read pointer stops the channel.
HwWrite(done) ==
    LET w == (ch.wptr + 1) % QueueSize
        caught == w = ch.rptr % QueueSize
        unit == Cells(ch.wstart, w)
    IN /\ HwCanWrite
       /\ done => Cardinality(unit) > MatchWord
       /\ done /\ caught => "UnitEndsAtReadPtr" \in Env
       /\ ~done => Cardinality(unit) \in 1 .. MaxUnit - 1
       /\ ch' = [ch EXCEPT !.wptr = w,
                           !.wstart = IF done THEN w ELSE ch.wstart,
                           !.full = caught,
                           !.run = ~caught,
                           !.qstat = ch.qstat
                               \cup (IF done THEN {"TSC"} ELSE {})
                               \cup (IF caught THEN {"RPI"} ELSE {})]
       /\ fresh' = IF done THEN fresh \cup unit ELSE fresh
       /\ UNCHANGED <<posted, bh, held>>

\* Restarted without space: stopped again at once.
HwBlocked ==
    /\ ch.run /\ ch.enbl /\ ch.full
    /\ ch' = [ch EXCEPT !.run = FALSE, !.qstat = ch.qstat \cup {"RPI"}]
    /\ UNCHANGED <<posted, bh, held, fresh>>

----------------------------------------------------------------------------
(* Interrupt: the top half acknowledges QSTAT and posts its bits.  Posted  *)
(* messages of one channel are kept as the union of their bits: the bottom *)
(* half handles data before the read pointer in each of them.              *)

TopHalf ==
    /\ ch.qstat # {}
    /\ posted' = posted \cup ch.qstat
    /\ ch' = [ch EXCEPT !.qstat = {}]
    /\ UNCHANGED <<bh, held, fresh>>

\* Undelivered words are given up when the driver moves the write pointer.
StillFresh(c, f) == IF c.wstart = ch.wstart THEN f ELSE {}

\* channel_data_notify: xp_osi_queue_process_data reads WSTART.
BhStart ==
    /\ bh.pc = "idle" /\ posted # {}
    /\ LET data == "TSC" \in posted /\ ch.State = "ENABLED"
                   /\ ch.ppReadAddr # ch.wstart
       IN bh' = [pc |-> IF data THEN "records" ELSE "interrupt",
                 cur |-> ch.ppReadAddr, end |-> ch.wstart, bits |-> posted]
    /\ posted' = {}
    /\ UNCHANGED <<ch, held, fresh>>

\* process_data moves its read address when the last record is done.
BhAdvance(c, x) ==
    /\ ch' = IF x = bh.end THEN [c EXCEPT !.ppReadAddr = x] ELSE c
    /\ bh' = [bh EXCEPT !.cur = x,
                        !.pc = IF x = bh.end THEN "interrupt" ELSE "records"]
    /\ posted' = posted

\* The ends of the record at the cursor: process_table_data takes one section
\* at a time, process_data otherwise hands over all there is.
RecordEnds ==
    IF UnloadType = "PES" THEN {bh.end}
    ELSE {x \in Cells(bh.cur, bh.end) \cup {bh.end} :
            /\ Cardinality(Cells(bh.cur, x)) > MatchWord
            /\ Cardinality(Cells(x, bh.end)) # MatchWord}

\* The record's data starts behind the match word.
RecordBegin == (bh.cur + MatchWord) % QueueSize

\* A section no filter wants.
BhSkip(x) ==
    /\ bh.pc = "records" /\ UnloadType = "PSI"
    /\ BhAdvance(skip_data(ch, x), x)
    /\ fresh' = fresh \ Cells(bh.cur, x)
    /\ held' = held

\* A record is locked and the client notified; the client keeps it.
BhNotify(x, ok) ==
    /\ bh.pc = "records" /\ "Hold" \in Env
    /\ BhAdvance(lock_data(ch, RecordBegin, x, ok), x)
    /\ fresh' = fresh \ Cells(bh.cur, x)
    /\ held' = held \cup {[b |-> RecordBegin, e |-> x]}

\* The client unlocks the record within its notification.
BhNotifyUnlock(x, ok) ==
    LET c == unlock_data(lock_data(ch, RecordBegin, x, ok), RecordBegin, x)
    IN /\ bh.pc = "records" /\ "Release" \in Env
       /\ BhAdvance(c, x)
       /\ fresh' = StillFresh(c, fresh \ Cells(bh.cur, x))
       /\ held' = held

\* xp_osi_queue_process_interrupt.
BhInterrupt ==
    LET c == IF "RPI" \in bh.bits
             THEN process_read_pointer([ch EXCEPT !.wRpiStatus = TRUE])
             ELSE ch
    IN /\ bh.pc = "interrupt"
       /\ ch' = c
       /\ bh' = Idle
       /\ fresh' = StillFresh(c, fresh)
       /\ UNCHANGED <<posted, held>>

----------------------------------------------------------------------------
(* The client and the process context run while the bottom half is idle.   *)

\* xp_osi_queue_unlock_data on the part from b to e of the held region r.
QueueUnlock(r, b, e) ==
    LET c == IF ch.State # "UNDEFINED" THEN unlock_data(ch, b, e) ELSE ch
    IN /\ bh.pc = "idle"
       /\ r \in held
       /\ ch' = c
       /\ held' = (held \ {r})
            \cup (IF r.b # b THEN {[b |-> r.b, e |-> b]} ELSE {})
            \cup (IF r.e # e THEN {[b |-> e, e |-> r.e]} ELSE {})
       /\ fresh' = StillFresh(c, fresh)
       /\ UNCHANGED <<posted, bh>>

UnlockAll(r) == QueueUnlock(r, r.b, r.e)
UnlockFront(r) ==
    /\ "UnlockFront" \in Env
    /\ \E x \in Cells(r.b, r.e) \ {r.b} : QueueUnlock(r, r.b, x)
UnlockTail(r) ==
    /\ "UnlockTail" \in Env
    /\ \E x \in Cells(r.b, r.e) \ {r.b} : QueueUnlock(r, x, r.e)

\* Control of the queue and the channel; forget says whether the client's
\* regions are taken from it.
Control(c, forget) ==
    /\ bh.pc = "idle"
    /\ ch' = c
    /\ held' = IF forget THEN {} ELSE held
    /\ fresh' = IF forget THEN {} ELSE fresh
    /\ UNCHANGED <<posted, bh>>

QueueAllocate ==
    /\ ch.State = "UNDEFINED"
    /\ \/ Control(allocated(ch), TRUE)
       \/ Control([ch EXCEPT !.hMem = "none"], TRUE)

QueueEnable == ch.State # "UNDEFINED" /\ Control(control_enable(ch), FALSE)
QueueDisable == ch.State # "UNDEFINED" /\ Control(control_disable(ch), FALSE)
QueueReset == ch.State # "UNDEFINED" /\ Control(control_reset(ch), TRUE)
ChannelEnable ==
    Control(channel_restart([ch EXCEPT !.Status = "ENABLED"]), FALSE)
channel_disable(c) ==
    [c EXCEPT !.run = FALSE, !.qstat = {}, !.Status = "DISABLED"]
ChannelDisable == Control(channel_disable(ch), FALSE)

\* xp_osi_channel_free disables the channel, then frees its queue.
QueueFree == Control(freed(channel_disable(ch)), TRUE)

----------------------------------------------------------------------------
Hardware == HwBlocked \/ \E done \in BOOLEAN : HwWrite(done)

BottomHalf ==
    \/ BhStart
    \/ BhInterrupt
    \/ \E x \in RecordEnds :
          \/ BhSkip(x)
          \/ \E ok \in BOOLEAN : BhNotify(x, ok) \/ BhNotifyUnlock(x, ok)

Client == \E r \in held : UnlockAll(r) \/ UnlockFront(r) \/ UnlockTail(r)

Process == QueueAllocate \/ QueueEnable \/ QueueDisable \/ QueueReset
           \/ ChannelEnable \/ ChannelDisable \/ QueueFree

\* Once the lock table was full (or MALLOC failed) the client holds a region
\* the driver does not know; Errors.uwInternal tells.
NoLockFailed == ~ch.uwInternal

\* A queue that failed to lock is followed only until it is given up.
Next ==
    /\ \/ BottomHalf
       \/ NoLockFailed /\ (Hardware \/ TopHalf \/ Client \/ Process)
       \/ ~NoLockFailed /\ (QueueFree \/ QueueAllocate)
    /\ UNCHANGED setup

Spec == Init /\ [][Next]_vars

\* Interrupts and bottom halves are always served; the client gives back what
\* it was given (every notify function of xp_osd_drv.c does).
Fairness ==
    /\ WF_vars(HwBlocked /\ UNCHANGED setup) /\ SF_vars(TopHalf /\ UNCHANGED setup)
    /\ WF_vars(BottomHalf /\ UNCHANGED setup)
    /\ SF_vars((\E r \in held : UnlockAll(r)) /\ UNCHANGED setup)

FairSpec == Spec /\ Fairness

----------------------------------------------------------------------------
\* No word of a region in the lock table is ever the next word the hardware
\* writes: the read pointer keeps it out (process_read_pointer, unlock_data).
LockedNotOverwritten ==
    HwCanWrite /\ NoLockFailed => ch.wptr \notin LockedCells

\* No word of a complete unit is overwritten before it was handed over or
\* given up.
FreshNotOverwritten ==
    HwCanWrite /\ NoLockFailed => ch.wptr \notin fresh

\* Between two runs of the bottom half, what process_data will hand over next
\* is exactly the complete units nobody has seen.
ReadsWhatIsFresh ==
    bh.pc = "idle" /\ ch.State # "UNDEFINED" /\ NoLockFailed
        => Cells(ch.ppReadAddr, ch.wstart) = fresh

\* As long as no lock failed, the client's regions are what the table locks.
HeldIsLocked == NoLockFailed => HeldCells = LockedCells

\* The queue's memory is never returned twice.
FreedOnce == ch.hMem # "twice"

\* A channel the hardware stopped at its read pointer, with an interrupt for
\* the data it stored still on its way, does not stay stopped: the read
\* pointer moves on and the channel restarts, or it is switched off.
\* (xp_osi_channel_restart acknowledges every latched interrupt: an interrupt
\* it drops is not announced again.)
Active == ch.State = "ENABLED" /\ ch.Status = "ENABLED"
Announced == \/ fresh = {}
             \/ "TSC" \in ch.qstat \cup posted
             \/ bh.pc = "records" /\ fresh \subseteq Cells(bh.cur, bh.end)
StoppedChannelResumes ==
    (Active /\ Announced /\ ~ch.run) ~> ~(Active /\ Announced /\ ~ch.run)

\* The hardware overwrites neither what the client has locked nor what nobody has seen.
NothingOverwritten == TypeOK /\ LockedNotOverwritten /\ FreshNotOverwritten

\* Regions are locked just while the client has them, and the memory goes back once.
HeldOnce == HeldIsLocked /\ FreedOnce
============================================================================
