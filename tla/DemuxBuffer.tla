------------------------------ MODULE DemuxBuffer ------------------------------
(***************************************************************************)
(* The ring buffer of one demultiplexer filter slot (demux/xp_osd_drv.c,   *)
(* struct demux_filter_buf_s): the driver's callbacks copy arriving data   *)
(* into it in the bottom half of the interrupt, demux_filter_read copies   *)
(* it out to the application.                                              *)
(*                                                                         *)
(* A callback runs to its end before the process goes on, and may come     *)
(* between any two steps of a read that are not in one critical section.   *)
(* The application makes one call at a time on the slot.                   *)
(*                                                                         *)
(* A byte is a record that tells where it came from: the number of its     *)
(* chunk (a table section, or a piece of a PES stream) modulo Tags, its    *)
(* place k in the chunk and the chunk's length.                            *)
(***************************************************************************)
EXTENDS Integers, Sequences

CONSTANTS Types,    \* of "SEC", "PES" (the latter also serves TS and buckets)
          Sizes,    \* buffer sizes the application may ask for
          Lens,     \* lengths of the chunks that arrive
          Tags,     \* chunk numbers are counted modulo this
          Word,     \* values of a ULONG: ulWrite starts at -1 = Word - 1
          Resize    \* "drained": DEMUX_SET_BUFFER_SIZE only with nothing unread

ASSUME BufferAssumption ==
  /\ Types \subseteq {"SEC", "PES"}
  /\ Sizes \subseteq Nat \ {0} /\ Lens \subseteq Nat \ {0}
  /\ Tags \in Nat \ {0} /\ Word \in Nat
  /\ \A n \in Sizes : \A m \in Lens : n + m < Word
  /\ Resize \in {"drained", "any"}

JUNK == [tag |-> Tags, k |-> 0, len |-> 0]   \* memory vmalloc returned
NULL == << >>                                \* plData = 0

VARIABLES type,     \* of the slot, throughout
          buf,      \* the DEMUX_FILTER_BUF: plData, ulSize, count, ulRead, ulWrite
          states,   \* of the slot: SET, READY or START
          pc,       \* where the application's read is
          rd,       \* the read's locals: bytes still to copy, bytes copied
          unread,   \* history: the bytes stored and not yet copied out
          tag       \* number of the next chunk

vars == <<type, buf, states, pc, rd, unread, tag>>

vmalloc(n) == [i \in 0..(n - 1) |-> JUNK]

Init ==
  /\ type \in Types
  /\ \E n \in Sizes : buf = [plData |-> NULL, ulSize |-> n, count |-> 0,
                             ulRead |-> 0, ulWrite |-> Word - 1]
  /\ states = "SET"
  /\ pc = "idle"
  /\ rd = [left |-> 0, got |-> << >>]
  /\ unread = << >>
  /\ tag = 0

-----------------------------------------------------------------------------
(* The callbacks.                                                           *)

Chunk(len) == [i \in 1..len |-> [tag |-> tag, k |-> i, len |-> len]]

(* As Room, letting a section fill the buffer to the last byte.             *)
Room_exact(len) == buf.count + len <= buf.ulSize

(* Whether the callback stores a chunk; the arithmetic is unsigned.         *)
Room(len) ==
  IF type = "SEC" THEN (buf.count + len) % Word < buf.ulSize
  ELSE (buf.ulSize - buf.count) % Word >= len

(* The memcpy calls of DemuxCopyToCBuf, for a chunk of which the first q    *)
(* bytes are at the end of the transport queue (pQloc) and the rest at its  *)
(* start (pQstart), and a buffer with b bytes from the write position w to  *)
(* its end.  A call is <<offset in the buffer, from where, offset there,    *)
(* number of bytes>>.                                                       *)
Copies(w, b, q, len) ==
  IF b < len /\ q < len
  THEN IF q > b
       THEN {<<w, "loc", 0, b>>, <<0, "loc", b, q - b>>,
             <<q - b, "start", 0, len - q>>}
       ELSE IF b > q
       THEN {<<w, "loc", 0, q>>, <<w + q, "start", 0, b - q>>,
             <<0, "start", b - q, len - b>>}
       ELSE {<<w, "loc", 0, b>>, <<0, "start", 0, len - b>>}
  ELSE IF b < len THEN {<<w, "loc", 0, b>>, <<0, "loc", b, len - b>>}
  ELSE IF q < len THEN {<<w, "loc", 0, q>>, <<w + q, "start", 0, len - q>>}
  ELSE {<<w, "loc", 0, len>>}

(* Byte i of pQloc, which ends with the queue, or of pQstart.               *)
QueueByte(chunk, q, from, i) ==
  IF from = "start" THEN chunk[q + i + 1]
  ELSE IF i < q THEN chunk[i + 1] ELSE JUNK

(* The buffer after a set of copies.                                        *)
Copied(chunk, q, copies) ==
  LET To(c) == c[1]..(c[1] + c[4] - 1)
  IN  [i \in DOMAIN buf.plData |->
         IF \E c \in copies : i \in To(c)
         THEN LET c == CHOOSE c \in copies : i \in To(c)
              IN  QueueByte(chunk, q, c[2], c[3] + (i - c[1]))
         ELSE buf.plData[i]]

(* The section callback's loop: count, write pointer, byte, len times.      *)
Looped(chunk) ==
  LET at(i) == (((buf.ulWrite + 1) % Word) + (i - 1)) % buf.ulSize
  IN  [j \in DOMAIN buf.plData |->
         IF \E i \in 1..Len(chunk) : at(i) = j
         THEN chunk[CHOOSE i \in 1..Len(chunk) : at(i) = j]
         ELSE buf.plData[j]]

Stored(chunk, q) ==
  LET w   == ((buf.ulWrite + 1) % Word) % buf.ulSize
      len == Len(chunk)
  IN  [buf EXCEPT
         !.plData  = IF type = "SEC" THEN Looped(chunk)
                     ELSE Copied(chunk, q, Copies(w, buf.ulSize - w, q, len)),
         !.count   = @ + len,
         !.ulWrite = ((buf.ulWrite + len) % Word) % buf.ulSize]

wake_up == pc' = IF pc = "asleep" THEN "woken" ELSE pc

(* DemuxSectionCallback and DemuxPESCallback, of a started slot.  A chunk   *)
(* that does not fit is dropped: the section callback wakes the reader all  *)
(* the same, the PES callback does not.  (Sections whose header contradicts *)
(* their length are dropped without any of this.)                           *)
DemuxCallback(len, q) ==
  /\ states = "START"
  /\ q \in 1..len
  /\ IF Room(len)
     THEN /\ buf' = Stored(Chunk(len), q)
          /\ unread' = unread \o Chunk(len)
          /\ tag' = (tag + 1) % Tags
          /\ wake_up
     ELSE /\ UNCHANGED <<buf, unread, tag>>
          /\ IF type = "SEC" THEN wake_up ELSE UNCHANGED pc
  /\ UNCHANGED <<type, states, rd>>

-----------------------------------------------------------------------------
(* demux_filter_read.                                                       *)

(* As ReadCall, testing the count before the critical section it sleeps in. *)
ReadCall_early ==
  /\ pc = "idle"
  /\ buf.plData # NULL
  /\ pc' \in {"asleep", "ready"}
  /\ UNCHANGED <<type, buf, states, rd, unread, tag>>

(* A blocking read sleeps when there is nothing; the test and the sleep are *)
(* one critical section.                                                    *)
ReadCall ==
  /\ pc = "idle"
  /\ buf.plData # NULL
  /\ pc' = IF buf.count <= 0 THEN "asleep" ELSE "ready"
  /\ UNCHANGED <<type, buf, states, rd, unread, tag>>

(* The timeout of the sleep, or a signal.                                   *)
Timeout ==
  /\ pc = "asleep"
  /\ pc' = "woken"
  /\ UNCHANGED <<type, buf, states, rd, unread, tag>>

(* After the sleep: -ETIMEDOUT if there is still nothing.                   *)
Woken ==
  /\ pc = "woken"
  /\ pc' = IF buf.count <= 0 THEN "idle" ELSE "ready"
  /\ UNCHANGED <<type, buf, states, rd, unread, tag>>

(* Section: the length comes from the header at the read position; -EFAULT  *)
(* if the application's buffer is too small for the section (fits).         *)
ReadHeader(fits) ==
  /\ type = "SEC"
  /\ pc = "ready"
  /\ IF fits
     THEN /\ rd' = [left |-> buf.plData[buf.ulRead].len, got |-> << >>]
          /\ pc' = "loop"
     ELSE pc' = "idle" /\ UNCHANGED rd
  /\ UNCHANGED <<type, buf, states, unread, tag>>

(* Section: per byte, the count goes down first ...                         *)
CountDown ==
  /\ pc = "loop"
  /\ buf' = [buf EXCEPT !.count = @ - 1]
  /\ pc' = "byte"
  /\ UNCHANGED <<type, states, rd, unread, tag>>

(* As PutUser, with the read pointer stuck at the end of the ring.           *)
PutUser_nowrap ==
  /\ pc = "byte"
  /\ rd' = [left |-> rd.left - 1,
            got |-> Append(rd.got, buf.plData[buf.ulRead])]
  /\ buf' = [buf EXCEPT !.ulRead = IF @ + 1 = buf.ulSize THEN @ ELSE @ + 1]
  /\ unread' = Tail(unread)
  /\ pc' = IF rd.left = 1 THEN "idle" ELSE "loop"
  /\ UNCHANGED <<type, states, tag>>

(* ... and the byte is copied and the read pointer moved after it.          *)
PutUser ==
  /\ pc = "byte"
  /\ rd' = [left |-> rd.left - 1,
            got |-> Append(rd.got, buf.plData[buf.ulRead])]
  /\ buf' = [buf EXCEPT !.ulRead = (@ + 1) % buf.ulSize]
  /\ unread' = Tail(unread)
  /\ pc' = IF rd.left = 1 THEN "idle" ELSE "loop"
  /\ UNCHANGED <<type, states, tag>>

(* PES: as much as there is, at most what the application asked for.        *)
TakeCount(n) ==
  /\ type = "PES"
  /\ pc = "ready"
  /\ n \in 1..buf.count
  /\ rd' = [left |-> n, got |-> << >>]
  /\ pc' = "copy"
  /\ UNCHANGED <<type, buf, states, unread, tag>>

(* PES: one or two copy_to_user calls ...                                   *)
CopyToUser ==
  /\ pc = "copy"
  /\ rd' = [rd EXCEPT !.got = [i \in 1..rd.left |->
              buf.plData[(buf.ulRead + i - 1) % buf.ulSize]]]
  /\ unread' = SubSeq(unread, rd.left + 1, Len(unread))
  /\ pc' = "update"
  /\ UNCHANGED <<type, buf, states, tag>>

(* As Update, with the count as it was when the copy began.                 *)
Update_stale ==
  /\ pc = "update"
  /\ buf' = [buf EXCEPT !.ulRead = (@ + rd.left) % buf.ulSize, !.count = 0]
  /\ pc' = "idle"
  /\ UNCHANGED <<type, states, rd, unread, tag>>

(* ... then read pointer and count, in one critical section.                *)
Update ==
  /\ pc = "update"
  /\ buf' = [buf EXCEPT !.ulRead = (@ + rd.left) % buf.ulSize,
                        !.count = @ - rd.left]
  /\ pc' = "idle"
  /\ UNCHANGED <<type, states, rd, unread, tag>>

-----------------------------------------------------------------------------
(* The other calls of the application.                                      *)

(* DemuxFilterStart: a new buffer for a slot in SET.                        *)
DemuxFilterStart ==
  /\ pc = "idle"
  /\ states # "START"
  /\ buf' = IF states = "SET" THEN [buf EXCEPT !.plData = vmalloc(buf.ulSize)]
            ELSE buf
  /\ states' = "START"
  /\ UNCHANGED <<type, pc, rd, unread, tag>>

(* DemuxFilterStop: no callback any more; what is stored stays.             *)
DemuxFilterStop ==
  /\ pc = "idle"
  /\ states = "START"
  /\ states' = "READY"
  /\ UNCHANGED <<type, buf, pc, rd, unread, tag>>

Emptied(b) == [b EXCEPT !.ulRead = 0, !.ulWrite = Word - 1, !.count = 0]

(* DemuxFilterReset as part of setting the slot again: what was unread goes.*)
FilterSet ==
  /\ pc = "idle"
  /\ states' = "SET"
  /\ buf' = Emptied(buf)
  /\ unread' = << >>
  /\ UNCHANGED <<type, pc, rd, tag>>

(* The slot is stopped and its buffer replaced, what was unread goes.  The  *)
(* code resets ulRead and ulWrite, not count.                               *)
DemuxSetBufferSize(n) ==
  /\ pc = "idle"
  /\ Resize = "drained" => buf.count = 0
  /\ states' = IF states = "START" THEN "READY" ELSE states
  /\ buf' = [buf EXCEPT !.plData = IF states = "SET" THEN NULL ELSE vmalloc(n),
                        !.ulSize = n, !.ulRead = 0, !.ulWrite = Word - 1]
  /\ unread' = << >>
  /\ UNCHANGED <<type, pc, rd, tag>>

Read == \/ ReadCall \/ Timeout \/ Woken
        \/ \E fits \in BOOLEAN : ReadHeader(fits)
        \/ CountDown \/ PutUser
        \/ \E n \in 1..buf.ulSize : TakeCount(n)
        \/ CopyToUser \/ Update

Next == \/ \E len \in Lens : \E q \in 1..len : DemuxCallback(len, q)
        \/ Read
        \/ DemuxFilterStart \/ DemuxFilterStop \/ FilterSet
        \/ \E n \in Sizes : DemuxSetBufferSize(n)

Spec == Init /\ [][Next]_vars

-----------------------------------------------------------------------------
(* The read and write pointers stay inside the buffer and the count within  *)
(* its size.                                                                *)
TypeOK ==
  /\ type \in Types
  /\ buf.ulSize \in Sizes
  /\ buf.plData = NULL \/ DOMAIN buf.plData = 0..(buf.ulSize - 1)
  /\ buf.count \in 0..buf.ulSize
  /\ buf.ulRead \in 0..(buf.ulSize - 1)
  /\ buf.ulWrite \in 0..(buf.ulSize - 1) \cup {Word - 1}
  /\ states \in {"SET", "READY", "START"}
  /\ pc \in {"idle", "asleep", "woken", "ready",
             "loop", "byte", "copy", "update"}
  /\ rd.left \in Nat

(* The count is the number of bytes in the buffer, but for the byte that a  *)
(* section read has counted and not copied and the bytes that a PES read    *)
(* has copied and not counted.                                              *)
CountIsContents ==
  buf.count = CASE pc = "byte"   -> Len(unread) - 1
                [] pc = "update" -> Len(unread) + rd.left
                [] OTHER         -> Len(unread)

(* No callback overwrites a byte that is stored and not yet copied out, not *)
(* even between the steps of a read; and they are where the read looks.     *)
UnreadIntact ==
  \A i \in 1..Len(unread) :
    unread[i] = buf.plData[(buf.ulRead + (i - 1)
                              + (IF pc = "update" THEN rd.left ELSE 0))
                           % buf.ulSize]

(* A section read that has ended well returned one whole section.           *)
WholeSections ==
  type = "SEC" /\ pc = "idle" /\ rd.got # << >> =>
    LET s == rd.got[1]
    IN  rd.got = [i \in 1..s.len |-> [tag |-> s.tag, k |-> i, len |-> s.len]]

(* The slot's record speaks of the bytes that are there.                    *)
BufferIsContents == TypeOK /\ CountIsContents

(* A reader sleeps only while there is nothing to read.                     *)
NoLostWakeup == pc = "asleep" => buf.count <= 0
=============================================================================
