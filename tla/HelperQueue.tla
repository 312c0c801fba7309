---------------------------- MODULE HelperQueue ----------------------------
(***************************************************************************)
(* The ring of os/helper-queue.c as the interrupt layer uses it: os_enqueue*)
(* runs in an interrupt handler, os_dequeue in a bottom half (or a system  *)
(* call) that the interrupt may cut short between any two of its stores.   *)
(* There is one processor, so the handler itself is never cut short.       *)
(***************************************************************************)
EXTENDS Integers, Sequences

CONSTANTS
    Size,   \* uQueueSize, the slots of the ring
    Msg,    \* the messages
    Burst   \* the messages that interrupts may add while os_dequeue is between
            \* its two stores of uReadHead

ASSUME QueueAssumption ==
    /\ Size \in Nat \ {0}
    /\ Burst \in Nat

VARIABLES
    pQueue,     \* the slots
    uReadHead, uWriteHead,
    pc,         \* the consumer: "idle", in os_dequeue ("copied", "moved")
    pBuffer,    \* the consumer's buffer
    burst       \* messages added since uReadHead was moved (history)

vars == <<pQueue, uReadHead, uWriteHead, pc, pBuffer, burst>>

TypeOK ==
    /\ pQueue \in [0 .. Size - 1 -> Msg]
    /\ uReadHead \in 0 .. (IF pc = "moved" THEN Size ELSE Size - 1)
    /\ uWriteHead \in 0 .. Size - 1
    /\ pc \in {"idle", "copied", "moved"}
    /\ pBuffer \in Msg
    /\ burst \in 0 .. Burst

\* os_create_queue (what the slots hold first is never read).
Init ==
    /\ pQueue \in [0 .. Size - 1 -> Msg]
    /\ uReadHead = 0
    /\ uWriteHead = 0
    /\ pc = "idle"
    /\ pBuffer \in Msg
    /\ burst = 0

\* Mutant: the slot that must stay free is used.
FullNever == FALSE

Full == (uWriteHead + 1) % Size = uReadHead
Empty == uWriteHead = uReadHead

Wrapped(i) == IF i >= Size THEN 0 ELSE i

\* os_get_queue_status.
os_get_queue_status == (uWriteHead + Size - uReadHead) % Size

\* os_enqueue; a full queue refuses the message and nothing changes.
os_enqueue(m) ==
    /\ ~Full
    /\ pc = "moved" => burst < Burst
    /\ pQueue' = [pQueue EXCEPT ![uWriteHead] = m]
    /\ uWriteHead' = Wrapped(uWriteHead + 1)
    /\ burst' = IF pc = "moved" THEN burst + 1 ELSE burst
    /\ UNCHANGED <<uReadHead, pc, pBuffer>>

\* os_dequeue: test and copy, ...
DequeueCopy ==
    /\ pc = "idle" /\ ~Empty
    /\ pBuffer' = pQueue[uReadHead]
    /\ pc' = "copied"
    /\ UNCHANGED <<pQueue, uReadHead, uWriteHead, burst>>

\* ... then move the read head on, ...
DequeueMove ==
    /\ pc = "copied"
    /\ uReadHead' = uReadHead + 1
    /\ pc' = "moved"
    /\ UNCHANGED <<pQueue, uWriteHead, pBuffer, burst>>

\* ... and wrap it.
DequeueWrap ==
    /\ pc = "moved"
    /\ uReadHead' = Wrapped(uReadHead)
    /\ pc' = "idle"
    /\ burst' = 0
    /\ UNCHANGED <<pQueue, uWriteHead, pBuffer>>

Next ==
    \/ \E m \in Msg : os_enqueue(m)
    \/ DequeueCopy \/ DequeueMove \/ DequeueWrap

Spec == Init /\ [][Next]_vars

----------------------------------------------------------------------------
\* The i-th slot from the read head, and the messages from there to the write
\* head: the queue a user sees.
Slot(i) == IF uReadHead + i < Size THEN uReadHead + i ELSE uReadHead + i - Size
InRing == IF uWriteHead >= uReadHead THEN uWriteHead - uReadHead
                                     ELSE uWriteHead + Size - uReadHead
Contents == [i \in 1 .. InRing |-> pQueue[Slot(i - 1)]]

\* The ring implements a FIFO of Size - 1 messages: nothing accepted is lost,
\* repeated, reordered or overwritten, wherever the interrupt strikes within
\* os_dequeue.  A message is taken when os_dequeue copies it.
Fifo == INSTANCE BoundedFifo WITH
            Capacity <- Size - 1,
            q <- IF pc = "copied" THEN Tail(Contents) ELSE Contents,
            got <- pBuffer
FifoSpec == Fifo!Spec

\* What os_enqueue, os_dequeue and os_get_queue_status conclude from the two
\* heads, outside the window, is true of the messages in the ring: one slot
\* stays free, no other is refused, and no message is taken for none.
HeadsTellContents ==
    pc # "moved" => /\ Full <=> InRing = Size - 1
                    /\ Empty <=> InRing = 0
                    /\ os_get_queue_status = InRing

\* A queue with Size - 1 messages refuses the next one in whatever state
\* os_dequeue is interrupted ("Should full" in the test of the queue).
FullRefuses == \A m \in Msg : InRing = Size - 1 => ~ENABLED os_enqueue(m)

============================================================================
