------------------------- MODULE HelperQueueProofs -------------------------
(***************************************************************************)
(* For every ring size and message set: the heads stay in range, and the   *)
(* ring implements the bounded FIFO, provided interrupts add at most one   *)
(* message between the two stores of os_dequeue.                           *)
(***************************************************************************)
EXTENDS HelperQueue, SequenceTheorems, TLAPS

\* The remainder of a number that is at most the divisor.
LEMMA ModAtMost ==
    ASSUME NEW n \in Nat \ {0}, NEW x \in 0 .. n
    PROVE  x % n = IF x = n THEN 0 ELSE x
OBVIOUS

\* The remainder of a number below twice the divisor.
LEMMA ModBelowTwice ==
    ASSUME NEW n \in Nat \ {0}, NEW x \in n .. 2 * n - 1
    PROVE  x % n = x - n
OBVIOUS

----------------------------------------------------------------------------
\* The inductive invariant: the consumer holds a message while it is in
\* os_dequeue, and the window has let in no more than burst messages.
HeldMessage == pc = "copied" => InRing > 0
WindowRoom == pc = "moved" => InRing <= Size - 2 + burst
IInv == TypeOK /\ HeldMessage /\ WindowRoom /\ (pc # "moved" => burst = 0)

LEMMA InitIInv == Init => IInv
BY QueueAssumption DEF Init, IInv, TypeOK, HeldMessage, WindowRoom, InRing

LEMMA NextIInv ==
    ASSUME Burst <= 1, IInv, [Next]_vars
    PROVE  IInv'
<1> USE QueueAssumption DEF IInv, TypeOK, HeldMessage, WindowRoom, InRing
<1>1. CASE \E m \in Msg : os_enqueue(m)
  <2> PICK m \in Msg : os_enqueue(m)
    BY <1>1
  <2>1. (uWriteHead + 1) % Size = IF uWriteHead + 1 = Size THEN 0
                                                     ELSE uWriteHead + 1
    <3>1. uWriteHead + 1 \in 0 .. Size
      OBVIOUS
    <3> QED
      BY <3>1, ModAtMost
  <2> QED
    BY <2>1 DEF os_enqueue, Full, Wrapped
<1>2. CASE DequeueCopy
  BY <1>2 DEF DequeueCopy, Empty
<1>3. CASE DequeueMove
  BY <1>3 DEF DequeueMove
<1>4. CASE DequeueWrap
  BY <1>4 DEF DequeueWrap, Wrapped
<1>5. CASE UNCHANGED vars
  BY <1>5 DEF vars
<1> QED
  BY <1>1, <1>2, <1>3, <1>4, <1>5 DEF Next

\* The heads and the consumer's state keep their types, whatever interrupts
\* os_dequeue (os/helper-queue.c).
THEOREM TypeCorrect == Burst <= 1 => (Spec => []TypeOK)
<1> SUFFICES ASSUME Burst <= 1 PROVE Spec => []TypeOK
  OBVIOUS
<1>1. IInv => TypeOK
  BY DEF IInv
<1> QED
  BY InitIInv, NextIInv, <1>1, PTL DEF Spec

----------------------------------------------------------------------------
\* The tests of os_enqueue and os_dequeue on the two heads are exact, and so
\* is os_get_queue_status.
LEMMA IInvHeads == IInv => HeadsTellContents
<1> SUFFICES ASSUME IInv, pc # "moved"
             PROVE  /\ Full <=> InRing = Size - 1
                    /\ Empty <=> InRing = 0
                    /\ os_get_queue_status = InRing
  BY DEF HeadsTellContents
<1>1. /\ uReadHead \in 0 .. Size - 1
      /\ uWriteHead \in 0 .. Size - 1
      /\ Size \in Nat \ {0}
  BY QueueAssumption DEF IInv, TypeOK
<1>2. (uWriteHead + 1) % Size = IF uWriteHead + 1 = Size THEN 0
                                                   ELSE uWriteHead + 1
  <2>1. uWriteHead + 1 \in 0 .. Size
    BY <1>1
  <2> QED
    BY <1>1, <2>1, ModAtMost
<1>3. (uWriteHead + Size - uReadHead) % Size = InRing
  <2>1. CASE uWriteHead >= uReadHead
    <3>1. uWriteHead + Size - uReadHead \in Size .. 2 * Size - 1
      BY <1>1, <2>1
    <3>2. (uWriteHead + Size - uReadHead) % Size
              = (uWriteHead + Size - uReadHead) - Size
      BY <1>1, <3>1, ModBelowTwice
    <3> QED
      BY <1>1, <2>1, <3>2 DEF InRing
  <2>2. CASE uWriteHead < uReadHead
    <3>1. /\ uWriteHead + Size - uReadHead \in 0 .. Size
          /\ uWriteHead + Size - uReadHead # Size
      BY <1>1, <2>2
    <3>2. (uWriteHead + Size - uReadHead) % Size
              = uWriteHead + Size - uReadHead
      BY <1>1, <3>1, ModAtMost
    <3> QED
      BY <1>1, <2>2, <3>2 DEF InRing
  <2> QED
    BY <1>1, <2>1, <2>2
<1> QED
  BY <1>1, <1>2, <1>3 DEF Full, Empty, InRing, os_get_queue_status

\* Outside the window of os_dequeue the tests for full and empty are right, and so is
\* os_get_queue_status (os/helper-queue.c).
THEOREM HeadsAreExact == Burst <= 1 => (Spec => []HeadsTellContents)
<1> SUFFICES ASSUME Burst <= 1 PROVE Spec => []HeadsTellContents
  OBVIOUS
<1> QED
  BY InitIInv, NextIInv, IInvHeads, PTL DEF Spec

----------------------------------------------------------------------------
\* What a user sees of the ring is a sequence of InRing messages.
LEMMA ContentsIsSeq ==
    ASSUME IInv
    PROVE  /\ InRing \in 0 .. Size - 1
           /\ Contents \in Seq(Msg)
           /\ Len(Contents) = InRing
           /\ \A i \in 1 .. InRing : Contents[i] = pQueue[Slot(i - 1)]
<1>1. InRing \in 0 .. Size - 1
  BY QueueAssumption DEF IInv, TypeOK, InRing
<1>2. \A i \in 1 .. InRing : Slot(i - 1) \in 0 .. Size - 1
  BY QueueAssumption DEF IInv, TypeOK, Slot, InRing
<1>3. \A i \in 1 .. InRing : pQueue[Slot(i - 1)] \in Msg
  BY <1>2 DEF IInv, TypeOK
<1>4. InRing \in Nat
  BY <1>1, QueueAssumption
<1> QED
  BY <1>1, <1>3, <1>4 DEF Contents

\* os_enqueue appends its message to what is in the ring.
LEMMA EnqueueAppends ==
    ASSUME Burst <= 1, IInv, NEW m \in Msg, os_enqueue(m)
    PROVE  /\ InRing < Size - 1
           /\ Contents' = Append(Contents, m)
<1> USE QueueAssumption
<1>1. (uWriteHead + 1) % Size = IF uWriteHead + 1 = Size THEN 0
                                                   ELSE uWriteHead + 1
  <2>1. uWriteHead + 1 \in 0 .. Size
    BY DEF IInv, TypeOK
  <2> QED
    BY <2>1, ModAtMost
<1>2. InRing < Size - 1 /\ InRing \in Nat
  BY <1>1 DEF IInv, TypeOK, WindowRoom, InRing, os_enqueue, Full
<1>3. InRing' = InRing + 1
  BY <1>1, <1>2 DEF IInv, TypeOK, InRing, os_enqueue, Full, Wrapped
<1>4. Slot(InRing) = uWriteHead
  BY DEF IInv, TypeOK, InRing, Slot
<1>5. \A i \in 1 .. InRing : Slot(i - 1) \in 0 .. Size - 1
                             /\ Slot(i - 1) # uWriteHead
  BY <1>2 DEF IInv, TypeOK, InRing, Slot
<1>6. \A i \in 0 .. InRing : Slot(i)' = Slot(i)
  BY DEF Slot, os_enqueue
<1>7. \A i \in 1 .. InRing + 1 :
          pQueue'[Slot(i - 1)'] = IF i <= InRing THEN pQueue[Slot(i - 1)] ELSE m
  <2> SUFFICES ASSUME NEW i \in 1 .. InRing + 1
               PROVE  pQueue'[Slot(i - 1)']
                        = IF i <= InRing THEN pQueue[Slot(i - 1)] ELSE m
    OBVIOUS
  <2>1. Slot(i - 1)' = Slot(i - 1)
    BY <1>2, <1>6
  <2>2. pQueue' = [pQueue EXCEPT ![uWriteHead] = m]
        /\ pQueue \in [0 .. Size - 1 -> Msg] /\ uWriteHead \in 0 .. Size - 1
    BY DEF os_enqueue, IInv, TypeOK
  <2>3. CASE i <= InRing
    BY <2>1, <2>2, <2>3, <1>2, <1>5
  <2>4. CASE i = InRing + 1
    <3>1. Slot(i - 1) = uWriteHead
      BY <2>4, <1>2, <1>4
    <3> QED
      BY <2>1, <2>2, <2>4, <1>2, <3>1
  <2> QED
    BY <1>2, <2>3, <2>4
<1>8. Contents' = [i \in 1 .. InRing + 1 |->
                      IF i <= InRing THEN pQueue[Slot(i - 1)] ELSE m]
  BY <1>2, <1>3, <1>7 DEF Contents
<1>9. Contents' = [i \in 1 .. Len(Contents) + 1 |->
                      IF i <= Len(Contents) THEN Contents[i] ELSE m]
  BY <1>2, <1>8, ContentsIsSeq
<1>10. Contents' \in Seq(Msg) /\ Len(Contents') = Len(Contents) + 1
  <2>1. Len(Contents) + 1 \in Nat
    BY <1>2, ContentsIsSeq
  <2>2. \A i \in 1 .. Len(Contents) + 1 :
            (IF i <= Len(Contents) THEN Contents[i] ELSE m) \in Msg
    BY <1>2, ContentsIsSeq
  <2> QED
    BY <1>9, <2>1, <2>2
<1>11. /\ Append(Contents, m) \in Seq(Msg)
       /\ Len(Append(Contents, m)) = Len(Contents) + 1
       /\ \A i \in 1 .. Len(Contents) + 1 :
              Append(Contents, m)[i]
                = IF i <= Len(Contents) THEN Contents[i] ELSE m
  BY <1>2, ContentsIsSeq, AppendProperties
<1>12. \A i \in 1 .. Len(Contents') : Contents'[i] = Append(Contents, m)[i]
  BY <1>9, <1>10, <1>11
<1> QED
  BY <1>2, <1>10, <1>11, <1>12, SeqEqual

\* Moving the read head drops the oldest message of the ring; wrapping it
\* changes nothing that is in the ring.
LEMMA MoveIsTail ==
    ASSUME IInv, IInv', DequeueMove
    PROVE  Contents # <<>> /\ Contents' = Tail(Contents)
<1> USE QueueAssumption
<1>1. InRing \in Nat \ {0} /\ InRing' = InRing - 1
  BY DEF IInv, TypeOK, HeldMessage, InRing, DequeueMove
<1>2. Contents # <<>>
  BY <1>1, ContentsIsSeq, EmptySeq
<1>3. /\ Tail(Contents) \in Seq(Msg)
      /\ Len(Tail(Contents)) = InRing - 1
      /\ \A i \in 1 .. InRing - 1 : Tail(Contents)[i] = pQueue[Slot(i)]
  <2>1. /\ Tail(Contents) \in Seq(Msg)
        /\ Len(Tail(Contents)) = InRing - 1
        /\ \A i \in 1 .. InRing - 1 : Tail(Contents)[i] = Contents[i + 1]
    BY <1>2, ContentsIsSeq, HeadTailProperties
  <2>2. \A i \in 1 .. InRing - 1 : Contents[i + 1] = pQueue[Slot(i)]
    <3> TAKE i \in 1 .. InRing - 1
    <3>1. i + 1 \in 1 .. InRing /\ (i + 1) - 1 = i
      BY <1>1
    <3>2. Contents[i + 1] = pQueue[Slot((i + 1) - 1)]
      BY <3>1, ContentsIsSeq
    <3> QED
      BY <3>1, <3>2
  <2> QED
    BY <2>1, <2>2
<1>4. \A i \in 1 .. InRing - 1 : Slot(i - 1)' = Slot(i)
  BY <1>1 DEF IInv, TypeOK, InRing, Slot, DequeueMove
<1>5. /\ Contents' \in Seq(Msg)
      /\ Len(Contents') = InRing - 1
      /\ \A i \in 1 .. InRing - 1 : Contents'[i] = pQueue'[Slot(i - 1)']
  <2>1. (/\ Contents \in Seq(Msg)
         /\ Len(Contents) = InRing
         /\ \A i \in 1 .. InRing : Contents[i] = pQueue[Slot(i - 1)])'
    BY ContentsIsSeq, PTL
  <2> QED
    BY <1>1, <2>1
<1>6. pQueue' = pQueue
  BY DEF DequeueMove
<1>7. \A i \in 1 .. Len(Contents') : Contents'[i] = Tail(Contents)[i]
  BY <1>3, <1>4, <1>5, <1>6
<1> QED
  BY <1>2, <1>3, <1>5, <1>7, SeqEqual

LEMMA WrapKeeps ==
    ASSUME IInv, DequeueWrap
    PROVE  Contents' = Contents
<1> USE QueueAssumption
<1>1. InRing' = InRing /\ InRing \in 0 .. Size - 1
  BY DEF IInv, TypeOK, InRing, DequeueWrap, Wrapped
<1>2. \A i \in 1 .. InRing : Slot(i - 1)' = Slot(i - 1)
  BY <1>1 DEF IInv, TypeOK, InRing, Slot, DequeueWrap, Wrapped
<1>3. pQueue' = pQueue
  BY DEF DequeueWrap
<1> QED
  BY <1>1, <1>2, <1>3 DEF Contents

\* The queue the FIFO specification sees, and one of its steps.
FifoQ == IF pc = "copied" THEN Tail(Contents) ELSE Contents
FifoStep == (\E m \in Msg : Fifo!Put(m)) \/ Fifo!Get \/ UNCHANGED <<FifoQ, pBuffer>>

\* Every step of the ring is a step of the FIFO or changes nothing it sees.
LEMMA StepSimulates ==
    ASSUME Burst <= 1, IInv, IInv', [Next]_vars
    PROVE  FifoStep
<1> USE DEF FifoStep
<1>1. CASE \E m \in Msg : os_enqueue(m)
  <2> PICK m \in Msg : os_enqueue(m)
    BY <1>1
  <2>1. InRing < Size - 1 /\ Contents' = Append(Contents, m)
    BY EnqueueAppends
  <2>2. pc' = pc /\ pBuffer' = pBuffer
    BY DEF os_enqueue
  <2>3. Contents \in Seq(Msg) /\ Len(Contents) = InRing /\ InRing \in Nat
    BY ContentsIsSeq, QueueAssumption
  <2>4. CASE pc = "copied"
    <3>1. Contents # <<>>
      BY <2>3, <2>4, EmptySeq DEF IInv, HeldMessage
    <3>2. /\ Tail(Contents) \in Seq(Msg)
          /\ Len(Tail(Contents)) = Len(Contents) - 1
      BY <2>3, <3>1, HeadTailProperties
    <3>3. Tail(Append(Contents, m)) = Append(Tail(Contents), m)
      BY <2>3, <3>1
    <3> QED
      BY <2>1, <2>2, <2>3, <2>4, <3>2, <3>3, QueueAssumption
      DEF FifoQ, Fifo!Put
  <2>5. CASE pc # "copied"
    BY <2>1, <2>2, <2>3, <2>5 DEF FifoQ, Fifo!Put
  <2> QED
    BY <2>4, <2>5
<1>2. CASE DequeueCopy
  <2>1. InRing \in Nat \ {0} /\ Slot(0) = uReadHead
    BY <1>2, QueueAssumption
    DEF DequeueCopy, Empty, IInv, TypeOK, InRing, Slot
  <2>2. Contents # <<>> /\ Contents[1] = pQueue[uReadHead]
    BY <2>1, ContentsIsSeq, EmptySeq
  <2>3. Contents' = Contents
    BY <1>2 DEF DequeueCopy, Contents, InRing, Slot
  <2> QED
    BY <1>2, <2>2, <2>3 DEF DequeueCopy, FifoQ, Fifo!Get
<1>3. CASE DequeueMove
  BY <1>3, MoveIsTail DEF DequeueMove, FifoQ
<1>4. CASE DequeueWrap
  BY <1>4, WrapKeeps DEF DequeueWrap, FifoQ
<1>5. CASE UNCHANGED vars
  BY <1>5 DEF vars, FifoQ, Contents, InRing, Slot
<1> QED
  BY <1>1, <1>2, <1>3, <1>4, <1>5 DEF Next

\* os/helper-queue.c implements the bounded FIFO for every ring size.
THEOREM ImplementsFifo == Burst <= 1 => (Spec => FifoSpec)
<1> SUFFICES ASSUME Burst <= 1 PROVE Spec => FifoSpec
  OBVIOUS
<1>1. Init => Fifo!Init
  <2> SUFFICES ASSUME Init PROVE Fifo!Init
    OBVIOUS
  <2>1. InRing = 0 /\ pc # "copied" /\ pBuffer \in Msg
    BY QueueAssumption DEF Init, InRing
  <2>2. Contents = <<>>
    BY <2>1 DEF Contents
  <2> QED
    BY <2>1, <2>2 DEF Fifo!Init
<1>2. IInv /\ IInv' /\ [Next]_vars
        => [Fifo!Next]_<<IF pc = "copied" THEN Tail(Contents) ELSE Contents, pBuffer>>
  BY StepSimulates DEF FifoStep, FifoQ, Fifo!Next
<1> QED
  BY <1>1, <1>2, InitIInv, NextIInv, PTL DEF Spec, FifoSpec, Fifo!Spec

============================================================================
