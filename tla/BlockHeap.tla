------------------------------ MODULE BlockHeap -----------------------------
(***************************************************************************)
(* What the physical memory allocator promises its clients: every handle   *)
(* in use owns a run of units that no other handle owns, whatever is done   *)
(* to the other handles.                                                   *)
(***************************************************************************)
EXTENDS Integers

CONSTANTS HeapUnits,     \* number of units in the heap
          HeapHandles    \* the handles of the pool

VARIABLE owned           \* the units each handle owns

Run(a, n) == a .. (a + n - 1)

BlockInit == owned = [h \in HeapHandles |-> {}]

\* A free handle gets a run of units that nobody owns.
Give(h) ==
    /\ owned[h] = {}
    /\ \E n \in 1 .. HeapUnits : \E a \in 0 .. HeapUnits - n :
          /\ \A g \in HeapHandles : owned[g] \cap Run(a, n) = {}
          /\ owned' = [owned EXCEPT ![h] = Run(a, n)]

\* Its owner gives a run back.
TakeBack(h) == owned[h] # {} /\ owned' = [owned EXCEPT ![h] = {}]

\* The allocator is unloaded with everything it has given out.
Drop == owned' = [h \in HeapHandles |-> {}]

BlockNext == Drop \/ \E h \in HeapHandles : Give(h) \/ TakeBack(h)

BlockSpec == BlockInit /\ [][BlockNext]_owned
=============================================================================
