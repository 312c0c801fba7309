---------------------------- MODULE BoundedFifo ----------------------------
(***************************************************************************)
(* What the message queue of os/helper-queue.c promises its users: a FIFO  *)
(* of bounded capacity that refuses a message when it is full.             *)
(***************************************************************************)
EXTENDS Naturals, Sequences

CONSTANTS Msg, Capacity

VARIABLES q,    \* the messages accepted and not yet taken, oldest first
          got   \* the message taken last (any value before the first)

Init == q = <<>> /\ got \in Msg

Put(m) == /\ Len(q) < Capacity
          /\ q' = Append(q, m)
          /\ got' = got

Get == /\ q # <<>>
       /\ got' = q[1]
       /\ q' = Tail(q)

Next == (\E m \in Msg : Put(m)) \/ Get

Spec == Init /\ [][Next]_<<q, got>>

============================================================================
