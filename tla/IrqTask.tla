------------------------------ MODULE IrqTask ------------------------------
(***************************************************************************)
(* One interrupt of os/os-interrupt.c with its deferred task, used the way *)
(* the audio decoder does (aud/aud_osi.c): init installs the handler and   *)
(* adds the task, close deletes the task and uninstalls the handler.  The  *)
(* handler posts messages and schedules the task; the task drains them in  *)
(* a bottom half.  One processor: the handler interrupts the bottom half   *)
(* and the process, the bottom half interrupts the process, but it may     *)
(* also be put off while the process goes on.                              *)
(***************************************************************************)
EXTENDS Naturals, Sequences

CONSTANTS
    Msg,        \* the messages of the handler
    QueueSize,  \* slots of the message queue; it holds one message less
    NULL

ASSUME IrqAssumption == QueueSize \in Nat /\ QueueSize > 1 /\ NULL \notin Seq(Msg)

VARIABLES
    irq,        \* the entry of _irq_tab
    queue,      \* its message queue, NULL while there is none
    tq,         \* the task stands on tq_immediate
    bh,         \* the bottom half: "idle", draining the queue, or on its way back
    pc,         \* where the process is
    uOpenFlag   \* the decoder is open

vars == <<irq, queue, tq, bh, pc, uOpenFlag>>

TypeOK ==
    /\ irq \in [uIrq : BOOLEAN, uTaskFlag : BOOLEAN, irq_task : BOOLEAN,
                enabled : BOOLEAN]
    /\ queue \in Seq(Msg) \cup {NULL}
    /\ queue # NULL => Len(queue) < QueueSize
    /\ tq \in BOOLEAN
    /\ bh \in {"idle", "drain", "return"}
    /\ pc \in {"user", "add", "delete", "delete queue", "uninstall"}
    /\ uOpenFlag \in BOOLEAN

\* os_irq_init.
Init ==
    /\ irq = [uIrq |-> FALSE, uTaskFlag |-> FALSE, irq_task |-> FALSE,
              enabled |-> TRUE]
    /\ queue = NULL
    /\ tq = FALSE
    /\ bh = "idle"
    /\ pc = "user"
    /\ uOpenFlag = FALSE

----------------------------------------------------------------------------
(* The handler and the bottom half.                                        *)

HandlerRuns == irq.uIrq /\ irq.enabled /\ irq.uTaskFlag

\* Mutant: the task is scheduled only for the first message.
ScheduleFirst(m) ==
    /\ HandlerRuns /\ queue # NULL /\ Len(queue) < QueueSize - 1
    /\ queue' = Append(queue, m)
    /\ tq' = (tq \/ (queue = <<>> /\ bh = "idle"))
    /\ UNCHANGED <<irq, bh, pc, uOpenFlag>>

\* os_call_irq_task within the handler: a full queue drops the message and
\* does not schedule the task.
os_call_irq_task(m) ==
    /\ HandlerRuns /\ queue # NULL /\ Len(queue) < QueueSize - 1
    /\ queue' = Append(queue, m)
    /\ tq' = TRUE
    /\ UNCHANGED <<irq, bh, pc, uOpenFlag>>

\* run_task_queue takes the task from the list, then calls os_standard_task.
os_standard_task ==
    /\ bh = "idle" /\ tq
    /\ tq' = FALSE
    /\ bh' = IF irq.irq_task THEN "drain" ELSE "idle"
    /\ UNCHANGED <<irq, queue, pc, uOpenFlag>>

\* Mutant: one message for each activation.
task_once ==
    /\ bh = "drain"
    /\ bh' = "return"
    /\ queue' = IF queue \in {NULL, <<>>} THEN queue ELSE Tail(queue)
    /\ UNCHANGED <<irq, tq, pc, uOpenFlag>>

\* aud_osi_task: one message after the other, until there is none ...
aud_osi_task ==
    /\ bh = "drain"
    /\ IF queue \in {NULL, <<>>} THEN bh' = "return" /\ queue' = queue
                                 ELSE bh' = bh /\ queue' = Tail(queue)
    /\ UNCHANGED <<irq, tq, pc, uOpenFlag>>

\* ... and its way back from the empty queue, which the handler may interrupt.
TaskReturns ==
    /\ bh = "return"
    /\ bh' = "idle"
    /\ UNCHANGED <<irq, queue, tq, pc, uOpenFlag>>

----------------------------------------------------------------------------
(* The process; it runs while the bottom half does not.                    *)

ProcessAt(l) == pc = l /\ bh = "idle"

\* os_install_irq, os_disable_irq; nothing when a handler is installed already,
\* no mutex can be created or the kernel refuses.
aud_osi_init ==
    /\ ProcessAt("user") /\ ~uOpenFlag
    /\ \/ /\ ~irq.uIrq
          /\ irq' = [irq EXCEPT !.uIrq = TRUE, !.uTaskFlag = FALSE,
                                !.enabled = FALSE]
          /\ pc' = "add"
       \/ UNCHANGED <<irq, pc>>
    /\ UNCHANGED <<queue, tq, bh, uOpenFlag>>

\* os_add_irq_task; without memory for the queue init fails.
os_add_irq_task ==
    /\ ProcessAt("add")
    /\ pc' = "user"
    /\ \/ /\ queue' = <<>>
          /\ irq' = [irq EXCEPT !.uTaskFlag = TRUE, !.irq_task = TRUE,
                                !.enabled = TRUE]
          /\ uOpenFlag' = TRUE
       \/ /\ irq' = [irq EXCEPT !.irq_task = FALSE]
          /\ queue' = NULL
          /\ UNCHANGED uOpenFlag
    /\ UNCHANGED <<tq, bh>>

aud_osi_close ==
    /\ ProcessAt("user") /\ uOpenFlag
    /\ irq' = [irq EXCEPT !.enabled = FALSE]
    /\ pc' = "delete"
    /\ UNCHANGED <<queue, tq, bh, uOpenFlag>>

\* Mutant: the task is deleted whatever is in its queue.
delete_unchecked ==
    /\ ProcessAt("delete")
    /\ irq' = [irq EXCEPT !.uTaskFlag = FALSE]
    /\ pc' = "delete queue"
    /\ UNCHANGED <<queue, tq, bh, uOpenFlag>>

\* os_delete_irq_task up to the end of its critical section: refused while
\* there are messages (the caller does not look), ...
os_delete_irq_task ==
    /\ ProcessAt("delete")
    /\ IF queue \notin {NULL, <<>>}
       THEN pc' = "uninstall" /\ irq' = irq
       ELSE pc' = "delete queue" /\ irq' = [irq EXCEPT !.uTaskFlag = FALSE]
    /\ UNCHANGED <<queue, tq, bh, uOpenFlag>>

\* ... and the rest of it.
DeleteQueue ==
    /\ ProcessAt("delete queue")
    /\ queue' = NULL
    /\ irq' = [irq EXCEPT !.irq_task = FALSE]
    /\ pc' = "uninstall"
    /\ UNCHANGED <<tq, bh, uOpenFlag>>

\* os_uninstall_irq refuses while the task is there; the decoder is closed.
os_uninstall_irq ==
    /\ ProcessAt("uninstall")
    /\ irq' = IF irq.uTaskFlag THEN irq ELSE [irq EXCEPT !.uIrq = FALSE]
    /\ uOpenFlag' = FALSE
    /\ pc' = "user"
    /\ UNCHANGED <<queue, tq, bh>>

Next ==
    \/ \E m \in Msg : os_call_irq_task(m)
    \/ os_standard_task \/ aud_osi_task \/ TaskReturns
    \/ aud_osi_init \/ os_add_irq_task
    \/ aud_osi_close \/ os_delete_irq_task \/ DeleteQueue \/ os_uninstall_irq

Spec == Init /\ [][Next]_vars

\* The bottom half runs when it was marked and ends as soon as it has caught up.
FairSpec == Spec /\ WF_vars(os_standard_task \/ aud_osi_task \/ TaskReturns)

----------------------------------------------------------------------------
\* No wake-up is lost: while there are messages the task is scheduled or at
\* work, whenever the handler interrupts it.
MessagesWakeTask == queue \notin {NULL, <<>>} => tq \/ bh = "drain"

\* A message os_call_irq_task has accepted leaves the queue through the task
\* only; deleting the task drops none.
AcceptedNotDropped ==
    [][queue \notin {NULL, <<>>} /\ queue' # queue
         => \/ \E m \in Msg : queue' = Append(queue, m)
            \/ bh = "drain" /\ queue' = Tail(queue)]_vars

\* Once the interrupt is disabled for good the queue runs empty.
ClosedDrains == (pc = "delete") ~> (queue \in {NULL, <<>>})

\* "remove irq handler": closing the decoder leaves no handler installed.
CloseUninstalls == [][os_uninstall_irq => ~irq'.uIrq]_vars

============================================================================
