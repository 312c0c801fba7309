--------------------------- MODULE DecoderProofs ---------------------------
(***************************************************************************)
(* A decoder and its interrupt.  The interrupt layer never loses a wake-up *)
(* of its deferred task and never drops a message it accepted, for every   *)
(* set of messages and every size of the message queue; and whenever no    *)
(* call is under way, the audio node and its decoder agree on what the     *)
(* user asked for, wherever the interrupt came between the accesses of the *)
(* calls before.                                                           *)
(***************************************************************************)
EXTENDS IrqTask, AudioDec, SequenceTheorems, TLAPS

-----------------------------------------------------------------------------
(* The interrupt and its task.                                              *)

NoMessage == queue \in {NULL, <<>>}

\* A queue exists only with the task that drains it, and only as long as the
\* handler can call that task or the task is just being deleted; what tells
\* the process how far it has got agrees with the interrupt's entry.
QueueHasTask == queue # NULL => irq.irq_task
QueueHasFlag == ~irq.uTaskFlag => queue = NULL \/ pc = "delete queue"
DeletingEmpty == pc = "delete queue" => ~irq.uTaskFlag /\ NoMessage
TaskHasHandler == ~irq.uIrq => ~irq.uTaskFlag
AddingFirst == pc = "add" => irq.uIrq /\ ~irq.uTaskFlag

\* The inductive invariant.
IInv == /\ TypeOK
        /\ MessagesWakeTask
        /\ QueueHasTask
        /\ QueueHasFlag
        /\ DeletingEmpty
        /\ TaskHasHandler
        /\ AddingFirst

\* A new queue is empty and has room.
LEMMA EmptyTyped == <<>> \in Seq(Msg) /\ Len(<<>>) < QueueSize
  BY IrqAssumption

USE IrqAssumption

\* TypeOK in two parts, one about the queue alone.
QueueTyped == /\ queue \in Seq(Msg) \cup {NULL}
              /\ queue # NULL => Len(queue) < QueueSize
FlagsTyped ==
    /\ irq \in [uIrq : BOOLEAN, uTaskFlag : BOOLEAN, irq_task : BOOLEAN,
                enabled : BOOLEAN]
    /\ tq \in BOOLEAN
    /\ bh \in {"idle", "drain", "return"}
    /\ pc \in {"user", "add", "delete", "delete queue", "uninstall"}
    /\ uOpenFlag \in BOOLEAN

LEMMA TypeParts == TypeOK <=> QueueTyped /\ FlagsTyped
  BY Zenon DEF TypeOK, QueueTyped, FlagsTyped

\* The invariant holds when os_irq_init has cleared the table.
LEMMA InitIInv == Init => IInv
<1> SUFFICES ASSUME Init PROVE IInv
  OBVIOUS
<1>1. QueueTyped
  BY DEF Init, QueueTyped
<1>2. FlagsTyped
  <2>1. irq \in [uIrq : BOOLEAN, uTaskFlag : BOOLEAN, irq_task : BOOLEAN,
                enabled : BOOLEAN]
    BY DEF Init
  <2> QED
    BY <2>1, Zenon DEF Init, FlagsTyped
<1>3. ~irq.uIrq /\ ~irq.uTaskFlag
  BY DEF Init
<1> QED
  BY <1>1, <1>2, <1>3, TypeParts
  DEF Init, IInv, MessagesWakeTask, QueueHasTask, QueueHasFlag,
      DeletingEmpty, NoMessage, TaskHasHandler, AddingFirst

\* os_call_irq_task keeps the queue's type: the message goes to the end of a
\* queue that had a slot to spare.
LEMMA CallTyped ==
  ASSUME QueueTyped, NEW m \in Msg, os_call_irq_task(m)
  PROVE  queue \in Seq(Msg) /\ queue' \in Seq(Msg) /\ Len(queue') < QueueSize
<1>1. queue \in Seq(Msg) /\ Len(queue) < QueueSize - 1
  BY DEF QueueTyped, os_call_irq_task
<1>2. queue' = Append(queue, m)
  BY DEF os_call_irq_task
<1> QED
  BY <1>1, <1>2

\* aud_osi_task takes the first message of a queue that has one.
LEMMA TaskTyped ==
  ASSUME QueueTyped, aud_osi_task, ~NoMessage
  PROVE  queue \in Seq(Msg) /\ queue' \in Seq(Msg) /\ Len(queue') < QueueSize
<1>1. queue \in Seq(Msg) /\ queue # <<>> /\ Len(queue) < QueueSize
  BY DEF QueueTyped, NoMessage
<1>2. queue' = Tail(queue)
  BY DEF aud_osi_task, NoMessage
<1> QED
  BY <1>1, <1>2

\* Every step of the handler, the bottom half or the process preserves the
\* invariant.
LEMMA NextIInv == IInv /\ [Next]_vars => IInv'
<1> SUFFICES ASSUME IInv, [Next]_vars PROVE IInv'
  OBVIOUS
<1>0. QueueTyped /\ FlagsTyped
  BY TypeParts DEF IInv
<1> USE DEF IInv, MessagesWakeTask, QueueHasTask, QueueHasFlag, DeletingEmpty,
            NoMessage, TaskHasHandler, AddingFirst
<1>1. ASSUME NEW m \in Msg, os_call_irq_task(m) PROVE IInv'
  <2>1. queue' \in Seq(Msg) /\ Len(queue') < QueueSize
    BY <1>0, <1>1, CallTyped
  <2>2. QueueTyped'
    BY <2>1 DEF QueueTyped
  <2>3. FlagsTyped'
    BY <1>0, <1>1, Zenon DEF FlagsTyped, os_call_irq_task
  <2>4. TypeOK'
    BY <2>2, <2>3, Zenon DEF TypeOK, QueueTyped, FlagsTyped
  <2>5. irq.uTaskFlag /\ queue # NULL /\ tq' = TRUE
    BY <1>1 DEF os_call_irq_task, HandlerRuns
  <2> QED
    BY <1>1, <2>4, <2>5 DEF os_call_irq_task
<1>2. CASE os_standard_task
  <2>1. TypeOK'
    BY <1>2 DEF TypeOK, os_standard_task
  <2> QED
    BY <1>2, <2>1 DEF os_standard_task, TypeOK
<1>3. CASE aud_osi_task
  <2>1. CASE NoMessage
    BY <1>3, <2>1 DEF aud_osi_task, TypeOK
  <2>2. CASE ~NoMessage
    <3>1. queue' \in Seq(Msg) /\ Len(queue') < QueueSize
      BY <1>0, <1>3, <2>2, TaskTyped
    <3>2. QueueTyped'
      BY <3>1 DEF QueueTyped
    <3>3. FlagsTyped'
      BY <1>0, <1>3, <2>2, Zenon DEF FlagsTyped, aud_osi_task
    <3>4. TypeOK'
      BY <3>2, <3>3, Zenon DEF TypeOK, QueueTyped, FlagsTyped
    <3> QED
      BY <1>3, <2>2, <3>4 DEF aud_osi_task
  <2> QED
    BY <2>1, <2>2
<1>4. CASE TaskReturns
  BY <1>4 DEF TaskReturns, TypeOK
<1>5. CASE aud_osi_init
  BY <1>5 DEF aud_osi_init, ProcessAt, TypeOK
<1>6. CASE os_add_irq_task
  <2>1. QueueTyped'
    <3>1. queue' = <<>> \/ queue' = NULL
      BY <1>6, Zenon DEF os_add_irq_task
    <3> QED
      BY <3>1, EmptyTyped DEF QueueTyped
  <2>2. FlagsTyped'
    <3>1. irq' \in [uIrq : BOOLEAN, uTaskFlag : BOOLEAN, irq_task : BOOLEAN,
                    enabled : BOOLEAN]
      BY <1>0, <1>6 DEF os_add_irq_task, FlagsTyped
    <3>2. uOpenFlag' \in BOOLEAN
      BY <1>0, <1>6, Zenon DEF os_add_irq_task, FlagsTyped
    <3> QED
      BY <1>0, <1>6, <3>1, <3>2, Zenon DEF os_add_irq_task, FlagsTyped
  <2>3. TypeOK'
    BY <2>1, <2>2, Zenon DEF TypeOK, QueueTyped, FlagsTyped
  <2> QED
    BY <1>0, <1>6, <2>3 DEF os_add_irq_task, ProcessAt, FlagsTyped
<1>7. CASE aud_osi_close
  BY <1>7 DEF aud_osi_close, ProcessAt, TypeOK
<1>8. CASE os_delete_irq_task
  BY <1>8 DEF os_delete_irq_task, ProcessAt, TypeOK
<1>9. CASE DeleteQueue
  BY <1>9 DEF DeleteQueue, ProcessAt, TypeOK
<1>10. CASE os_uninstall_irq
  BY <1>10 DEF os_uninstall_irq, ProcessAt, TypeOK
<1>11. CASE UNCHANGED vars
  BY <1>11 DEF vars, TypeOK
<1> QED
  BY <1>1, <1>2, <1>3, <1>4, <1>5, <1>6, <1>7, <1>8, <1>9, <1>10, <1>11 DEF Next

\* The interrupt's entry, the task's queue and the bottom half keep their
\* types; the queue never holds more than its size allows.
THEOREM TypeCorrect == Spec => []TypeOK
<1>1. IInv => TypeOK
  BY DEF IInv
<1> QED
  BY InitIInv, NextIInv, <1>1, PTL DEF Spec

\* No wake-up of the deferred task is lost, whenever the handler interrupts
\* the task, its creation or its deletion (os/os-interrupt.c).
THEOREM WakeUpNotLost == Spec => []MessagesWakeTask
<1>1. IInv => MessagesWakeTask
  BY DEF IInv
<1> QED
  BY InitIInv, NextIInv, <1>1, PTL DEF Spec

\* What may happen to a queue with messages in it.
Kept == queue \notin {NULL, <<>>} /\ queue' # queue
          => \/ \E m \in Msg : queue' = Append(queue, m)
             \/ bh = "drain" /\ queue' = Tail(queue)

LEMMA StepKeeps == IInv /\ [Next]_vars => Kept
<1> SUFFICES ASSUME IInv, [Next]_vars, ~NoMessage, queue' # queue
             PROVE  \/ \E m \in Msg : queue' = Append(queue, m)
                    \/ bh = "drain" /\ queue' = Tail(queue)
  BY Zenon DEF Kept, NoMessage
<1>1. ASSUME NEW m \in Msg, os_call_irq_task(m)
      PROVE  queue' = Append(queue, m)
  BY <1>1 DEF os_call_irq_task
<1>2. ASSUME aud_osi_task
      PROVE  bh = "drain" /\ queue' = Tail(queue)
  BY <1>2 DEF aud_osi_task, NoMessage
<1>3. ~os_add_irq_task
  BY DEF os_add_irq_task, ProcessAt, IInv, AddingFirst, QueueHasFlag, NoMessage
<1>4. ~DeleteQueue
  BY DEF DeleteQueue, ProcessAt, IInv, DeletingEmpty, NoMessage
<1>5. ~(\/ os_standard_task \/ TaskReturns \/ aud_osi_init \/ aud_osi_close
        \/ os_delete_irq_task \/ os_uninstall_irq \/ UNCHANGED vars)
  BY Zenon DEF os_standard_task, TaskReturns, aud_osi_init, aud_osi_close,
               os_delete_irq_task, os_uninstall_irq, vars
<1> QED
  BY <1>1, <1>2, <1>3, <1>4, <1>5, Zenon DEF Next

\* A message os_call_irq_task has accepted leaves its queue only through the
\* task: deleting or adding the task never throws one away.
THEOREM NothingDropped == Spec => AcceptedNotDropped
<1>1. IInv /\ [Next]_vars => [Kept]_vars
  BY StepKeeps
<1> QED
  BY InitIInv, NextIInv, <1>1, PTL DEF Spec, AcceptedNotDropped, Kept

HIDE IrqAssumption

-----------------------------------------------------------------------------
(* Lists.                                                                   *)

LEMMA ListsOfSteps ==
  ASSUME NEW S
  PROVE  /\ <<>> \in Seq(S)
         /\ \A s, t \in Seq(S) : s \o t \in Seq(S)
         /\ \A a \in S : <<a>> \in Seq(S)
         /\ \A a, b \in S : <<a, b>> \in Seq(S)
         /\ \A a, b, c \in S : <<a, b, c>> \in Seq(S)
         /\ \A a, b, c, d \in S : <<a, b, c, d>> \in Seq(S)
         /\ \A a, b, c, d, e \in S : <<a, b, c, d, e>> \in Seq(S)
         /\ \A s \in Seq(S) : s # <<>> => Head(s) \in S /\ Tail(s) \in Seq(S)
  OBVIOUS

LEMMA HeadIn ==
  ASSUME NEW S, NEW s \in Seq(S), s # <<>>
  PROVE  Head(s) \in S /\ Tail(s) \in Seq(S) /\ s = <<Head(s)>> \o Tail(s)
<1>1. Head(s) \in S /\ Tail(s) \in Seq(S) /\ Len(s) \in Nat \ {0}
  OBVIOUS
<1>2. PICK t : t = <<Head(s)>> \o Tail(s)
  OBVIOUS
<1>3. t \in Seq(S) /\ Len(t) = Len(s)
  BY <1>1, <1>2
<1>4. \A i \in 1 .. Len(s) : t[i] = s[i]
  BY <1>1, <1>2
<1>5. s = t
  BY <1>3, <1>4, SeqEqual
<1> QED BY <1>1, <1>2, <1>5, Zenon

LEMMA Fronted ==
  ASSUME NEW S, NEW h \in S, NEW u \in Seq(S)
  PROVE  /\ <<h>> \o u \in Seq(S) /\ <<h>> \o u # <<>>
         /\ Head(<<h>> \o u) = h /\ Tail(<<h>> \o u) = u
<1>1. PICK t : t = <<h>> \o u
  OBVIOUS
<1>2. t \in Seq(S) /\ Len(t) = Len(u) + 1 /\ t[1] = h /\ Len(u) \in Nat
      /\ \A i \in 1 .. Len(u) : t[i + 1] = u[i]
  BY <1>1
<1>3. t # <<>> /\ Head(t) = h
  BY <1>2
<1>4. Tail(t) \in Seq(S) /\ Len(Tail(t)) = Len(u) /\ \A i \in 1 .. Len(u) : Tail(t)[i] = u[i]
  BY <1>2, <1>3
<1>5. Tail(t) = u
  BY <1>4, SeqEqual
<1> QED BY <1>1, <1>2, <1>3, <1>5, Zenon

LEMMA Regrouped ==
  ASSUME NEW S, NEW a \in Seq(S), NEW b \in Seq(S), NEW c \in Seq(S)
  PROVE  (a \o b) \o c = a \o (b \o c)
<1>1. PICK l, m : l = (a \o b) \o c /\ m = a \o (b \o c)
  OBVIOUS
<1>2. l \in Seq(S) /\ m \in Seq(S) /\ Len(l) = Len(m)
  BY <1>1
<1>3. \A i \in 1 .. Len(l) : l[i] = m[i]
  BY <1>1, <1>2
<1>4. l = m
  BY <1>2, <1>3, SeqEqual
<1> QED BY <1>1, <1>4, Zenon

LEMMA Joined ==
  ASSUME NEW S, NEW a \in S, NEW b \in S, NEW r \in Seq(S)
  PROVE  <<a, b>> \o r = <<a>> \o (<<b>> \o r)
<1>1. PICK x, y : x = <<a>> /\ y = <<b>>
  OBVIOUS
<1>2. x \in Seq(S) /\ y \in Seq(S)
  BY <1>1
<1>3. <<a, b>> = x \o y
  <2>1. PICK l, m : l = <<a, b>> /\ m = x \o y
    OBVIOUS
  <2>2. l \in Seq(S) /\ m \in Seq(S) /\ Len(l) = 2 /\ Len(m) = 2
    BY <1>1, <2>1
  <2>3. l[1] = a /\ l[2] = b /\ m[1] = a /\ m[2] = b
    BY <1>1, <2>1
  <2>4. l = m
    BY <2>2, <2>3, SeqEqual
  <2> QED BY <2>1, <2>4
<1>4. (x \o y) \o r = x \o (y \o r)
  BY <1>2, Regrouped
<1> QED BY <1>1, <1>3, <1>4, Zenon

LEMMA JoinedThree ==
  ASSUME NEW S, NEW a \in S, NEW b \in S, NEW c \in S,
         NEW r \in Seq(S)
  PROVE  <<a, b, c>> \o r = <<a>> \o (<<b, c>> \o r)
<1>1. PICK l, x, y : l = <<a, b, c>> /\ x = <<a>> /\ y = <<b, c>>
  OBVIOUS
<1>2. x \in Seq(S) /\ y \in Seq(S) /\ r \in Seq(S)
  BY <1>1
<1>3. PICK m : m = x \o y
  OBVIOUS
<1>4. l \in Seq(S) /\ m \in Seq(S) /\ Len(l) = 3 /\ Len(m) = 3
  BY <1>1, <1>3
<1>5. \A i \in 1 .. 3 : l[i] = m[i]
  BY <1>1, <1>3
<1>6. l = m
  BY <1>4, <1>5, SeqEqual
<1>7. (x \o y) \o r = x \o (y \o r)
  BY <1>2, Regrouped
<1> QED BY <1>1, <1>3, <1>6, <1>7, Zenon

LEMMA SeqGrows ==
  ASSUME NEW S, NEW T, S \subseteq T, NEW s \in Seq(S) PROVE s \in Seq(T)
  OBVIOUS

LEMMA JoinedAt ==
  ASSUME NEW S, NEW a \in Seq(S), NEW b \in Seq(S), NEW c, c = a \o b
  PROVE  /\ c \in Seq(S) /\ Len(c) = Len(a) + Len(b) /\ Len(a) \in Nat /\ Len(b) \in Nat
         /\ \A i \in 1 .. Len(a) : c[i] = a[i]
         /\ \A i \in 1 .. Len(b) : c[Len(a) + i] = b[i]
<1>1. /\ c \in Seq(S) /\ Len(c) = Len(a) + Len(b) /\ Len(a) \in Nat /\ Len(b) \in Nat
      /\ \A i \in 1 .. Len(a) : c[i] = a[i]
      /\ \A i \in Len(a) + 1 .. Len(a) + Len(b) : c[i] = b[i - Len(a)]
  OBVIOUS
<1>2. ASSUME NEW i \in 1 .. Len(b) PROVE c[Len(a) + i] = b[i]
  <2>1. Len(a) + i \in Len(a) + 1 .. Len(a) + Len(b) /\ (Len(a) + i) - Len(a) = i
    BY <1>1
  <2> QED BY <1>1, <2>1
<1> QED BY <1>1, <1>2

\* A list one longer.
LEMMA OneMore ==
  ASSUME NEW S, NEW a \in Seq(S), NEW x \in S, NEW c, c = a \o <<x>>
  PROVE  /\ c \in Seq(S) /\ Len(c) = Len(a) + 1 /\ Len(a) \in Nat /\ c[Len(a) + 1] = x
         /\ \A i \in 1 .. Len(a) : c[i] = a[i]
<1>1. PICK b : b = <<x>>
  OBVIOUS
<1>2. b \in Seq(S) /\ Len(b) = 1 /\ b[1] = x
  BY <1>1
<1>3. c = a \o b
  BY <1>1, Zenon
<1>4. /\ c \in Seq(S) /\ Len(c) = Len(a) + Len(b) /\ Len(a) \in Nat
      /\ \A i \in 1 .. Len(a) : c[i] = a[i]
      /\ \A i \in 1 .. Len(b) : c[Len(a) + i] = b[i]
  <2>1. b \in Seq(S)
    BY <1>2
  <2> QED BY <1>3, <2>1, JoinedAt
<1>5. c[Len(a) + 1] = x
  <2>1. 1 \in 1 .. Len(b)
    BY <1>2
  <2> QED BY <1>2, <1>4, <2>1
<1> QED BY <1>2, <1>4, <1>5

USE AudAssumption

-----------------------------------------------------------------------------
(* The audio decoder: what its variables may be.                            *)

Ctrl0s == [type : Streams \cup {"none"}, clip : BOOLEAN, mix : BOOLEAN, sync : BOOLEAN]
Ctrl1s == [soft : BOOLEAN, channel : AudChannels]
Ctrl2s == [halt : BOOLEAN, mute : BOOLEAN, endian : {"default", "asked"}]
Dsrs == [master : BOOLEAN]
Dsps == [pcm : {"default", "asked"}, mix : {"default", "asked"}]
Chips == [sync : BOOLEAN]
AudRegs == [ctrl0 : Ctrl0s, ctrl1 : Ctrl1s, ctrl2 : Ctrl2s, dsr : Dsrs, dsp : Dsps, chip : Chips,
            vol : 0 .. AudVolMax, was : BOOLEAN,
            acc : {<<>>} \cup Ctrl0s \cup Ctrl1s \cup Ctrl2s \cup Dsrs \cup Dsps \cup Chips]
AudDs == [count : 0 .. 1, mixers : 0 .. 1, isrc : {-1, 0, 1}, open : BOOLEAN, irq : BOOLEAN,
          src : {"NO", "DEMUX", "MEMORY"}, state : {"STOPPED", "PLAYING"},
          stream : Streams \cup {"UNKNOWN", "bad"}, channel : AudChannels, sync : BOOLEAN,
          mute : BOOLEAN]

\* The steps of a call.
AudGets == [k : {"get"}, reg : {"ctrl0", "ctrl1", "ctrl2", "dsr", "dsp", "chip"}]
AudPuts ==
  UNION {[k : {"put"}, reg : {"ctrl0"}, field : {"sync", "clip"}, val : BOOLEAN],
         [k : {"put"}, reg : {"ctrl0"}, field : {"type"}, val : Streams],
         [k : {"put"}, reg : {"ctrl1"}, field : {"soft"}, val : BOOLEAN],
         [k : {"put"}, reg : {"ctrl1"}, field : {"channel"}, val : AudChannels],
         [k : {"put"}, reg : {"ctrl2"}, field : {"halt", "mute"}, val : BOOLEAN],
         [k : {"put"}, reg : {"ctrl2"}, field : {"endian"}, val : {"asked"}],
         [k : {"put"}, reg : {"dsr"}, field : {"master"}, val : BOOLEAN],
         [k : {"put"}, reg : {"dsp"}, field : {"pcm", "mix"}, val : {"asked"}],
         [k : {"put"}, reg : {"chip"}, field : {"sync"}, val : BOOLEAN]}
AudRecs ==
  UNION {[k : {"rec"}, field : {"mute", "sync"}, val : BOOLEAN],
         [k : {"rec"}, field : {"state"}, val : {"STOPPED", "PLAYING"}],
         [k : {"rec"}, field : {"src"}, val : {"NO", "DEMUX", "MEMORY"}],
         [k : {"rec"}, field : {"stream"}, val : {"PES", "PCM", "bad"}],
         [k : {"rec"}, field : {"channel"}, val : AudChannels],
         [k : {"rec"}, field : {"isrc"}, val : {0, 1}]}
AudMarks == [k : {"closed", "save", "ready", "words", "nosource", "create"}]
AudSteps == UNION {AudGets, AudPuts, AudRecs, AudMarks, [k : {"resync"}, reg : {"ctrl0", "chip"}]}

\* What is written was read just before; what is saved of the synchronisation
\* was too, and is then turned off.
Paired(c) ==
  /\ \A i \in 2 .. Len(c) : c[i].k = "put" => c[i - 1] = Get(c[i].reg) \/ c[i - 1].k = "save"
  /\ \A i \in 1 .. Len(c) : c[i].k = "save" =>
       /\ i < Len(c)
       /\ c[i + 1] \in {Put("ctrl0", "sync", FALSE), Put("chip", "sync", FALSE)}
       /\ i > 1 => c[i - 1] = Get(c[i + 1].reg)

\* The value read is the register's, as far as the handler leaves it alone.
FreshFor(x, r) ==
  /\ x = "ctrl0" => r.acc = r.ctrl0
  /\ x = "ctrl1" => r.acc \in Ctrl1s
  /\ x = "ctrl2" => r.acc \in Ctrl2s
  /\ x = "dsr" => r.acc \in Dsrs
  /\ x = "dsp" => r.acc \in Dsps
  /\ x = "chip" => r.acc \in Chips
MutingIn(c) == \E i \in 1 .. Len(c) : c[i].k = "rec" /\ c[i].field = "mute" /\ c[i].val
Loaded(c, d, r) ==
  /\ c # <<>> /\ c[1].k = "put" => FreshFor(c[1].reg, r)
  /\ c # <<>> /\ c[1].k = "put" /\ c[1].reg = "ctrl1" /\ (d.mute \/ MutingIn(c)) => r.acc = r.ctrl1
  /\ c # <<>> /\ c[1].k = "save" => FreshFor(c[2].reg, r)

\* Steps of the three parts of the statement.
SyncSteps == {x \in AudSteps : \/ x.k = "put" /\ x.reg = "ctrl0" /\ x.field = "sync"
                               \/ x.k = "rec" /\ x.field = "sync"
                               \/ x.k = "resync" /\ x.reg = "ctrl0"
                               \/ x.k = "ready"}
MuteSteps == {x \in AudSteps : \/ x.k = "put" /\ x.reg = "ctrl1" /\ x.field = "soft"
                               \/ x.k = "rec" /\ x.field = "mute"}
AudSourceSteps == {x \in AudSteps : \/ x.k = "put" /\ x.reg = "ctrl0" /\ x.field = "clip"
                                    \/ x.k = "rec" /\ x.field \in {"src", "isrc"}
                                    \/ x.k \in {"nosource", "create", "closed"}}
Straight == {x \in AudSteps : x.k \in {"get", "put", "rec"}}

\* The step that is k steps before the last.
FromEnd(c, k) == c[Len(c) - k]

\* Synchronisation is as recorded, or will be: a record is written after the
\* bit...
SyncRecorded(c, r) ==
  /\ c \in Seq(Straight) /\ c # <<>>
  /\ FromEnd(c, 0).k = "rec" /\ FromEnd(c, 0).field = "sync"
  /\ Len(c) > 1 => FromEnd(c, 1) = Put("ctrl0", "sync", FromEnd(c, 0).val)
  /\ Len(c) = 1 => r.ctrl0.sync = FromEnd(c, 0).val

\* ... and an access to PTS or STC that turned it off turns it on again.
Before(x, T) == {<<x>> \o t : t \in T}
Later == {<<>>, aud_atom_get_pts}
Answered == Before(Resync("ctrl0"), Later)
Asking == UNION {Answered, Before(Words, Answered), Before(Ready, Before(Words, Answered)),
                 Before(Ready, Before(Ready, Before(Words, Answered)))}
TurnedOff == Before(Put("ctrl0", "sync", FALSE), Asking)
SyncBorrowed(c, d, r) ==
  \/ c \in Before(Get("ctrl0"), Before([k |-> "save"], TurnedOff)) /\ r.ctrl0.sync = d.sync
  \/ c \in Before([k |-> "save"], TurnedOff) /\ r.ctrl0.sync = d.sync
  \/ c \in TurnedOff /\ r.was = d.sync
  \/ c \in Asking /\ r.was = d.sync /\ ~r.ctrl0.sync
  \/ c \in Before(Get("ctrl0"), Before(Put("ctrl0", "sync", TRUE), Later)) /\ d.sync
  \/ c \in Before(Put("ctrl0", "sync", TRUE), Later) /\ d.sync

SyncKept(c, d, r) ==
  \/ c \in Seq(AudSteps \ SyncSteps) /\ (d.count = 1 => r.ctrl0.sync = d.sync)
  \/ SyncRecorded(c, r)
  \/ SyncBorrowed(c, d, r)

\* What is muted is muted softly, or will be.
MuteKept(c, d, r) ==
  \/ c \in Seq(AudSteps \ MuteSteps) /\ (d.mute => r.ctrl1.soft)
  \/ /\ c \in Seq(Straight) /\ c # <<>> /\ FromEnd(c, 0) = Rec("mute", FALSE)
  \/ /\ c \in Seq(Straight) /\ c # <<>> /\ FromEnd(c, 0) = Rec("mute", TRUE)
     /\ Len(c) > 3 => FromEnd(c, 3) = Put("ctrl1", "soft", TRUE)
     /\ Len(c) <= 3 => r.ctrl1.soft
     /\ \A i \in 1 .. Len(c) : i > Len(c) - 3 => ~(c[i].k = "put" /\ c[i].reg = "ctrl1")

\* The source on record is the decoder's, or will be, or is given up.
Srcs(p) == IF p = 0 THEN "DEMUX" ELSE "MEMORY"
OfMemory(p) == p = 1
AudSourced(d, r) ==
  /\ d.src = CASE d.isrc = -1 -> "NO" [] d.isrc = 0 -> "DEMUX" [] OTHER -> "MEMORY"
  /\ r.ctrl0.clip = (d.src = "MEMORY")
Selecting(c, d, r, p) ==
  LET n == Len(c)
  IN  /\ c # <<>> /\ FromEnd(c, 0) = Rec("isrc", p)
      /\ IF n > 1 THEN FromEnd(c, 1) = Rec("src", Srcs(p)) ELSE d.src = Srcs(p)
      /\ p = 1 /\ n > 2 => FromEnd(c, 2) = [k |-> "create"]
      /\ IF n > 2 + p THEN FromEnd(c, 2 + p) = Put("ctrl0", "clip", OfMemory(p))
         ELSE r.ctrl0.clip = OfMemory(p)
      /\ n > 3 + p => FromEnd(c, 3 + p) = Get("ctrl0")
      /\ n > 4 + p => FromEnd(c, 4 + p) = [k |-> "nosource"]
      /\ n = 5 + p => d.src = "NO"
      /\ n > 5 + p => FromEnd(c, 5 + p) = Rec("src", "NO")
      /\ \A i \in 1 .. n : i < n - (5 + p) => c[i] \in Straight
SourceKept(c, d, r) ==
  \/ c \in Seq(AudSteps \ AudSourceSteps) /\ (d.count = 1 => AudSourced(d, r))
  \/ /\ c # <<>> /\ FromEnd(c, 0) = [k |-> "closed"]
     /\ \A i \in 1 .. Len(c) : i < Len(c) => c[i] \in Straight
  \/ \E p \in {0, 1} : Selecting(c, d, r, p)

AudKept(c, d, r) ==
  /\ c \in Seq(AudSteps) /\ Paired(c) /\ Loaded(c, d, r) /\ SyncKept(c, d, r) /\ MuteKept(c, d, r)
AudInv ==
  /\ aud \in AudDs /\ areg \in AudRegs /\ AudKept(acall, aud, areg)
  /\ Asked("fail") \/ SourceKept(acall, aud, areg)

\* What a list becomes when its first step has been taken.
LEMMA AudTail ==
  ASSUME NEW S, NEW c \in Seq(S), c # <<>>
  PROVE  /\ Tail(c) \in Seq(S) /\ Len(Tail(c)) = Len(c) - 1 /\ Len(c) \in Nat \ {0}
         /\ Head(c) = c[1] /\ c[1] \in S
         /\ \A i \in 1 .. Len(c) - 1 : Tail(c)[i] = c[i + 1]
         /\ \A k \in 0 .. Len(c) - 2 : FromEnd(Tail(c), k) = FromEnd(c, k)
<1>1. /\ Tail(c) \in Seq(S) /\ Len(Tail(c)) = Len(c) - 1 /\ Len(c) \in Nat \ {0}
      /\ Head(c) = c[1] /\ c[1] \in S
      /\ \A i \in 1 .. Len(c) - 1 : Tail(c)[i] = c[i + 1]
  OBVIOUS
<1>2. ASSUME NEW k \in 0 .. Len(c) - 2 PROVE FromEnd(Tail(c), k) = FromEnd(c, k)
  <2>1. (Len(c) - 1) - k \in 1 .. Len(c) - 1 /\ ((Len(c) - 1) - k) + 1 = Len(c) - k
    BY <1>1
  <2>2. PICK t : t = Tail(c)
    OBVIOUS
  <2>3. t[(Len(c) - 1) - k] = c[Len(c) - k]
    BY <1>1, <2>1, <2>2
  <2> QED BY <1>1, <2>2, <2>3 DEF FromEnd
<1> QED BY <1>1, <1>2

LEMMA PairedTail ==
  ASSUME NEW c \in Seq(AudSteps), c # <<>>, Paired(c) PROVE Paired(Tail(c))
<1>1. PICK t : t = Tail(c)
  OBVIOUS
<1>2. /\ Len(t) = Len(c) - 1 /\ Len(c) \in Nat \ {0}
      /\ \A i \in 1 .. Len(c) - 1 : t[i] = c[i + 1]
  BY <1>1, AudTail
<1>3. ASSUME NEW i \in 2 .. Len(t), t[i].k = "put" PROVE t[i - 1] = Get(t[i].reg) \/ t[i - 1].k = "save"
  <2>1. /\ i \in 1 .. Len(c) - 1 /\ i - 1 \in 1 .. Len(c) - 1 /\ i + 1 \in 2 .. Len(c)
        /\ (i - 1) + 1 = (i + 1) - 1
    BY <1>2
  <2>2. t[i] = c[i + 1] /\ t[i - 1] = c[(i + 1) - 1]
    BY <1>2, <2>1
  <2> QED BY <1>3, <2>1, <2>2 DEF Paired
<1>4. ASSUME NEW i \in 1 .. Len(t), t[i].k = "save"
      PROVE  /\ i < Len(t)
             /\ t[i + 1] \in {Put("ctrl0", "sync", FALSE), Put("chip", "sync", FALSE)}
             /\ i > 1 => t[i - 1] = Get(t[i + 1].reg)
  <2>0. PICK j : j = i + 1
    OBVIOUS
  <2>1. j \in 1 .. Len(c) /\ t[i] = c[j] /\ j > 1
    BY <1>2, <2>0
  <2>2. /\ j < Len(c)
        /\ c[j + 1] \in {Put("ctrl0", "sync", FALSE), Put("chip", "sync", FALSE)}
        /\ c[j - 1] = Get(c[j + 1].reg)
    BY <1>4, <2>1 DEF Paired
  <2>3. t[i + 1] = c[j + 1] /\ i < Len(t) /\ (i > 1 => t[i - 1] = c[j - 1])
    BY <1>2, <2>0, <2>2
  <2> QED BY <2>2, <2>3
<1>5. Paired(t)
  BY <1>3, <1>4 DEF Paired
<1> QED BY <1>1, <1>5, Zenon

\* A list that begins with its own reading.
Whole(c) == Paired(c) /\ (c # <<>> => c[1].k \notin {"put", "save"})

LEMMA WholeJoins ==
  ASSUME NEW a \in Seq(AudSteps), NEW b \in Seq(AudSteps), Whole(a), Whole(b)
  PROVE  Whole(a \o b)
<1>1. PICK c : c = a \o b
  OBVIOUS
<1>2. /\ Len(a) \in Nat /\ Len(b) \in Nat /\ Len(c) = Len(a) + Len(b)
      /\ \A i \in 1 .. Len(a) : c[i] = a[i]
      /\ \A i \in Len(a) + 1 .. Len(a) + Len(b) : c[i] = b[i - Len(a)]
  BY <1>1
<1>3. (a # <<>> <=> Len(a) > 0) /\ (b # <<>> <=> Len(b) > 0)
  OBVIOUS
<1>4. ASSUME NEW i \in 2 .. Len(c), c[i].k = "put" PROVE c[i - 1] = Get(c[i].reg) \/ c[i - 1].k = "save"
  <2>1. CASE i <= Len(a)
    <3>1. c[i] = a[i] /\ c[i - 1] = a[i - 1] /\ i \in 2 .. Len(a)
      BY <1>2, <2>1
    <3> QED BY <1>4, <3>1 DEF Whole, Paired
  <2>2. CASE i = Len(a) + 1
    <3>1. c[i] = b[1] /\ b # <<>>
      BY <1>2, <1>3, <2>2
    <3> QED BY <1>4, <3>1 DEF Whole
  <2>3. CASE i > Len(a) + 1
    <3>1. PICK j : j = i - Len(a)
      OBVIOUS
    <3>2. /\ i \in Len(a) + 1 .. Len(a) + Len(b) /\ i - 1 \in Len(a) + 1 .. Len(a) + Len(b)
          /\ (i - 1) - Len(a) = j - 1 /\ j \in 2 .. Len(b)
      BY <1>2, <2>3, <3>1
    <3>3. c[i] = b[j] /\ c[i - 1] = b[j - 1]
      BY <1>2, <3>1, <3>2
    <3> QED BY <1>4, <3>2, <3>3 DEF Whole, Paired
  <2> QED BY <1>2, <2>1, <2>2, <2>3
<1>5. ASSUME NEW i \in 1 .. Len(c), c[i].k = "save"
      PROVE  /\ i < Len(c)
             /\ c[i + 1] \in {Put("ctrl0", "sync", FALSE), Put("chip", "sync", FALSE)}
             /\ i > 1 => c[i - 1] = Get(c[i + 1].reg)
  <2>1. CASE i <= Len(a)
    <3>1. c[i] = a[i] /\ i \in 1 .. Len(a)
      BY <1>2, <2>1
    <3>2. /\ i < Len(a)
          /\ a[i + 1] \in {Put("ctrl0", "sync", FALSE), Put("chip", "sync", FALSE)}
          /\ i > 1 => a[i - 1] = Get(a[i + 1].reg)
      BY <1>5, <3>1 DEF Whole, Paired
    <3>3. c[i + 1] = a[i + 1] /\ (i > 1 => c[i - 1] = a[i - 1]) /\ i < Len(c)
      <4>1. i + 1 \in 1 .. Len(a) /\ (i > 1 => i - 1 \in 1 .. Len(a)) /\ i < Len(c)
        BY <1>2, <3>1, <3>2
      <4> QED BY <1>2, <4>1
    <3> QED BY <3>2, <3>3
  <2>2. CASE i = Len(a) + 1
    <3>1. c[i] = b[1] /\ b # <<>>
      BY <1>2, <1>3, <2>2
    <3> QED BY <1>5, <3>1 DEF Whole
  <2>3. CASE i > Len(a) + 1
    <3>1. PICK j : j = i - Len(a)
      OBVIOUS
    <3>2. /\ i \in Len(a) + 1 .. Len(a) + Len(b) /\ i - 1 \in Len(a) + 1 .. Len(a) + Len(b)
          /\ (i - 1) - Len(a) = j - 1 /\ (i + 1) - Len(a) = j + 1 /\ j \in 1 .. Len(b) /\ j > 1
      BY <1>2, <2>3, <3>1
    <3>5. c[i] = b[j] /\ c[i - 1] = b[j - 1]
      BY <1>2, <3>1, <3>2
    <3>3. /\ j < Len(b)
          /\ b[j + 1] \in {Put("ctrl0", "sync", FALSE), Put("chip", "sync", FALSE)}
          /\ b[j - 1] = Get(b[j + 1].reg)
      BY <1>5, <3>2, <3>5 DEF Whole, Paired
    <3>6. i + 1 \in Len(a) + 1 .. Len(a) + Len(b) /\ i < Len(c)
      BY <1>2, <3>1, <3>2, <3>3
    <3>4. c[i + 1] = b[j + 1]
      BY <1>2, <3>2, <3>6
    <3> QED BY <3>3, <3>4, <3>5, <3>6
  <2>4. i <= Len(a) \/ i = Len(a) + 1 \/ i > Len(a) + 1
    BY <1>2
  <2> QED BY <2>1, <2>2, <2>3, <2>4, Zenon
<1>6. c # <<>> => c[1].k \notin {"put", "save"}
  <2>1. CASE a # <<>>
    BY <1>2, <1>3, <2>1 DEF Whole
  <2>2. CASE a = <<>>
    <3>1. c # <<>> => c[1] = b[1] /\ b # <<>>
      BY <1>2, <1>3, <2>2
    <3> QED BY <3>1 DEF Whole
  <2> QED BY <2>1, <2>2
<1>7. Whole(c)
  BY <1>4, <1>5, <1>6 DEF Whole, Paired
<1> QED BY <1>1, <1>7, Zenon

\* What is left after a step that is no reading and no saving.
LEMMA WholeTail ==
  ASSUME NEW c \in Seq(AudSteps), c # <<>>, Paired(c), c[1].k \notin {"get", "save"}
  PROVE  Whole(Tail(c))
<1>1. PICK t : t = Tail(c)
  OBVIOUS
<1>2. /\ Len(t) = Len(c) - 1 /\ Len(c) \in Nat \ {0} /\ t \in Seq(AudSteps)
      /\ \A i \in 1 .. Len(c) - 1 : t[i] = c[i + 1]
  BY <1>1, AudTail
<1>3. ASSUME t # <<>> PROVE t[1].k \notin {"put", "save"}
  <2>1. t[1] = c[2] /\ 2 \in 2 .. Len(c) /\ 2 \in 1 .. Len(c) /\ 2 - 1 = 1 /\ 2 > 1
    BY <1>2, <1>3
  <2>2. ASSUME c[2].k = "put" PROVE FALSE
    <3>1. c[1] = Get(c[2].reg) \/ c[1].k = "save"
      BY <2>1, <2>2 DEF Paired
    <3> QED BY <3>1 DEF Get
  <2>3. ASSUME c[2].k = "save" PROVE FALSE
    <3>1. c[1] = Get(c[2 + 1].reg)
      BY <2>1, <2>3 DEF Paired
    <3> QED BY <3>1 DEF Get
  <2> QED BY <2>1, <2>2, <2>3
<1>4. Whole(t)
  BY <1>1, <1>3, PairedTail, Zenon DEF Whole
<1> QED BY <1>1, <1>4, Zenon

LEMMA WholeNone == Whole(<<>>)
  BY DEF Whole, Paired

LEMMA WholeOne == ASSUME NEW x, x.k \notin {"put", "save"} PROVE Whole(<<x>>)
<1>1. PICK c : c = <<x>>
  OBVIOUS
<1>2. Len(c) = 1 /\ c[1] = x
  BY <1>1
<1>3. Whole(c)
  BY <1>2 DEF Whole, Paired
<1> QED BY <1>1, <1>3, Zenon

LEMMA WholeModified == ASSUME NEW x, NEW f, NEW v PROVE Whole(Modified(x, f, v))
<1>1. PICK g, p : g = Get(x) /\ p = Put(x, f, v)
  OBVIOUS
<1>2. g.k = "get" /\ p.k = "put" /\ p.reg = x
  BY <1>1 DEF Get, Put
<1>3. PICK c : c = <<g, p>>
  OBVIOUS
<1>4. Len(c) = 2 /\ c[1] = g /\ c[2] = p
  BY <1>3
<1>5. \A i \in 2 .. Len(c) : c[i].k = "put" => c[i - 1] = Get(c[i].reg) \/ c[i - 1].k = "save"
  <2>1. \A i \in 2 .. Len(c) : i = 2 /\ i - 1 = 1
    BY <1>4
  <2> QED BY <1>1, <1>2, <1>4, <2>1
<1>6. \A i \in 1 .. Len(c) : c[i].k # "save"
  <2>1. \A i \in 1 .. Len(c) : i = 1 \/ i = 2
    BY <1>4
  <2> QED BY <1>2, <1>4, <2>1
<1>7. Whole(c)
  BY <1>2, <1>4, <1>5, <1>6 DEF Whole, Paired
<1> QED BY <1>1, <1>3, <1>7, Zenon DEF Modified

-----------------------------------------------------------------------------
(* The lists that calls are made of.                                        *)

\* The steps that change nothing of what is claimed.
Harmless == AudSteps \ UNION {SyncSteps, MuteSteps, AudSourceSteps}

LEMMA StepsAreKinds ==
  ASSUME NEW x \in AudSteps
  PROVE  /\ x.k \in {"get", "put", "rec", "closed", "save", "ready", "words", "nosource", "create",
                     "resync"}
         /\ x.k = "get" => x \in AudGets
         /\ x.k = "put" => x \in AudPuts
         /\ x.k = "rec" => x \in AudRecs
         /\ x.k \in {"closed", "save", "ready", "words", "nosource", "create"} => x \in AudMarks
         /\ x.k = "resync" => x.reg \in {"ctrl0", "chip"}
  BY DEF AudSteps, AudGets, AudPuts, AudRecs, AudMarks

LEMMA GetsAre ==
  ASSUME NEW x \in {"ctrl0", "ctrl1", "ctrl2", "dsr", "dsp", "chip"}
  PROVE  Get(x) \in AudSteps /\ Get(x) \in Straight /\ Get(x) \in Harmless
<1>1. Get(x) \in AudSteps /\ Get(x).k = "get"
  BY DEF Get, AudGets, AudSteps
<1> QED BY <1>1 DEF Straight, Harmless, SyncSteps, MuteSteps, AudSourceSteps

LEMMA MarksAre ==
  /\ \A y \in {"closed", "save", "ready", "words", "nosource", "create"} : [k |-> y] \in AudSteps
  /\ [k |-> "save"] \in Harmless /\ Words \in Harmless /\ Words \in AudSteps /\ Ready \in AudSteps
  /\ Resync("ctrl0") \in AudSteps /\ Resync("chip") \in Harmless /\ Resync("chip") \in AudSteps
<1>1. \A y \in {"closed", "save", "ready", "words", "nosource", "create"} :
        [k |-> y] \in AudSteps /\ [k |-> y].k = y
  BY DEF AudMarks, AudSteps
<1>2. \A x \in {"ctrl0", "chip"} : Resync(x) \in AudSteps /\ Resync(x).k = "resync" /\ Resync(x).reg = x
  BY DEF Resync, AudSteps
<1>3. \A y \in {"save", "words"} : [k |-> y] \in Harmless
  BY <1>1 DEF Harmless, SyncSteps, MuteSteps, AudSourceSteps
<1>4. Resync("chip") \in Harmless
  BY <1>2 DEF Harmless, SyncSteps, MuteSteps, AudSourceSteps
<1> QED BY <1>1, <1>2, <1>3, <1>4 DEF Words, Ready

LEMMA PutsAre ==
  /\ \A b \in BOOLEAN : /\ Put("ctrl0", "sync", b) \in AudPuts /\ Put("ctrl0", "clip", b) \in AudPuts
                        /\ Put("ctrl1", "soft", b) \in AudPuts /\ Put("ctrl2", "mute", b) \in AudPuts
                        /\ Put("ctrl2", "halt", b) \in AudPuts /\ Put("dsr", "master", b) \in AudPuts
                        /\ Put("chip", "sync", b) \in AudPuts
  /\ \A s \in Streams : Put("ctrl0", "type", s) \in AudPuts
  /\ \A c \in AudChannels : Put("ctrl1", "channel", c) \in AudPuts
  /\ Put("ctrl2", "endian", "asked") \in AudPuts /\ Put("dsp", "pcm", "asked") \in AudPuts
  /\ Put("dsp", "mix", "asked") \in AudPuts
  BY DEF Put, AudPuts

LEMMA PutsAreSteps ==
  ASSUME NEW x, NEW f, NEW v, Put(x, f, v) \in AudPuts
  PROVE  /\ Put(x, f, v) \in AudSteps /\ Put(x, f, v) \in Straight
         /\ Put(x, f, v).k = "put" /\ Put(x, f, v).reg = x /\ Put(x, f, v).field = f
         /\ Put(x, f, v).val = v
<1>1. Put(x, f, v) \in AudSteps
  BY DEF AudSteps
<1>2. /\ Put(x, f, v).k = "put" /\ Put(x, f, v).reg = x /\ Put(x, f, v).field = f
      /\ Put(x, f, v).val = v
  BY DEF Put
<1> QED BY <1>1, <1>2 DEF Straight

LEMMA RecsAre ==
  /\ \A b \in BOOLEAN : Rec("mute", b) \in AudRecs /\ Rec("sync", b) \in AudRecs
  /\ \A s \in {"STOPPED", "PLAYING"} : Rec("state", s) \in AudRecs
  /\ \A s \in {"NO", "DEMUX", "MEMORY"} : Rec("src", s) \in AudRecs
  /\ \A s \in {"PES", "PCM", "bad"} : Rec("stream", s) \in AudRecs
  /\ \A c \in AudChannels : Rec("channel", c) \in AudRecs
  /\ \A p \in {0, 1} : Rec("isrc", p) \in AudRecs
  BY DEF Rec, AudRecs

LEMMA RecsAreSteps ==
  ASSUME NEW f, NEW v, Rec(f, v) \in AudRecs
  PROVE  /\ Rec(f, v) \in AudSteps /\ Rec(f, v) \in Straight
         /\ Rec(f, v).k = "rec" /\ Rec(f, v).field = f /\ Rec(f, v).val = v
<1>1. Rec(f, v) \in AudSteps
  BY DEF AudSteps
<1>2. Rec(f, v).k = "rec" /\ Rec(f, v).field = f /\ Rec(f, v).val = v
  BY DEF Rec
<1> QED BY <1>1, <1>2 DEF Straight

LEMMA BeforeStep ==
  ASSUME NEW S, NEW T, T \subseteq Seq(S), NEW x \in S
  PROVE  /\ Before(x, T) \subseteq Seq(S)
         /\ \A c \in Before(x, T) : c # <<>> /\ c[1] = x /\ Head(c) = x /\ Tail(c) \in T
         /\ \A t \in T : <<x>> \o t \in Before(x, T)
<1>1. ASSUME NEW c \in Before(x, T)
      PROVE  c \in Seq(S) /\ c # <<>> /\ c[1] = x /\ Head(c) = x /\ Tail(c) \in T
  <2>1. PICK t \in T : c = <<x>> \o t
    BY DEF Before
  <2>2. t \in Seq(S)
    OBVIOUS
  <2>3. <<x>> \o t \in Seq(S) /\ <<x>> \o t # <<>> /\ Head(<<x>> \o t) = x /\ Tail(<<x>> \o t) = t
    BY <2>2, Fronted
  <2>4. c \in Seq(S) /\ c # <<>> /\ Head(c) = x /\ Tail(c) = t
    BY <2>1, <2>3, Zenon
  <2>5. c[1] = Head(c)
    BY <2>4
  <2> QED BY <2>4, <2>5
<1>2. \A t \in T : <<x>> \o t \in Before(x, T)
  BY DEF Before
<1> QED BY <1>1, <1>2

LEMMA BeforeHas ==
  ASSUME NEW S, NEW T, T \in SUBSET Seq(S), NEW x \in S, NEW l \in Before(x, T)
  PROVE  l \in Seq(S) /\ l # <<>> /\ l[1] = x /\ Tail(l) \in T
<1>1. T \subseteq Seq(S)
  OBVIOUS
<1>2. PICK t \in T : l = <<x>> \o t
  BY DEF Before
<1>3. t \in Seq(S)
  BY <1>1
<1>4. <<x>> \o t \in Seq(S) /\ <<x>> \o t # <<>> /\ Head(<<x>> \o t) = x /\ Tail(<<x>> \o t) = t
  BY <1>3, Fronted
<1>5. l \in Seq(S) /\ l # <<>> /\ Head(l) = x /\ Tail(l) = t
  BY <1>2, <1>4, Zenon
<1>6. l[1] = Head(l)
  BY <1>5
<1> QED BY <1>5, <1>6, Zenon

LEMMA FrontedAt ==
  ASSUME NEW S, NEW h \in S, NEW u \in Seq(S), NEW t, t = <<h>> \o u
  PROVE  t \in Seq(S) /\ Len(t) = Len(u) + 1 /\ t[1] = h /\ \A i \in 1 .. Len(u) : t[i + 1] = u[i]
  OBVIOUS

\* A list, step by step.
LEMMA SpelledThree ==
  ASSUME NEW S, NEW a \in S, NEW b \in S, NEW c \in S, NEW r \in Seq(S)
  PROVE  <<a, b, c>> \o r = <<a>> \o (<<b>> \o (<<c>> \o r))
<1>1. <<a, b, c>> \o r = <<a>> \o (<<b, c>> \o r)
  BY JoinedThree, SMTT(20)
<1>2. <<b, c>> \o r = <<b>> \o (<<c>> \o r)
  BY Joined, SMTT(20)
<1> QED BY <1>1, <1>2, Zenon

LEMMA SpelledFour ==
  ASSUME NEW S, NEW a \in S, NEW b \in S, NEW c \in S, NEW d \in S
  PROVE  <<a, b, c, d>> = <<a>> \o (<<b>> \o (<<c>> \o (<<d>> \o <<>>)))
<1>1. PICK l, m : l = <<a, b, c, d>> /\ m = <<a>> \o (<<b>> \o (<<c>> \o (<<d>> \o <<>>)))
  OBVIOUS
<1>2. PICK n : n = <<c>> \o (<<d>> \o <<>>)
  OBVIOUS
<1>3. n \in Seq(S) /\ Len(n) = 2 /\ n[1] = c /\ n[2] = d
  BY <1>2
<1>4. m = <<a>> \o (<<b>> \o n)
  BY <1>1, <1>2, Zenon
<1>5. PICK o : o = <<b>> \o n
  OBVIOUS
<1>12. o \in Seq(S) /\ Len(o) = Len(n) + 1 /\ o[1] = b /\ \A i \in 1 .. Len(n) : o[i + 1] = n[i]
  <2>1. n \in Seq(S)
    BY <1>3
  <2> QED BY <1>5, <2>1, FrontedAt
<1>6. o \in Seq(S) /\ Len(o) = 3 /\ o[1] = b /\ o[2] = c /\ o[3] = d
  <2>1. 1 \in 1 .. Len(n) /\ 2 \in 1 .. Len(n) /\ 1 + 1 = 2 /\ 2 + 1 = 3
    BY <1>3
  <2> QED BY <1>3, <1>12, <2>1
<1>7. m = <<a>> \o o
  BY <1>4, <1>5, Zenon
<1>13. m \in Seq(S) /\ Len(m) = Len(o) + 1 /\ m[1] = a /\ \A i \in 1 .. Len(o) : m[i + 1] = o[i]
  <2>1. o \in Seq(S)
    BY <1>6
  <2> QED BY <1>7, <2>1, FrontedAt
<1>8. m \in Seq(S) /\ Len(m) = 4 /\ m[1] = a /\ m[2] = b /\ m[3] = c /\ m[4] = d
  <2>1. /\ 1 \in 1 .. Len(o) /\ 2 \in 1 .. Len(o) /\ 3 \in 1 .. Len(o)
        /\ 1 + 1 = 2 /\ 2 + 1 = 3 /\ 3 + 1 = 4
    BY <1>6
  <2> QED BY <1>6, <1>13, <2>1
<1>9. l \in Seq(S) /\ Len(l) = 4 /\ l[1] = a /\ l[2] = b /\ l[3] = c /\ l[4] = d
  BY <1>1
<1>10. \A i \in 1 .. 4 : i = 1 \/ i = 2 \/ i = 3 \/ i = 4
  OBVIOUS
<1>11. l = m
  BY <1>8, <1>9, <1>10, SeqEqual
<1> QED BY <1>1, <1>11, Zenon

\* Accesses to PTS and STC touch neither the mute nor the source.
Clocked == AudSteps \ (MuteSteps \cup AudSourceSteps)

LEMMA ClockedAre ==
  /\ Get("ctrl0") \in Clocked /\ [k |-> "save"] \in Clocked
  /\ \A b \in BOOLEAN : Put("ctrl0", "sync", b) \in Clocked
  /\ Ready \in Clocked /\ Words \in Clocked /\ Resync("ctrl0") \in Clocked
<1>1. Get("ctrl0") \in Clocked /\ [k |-> "save"] \in Clocked /\ Words \in Clocked
  BY GetsAre, MarksAre DEF Clocked, Harmless
<1>2. \A b \in BOOLEAN : Put("ctrl0", "sync", b) \in Clocked
  <2> SUFFICES ASSUME NEW b \in BOOLEAN PROVE Put("ctrl0", "sync", b) \in Clocked
    OBVIOUS
  <2>1. PICK x : x = Put("ctrl0", "sync", b)
    OBVIOUS
  <2>2. x \in AudSteps /\ x.k = "put" /\ x.reg = "ctrl0" /\ x.field = "sync"
    BY <2>1, PutsAre, PutsAreSteps
  <2> QED BY <2>1, <2>2 DEF Clocked, MuteSteps, AudSourceSteps
<1>3. Ready \in Clocked
  <2>1. Ready \in AudSteps /\ Ready.k = "ready"
    BY MarksAre DEF Ready
  <2> QED BY <2>1 DEF Clocked, MuteSteps, AudSourceSteps
<1>4. Resync("ctrl0") \in Clocked
  <2>1. Resync("ctrl0") \in AudSteps /\ Resync("ctrl0").k = "resync"
    BY MarksAre DEF Resync
  <2> QED BY <2>1 DEF Clocked, MuteSteps, AudSourceSteps
<1> QED BY <1>1, <1>2, <1>3, <1>4

LEMMA PtsSpelled ==
  aud_atom_get_pts =
    <<Get("ctrl0")>> \o (<<[k |-> "save"]>> \o (<<Put("ctrl0", "sync", FALSE)>> \o
      (<<Ready>> \o (<<Ready>> \o (<<Words>> \o (<<Resync("ctrl0")>> \o <<>>))))))
<1>1. PICK S, g, s, p, e, w, z :
        /\ S = Clocked /\ g = Get("ctrl0") /\ s = [k |-> "save"] /\ p = Put("ctrl0", "sync", FALSE)
        /\ e = Ready /\ w = Words /\ z = Resync("ctrl0")
  OBVIOUS
<1>2. g \in S /\ s \in S /\ p \in S /\ e \in S /\ w \in S /\ z \in S
  BY <1>1, ClockedAre
<1>3. aud_atom_get_pts = <<g, s, p>> \o <<e, e, w, z>>
  BY <1>1, Zenon DEF aud_atom_get_pts, aud_atom_sync_off
<1>4. PICK h : h = e
  OBVIOUS
<1>5. <<e, h, w, z>> = <<e>> \o (<<h>> \o (<<w>> \o (<<z>> \o <<>>)))
  <2>1. e \in S /\ h \in S /\ w \in S /\ z \in S
    BY <1>2, <1>4
  <2> QED BY <2>1, SpelledFour, SMTT(20)
<1>6. PICK r : r = <<e, e, w, z>>
  OBVIOUS
<1>7. r \in Seq(S)
  BY <1>2, <1>6
<1>8. <<g, s, p>> \o r = <<g>> \o (<<s>> \o (<<p>> \o r))
  <2>1. g \in S /\ s \in S /\ p \in S /\ r \in Seq(S)
    BY <1>2, <1>7
  <2> QED BY <2>1, SpelledThree, SMTT(20)
<1>9. r = <<e>> \o (<<e>> \o (<<w>> \o (<<z>> \o <<>>)))
  BY <1>4, <1>5, <1>6, Zenon
<1>10. aud_atom_get_pts = <<g>> \o (<<s>> \o (<<p>> \o (<<e>> \o (<<e>> \o (<<w>> \o (<<z>> \o <<>>))))))
  BY <1>3, <1>6, <1>8, <1>9, Zenon
<1> QED BY <1>1, <1>10, Zenon

LEMMA BeforeJoins ==
  ASSUME NEW S, NEW T, T \subseteq Seq(S), NEW U, NEW x \in S, NEW r \in Seq(S),
         \A t \in T : t \o r \in U
  PROVE  \A c \in Before(x, T) : c \o r \in Before(x, U)
<1> SUFFICES ASSUME NEW c \in Before(x, T) PROVE c \o r \in Before(x, U)
  OBVIOUS
<1>1. PICK t \in T : c = <<x>> \o t
  BY DEF Before
<1>2. PICK y : y = <<x>>
  OBVIOUS
<1>3. y \in Seq(S) /\ t \in Seq(S)
  BY <1>2
<1>4. (y \o t) \o r = y \o (t \o r)
  BY <1>3, Regrouped
<1>5. c \o r = <<x>> \o (t \o r)
  BY <1>1, <1>2, <1>4, Zenon
<1> QED BY <1>1, <1>5 DEF Before

\* Lists of steps that neither write nor save begin with no writing.
Dry == {x \in AudSteps : x.k \notin {"put", "save"}}

LEMMA DryIsWhole == ASSUME NEW c \in Seq(Dry) PROVE Whole(c)
<1>1. \A i \in 1 .. Len(c) : c[i].k \notin {"put", "save"}
  BY DEF Dry
<1>2. c # <<>> => 1 \in 1 .. Len(c)
  OBVIOUS
<1>3. \A i \in 2 .. Len(c) : i \in 1 .. Len(c)
  OBVIOUS
<1> QED BY <1>1, <1>2, <1>3 DEF Whole, Paired

LEMMA WholeOff ==
  ASSUME NEW x \in {"ctrl0", "chip"} PROVE Whole(<<Get(x), [k |-> "save"], Put(x, "sync", FALSE)>>)
<1>1. PICK g, s, p : g = Get(x) /\ s = [k |-> "save"] /\ p = Put(x, "sync", FALSE)
  OBVIOUS
<1>2. g.k = "get" /\ s.k = "save" /\ p.k = "put" /\ p.reg = x
  BY <1>1 DEF Get, Put
<1>3. PICK c : c = <<g, s, p>>
  OBVIOUS
<1>4. Len(c) = 3 /\ c[1] = g /\ c[2] = s /\ c[3] = p
  BY <1>3
<1>5. \A i \in 2 .. Len(c) : c[i].k = "put" => c[i - 1] = Get(c[i].reg) \/ c[i - 1].k = "save"
  <2>1. \A i \in 2 .. Len(c) : (i = 2 \/ i = 3) /\ (i = 3 => i - 1 = 2)
    BY <1>4
  <2> QED BY <1>2, <1>4, <2>1
<1>6. ASSUME NEW i \in 1 .. Len(c), c[i].k = "save"
      PROVE  /\ i < Len(c)
             /\ c[i + 1] \in {Put("ctrl0", "sync", FALSE), Put("chip", "sync", FALSE)}
             /\ i > 1 => c[i - 1] = Get(c[i + 1].reg)
  <2>1. i = 1 \/ i = 2 \/ i = 3
    BY <1>4
  <2>2. i = 2 /\ i + 1 = 3 /\ i - 1 = 1 /\ i < Len(c)
    BY <1>2, <1>4, <1>6, <2>1
  <2>3. p \in {Put("ctrl0", "sync", FALSE), Put("chip", "sync", FALSE)} /\ g = Get(p.reg)
    BY <1>1, <1>2
  <2> QED BY <1>4, <2>2, <2>3
<1>7. Whole(c)
  BY <1>2, <1>4, <1>5, <1>6 DEF Whole, Paired
<1> QED BY <1>1, <1>3, <1>7, Zenon

LEMMA DryMarks ==
  /\ Ready \in Dry /\ Words \in Dry /\ [k |-> "closed"] \in Dry
  /\ [k |-> "nosource"] \in Dry /\ [k |-> "create"] \in Dry
  /\ Resync("ctrl0") \in Dry /\ Resync("chip") \in Dry
<1>1. /\ Ready.k = "ready" /\ Words.k = "words" /\ Resync("ctrl0").k = "resync"
      /\ Resync("chip").k = "resync"
  BY DEF Ready, Words, Resync
<1> QED BY <1>1, MarksAre DEF Dry

\* The forms an access to PTS or STC takes.
LEMMA FormsAreLists ==
  /\ aud_atom_get_pts \in Seq(Clocked) /\ Later \subseteq Seq(Clocked)
  /\ Answered \subseteq Seq(Clocked) /\ Before(Words, Answered) \subseteq Seq(Clocked)
  /\ Before(Ready, Before(Words, Answered)) \subseteq Seq(Clocked)
  /\ Asking \subseteq Seq(Clocked) /\ TurnedOff \subseteq Seq(Clocked)
  /\ Before([k |-> "save"], TurnedOff) \subseteq Seq(Clocked)
  /\ Before(Put("ctrl0", "sync", TRUE), Later) \subseteq Seq(Clocked)
<1>1. aud_atom_get_pts \in Seq(Clocked)
  <2>1. PICK S, a, b : S = Clocked /\ a = aud_atom_sync_off /\ b = <<Ready, Ready, Words, Resync("ctrl0")>>
    OBVIOUS
  <2>2. a \in Seq(S)
    BY <2>1, ClockedAre, ListsOfSteps DEF aud_atom_sync_off
  <2>3. b \in Seq(S)
    BY <2>1, ClockedAre, ListsOfSteps
  <2>4. a \o b \in Seq(S)
    BY <2>2, <2>3, ListsOfSteps
  <2> QED BY <2>1, <2>4, Zenon DEF aud_atom_get_pts
<1>2. Later \subseteq Seq(Clocked)
  BY <1>1 DEF Later
<1>3. Answered \subseteq Seq(Clocked)
  BY <1>2, ClockedAre, BeforeStep DEF Answered
<1>4. Before(Words, Answered) \subseteq Seq(Clocked)
  BY <1>3, ClockedAre, BeforeStep
<1>5. Before(Ready, Before(Words, Answered)) \subseteq Seq(Clocked)
  BY <1>4, ClockedAre, BeforeStep
<1>6. Before(Ready, Before(Ready, Before(Words, Answered))) \subseteq Seq(Clocked)
  BY <1>5, ClockedAre, BeforeStep
<1>7. Asking \subseteq Seq(Clocked)
  BY <1>3, <1>4, <1>5, <1>6 DEF Asking
<1>8. TurnedOff \subseteq Seq(Clocked)
  BY <1>7, ClockedAre, BeforeStep DEF TurnedOff
<1>9. Before([k |-> "save"], TurnedOff) \subseteq Seq(Clocked)
  BY <1>8, ClockedAre, BeforeStep
<1>10. Before(Put("ctrl0", "sync", TRUE), Later) \subseteq Seq(Clocked)
  BY <1>2, ClockedAre, BeforeStep
<1> QED BY <1>1, <1>2, <1>3, <1>4, <1>5, <1>7, <1>8, <1>9, <1>10

Borrowing == Before(Get("ctrl0"), Before([k |-> "save"], TurnedOff))

LEMMA BeforeTakes ==
  ASSUME NEW S, NEW T \in SUBSET Seq(S), NEW x \in S, NEW t \in T
  PROVE  Before(x, T) \in SUBSET Seq(S) /\ <<x>> \o t \in Before(x, T)
  BY BeforeStep

LEMMA PtsBorrows == \A r \in Later : aud_atom_get_pts \o r \in Borrowing
<1> SUFFICES ASSUME NEW r \in Later PROVE aud_atom_get_pts \o r \in Borrowing
  OBVIOUS
<1>1. PICK S, g, s, p, e, w, z :
        /\ S = Clocked /\ g = Get("ctrl0") /\ s = [k |-> "save"] /\ p = Put("ctrl0", "sync", FALSE)
        /\ e = Ready /\ w = Words /\ z = Resync("ctrl0")
  OBVIOUS
<1>2. /\ g \in S /\ s \in S /\ p \in S /\ e \in S /\ w \in S /\ z \in S
      /\ r \in Seq(S) /\ <<>> \in Seq(S)
  <2>1. r \in Seq(S)
    BY <1>1, FormsAreLists
  <2> QED BY <1>1, <2>1, ClockedAre, ListsOfSteps
<1>3. PICK T0 : T0 = {<<>>}
  OBVIOUS
<1>4. PICK T1 : T1 = Before(z, T0)
  OBVIOUS
<1>5. PICK T2 : T2 = Before(w, T1)
  OBVIOUS
<1>6. PICK T3 : T3 = Before(e, T2)
  OBVIOUS
<1>7. PICK T4 : T4 = Before(e, T3)
  OBVIOUS
<1>8. PICK T5 : T5 = Before(p, T4)
  OBVIOUS
<1>9. PICK T6 : T6 = Before(s, T5)
  OBVIOUS
<1>31. PICK t0 : t0 = <<>>
  OBVIOUS
<1>32. PICK t1, t2, t3 : t1 = <<z>> \o t0 /\ t2 = <<w>> \o t1 /\ t3 = <<e>> \o t2
  OBVIOUS
<1>33. PICK t4, t5, t6 : t4 = <<e>> \o t3 /\ t5 = <<p>> \o t4 /\ t6 = <<s>> \o t5
  OBVIOUS
<1>10. T0 \in SUBSET Seq(S) /\ t0 \in T0
  BY <1>2, <1>3, <1>31
<1>11. T1 \in SUBSET Seq(S) /\ t1 \in T1
  <2>1. Before(z, T0) \in SUBSET Seq(S) /\ <<z>> \o t0 \in Before(z, T0)
    BY <1>2, <1>10, BeforeTakes
  <2> QED BY <1>4, <1>32, <2>1, Zenon
<1>12. T2 \in SUBSET Seq(S) /\ t2 \in T2
  <2>1. Before(w, T1) \in SUBSET Seq(S) /\ <<w>> \o t1 \in Before(w, T1)
    BY <1>2, <1>11, BeforeTakes
  <2> QED BY <1>5, <1>32, <2>1, Zenon
<1>13. T3 \in SUBSET Seq(S) /\ t3 \in T3
  <2>1. Before(e, T2) \in SUBSET Seq(S) /\ <<e>> \o t2 \in Before(e, T2)
    BY <1>2, <1>12, BeforeTakes
  <2> QED BY <1>6, <1>32, <2>1, Zenon
<1>14. T4 \in SUBSET Seq(S) /\ t4 \in T4
  <2>1. Before(e, T3) \in SUBSET Seq(S) /\ <<e>> \o t3 \in Before(e, T3)
    BY <1>2, <1>13, BeforeTakes
  <2> QED BY <1>7, <1>33, <2>1, Zenon
<1>15. T5 \in SUBSET Seq(S) /\ t5 \in T5
  <2>1. Before(p, T4) \in SUBSET Seq(S) /\ <<p>> \o t4 \in Before(p, T4)
    BY <1>2, <1>14, BeforeTakes
  <2> QED BY <1>8, <1>33, <2>1, Zenon
<1>16. T6 \in SUBSET Seq(S) /\ t6 \in T6
  <2>1. Before(s, T5) \in SUBSET Seq(S) /\ <<s>> \o t5 \in Before(s, T5)
    BY <1>2, <1>15, BeforeTakes
  <2> QED BY <1>9, <1>33, <2>1, Zenon
<1>17. aud_atom_get_pts \in Before(g, T6)
  <2>1. <<g>> \o t6 \in Before(g, T6)
    BY <1>2, <1>16, BeforeTakes
  <2>2. aud_atom_get_pts = <<g>> \o t6
    BY <1>1, <1>31, <1>32, <1>33, PtsSpelled, Zenon
  <2> QED BY <2>1, <2>2, Zenon
<1>18. \A t \in T0 : t \o r \in Later
  <2>1. <<>> \o r = r
    BY <1>2, ConcatEmptySeq, Zenon
  <2> QED BY <1>3, <2>1
<1>19. \A t \in T1 : t \o r \in Answered
  BY <1>1, <1>2, <1>4, <1>10, <1>18, BeforeJoins DEF Answered
<1>20. \A t \in T2 : t \o r \in Before(w, Answered)
  BY <1>2, <1>5, <1>11, <1>19, BeforeJoins
<1>21. \A t \in T3 : t \o r \in Before(e, Before(w, Answered))
  BY <1>2, <1>6, <1>12, <1>20, BeforeJoins
<1>22. \A t \in T4 : t \o r \in Before(e, Before(e, Before(w, Answered)))
  BY <1>2, <1>7, <1>13, <1>21, BeforeJoins
<1>23. \A t \in T4 : t \o r \in Asking
  BY <1>1, <1>22 DEF Asking
<1>24. \A t \in T5 : t \o r \in TurnedOff
  BY <1>1, <1>2, <1>8, <1>14, <1>23, BeforeJoins DEF TurnedOff
<1>25. \A t \in T6 : t \o r \in Before(s, TurnedOff)
  BY <1>2, <1>9, <1>15, <1>24, BeforeJoins
<1>26. \A t \in Before(g, T6) : t \o r \in Before(g, Before(s, TurnedOff))
  BY <1>2, <1>16, <1>25, BeforeJoins
<1> QED BY <1>1, <1>17, <1>26 DEF Borrowing

LEMMA StcBorrows == aud_atom_set_stc \in Borrowing
<1>1. PICK S, g, s, p, e, w, z :
        /\ S = Clocked /\ g = Get("ctrl0") /\ s = [k |-> "save"] /\ p = Put("ctrl0", "sync", FALSE)
        /\ e = Ready /\ w = Words /\ z = Resync("ctrl0")
  OBVIOUS
<1>2. g \in S /\ s \in S /\ p \in S /\ e \in S /\ w \in S /\ z \in S /\ <<>> \in Seq(S)
  BY <1>1, ClockedAre, ListsOfSteps
<1>3. PICK m : m = <<e, w, z>>
  OBVIOUS
<1>4. m \in Seq(S)
  BY <1>2, <1>3
<1>5. m \o <<>> = m
  BY <1>4, ConcatEmptySeq, Zenon
<1>6. <<e, w, z>> \o <<>> = <<e>> \o (<<w>> \o (<<z>> \o <<>>))
  <2>1. PICK o : o = <<>>
    OBVIOUS
  <2>2. e \in S /\ w \in S /\ z \in S /\ o \in Seq(S)
    BY <1>2, <2>1
  <2>3. <<e, w, z>> \o o = <<e>> \o (<<w>> \o (<<z>> \o o))
    BY <2>2, SpelledThree, SMTT(20)
  <2> QED BY <2>1, <2>3, Zenon
<1>7. m = <<e>> \o (<<w>> \o (<<z>> \o <<>>))
  BY <1>3, <1>5, <1>6, Zenon
<1>8. m \in Asking
  <2>1. <<>> \in Later
    BY DEF Later
  <2>2. <<z>> \o <<>> \in Answered
    BY <1>1, <2>1 DEF Answered, Before
  <2>3. <<w>> \o (<<z>> \o <<>>) \in Before(w, Answered)
    BY <2>2 DEF Before
  <2>4. <<e>> \o (<<w>> \o (<<z>> \o <<>>)) \in Before(e, Before(w, Answered))
    BY <2>3 DEF Before
  <2> QED BY <1>1, <1>7, <2>4 DEF Asking
<1>9. <<g, s, p>> \o m = <<g>> \o (<<s>> \o (<<p>> \o m))
  BY <1>2, <1>4, SpelledThree, SMTT(20)
<1>10. <<p>> \o m \in TurnedOff
  BY <1>1, <1>8 DEF TurnedOff, Before
<1>11. <<s>> \o (<<p>> \o m) \in Before(s, TurnedOff)
  BY <1>10 DEF Before
<1>12. <<g>> \o (<<s>> \o (<<p>> \o m)) \in Before(g, Before(s, TurnedOff))
  BY <1>11 DEF Before
<1>13. aud_atom_set_stc = <<g, s, p>> \o m
  BY <1>1, <1>3, Zenon DEF aud_atom_set_stc, aud_atom_sync_off
<1> QED BY <1>1, <1>9, <1>12, <1>13, Zenon DEF Borrowing

\* What is left when the decoder was late.
LEMMA TimedOutAt ==
  ASSUME NEW S, NEW c \in Seq(S), NEW i \in 1 .. Len(c), c[i].k = "resync",
         \A h \in 1 .. i - 1 : c[h].k # "resync",
         NEW a \in Seq(S), Len(a) = Len(c) - (i - 1), \A n \in 1 .. Len(a) : a[n] = c[n + (i - 1)]
  PROVE  TimedOut(c) = a
<1> DEFINE Earliest(j) == c[j].k = "resync" /\ \A h \in 1 .. j - 1 : c[h].k # "resync"
<1>1. PICK j : j = CHOOSE m \in 1 .. Len(c) : Earliest(m)
  OBVIOUS
<1>2. Earliest(i)
  OBVIOUS
<1>3. j \in 1 .. Len(c) /\ Earliest(j)
  BY <1>1, <1>2
<1>4. j = i
  <2>1. ~(j < i) /\ ~(i < j)
    BY <1>2, <1>3
  <2> QED BY <1>3, <2>1
<1>5. TimedOut(c) = SubSeq(c, j, Len(c))
  BY <1>1 DEF TimedOut
<1>6. PICK m : m = SubSeq(c, i, Len(c))
  OBVIOUS
<1>7. m \in Seq(S) /\ Len(m) = Len(a) /\ \A n \in 1 .. Len(m) : m[n] = c[i + n - 1]
  <2>1. Len(c) \in Nat /\ Len(a) \in Nat /\ Len(c) - i + 1 = Len(a) /\ i <= Len(c)
    OBVIOUS
  <2>2. \A n \in i .. Len(c) : c[n] \in S
    OBVIOUS
  <2> QED BY <1>6, <2>1, <2>2, SubSeqProperties
<1>8. \A n \in 1 .. Len(m) : m[n] = a[n]
  <2>1. \A n \in 1 .. Len(m) : i + n - 1 = n + (i - 1)
    BY <1>7
  <2> QED BY <1>7, <2>1
<1>9. m = a
  BY <1>7, <1>8, SeqEqual
<1> QED BY <1>4, <1>5, <1>6, <1>9

LEMMA TimedOutAnswers ==
  ASSUME NEW c \in Asking, c[1].k = "ready" PROVE TimedOut(c) \in Answered
<1>1. PICK S, A, B1, B2 : S = Clocked /\ A = Answered /\ B1 = Before(Words, A) /\ B2 = Before(Ready, B1)
  OBVIOUS
<1>2. A \subseteq Seq(S) /\ B1 \subseteq Seq(S) /\ B2 \subseteq Seq(S) /\ c \in Seq(S)
  BY <1>1, FormsAreLists
<1>3. Ready.k = "ready" /\ Words.k = "words" /\ Resync("ctrl0").k = "resync"
      /\ Words \in S /\ Ready \in S /\ Resync("ctrl0") \in S
  BY <1>1, ClockedAre DEF Ready, Words, Resync
<1>4. \A a \in A : a # <<>> /\ a[1].k = "resync"
  <2>1. PICK z, L : z = Resync("ctrl0") /\ L = Later
    OBVIOUS
  <2>2. L \in SUBSET Seq(S) /\ z \in S /\ z.k = "resync"
    BY <1>1, <1>3, <2>1, FormsAreLists
  <2>3. \A a \in Before(z, L) : a # <<>> /\ a[1] = z
    BY <2>2, BeforeHas
  <2> QED BY <1>1, <2>1, <2>2, <2>3 DEF Answered
<1>5. \A b \in B1 : b # <<>> /\ b[1].k = "words" /\ Tail(b) \in A
  <2>1. PICK w : w = Words
    OBVIOUS
  <2>3. A \in SUBSET Seq(S) /\ w \in S
    BY <1>2, <1>3, <2>1
  <2>2. \A b \in Before(w, A) : b # <<>> /\ b[1] = w /\ Tail(b) \in A
    BY <2>3, BeforeHas
  <2> QED BY <1>1, <1>3, <2>1, <2>2
<1>6. \A b \in B2 : b # <<>> /\ b[1].k = "ready" /\ Tail(b) \in B1
  <2>1. PICK w : w = Ready
    OBVIOUS
  <2>3. B1 \in SUBSET Seq(S) /\ w \in S
    BY <1>2, <1>3, <2>1
  <2>2. \A b \in Before(w, B1) : b # <<>> /\ b[1] = w /\ Tail(b) \in B1
    BY <2>3, BeforeHas
  <2> QED BY <1>1, <1>3, <2>1, <2>2
<1>7. c \in B2 \/ c \in Before(Ready, B2)
  BY <1>1, <1>3, <1>4, <1>5 DEF Asking
<1>8. ASSUME NEW b \in B2 PROVE TimedOut(b) \in A
  <2>1. PICK d, a : d = Tail(b) /\ a = Tail(d)
    OBVIOUS
  <2>2. b \in Seq(S) /\ d \in Seq(S) /\ a \in Seq(S) /\ b # <<>> /\ d # <<>> /\ a # <<>> /\ a \in A
    BY <1>2, <1>4, <1>5, <1>6, <1>8, <2>1
  <2>3. /\ Len(d) = Len(b) - 1 /\ Len(b) \in Nat \ {0} /\ \A n \in 1 .. Len(b) - 1 : d[n] = b[n + 1]
    BY <2>1, <2>2, AudTail
  <2>4. /\ Len(a) = Len(d) - 1 /\ Len(d) \in Nat \ {0} /\ \A n \in 1 .. Len(d) - 1 : a[n] = d[n + 1]
        /\ Len(a) \in Nat \ {0}
    BY <2>1, <2>2, AudTail
  <2>5. b[1].k = "ready" /\ d[1].k = "words" /\ a[1].k = "resync"
    BY <1>4, <1>5, <1>6, <1>8, <2>1, <2>2
  <2>6. b[2] = d[1] /\ b[3] = a[1] /\ 3 \in 1 .. Len(b) /\ 3 - 1 = 2
    <3>1. d[1] = b[1 + 1] /\ d[2] = b[2 + 1] /\ a[1] = d[1 + 1] /\ 1 + 1 = 2 /\ 2 + 1 = 3
      BY <2>3, <2>4
    <3> QED BY <2>3, <2>4, <3>1
  <2>7. \A h \in 1 .. 3 - 1 : b[h].k # "resync"
    <3>1. \A h \in 1 .. 3 - 1 : h = 1 \/ h = 2
      OBVIOUS
    <3> QED BY <2>5, <2>6, <3>1
  <2>8. \A n \in 1 .. Len(a) : a[n] = b[n + (3 - 1)]
    <3>1. \A n \in 1 .. Len(a) : /\ n \in 1 .. Len(d) - 1 /\ n + 1 \in 1 .. Len(b) - 1
                                 /\ (n + 1) + 1 = n + (3 - 1)
      BY <2>3, <2>4
    <3>2. \A n \in 1 .. Len(a) : a[n] = d[n + 1] /\ d[n + 1] = b[(n + 1) + 1]
      BY <2>3, <2>4, <3>1
    <3> QED BY <3>1, <3>2
  <2>9. Len(a) = Len(b) - (3 - 1)
    BY <2>3, <2>4
  <2>10. TimedOut(b) = a
    BY <2>2, <2>5, <2>6, <2>7, <2>8, <2>9, TimedOutAt
  <2> QED BY <2>2, <2>10
<1>9. ASSUME NEW b \in Before(Ready, B2) PROVE TimedOut(b) \in A
  <2>1. PICK f, d, a : f = Tail(b) /\ d = Tail(f) /\ a = Tail(d)
    OBVIOUS
  <2>2. b \in Seq(S) /\ b # <<>> /\ b[1] = Ready /\ f \in B2
    <3>1. PICK w, T : w = Ready /\ T = B2
      OBVIOUS
    <3>3. T \in SUBSET Seq(S) /\ w \in S
      BY <1>2, <1>3, <3>1
    <3>2. \A l \in Before(w, T) : l \in Seq(S) /\ l # <<>> /\ l[1] = w /\ Tail(l) \in T
      BY <3>3, BeforeHas
    <3> QED BY <1>9, <2>1, <3>1, <3>2
  <2>3. /\ f \in Seq(S) /\ d \in Seq(S) /\ a \in Seq(S) /\ f # <<>> /\ d # <<>> /\ a # <<>> /\ a \in A
    BY <1>2, <1>4, <1>5, <1>6, <2>1, <2>2
  <2>4. /\ Len(f) = Len(b) - 1 /\ Len(b) \in Nat \ {0} /\ \A n \in 1 .. Len(b) - 1 : f[n] = b[n + 1]
    BY <2>1, <2>2, AudTail
  <2>5. /\ Len(d) = Len(f) - 1 /\ Len(f) \in Nat \ {0} /\ \A n \in 1 .. Len(f) - 1 : d[n] = f[n + 1]
    BY <2>1, <2>3, AudTail
  <2>6. /\ Len(a) = Len(d) - 1 /\ Len(d) \in Nat \ {0} /\ \A n \in 1 .. Len(d) - 1 : a[n] = d[n + 1]
        /\ Len(a) \in Nat \ {0}
    BY <2>1, <2>3, AudTail
  <2>7. b[1].k = "ready" /\ f[1].k = "ready" /\ d[1].k = "words" /\ a[1].k = "resync"
    BY <1>3, <1>4, <1>5, <1>6, <2>1, <2>2, <2>3
  <2>8. b[2] = f[1] /\ b[3] = d[1] /\ b[4] = a[1] /\ 4 \in 1 .. Len(b)
    <3>1. /\ f[1] = b[1 + 1] /\ f[2] = b[2 + 1] /\ f[3] = b[3 + 1] /\ d[1] = f[1 + 1] /\ d[2] = f[2 + 1]
          /\ a[1] = d[1 + 1] /\ 1 + 1 = 2 /\ 2 + 1 = 3 /\ 3 + 1 = 4
      BY <2>4, <2>5, <2>6
    <3> QED BY <2>4, <2>5, <2>6, <3>1
  <2>9. \A h \in 1 .. 4 - 1 : b[h].k # "resync"
    <3>1. \A h \in 1 .. 4 - 1 : h = 1 \/ h = 2 \/ h = 3
      OBVIOUS
    <3> QED BY <2>7, <2>8, <3>1
  <2>10. \A n \in 1 .. Len(a) : a[n] = b[n + (4 - 1)]
    <3>1. \A n \in 1 .. Len(a) : /\ n \in 1 .. Len(d) - 1 /\ n + 1 \in 1 .. Len(f) - 1
                                 /\ (n + 1) + 1 \in 1 .. Len(b) - 1
                                 /\ ((n + 1) + 1) + 1 = n + (4 - 1)
      BY <2>4, <2>5, <2>6
    <3>2. \A n \in 1 .. Len(a) : /\ a[n] = d[n + 1] /\ d[n + 1] = f[(n + 1) + 1]
                                 /\ f[(n + 1) + 1] = b[((n + 1) + 1) + 1]
      BY <2>4, <2>5, <2>6, <3>1
    <3> QED BY <3>1, <3>2
  <2>11. Len(a) = Len(b) - (4 - 1)
    BY <2>4, <2>5, <2>6
  <2>12. TimedOut(b) = a
    BY <2>2, <2>3, <2>7, <2>8, <2>9, <2>10, <2>11, TimedOutAt
  <2> QED BY <2>3, <2>12
<1> QED BY <1>1, <1>7, <1>8, <1>9

-----------------------------------------------------------------------------
(* What the steps of an audio call do.                                      *)

RegNames == {"ctrl0", "ctrl1", "ctrl2", "dsr", "dsp", "chip"}
Suits(x, w) ==
  /\ x = "ctrl0" => w \in Ctrl0s
  /\ x = "ctrl1" => w \in Ctrl1s
  /\ x = "ctrl2" => w \in Ctrl2s
  /\ x = "dsr" => w \in Dsrs
  /\ x = "dsp" => w \in Dsps
  /\ x = "chip" => w \in Chips

IsWritten(q, r, x, w) == q = [r EXCEPT ![x] = w]
RegHolds(q, r, x, w) ==
  /\ q \in AudRegs /\ q.acc = r.acc /\ q.was = r.was
  /\ q.ctrl0 = IF x = "ctrl0" THEN w ELSE r.ctrl0
  /\ q.ctrl1 = IF x = "ctrl1" THEN w ELSE r.ctrl1

LEMMA RegWritten ==
  ASSUME NEW r \in AudRegs, NEW x \in RegNames, NEW w, NEW q, IsWritten(q, r, x, w), Suits(x, w)
  PROVE  RegHolds(q, r, x, w)
<1> USE DEF IsWritten, RegHolds
<1>1. CASE x = "ctrl0"
  BY <1>1 DEF AudRegs, Suits
<1>2. CASE x = "ctrl1"
  BY <1>2 DEF AudRegs, Suits
<1>3. CASE x = "ctrl2"
  BY <1>3 DEF AudRegs, Suits
<1>4. CASE x = "dsr"
  BY <1>4 DEF AudRegs, Suits
<1>5. CASE x = "dsp"
  BY <1>5 DEF AudRegs, Suits
<1>6. CASE x = "chip"
  BY <1>6 DEF AudRegs, Suits
<1> QED BY <1>1, <1>2, <1>3, <1>4, <1>5, <1>6 DEF RegNames

FieldHolds(w, a, s) ==
  /\ s.reg \in RegNames /\ Suits(s.reg, w)
  /\ s.reg = "ctrl0" => /\ w.sync = IF s.field = "sync" THEN s.val ELSE a.sync
                        /\ w.clip = IF s.field = "clip" THEN s.val ELSE a.clip
  /\ s.reg = "ctrl1" => w.soft = IF s.field = "soft" THEN s.val ELSE a.soft

LEMMA FieldWritten ==
  ASSUME NEW s \in AudPuts, NEW a, NEW w, IsWritten(w, a, s.field, s.val), Suits(s.reg, a)
  PROVE  FieldHolds(w, a, s)
<1> USE DEF IsWritten, FieldHolds
<1>1. s.reg \in RegNames
  BY DEF AudPuts, RegNames
<1>2. CASE s.reg = "ctrl0"
  <2>1. \/ s.field \in {"sync", "clip"} /\ s.val \in BOOLEAN
        \/ s.field = "type" /\ s.val \in Streams
    BY <1>2 DEF AudPuts
  <2> QED BY <1>1, <1>2, <2>1 DEF Ctrl0s, Suits
<1>3. CASE s.reg = "ctrl1"
  <2>1. \/ s.field = "soft" /\ s.val \in BOOLEAN
        \/ s.field = "channel" /\ s.val \in AudChannels
    BY <1>3 DEF AudPuts
  <2> QED BY <1>1, <1>3, <2>1 DEF Ctrl1s, Suits
<1>4. CASE s.reg = "ctrl2"
  <2>1. \/ s.field \in {"halt", "mute"} /\ s.val \in BOOLEAN
        \/ s.field = "endian" /\ s.val = "asked"
    BY <1>4 DEF AudPuts
  <2> QED BY <1>1, <1>4, <2>1 DEF Ctrl2s, Suits
<1>5. CASE s.reg = "dsr"
  <2>1. s.field = "master" /\ s.val \in BOOLEAN
    BY <1>5 DEF AudPuts
  <2> QED BY <1>1, <1>5, <2>1 DEF Dsrs, Suits
<1>6. CASE s.reg = "dsp"
  <2>1. s.field \in {"pcm", "mix"} /\ s.val = "asked"
    BY <1>6 DEF AudPuts
  <2> QED BY <1>1, <1>6, <2>1 DEF Dsps, Suits
<1>7. CASE s.reg = "chip"
  <2>1. s.field = "sync" /\ s.val \in BOOLEAN
    BY <1>7 DEF AudPuts
  <2> QED BY <1>1, <1>7, <2>1 DEF Chips, Suits
<1> QED BY <1>1, <1>2, <1>3, <1>4, <1>5, <1>6, <1>7 DEF RegNames

Writes(s, x, f) == s.k = "put" /\ s.reg = x /\ s.field = f
Records(s, f) == s.k = "rec" /\ s.field = f

\* What a step does to the bits and records that are compared; m says
\* whether the handler is kept from unmuting.
RegEffect(s, r, q, m) ==
  /\ Writes(s, "ctrl0", "sync") => q.ctrl0.sync = s.val
  /\ ~Writes(s, "ctrl0", "sync") => q.ctrl0.sync = r.ctrl0.sync
  /\ Writes(s, "ctrl0", "clip") => q.ctrl0.clip = s.val
  /\ ~Writes(s, "ctrl0", "clip") => q.ctrl0.clip = r.ctrl0.clip
  /\ Writes(s, "ctrl1", "soft") => q.ctrl1.soft = s.val
  /\ ~Writes(s, "ctrl1", "soft") /\ (m \/ s.k # "put") => q.ctrl1.soft = r.ctrl1.soft
  /\ ~(s.k = "put" /\ s.reg = "ctrl0") => q.ctrl0 = r.ctrl0
  /\ ~(s.k = "put" /\ s.reg = "ctrl1") => q.ctrl1 = r.ctrl1
  /\ s.k = "save" => q.was = r.acc.sync
  /\ s.k # "save" => q.was = r.was
  /\ s.k # "get" => q.acc = r.acc
  /\ s.k = "get" => FreshFor(s.reg, q) /\ (s.reg = "ctrl1" => q.acc = q.ctrl1)
RecEffect(s, d, e) ==
  /\ Records(s, "sync") => e.sync = s.val
  /\ ~Records(s, "sync") => e.sync = d.sync
  /\ Records(s, "mute") => e.mute = s.val
  /\ ~Records(s, "mute") => e.mute = d.mute
  /\ Records(s, "src") => e.src = s.val
  /\ ~Records(s, "src") => e.src = d.src
  /\ Records(s, "isrc") => e.isrc = s.val
  /\ ~Records(s, "isrc") /\ s.k # "closed" => e.isrc = d.isrc
  /\ s.k = "closed" => e.count = 0
  /\ s.k # "closed" => e.count = d.count

LEMMA PutEffect ==
  ASSUME NEW r \in AudRegs, NEW s \in AudPuts, NEW q, FreshFor(s.reg, r), NEW m \in BOOLEAN,
         s.reg = "ctrl1" /\ m => r.acc = r.ctrl1,
         q = [r EXCEPT ![s.reg] = [r.acc EXCEPT ![s.field] = s.val]]
  PROVE  q \in AudRegs /\ RegEffect(s, r, q, m)
<1>1. PICK w : w = [r.acc EXCEPT ![s.field] = s.val]
  OBVIOUS
<1>3. PICK a : a = r.acc
  OBVIOUS
<1>4. Suits(s.reg, a)
  <2>1. r.ctrl0 \in Ctrl0s
    BY DEF AudRegs
  <2> QED BY <1>3, <2>1 DEF FreshFor, Suits
<1>5. w = [a EXCEPT ![s.field] = s.val]
  BY <1>1, <1>3
<1>6. /\ s.reg \in RegNames /\ Suits(s.reg, w)
      /\ s.reg = "ctrl0" => /\ w.sync = IF s.field = "sync" THEN s.val ELSE a.sync
                            /\ w.clip = IF s.field = "clip" THEN s.val ELSE a.clip
      /\ s.reg = "ctrl1" => w.soft = IF s.field = "soft" THEN s.val ELSE a.soft
  <2>1. IsWritten(w, a, s.field, s.val)
    BY <1>5 DEF IsWritten
  <2>2. FieldHolds(w, a, s)
    BY <1>4, <2>1, FieldWritten
  <2> QED BY <2>2 DEF FieldHolds
<1>7. PICK x : x = s.reg
  OBVIOUS
<1>8. q = [r EXCEPT ![x] = w]
  BY <1>1, <1>7
<1>9. /\ q \in AudRegs /\ q.acc = r.acc /\ q.was = r.was
      /\ q.ctrl0 = IF x = "ctrl0" THEN w ELSE r.ctrl0
      /\ q.ctrl1 = IF x = "ctrl1" THEN w ELSE r.ctrl1
  <2>1. x \in RegNames /\ Suits(x, w)
    BY <1>6, <1>7
  <2>2. IsWritten(q, r, x, w)
    BY <1>8 DEF IsWritten
  <2>3. RegHolds(q, r, x, w)
    BY <2>1, <2>2, RegWritten
  <2> QED BY <2>3 DEF RegHolds
<1>10. s.k = "put"
  BY DEF AudPuts
<1>11. CASE s.reg = "ctrl0"
  <2>1. q.ctrl1 = r.ctrl1 /\ q.ctrl0 = w /\ a = r.ctrl0
    BY <1>3, <1>7, <1>9, <1>11 DEF FreshFor
  <2> QED BY <1>6, <1>9, <1>10, <1>11, <2>1 DEF RegEffect, Writes
<1>12. CASE s.reg = "ctrl1"
  <2>1. q.ctrl0 = r.ctrl0 /\ q.ctrl1 = w /\ (m => a = r.ctrl1)
    BY <1>3, <1>7, <1>9, <1>12
  <2> QED BY <1>6, <1>9, <1>10, <1>12, <2>1 DEF RegEffect, Writes
<1>13. CASE s.reg \notin {"ctrl0", "ctrl1"}
  <2>1. q.ctrl0 = r.ctrl0 /\ q.ctrl1 = r.ctrl1
    BY <1>7, <1>9, <1>13
  <2> QED BY <1>9, <1>10, <1>13, <2>1 DEF RegEffect, Writes
<1> QED BY <1>11, <1>12, <1>13

LEMMA GetEffect ==
  ASSUME NEW r \in AudRegs, NEW s \in AudGets, NEW q, NEW m \in BOOLEAN,
         q = [r EXCEPT !.acc = r[s.reg]]
  PROVE  q \in AudRegs /\ RegEffect(s, r, q, m)
<1>1. s.k = "get" /\ s.reg \in RegNames
  BY DEF AudGets, RegNames
<1>2. PICK v : v = r[s.reg]
  OBVIOUS
<1>3. /\ s.reg = "ctrl0" => v = r.ctrl0
      /\ s.reg = "ctrl1" => v = r.ctrl1 /\ v \in Ctrl1s
      /\ s.reg = "ctrl2" => v \in Ctrl2s
      /\ s.reg = "dsr" => v \in Dsrs
      /\ s.reg = "dsp" => v \in Dsps
      /\ s.reg = "chip" => v \in Chips
  BY <1>1, <1>2 DEF AudRegs, RegNames
<1>4. v \in Ctrl0s \cup Ctrl1s \cup Ctrl2s \cup Dsrs \cup Dsps \cup Chips
  <2>1. r.ctrl0 \in Ctrl0s
    BY DEF AudRegs
  <2> QED BY <1>1, <1>3, <2>1 DEF RegNames
<1>5. q = [r EXCEPT !.acc = v]
  BY <1>2
<1>6. q \in AudRegs /\ q.acc = v /\ q.ctrl0 = r.ctrl0 /\ q.ctrl1 = r.ctrl1 /\ q.was = r.was
  <2>1. v \in {<<>>} \cup Ctrl0s \cup Ctrl1s \cup Ctrl2s \cup Dsrs \cup Dsps \cup Chips
    BY <1>4
  <2> QED BY <1>5, <2>1 DEF AudRegs
<1>7. FreshFor(s.reg, q) /\ (s.reg = "ctrl1" => q.acc = q.ctrl1)
  BY <1>3, <1>6 DEF FreshFor
<1> QED BY <1>1, <1>6, <1>7 DEF RegEffect, Writes

LEMMA NoRegEffect ==
  ASSUME NEW r \in AudRegs, NEW s, NEW m \in BOOLEAN, s.k \notin {"get", "put", "save"}
  PROVE  RegEffect(s, r, r, m)
  BY DEF RegEffect, Writes

LEMMA SaveEffect ==
  ASSUME NEW r \in AudRegs, NEW s, NEW m \in BOOLEAN, s.k = "save",
         r.acc.sync \in BOOLEAN, NEW q, q = [r EXCEPT !.was = r.acc.sync]
  PROVE  q \in AudRegs /\ RegEffect(s, r, q, m) /\ q.acc = r.acc /\ q.ctrl0 = r.ctrl0
<1>1. PICK v : v = r.acc.sync
  OBVIOUS
<1>2. v \in BOOLEAN /\ q = [r EXCEPT !.was = v]
  BY <1>1
<1>3. q \in AudRegs /\ q.acc = r.acc /\ q.ctrl0 = r.ctrl0 /\ q.ctrl1 = r.ctrl1 /\ q.was = v
  BY <1>2 DEF AudRegs
<1> QED BY <1>1, <1>3 DEF RegEffect, Writes

LEMMA RecordEffect ==
  ASSUME NEW d \in AudDs, NEW s \in AudRecs, NEW e, e = [d EXCEPT ![s.field] = s.val]
  PROVE  e \in AudDs /\ RecEffect(s, d, e)
<1>1. s.k = "rec"
  BY DEF AudRecs
<1>2. CASE s.field \in {"mute", "sync"} /\ s.val \in BOOLEAN
  BY <1>1, <1>2 DEF AudDs, RecEffect, Records
<1>3. CASE s.field = "state" /\ s.val \in {"STOPPED", "PLAYING"}
  BY <1>1, <1>3 DEF AudDs, RecEffect, Records
<1>4. CASE s.field = "src" /\ s.val \in {"NO", "DEMUX", "MEMORY"}
  BY <1>1, <1>4 DEF AudDs, RecEffect, Records
<1>5. CASE s.field = "stream" /\ s.val \in {"PES", "PCM", "bad"}
  <2>1. s.val \in Streams \cup {"UNKNOWN", "bad"}
    BY <1>5 DEF Streams
  <2> QED BY <1>1, <1>5, <2>1 DEF AudDs, RecEffect, Records
<1>6. CASE s.field = "channel" /\ s.val \in AudChannels
  BY <1>1, <1>6 DEF AudDs, RecEffect, Records
<1>7. CASE s.field = "isrc" /\ s.val \in {0, 1}
  BY <1>1, <1>7 DEF AudDs, RecEffect, Records
<1>8. \/ s.field \in {"mute", "sync"} /\ s.val \in BOOLEAN
      \/ s.field = "state" /\ s.val \in {"STOPPED", "PLAYING"}
      \/ s.field = "src" /\ s.val \in {"NO", "DEMUX", "MEMORY"}
      \/ s.field = "stream" /\ s.val \in {"PES", "PCM", "bad"}
      \/ s.field = "channel" /\ s.val \in AudChannels
      \/ s.field = "isrc" /\ s.val \in {0, 1}
  BY DEF AudRecs
<1> QED BY <1>2, <1>3, <1>4, <1>5, <1>6, <1>7, <1>8

LEMMA CloseEffect ==
  ASSUME NEW d \in AudDs, NEW s, s.k = "closed", NEW e,
         e = [d EXCEPT !.count = 0, !.open = FALSE, !.irq = FALSE, !.isrc = -1]
  PROVE  e \in AudDs /\ RecEffect(s, d, e)
<1>1. PICK f : f = [d EXCEPT !.count = 0]
  OBVIOUS
<1>2. /\ f \in AudDs /\ f.sync = d.sync /\ f.mute = d.mute /\ f.src = d.src /\ f.count = 0
  BY <1>1 DEF AudDs
<1>3. PICK g : g = [f EXCEPT !.open = FALSE]
  OBVIOUS
<1>4. /\ g \in AudDs /\ g.sync = d.sync /\ g.mute = d.mute /\ g.src = d.src /\ g.count = 0
  BY <1>2, <1>3 DEF AudDs
<1>5. PICK h : h = [g EXCEPT !.irq = FALSE]
  OBVIOUS
<1>6. /\ h \in AudDs /\ h.sync = d.sync /\ h.mute = d.mute /\ h.src = d.src /\ h.count = 0
  BY <1>4, <1>5 DEF AudDs
<1>7. e = [h EXCEPT !.isrc = -1]
  BY <1>1, <1>3, <1>5
<1>8. /\ e \in AudDs /\ e.sync = d.sync /\ e.mute = d.mute /\ e.src = d.src /\ e.count = 0
  BY <1>6, <1>7 DEF AudDs
<1> QED BY <1>8 DEF RecEffect, Records

LEMMA NoRecEffect ==
  ASSUME NEW d \in AudDs, NEW s, s.k \notin {"rec", "closed"}
  PROVE  RecEffect(s, d, d)
  BY DEF RecEffect, Records

LEMMA LoadedTail ==
  ASSUME NEW c \in Seq(AudSteps), c # <<>>, Paired(c), NEW d, NEW e, NEW r, NEW q, NEW m,
         Loaded(c, d, r), RegEffect(c[1], r, q, m)
  PROVE  Loaded(Tail(c), e, q)
<1>1. PICK t : t = Tail(c)
  OBVIOUS
<1>2. /\ Len(t) = Len(c) - 1 /\ Len(c) \in Nat \ {0} /\ t \in Seq(AudSteps)
      /\ \A i \in 1 .. Len(c) - 1 : t[i] = c[i + 1]
  BY <1>1, AudTail
<1>3. t # <<>> => t[1] = c[2] /\ 2 \in 2 .. Len(c) /\ 2 \in 1 .. Len(c) /\ 2 - 1 = 1 /\ 2 > 1
  BY <1>2
<1>4. ASSUME t # <<>>, t[1].k = "put"
      PROVE  FreshFor(t[1].reg, q) /\ (t[1].reg = "ctrl1" => q.acc = q.ctrl1)
  <2>1. c[1] = Get(t[1].reg) \/ c[1].k = "save"
    BY <1>3, <1>4 DEF Paired
  <2>2. CASE c[1] = Get(t[1].reg)
    BY <2>2 DEF RegEffect, Get
  <2>3. CASE c[1].k = "save"
    <3>1. 1 \in 1 .. Len(c) /\ 1 + 1 = 2
      BY <1>2
    <3>2. c[2] \in {Put("ctrl0", "sync", FALSE), Put("chip", "sync", FALSE)}
      BY <2>3, <3>1 DEF Paired
    <3>3. FreshFor(c[2].reg, r) /\ c[2].reg \in {"ctrl0", "chip"}
      BY <2>3, <3>2 DEF Loaded, Put
    <3>4. q.acc = r.acc /\ q.ctrl0 = r.ctrl0
      BY <2>3 DEF RegEffect
    <3> QED BY <1>3, <1>4, <3>3, <3>4 DEF FreshFor
  <2> QED BY <2>1, <2>2, <2>3
<1>5. ASSUME t # <<>>, t[1].k = "save" PROVE FreshFor(t[2].reg, q)
  <2>1. c[1] = Get(c[2 + 1].reg) /\ 2 < Len(c)
    BY <1>3, <1>5 DEF Paired
  <2>2. t[2] = c[2 + 1]
    BY <1>2, <2>1
  <2> QED BY <2>1, <2>2 DEF RegEffect, Get
<1>6. Loaded(t, e, q)
  BY <1>4, <1>5 DEF Loaded
<1> QED BY <1>1, <1>6, Zenon

-----------------------------------------------------------------------------
(* Synchronisation is kept.                                                 *)

LEMMA LaterKept ==
  ASSUME NEW t \in Later, NEW d, NEW r, r.ctrl0.sync = d.sync
  PROVE  SyncKept(t, d, r)
<1>1. CASE t = <<>>
  BY <1>1 DEF SyncKept
<1>2. CASE t = aud_atom_get_pts
  <2>1. t \o <<>> = t
    BY FormsAreLists, ConcatEmptySeq
  <2>2. t \o <<>> \in Borrowing
    <3>1. <<>> \in Later
      BY DEF Later
    <3> QED BY <1>2, <3>1, PtsBorrows
  <2>3. t \in Borrowing
    BY <2>1, <2>2, Zenon
  <2> QED BY <2>3 DEF SyncKept, SyncBorrowed, Borrowing
<1> QED BY <1>1, <1>2 DEF Later

\* The first step of each form, and what is left.
LEMMA FormsAt ==
  ASSUME NEW c
  PROVE  /\ c \in Borrowing => /\ c # <<>> /\ c[1] = Get("ctrl0")
                               /\ Tail(c) \in Before([k |-> "save"], TurnedOff)
         /\ c \in Before([k |-> "save"], TurnedOff) => /\ c # <<>> /\ c[1] = [k |-> "save"]
                                                       /\ Tail(c) \in TurnedOff
         /\ c \in TurnedOff => /\ c # <<>> /\ c[1] = Put("ctrl0", "sync", FALSE) /\ Tail(c) \in Asking
         /\ c \in Answered => c # <<>> /\ c[1] = Resync("ctrl0") /\ Tail(c) \in Later
         /\ c \in Asking => \/ c \in Answered
                            \/ c # <<>> /\ c[1].k \in {"words", "ready"} /\ Tail(c) \in Asking
         /\ c \in Before(Get("ctrl0"), Before(Put("ctrl0", "sync", TRUE), Later)) =>
              /\ c # <<>> /\ c[1] = Get("ctrl0")
              /\ Tail(c) \in Before(Put("ctrl0", "sync", TRUE), Later)
         /\ c \in Before(Put("ctrl0", "sync", TRUE), Later) =>
              /\ c # <<>> /\ c[1] = Put("ctrl0", "sync", TRUE) /\ Tail(c) \in Later
<1>1. PICK S : S = Clocked
  OBVIOUS
<1>2. ASSUME NEW x \in S, NEW T \in SUBSET Seq(S), c \in Before(x, T)
      PROVE  c # <<>> /\ c[1] = x /\ Tail(c) \in T
  <2>1. c \in Seq(S) /\ c # <<>> /\ c[1] = x /\ Tail(c) \in T
    BY <1>2, BeforeHas
  <2> QED BY <2>1
<1>3. /\ Get("ctrl0") \in S /\ [k |-> "save"] \in S /\ Put("ctrl0", "sync", FALSE) \in S
      /\ Put("ctrl0", "sync", TRUE) \in S
      /\ Ready \in S /\ Words \in S /\ Resync("ctrl0") \in S
  BY <1>1, ClockedAre
<1>4. /\ Later \in SUBSET Seq(S) /\ Answered \in SUBSET Seq(S)
      /\ Before(Words, Answered) \in SUBSET Seq(S)
      /\ Before(Ready, Before(Words, Answered)) \in SUBSET Seq(S)
      /\ Asking \in SUBSET Seq(S) /\ TurnedOff \in SUBSET Seq(S)
      /\ Before([k |-> "save"], TurnedOff) \in SUBSET Seq(S)
      /\ Before(Put("ctrl0", "sync", TRUE), Later) \in SUBSET Seq(S)
  BY <1>1, FormsAreLists
<1>5. c \in Borrowing => c # <<>> /\ c[1] = Get("ctrl0") /\ Tail(c) \in Before([k |-> "save"], TurnedOff)
  BY <1>2, <1>3, <1>4 DEF Borrowing
<1>6. c \in Before([k |-> "save"], TurnedOff) => /\ c # <<>> /\ c[1] = [k |-> "save"]
                                                 /\ Tail(c) \in TurnedOff
  BY <1>2, <1>3, <1>4
<1>7. c \in TurnedOff => /\ c # <<>> /\ c[1] = Put("ctrl0", "sync", FALSE) /\ Tail(c) \in Asking
  BY <1>2, <1>3, <1>4 DEF TurnedOff
<1>8. c \in Answered => c # <<>> /\ c[1] = Resync("ctrl0") /\ Tail(c) \in Later
  BY <1>2, <1>3, <1>4 DEF Answered
<1>9. c \in Asking => \/ c \in Answered
                      \/ c # <<>> /\ c[1].k \in {"words", "ready"} /\ Tail(c) \in Asking
  <2>0. Words.k = "words" /\ Ready.k = "ready"
    BY DEF Words, Ready
  <2>1. ASSUME c \in Before(Words, Answered)
        PROVE  c # <<>> /\ c[1].k \in {"words", "ready"} /\ Tail(c) \in Asking
    <3>1. c # <<>> /\ c[1] = Words /\ Tail(c) \in Answered
      BY <1>2, <1>3, <1>4, <2>1
    <3> QED BY <2>0, <3>1 DEF Asking
  <2>2. ASSUME c \in Before(Ready, Before(Words, Answered))
        PROVE  c # <<>> /\ c[1].k \in {"words", "ready"} /\ Tail(c) \in Asking
    <3>1. c # <<>> /\ c[1] = Ready /\ Tail(c) \in Before(Words, Answered)
      BY <1>2, <1>3, <1>4, <2>2
    <3> QED BY <2>0, <3>1 DEF Asking
  <2>3. ASSUME c \in Before(Ready, Before(Ready, Before(Words, Answered)))
        PROVE  c # <<>> /\ c[1].k \in {"words", "ready"} /\ Tail(c) \in Asking
    <3>1. c # <<>> /\ c[1] = Ready /\ Tail(c) \in Before(Ready, Before(Words, Answered))
      BY <1>2, <1>3, <1>4, <2>3
    <3> QED BY <2>0, <3>1 DEF Asking
  <2> QED BY <2>1, <2>2, <2>3 DEF Asking
<1>10. c \in Before(Get("ctrl0"), Before(Put("ctrl0", "sync", TRUE), Later)) =>
         /\ c # <<>> /\ c[1] = Get("ctrl0")
         /\ Tail(c) \in Before(Put("ctrl0", "sync", TRUE), Later)
  BY <1>2, <1>3, <1>4
<1>11. c \in Before(Put("ctrl0", "sync", TRUE), Later) =>
         /\ c # <<>> /\ c[1] = Put("ctrl0", "sync", TRUE) /\ Tail(c) \in Later
  BY <1>2, <1>3, <1>4
<1> QED BY <1>5, <1>6, <1>7, <1>8, <1>9, <1>10, <1>11, Zenon

LEMMA SyncTail ==
  ASSUME NEW c \in Seq(AudSteps), c # <<>>, NEW d \in AudDs, NEW e, NEW r \in AudRegs, NEW q, NEW m,
         RegEffect(c[1], r, q, m), RecEffect(c[1], d, e),
         Loaded(c, d, r), SyncKept(c, d, r), c[1].k = "resync" => ~r.was
  PROVE  SyncKept(Tail(c), e, q)
<1>1. PICK t, s : t = Tail(c) /\ s = c[1]
  OBVIOUS
<1>2. /\ Len(t) = Len(c) - 1 /\ Len(c) \in Nat \ {0} /\ t \in Seq(AudSteps)
      /\ \A k \in 0 .. Len(c) - 2 : FromEnd(t, k) = FromEnd(c, k)
      /\ s \in AudSteps
  BY <1>1, AudTail
<1>3. RegEffect(s, r, q, m) /\ RecEffect(s, d, e)
  BY <1>1
<1>4. CASE c \in Seq(AudSteps \ SyncSteps) /\ (d.count = 1 => r.ctrl0.sync = d.sync)
  <2>1. t \in Seq(AudSteps \ SyncSteps) /\ s \in AudSteps \ SyncSteps
    BY <1>1, <1>4, AudTail
  <2>2. ~Writes(s, "ctrl0", "sync") /\ ~Records(s, "sync")
    BY <2>1 DEF SyncSteps, Writes, Records
  <2>3. q.ctrl0.sync = r.ctrl0.sync /\ e.sync = d.sync
    BY <1>3, <2>2 DEF RegEffect, RecEffect
  <2>4. e.count = 1 => d.count = 1
    BY <1>3 DEF RecEffect
  <2>5. SyncKept(t, e, q)
    BY <1>4, <2>1, <2>3, <2>4 DEF SyncKept
  <2> QED BY <1>1, <2>5
<1>5. CASE SyncRecorded(c, r)
  <2>1. t \in Seq(Straight)
    BY <1>1, <1>5, AudTail DEF SyncRecorded
  <2>2. CASE Len(c) = 1
    <3>1. t = <<>>
      BY <1>2, <2>2
    <3>2. FromEnd(c, 0) = s
      BY <1>1, <2>2 DEF FromEnd
    <3>3. Records(s, "sync") /\ ~Writes(s, "ctrl0", "sync") /\ r.ctrl0.sync = s.val
      BY <1>5, <2>2, <3>2 DEF SyncRecorded, Records, Writes
    <3>4. q.ctrl0.sync = e.sync
      BY <1>3, <3>3 DEF RegEffect, RecEffect
    <3>5. SyncKept(t, e, q)
      BY <3>1, <3>4 DEF SyncKept
    <3> QED BY <1>1, <3>5
  <2>3. CASE Len(c) = 2
    <3>0. 0 \in 0 .. Len(c) - 2 /\ Len(t) = 1
      BY <1>2, <2>3
    <3>6. FromEnd(t, 0) = FromEnd(c, 0)
      <4>1. \A k \in 0 .. Len(c) - 2 : FromEnd(t, k) = FromEnd(c, k)
        BY <1>2
      <4> QED BY <3>0, <4>1, Zenon
    <3>7. t # <<>>
      BY <1>2, <3>0
    <3>1. t # <<>> /\ Len(t) = 1 /\ FromEnd(t, 0) = FromEnd(c, 0)
      BY <3>0, <3>6, <3>7
    <3>2. FromEnd(c, 1) = s
      BY <1>1, <2>3 DEF FromEnd
    <3>3. s = Put("ctrl0", "sync", FromEnd(c, 0).val)
      BY <1>5, <2>3, <3>2 DEF SyncRecorded
    <3>4. q.ctrl0.sync = FromEnd(c, 0).val
      BY <1>3, <3>3 DEF RegEffect, Writes, Put
    <3>5. SyncRecorded(t, q)
      BY <1>5, <2>1, <3>1, <3>4 DEF SyncRecorded
    <3> QED BY <1>1, <3>5 DEF SyncKept
  <2>4. CASE Len(c) > 2
    <3>1. /\ t # <<>> /\ Len(t) > 1 /\ FromEnd(t, 0) = FromEnd(c, 0) /\ FromEnd(t, 1) = FromEnd(c, 1)
      BY <1>2, <2>4
    <3>3. /\ FromEnd(c, 0).k = "rec" /\ FromEnd(c, 0).field = "sync"
          /\ FromEnd(c, 1) = Put("ctrl0", "sync", FromEnd(c, 0).val)
      BY <1>2, <1>5, <2>4 DEF SyncRecorded
    <3>4. Len(t) # 1
      BY <1>2, <2>4
    <3>2. SyncRecorded(t, q)
      BY <2>1, <3>1, <3>3, <3>4 DEF SyncRecorded
    <3> QED BY <1>1, <3>2 DEF SyncKept
  <2> QED BY <1>2, <2>2, <2>3, <2>4
<1>6. CASE SyncBorrowed(c, d, r)
  <2> USE DEF SyncKept, SyncBorrowed
  <2>1. CASE c \in Borrowing /\ r.ctrl0.sync = d.sync
    <3>0. c[1] = Get("ctrl0") /\ Tail(c) \in Before([k |-> "save"], TurnedOff)
      BY <2>1, FormsAt, Zenon
    <3>1. s.k = "get" /\ t \in Before([k |-> "save"], TurnedOff)
      BY <1>1, <3>0 DEF Get
    <3>2. q.ctrl0.sync = r.ctrl0.sync /\ e.sync = d.sync
      BY <1>3, <3>1 DEF RegEffect, RecEffect, Writes, Records
    <3> QED BY <1>1, <2>1, <3>1, <3>2
  <2>2. CASE c \in Before([k |-> "save"], TurnedOff) /\ r.ctrl0.sync = d.sync
    <3>0. c[1] = [k |-> "save"] /\ Tail(c) \in TurnedOff
      BY <2>2, FormsAt, Zenon
    <3>5. t \in TurnedOff
      BY <1>1, <3>0
    <3>6. t # <<>> /\ t[1] = Put("ctrl0", "sync", FALSE)
      BY <3>5, FormsAt, Zenon
    <3>1. s.k = "save" /\ t \in TurnedOff /\ t # <<>> /\ t[1] = Put("ctrl0", "sync", FALSE)
      <4>1. s.k = "save"
        BY <1>1, <3>0
      <4> QED BY <3>5, <3>6, <4>1, Zenon
    <3>2. c[2] = t[1]
      BY <1>1, <1>2, <3>1
    <3>3. FreshFor("ctrl0", r)
      BY <1>1, <3>1, <3>2 DEF Loaded, Put
    <3>4. q.was = r.ctrl0.sync /\ e.sync = d.sync
      BY <1>3, <3>1, <3>3 DEF RegEffect, RecEffect, Records, FreshFor
    <3> QED BY <1>1, <2>2, <3>1, <3>4
  <2>3. CASE c \in TurnedOff /\ r.was = d.sync
    <3>1. s = Put("ctrl0", "sync", FALSE) /\ t \in Asking
      BY <1>1, <2>3, FormsAt, Zenon
    <3>2. /\ s.k = "put" /\ Writes(s, "ctrl0", "sync") /\ s.val = FALSE
      BY <3>1 DEF Put, Writes
    <3>3. ~q.ctrl0.sync /\ q.was = r.was /\ e.sync = d.sync
      BY <1>3, <3>2 DEF RegEffect, RecEffect, Records
    <3> QED BY <1>1, <2>3, <3>1, <3>3
  <2>4. CASE c \in Asking /\ r.was = d.sync /\ ~r.ctrl0.sync
    <3>1. CASE c \in Answered
      <4>0. c[1] = Resync("ctrl0") /\ Tail(c) \in Later
        BY <3>1, FormsAt, Zenon
      <4>1. s.k = "resync" /\ t \in Later
        BY <1>1, <4>0 DEF Resync
      <4>2. q.ctrl0.sync = r.ctrl0.sync /\ e.sync = d.sync
        BY <1>3, <4>1 DEF RegEffect, RecEffect, Writes, Records
      <4>3. r.ctrl0.sync = d.sync
        <5>1. r.ctrl0 \in Ctrl0s /\ r.was \in BOOLEAN /\ d.sync \in BOOLEAN
          BY DEF AudRegs, AudDs
        <5>2. r.ctrl0.sync \in BOOLEAN
          BY <5>1 DEF Ctrl0s
        <5>3. ~r.was
          BY <1>1, <4>1
        <5> QED BY <2>4, <5>1, <5>2, <5>3
      <4>4. q.ctrl0.sync = e.sync
        BY <4>2, <4>3
      <4>5. SyncKept(t, e, q)
        BY <4>1, <4>4, LaterKept
      <4> QED BY <1>1, <4>5
    <3>2. CASE s.k \in {"words", "ready"} /\ t \in Asking
      <4>1. q.ctrl0.sync = r.ctrl0.sync /\ e.sync = d.sync /\ q.was = r.was
        BY <1>3, <3>2 DEF RegEffect, RecEffect, Writes, Records
      <4> QED BY <1>1, <2>4, <3>2, <4>1
    <3>3. c \in Answered \/ (s.k \in {"words", "ready"} /\ t \in Asking)
      BY <1>1, <2>4, FormsAt, Zenon
    <3> QED BY <3>1, <3>2, <3>3
  <2>5. CASE c \in Before(Get("ctrl0"), Before(Put("ctrl0", "sync", TRUE), Later)) /\ d.sync
    <3>0. c[1] = Get("ctrl0") /\ Tail(c) \in Before(Put("ctrl0", "sync", TRUE), Later)
      BY <2>5, FormsAt, Zenon
    <3>1. s.k = "get" /\ t \in Before(Put("ctrl0", "sync", TRUE), Later)
      <4>1. s.k = "get"
        BY <1>1, <3>0 DEF Get
      <4>2. t \in Before(Put("ctrl0", "sync", TRUE), Later)
        BY <1>1, <3>0, Zenon
      <4> QED BY <4>1, <4>2, Zenon
    <3>2. e.sync = d.sync
      BY <1>3, <3>1 DEF RecEffect, Records
    <3> QED BY <1>1, <2>5, <3>1, <3>2
  <2>6. CASE c \in Before(Put("ctrl0", "sync", TRUE), Later) /\ d.sync
    <3>1. s = Put("ctrl0", "sync", TRUE) /\ t \in Later
      BY <1>1, <2>6, FormsAt, Zenon
    <3>2. s.k = "put" /\ Writes(s, "ctrl0", "sync") /\ s.val = TRUE
      BY <3>1 DEF Put, Writes
    <3>3. q.ctrl0.sync = TRUE /\ e.sync = d.sync
      BY <1>3, <3>2 DEF RegEffect, RecEffect, Records
    <3>4. d.sync = TRUE
      BY <2>6 DEF AudDs
    <3>5. q.ctrl0.sync = e.sync
      BY <3>3, <3>4
    <3>6. SyncKept(t, e, q)
      BY <3>1, <3>5, LaterKept
    <3> QED BY <1>1, <3>6
  <2> QED BY <1>6, <2>1, <2>2, <2>3, <2>4, <2>5, <2>6 DEF Borrowing
<1> QED BY <1>4, <1>5, <1>6 DEF SyncKept

\* A call whose next step only waits, tests or turns synchronisation on again.
LEMMA SyncWaits ==
  ASSUME NEW c \in Seq(AudSteps), c # <<>>, NEW d, NEW r, SyncKept(c, d, r),
         c[1].k \in {"resync", "ready", "nosource", "create"}
  PROVE  \/ /\ c \in Seq(AudSteps \ SyncSteps) /\ c[1] \in AudSteps \ SyncSteps
            /\ d.count = 1 => r.ctrl0.sync = d.sync
         \/ /\ c \in Asking /\ r.was = d.sync /\ ~r.ctrl0.sync
            /\ c[1].k = "resync" => c \in Answered /\ c[1] = Resync("ctrl0") /\ Tail(c) \in Later
            /\ c[1].k \in {"resync", "ready"}
<1>1. CASE c \in Seq(AudSteps \ SyncSteps) /\ (d.count = 1 => r.ctrl0.sync = d.sync)
  <2>1. c[1] \in AudSteps \ SyncSteps
    BY <1>1, AudTail
  <2> QED BY <1>1, <2>1
<1>2. CASE SyncRecorded(c, r)
  <2>1. c[1] \in Straight
    BY <1>2, AudTail DEF SyncRecorded
  <2> QED BY <2>1 DEF Straight
<1>3. CASE c \in Asking /\ r.was = d.sync /\ ~r.ctrl0.sync
  <2>1. CASE c \in Answered
    <3>1. c[1] = Resync("ctrl0") /\ Tail(c) \in Later
      BY <2>1, FormsAt, Zenon
    <3>2. c[1].k = "resync"
      BY <3>1 DEF Resync
    <3> QED BY <1>3, <2>1, <3>1, <3>2
  <2>2. CASE c[1].k \in {"words", "ready"}
    BY <1>3, <2>2
  <2>3. c \in Answered \/ c[1].k \in {"words", "ready"}
    BY <1>3, FormsAt, Zenon
  <2> QED BY <2>1, <2>2, <2>3
<1>4. CASE \/ c \in Borrowing
           \/ c \in Before([k |-> "save"], TurnedOff)
           \/ c \in TurnedOff
           \/ c \in Before(Get("ctrl0"), Before(Put("ctrl0", "sync", TRUE), Later))
           \/ c \in Before(Put("ctrl0", "sync", TRUE), Later)
  <2>1. c[1] \in {Get("ctrl0"), [k |-> "save"], Put("ctrl0", "sync", FALSE), Put("ctrl0", "sync", TRUE)}
    <3>1. \/ c[1] = Get("ctrl0") \/ c[1] = [k |-> "save"] \/ c[1] = Put("ctrl0", "sync", FALSE)
          \/ c[1] = Put("ctrl0", "sync", TRUE)
      BY <1>4, FormsAt, Zenon
    <3> QED BY <3>1
  <2>2. c[1].k \in {"get", "save", "put"}
    BY <2>1 DEF Get, Put
  <2> QED BY <2>2
<1> QED BY <1>1, <1>2, <1>3, <1>4 DEF SyncKept, SyncBorrowed, Borrowing

LEMMA SyncResync ==
  ASSUME NEW c \in Seq(AudSteps), c # <<>>, NEW d, NEW r, SyncKept(c, d, r),
         c[1].k = "resync", r.was
  PROVE  SyncKept(Modified(c[1].reg, "sync", TRUE) \o Tail(c), d, r)
<1>1. PICK t, x, n : t = Tail(c) /\ x = c[1].reg /\ n = Modified(x, "sync", TRUE) \o t
  OBVIOUS
<1>2. CASE /\ c \in Seq(AudSteps \ SyncSteps) /\ c[1] \in AudSteps \ SyncSteps
           /\ d.count = 1 => r.ctrl0.sync = d.sync
  <2>1. PICK S, g, p, l : /\ S = AudSteps \ SyncSteps /\ g = Get("chip") /\ p = Put("chip", "sync", TRUE)
                          /\ l = <<g, p>>
    OBVIOUS
  <2>2. x = "chip"
    <3>1. x \in {"ctrl0", "chip"}
      BY <1>1, <1>2, StepsAreKinds
    <3> QED BY <1>1, <1>2, <3>1 DEF SyncSteps
  <2>3. g \in S /\ p \in S
    <3>1. g \in S
      BY <2>1, GetsAre DEF Harmless
    <3>2. p \in AudSteps /\ p.k = "put" /\ p.reg = "chip"
      <4>1. Put("chip", "sync", TRUE) \in AudPuts
        BY PutsAre
      <4>2. p = Put("chip", "sync", TRUE)
        BY <2>1
      <4>3. p \in AudSteps
        BY <4>1, <4>2 DEF AudSteps
      <4> QED BY <4>2, <4>3 DEF Put
    <3>3. p \in S
      BY <2>1, <3>2 DEF SyncSteps
    <3> QED BY <3>1, <3>3
  <2>4. l \in Seq(S) /\ t \in Seq(S)
    <3>1. t \in Seq(S)
      BY <1>1, <1>2, <2>1, AudTail
    <3>2. l = <<g, p>>
      BY <2>1
    <3>3. l \in Seq(S)
      BY <2>3, <3>2
    <3> QED BY <3>1, <3>3
  <2>5. l \o t \in Seq(S)
    BY <2>4, ListsOfSteps
  <2>6. n = l \o t
    BY <1>1, <2>1, <2>2, Zenon DEF Modified
  <2>7. SyncKept(n, d, r)
    BY <1>2, <2>1, <2>5, <2>6 DEF SyncKept
  <2> QED BY <1>1, <2>7, Zenon
<1>3. CASE /\ r.was = d.sync /\ c[1] = Resync("ctrl0") /\ Tail(c) \in Later
  <2>1. x = "ctrl0" /\ t \in Later /\ d.sync
    BY <1>1, <1>3 DEF Resync
  <2>2. PICK S, g, p : S = Clocked /\ g = Get("ctrl0") /\ p = Put("ctrl0", "sync", TRUE)
    OBVIOUS
  <2>3. g \in S /\ p \in S /\ t \in Seq(S)
    BY <2>1, <2>2, ClockedAre, FormsAreLists
  <2>4. <<g, p>> \o t = <<g>> \o (<<p>> \o t)
    BY <2>3, Joined, SMTT(20)
  <2>5. n = <<g>> \o (<<p>> \o t)
    BY <1>1, <2>1, <2>2, <2>4, Zenon DEF Modified
  <2>6. <<p>> \o t \in Before(p, Later)
    BY <2>1 DEF Before
  <2>7. n \in Before(g, Before(p, Later))
    BY <2>5, <2>6 DEF Before
  <2>8. SyncKept(n, d, r)
    BY <2>1, <2>2, <2>7 DEF SyncKept, SyncBorrowed
  <2> QED BY <1>1, <2>8, Zenon
<1> QED BY <1>2, <1>3, SyncWaits

LEMMA SyncLate ==
  ASSUME NEW c \in Seq(AudSteps), c # <<>>, NEW d, NEW r, SyncKept(c, d, r), c[1].k = "ready"
  PROVE  TimedOut(c) \in Answered /\ SyncKept(TimedOut(c), d, r)
<1>1. c \in Asking /\ r.was = d.sync /\ ~r.ctrl0.sync
  <2>1. c[1] \notin AudSteps \ SyncSteps
    <3>1. c[1] \in AudSteps
      BY AudTail
    <3> QED BY <3>1 DEF SyncSteps
  <2> QED BY <2>1, SyncWaits
<1>2. TimedOut(c) \in Answered
  BY <1>1, TimedOutAnswers
<1>3. TimedOut(c) \in Asking
  BY <1>2 DEF Asking
<1> QED BY <1>1, <1>2, <1>3 DEF SyncKept, SyncBorrowed

LEMMA SyncGivenUp ==
  ASSUME NEW c \in Seq(AudSteps), c # <<>>, NEW d, NEW r, SyncKept(c, d, r),
         c[1].k \in {"nosource", "create"}
  PROVE  SyncKept(<<>>, d, r)
<1>1. d.count = 1 => r.ctrl0.sync = d.sync
  BY SyncWaits
<1>2. <<>> \in Seq(AudSteps \ SyncSteps)
  OBVIOUS
<1> QED BY <1>1, <1>2 DEF SyncKept

-----------------------------------------------------------------------------
(* What is muted is kept so.                                                *)

LEMMA MuteTail ==
  ASSUME NEW c \in Seq(AudSteps), c # <<>>, NEW d \in AudDs, NEW e, NEW r \in AudRegs, NEW q,
         NEW m \in BOOLEAN, d.mute => m,
         RegEffect(c[1], r, q, m), RecEffect(c[1], d, e), MuteKept(c, d, r)
  PROVE  MuteKept(Tail(c), e, q)
<1>1. PICK t, s : t = Tail(c) /\ s = c[1]
  OBVIOUS
<1>2. /\ Len(t) = Len(c) - 1 /\ Len(c) \in Nat \ {0} /\ t \in Seq(AudSteps)
      /\ \A k \in 0 .. Len(c) - 2 : FromEnd(t, k) = FromEnd(c, k)
      /\ \A i \in 1 .. Len(c) - 1 : t[i] = c[i + 1]
      /\ s \in AudSteps
  BY <1>1, AudTail
<1>3. RegEffect(s, r, q, m) /\ RecEffect(s, d, e)
  BY <1>1
<1>4. CASE c \in Seq(AudSteps \ MuteSteps) /\ (d.mute => r.ctrl1.soft)
  <2>1. t \in Seq(AudSteps \ MuteSteps) /\ s \in AudSteps \ MuteSteps
    BY <1>1, <1>4, AudTail
  <2>2. ~Writes(s, "ctrl1", "soft") /\ ~Records(s, "mute")
    BY <2>1 DEF MuteSteps, Writes, Records
  <2>3. e.mute = d.mute /\ (m => q.ctrl1.soft = r.ctrl1.soft)
    BY <1>3, <2>2 DEF RegEffect, RecEffect
  <2>4. MuteKept(t, e, q)
    BY <1>4, <2>1, <2>3 DEF MuteKept
  <2> QED BY <1>1, <2>4
<1>5. ASSUME c \in Seq(Straight)
      PROVE  t \in Seq(Straight) /\ (Len(c) > 1 => t # <<>> /\ FromEnd(t, 0) = FromEnd(c, 0))
             /\ (Len(c) = 1 => t = <<>> /\ FromEnd(c, 0) = s)
  <2>1. t \in Seq(Straight)
    BY <1>1, <1>5, AudTail
  <2>2. Len(c) > 1 => 0 \in 0 .. Len(c) - 2 /\ Len(t) > 0
    BY <1>2
  <2>3. Len(c) > 1 => t # <<>>
    BY <1>2, <2>2
  <2>4. Len(c) > 1 => FromEnd(t, 0) = FromEnd(c, 0)
    BY <1>2, <2>2
  <2>5. Len(c) = 1 => t = <<>>
    BY <1>2
  <2>6. Len(c) = 1 => FromEnd(c, 0) = s
    BY <1>1 DEF FromEnd
  <2> QED BY <2>1, <2>3, <2>4, <2>5, <2>6, Zenon
<1>6. CASE c \in Seq(Straight) /\ FromEnd(c, 0) = Rec("mute", FALSE)
  <2>1. CASE Len(c) = 1
    <3>1. s = Rec("mute", FALSE) /\ t = <<>>
      BY <1>5, <1>6, <2>1
    <3>2. Records(s, "mute") /\ s.val = FALSE
      BY <3>1 DEF Records, Rec
    <3>3. ~e.mute
      BY <1>3, <3>2 DEF RecEffect
    <3>4. MuteKept(t, e, q)
      BY <3>1, <3>3 DEF MuteKept
    <3> QED BY <1>1, <3>4
  <2>2. CASE Len(c) > 1
    <3>1. MuteKept(t, e, q)
      BY <1>5, <1>6, <2>2 DEF MuteKept
    <3> QED BY <1>1, <3>1
  <2> QED BY <1>2, <2>1, <2>2
<1>7. CASE /\ c \in Seq(Straight) /\ FromEnd(c, 0) = Rec("mute", TRUE)
           /\ Len(c) > 3 => FromEnd(c, 3) = Put("ctrl1", "soft", TRUE)
           /\ Len(c) <= 3 => r.ctrl1.soft
           /\ \A i \in 1 .. Len(c) : i > Len(c) - 3 => ~(c[i].k = "put" /\ c[i].reg = "ctrl1")
  <2>1. CASE Len(c) = 1
    <3>1. s = Rec("mute", TRUE) /\ t = <<>>
      BY <1>5, <1>7, <2>1
    <3>2. s.k = "rec"
      BY <3>1 DEF Rec
    <3>3. q.ctrl1.soft
      BY <1>3, <1>7, <2>1, <3>2 DEF RegEffect
    <3>4. MuteKept(t, e, q)
      BY <3>1, <3>3 DEF MuteKept
    <3> QED BY <1>1, <3>4
  <2>2. CASE Len(c) > 1
    <3>1. t \in Seq(Straight) /\ t # <<>> /\ FromEnd(t, 0) = Rec("mute", TRUE)
      BY <1>5, <1>7, <2>2
    <3>2. Len(t) > 3 => FromEnd(t, 3) = Put("ctrl1", "soft", TRUE)
      <4>1. Len(t) > 3 => 3 \in 0 .. Len(c) - 2 /\ Len(c) > 3
        BY <1>2
      <4>2. Len(t) > 3 => FromEnd(t, 3) = FromEnd(c, 3)
        BY <1>2, <4>1
      <4> QED BY <1>7, <4>1, <4>2
    <3>3. Len(t) <= 3 => q.ctrl1.soft
      <4>1. CASE Len(c) = 4
        <5>1. FromEnd(c, 3) = s
          BY <1>1, <4>1 DEF FromEnd
        <5>2. s = Put("ctrl1", "soft", TRUE)
          <6>1. Len(c) > 3
            BY <4>1
          <6> QED BY <1>7, <5>1, <6>1, Zenon
        <5>3. Writes(s, "ctrl1", "soft") /\ s.val = TRUE
          BY <5>2 DEF Writes, Put
        <5> QED BY <1>3, <5>3 DEF RegEffect
      <4>2. CASE Len(c) <= 3
        <5>1. 1 \in 1 .. Len(c) /\ 1 > Len(c) - 3
          BY <1>2, <4>2
        <5>2. ~(s.k = "put" /\ s.reg = "ctrl1") /\ r.ctrl1.soft
          BY <1>1, <1>7, <4>2, <5>1
        <5> QED BY <1>3, <5>2 DEF RegEffect
      <4>3. Len(t) <= 3 => Len(c) = 4 \/ Len(c) <= 3
        BY <1>2
      <4> QED BY <4>1, <4>2, <4>3
    <3>4. ASSUME NEW i \in 1 .. Len(t), i > Len(t) - 3 PROVE ~(t[i].k = "put" /\ t[i].reg = "ctrl1")
      <4>1. i + 1 \in 1 .. Len(c) /\ i + 1 > Len(c) - 3 /\ t[i] = c[i + 1]
        BY <1>2, <3>4
      <4> QED BY <1>7, <4>1
    <3>5. MuteKept(t, e, q)
      BY <3>1, <3>2, <3>3, <3>4 DEF MuteKept
    <3> QED BY <1>1, <3>5
  <2> QED BY <1>2, <2>1, <2>2
<1> QED BY <1>4, <1>6, <1>7 DEF MuteKept

LEMMA MuteWaits ==
  ASSUME NEW c \in Seq(AudSteps), c # <<>>, NEW d, NEW r, MuteKept(c, d, r),
         c[1].k \in {"resync", "ready", "nosource", "create"},
         NEW n \in Seq(AudSteps \ MuteSteps)
  PROVE  MuteKept(n, d, r) /\ Tail(c) \in Seq(AudSteps \ MuteSteps)
<1>1. c \notin Seq(Straight)
  <2>1. ASSUME c \in Seq(Straight) PROVE FALSE
    <3>1. c[1] \in Straight
      BY <2>1, AudTail
    <3> QED BY <3>1 DEF Straight
  <2> QED BY <2>1
<1>2. c \in Seq(AudSteps \ MuteSteps) /\ (d.mute => r.ctrl1.soft)
  BY <1>1 DEF MuteKept
<1>3. Tail(c) \in Seq(AudSteps \ MuteSteps)
  BY <1>2, AudTail
<1> QED BY <1>2, <1>3 DEF MuteKept

-----------------------------------------------------------------------------
(* The source is kept.                                                      *)

\* Of a selection, the steps by their place.
SelectingFrom(c, d, r, p) ==
  /\ Len(c) = 1 => c[1] = Rec("isrc", p) /\ d.src = Srcs(p) /\ r.ctrl0.clip = OfMemory(p)
  /\ Len(c) = 2 => c[1] = Rec("src", Srcs(p)) /\ r.ctrl0.clip = OfMemory(p)
  /\ Len(c) = 3 /\ p = 1 => c[1] = [k |-> "create"] /\ r.ctrl0.clip = OfMemory(p)
  /\ Len(c) = 3 + p => c[1] = Put("ctrl0", "clip", OfMemory(p))
  /\ Len(c) = 4 + p => c[1] = Get("ctrl0")
  /\ Len(c) = 5 + p => c[1] = [k |-> "nosource"] /\ d.src = "NO"
  /\ Len(c) = 6 + p => c[1] = Rec("src", "NO")
  /\ Len(c) > 6 + p => c[1] \in Straight

LEMMA SelectingAt ==
  ASSUME NEW c \in Seq(AudSteps), c # <<>>, NEW d, NEW r, NEW p \in {0, 1}, Selecting(c, d, r, p)
  PROVE  SelectingFrom(c, d, r, p)
<1> DEFINE n == Len(c)
<1>1. n \in Nat \ {0} /\ p \in {0, 1}
  BY AudTail
<1>2. /\ FromEnd(c, 0) = Rec("isrc", p)
      /\ n > 1 => FromEnd(c, 1) = Rec("src", Srcs(p))
      /\ ~(n > 1) => d.src = Srcs(p)
      /\ p = 1 /\ n > 2 => FromEnd(c, 2) = [k |-> "create"]
      /\ n > 2 + p => FromEnd(c, 2 + p) = Put("ctrl0", "clip", OfMemory(p))
      /\ ~(n > 2 + p) => r.ctrl0.clip = OfMemory(p)
      /\ n > 3 + p => FromEnd(c, 3 + p) = Get("ctrl0")
      /\ n > 4 + p => FromEnd(c, 4 + p) = [k |-> "nosource"]
      /\ n = 5 + p => d.src = "NO"
      /\ n > 5 + p => FromEnd(c, 5 + p) = Rec("src", "NO")
      /\ \A i \in 1 .. n : i < n - (5 + p) => c[i] \in Straight
  BY Zenon DEF Selecting
<1>3. \A k \in Int : n = k + 1 => FromEnd(c, k) = c[1]
  BY <1>1 DEF FromEnd
<1>4. n = 1 => c[1] = Rec("isrc", p) /\ d.src = Srcs(p) /\ r.ctrl0.clip = OfMemory(p)
  <2>1. n = 1 => n = 0 + 1 /\ 0 \in Int /\ ~(n > 1) /\ ~(n > 2 + p)
    BY <1>1
  <2> QED BY <1>2, <1>3, <2>1, Zenon
<1>5. n = 2 => c[1] = Rec("src", Srcs(p)) /\ r.ctrl0.clip = OfMemory(p)
  <2>1. n = 2 => n = 1 + 1 /\ 1 \in Int /\ n > 1 /\ ~(n > 2 + p)
    BY <1>1
  <2> QED BY <1>2, <1>3, <2>1, Zenon
<1>6. n = 3 /\ p = 1 => c[1] = [k |-> "create"] /\ r.ctrl0.clip = OfMemory(p)
  <2>1. n = 3 /\ p = 1 => n = 2 + 1 /\ 2 \in Int /\ n > 2 /\ ~(n > 2 + p)
    BY <1>1
  <2> QED BY <1>2, <1>3, <2>1, Zenon
<1>7. n = 3 + p => c[1] = Put("ctrl0", "clip", OfMemory(p))
  <2>1. n = 3 + p => n = (2 + p) + 1 /\ 2 + p \in Int /\ n > 2 + p
    BY <1>1
  <2> QED BY <1>2, <1>3, <2>1, Zenon
<1>8. n = 4 + p => c[1] = Get("ctrl0")
  <2>1. n = 4 + p => n = (3 + p) + 1 /\ 3 + p \in Int /\ n > 3 + p
    BY <1>1
  <2> QED BY <1>2, <1>3, <2>1, Zenon
<1>9. n = 5 + p => c[1] = [k |-> "nosource"] /\ d.src = "NO"
  <2>1. n = 5 + p => n = (4 + p) + 1 /\ 4 + p \in Int /\ n > 4 + p
    BY <1>1
  <2> QED BY <1>2, <1>3, <2>1, Zenon
<1>10. n = 6 + p => c[1] = Rec("src", "NO")
  <2>1. n = 6 + p => n = (5 + p) + 1 /\ 5 + p \in Int /\ n > 5 + p
    BY <1>1
  <2> QED BY <1>2, <1>3, <2>1, Zenon
<1>11. n > 6 + p => c[1] \in Straight
  <2>1. n > 6 + p => 1 \in 1 .. n /\ 1 < n - (5 + p)
    BY <1>1
  <2> QED BY <1>2, <2>1, Zenon
<1> QED BY <1>4, <1>5, <1>6, <1>7, <1>8, <1>9, <1>10, <1>11, Zenon DEF SelectingFrom

LEMMA SelectingTail ==
  ASSUME NEW c \in Seq(AudSteps), c # <<>>, NEW d, NEW r, NEW e, NEW q, NEW m, NEW p \in {0, 1},
         Selecting(c, d, r, p), Len(c) > 1, RegEffect(c[1], r, q, m), RecEffect(c[1], d, e)
  PROVE  Selecting(Tail(c), e, q, p)
<1>1. PICK t, n, l : t = Tail(c) /\ n = Len(c) /\ l = Len(t)
  OBVIOUS
<1>2. /\ l = n - 1 /\ n \in Nat \ {0} /\ n > 1 /\ t \in Seq(AudSteps) /\ t # <<>>
      /\ \A k \in 0 .. n - 2 : FromEnd(t, k) = FromEnd(c, k)
      /\ \A i \in 1 .. n - 1 : t[i] = c[i + 1]
  <2>1. /\ l = n - 1 /\ n \in Nat \ {0} /\ n > 1 /\ t \in Seq(AudSteps)
        /\ \A k \in 0 .. n - 2 : FromEnd(t, k) = FromEnd(c, k)
        /\ \A i \in 1 .. n - 1 : t[i] = c[i + 1]
    BY <1>1, AudTail
  <2>3. Len(t) > 0
    BY <1>1, <2>1
  <2>2. t # <<>>
    BY <2>1, <2>3
  <2> QED BY <2>1, <2>2
<1>3. /\ FromEnd(c, 0) = Rec("isrc", p)
      /\ n > 1 => FromEnd(c, 1) = Rec("src", Srcs(p))
      /\ p = 1 /\ n > 2 => FromEnd(c, 2) = [k |-> "create"]
      /\ n > 2 + p => FromEnd(c, 2 + p) = Put("ctrl0", "clip", OfMemory(p))
      /\ ~(n > 2 + p) => r.ctrl0.clip = OfMemory(p)
      /\ n > 3 + p => FromEnd(c, 3 + p) = Get("ctrl0")
      /\ n > 4 + p => FromEnd(c, 4 + p) = [k |-> "nosource"]
      /\ n > 5 + p => FromEnd(c, 5 + p) = Rec("src", "NO")
      /\ \A i \in 1 .. n : i < n - (5 + p) => c[i] \in Straight
  BY <1>1, Zenon DEF Selecting
<1>4. /\ n = 2 => c[1] = Rec("src", Srcs(p))
      /\ n = 3 /\ p = 1 => c[1] = [k |-> "create"]
      /\ n = 3 + p => c[1] = Put("ctrl0", "clip", OfMemory(p))
      /\ n = 6 + p => c[1] = Rec("src", "NO")
  <2>1. SelectingFrom(c, d, r, p)
    BY SelectingAt
  <2> QED BY <1>1, <2>1, Zenon DEF SelectingFrom
<1>5. FromEnd(t, 0) = Rec("isrc", p)
  <2>1. 0 \in 0 .. n - 2
    BY <1>2
  <2> QED BY <1>2, <1>3, <2>1, Zenon
<1>6. l > 1 => FromEnd(t, 1) = Rec("src", Srcs(p))
  <2>1. l > 1 => 1 \in 0 .. n - 2 /\ n > 1
    BY <1>2
  <2> QED BY <1>2, <1>3, <2>1, Zenon
<1>7. ~(l > 1) => e.src = Srcs(p)
  <2>1. ~(l > 1) => n = 2
    BY <1>2
  <2>2. n = 2 => Records(c[1], "src") /\ c[1].val = Srcs(p)
    BY <1>4 DEF Records, Rec
  <2> QED BY <2>1, <2>2 DEF RecEffect
<1>8. p = 1 /\ l > 2 => FromEnd(t, 2) = [k |-> "create"]
  <2>1. l > 2 => 2 \in 0 .. n - 2 /\ n > 2
    BY <1>2
  <2> QED BY <1>2, <1>3, <2>1, Zenon
<1>9. l > 2 + p => FromEnd(t, 2 + p) = Put("ctrl0", "clip", OfMemory(p))
  <2>1. l > 2 + p => 2 + p \in 0 .. n - 2 /\ n > 2 + p
    BY <1>2
  <2> QED BY <1>2, <1>3, <2>1, Zenon
<1>10. ~(l > 2 + p) => q.ctrl0.clip = OfMemory(p)
  <2>1. CASE n = 3 + p
    <3>1. Writes(c[1], "ctrl0", "clip") /\ c[1].val = OfMemory(p)
      BY <1>4, <2>1 DEF Writes, Put
    <3> QED BY <3>1 DEF RegEffect
  <2>2. CASE n < 3 + p
    <3>0. p = 0 \/ p = 1
      OBVIOUS
    <3>1. ~(n > 2 + p) /\ (n = 2 \/ (n = 3 /\ p = 1))
      BY <1>2, <2>2, <3>0
    <3>2. c[1].k # "put"
      BY <1>4, <3>1 DEF Rec
    <3>3. q.ctrl0.clip = r.ctrl0.clip
      BY <3>2 DEF RegEffect, Writes
    <3> QED BY <1>3, <3>1, <3>3, Zenon
  <2>3. ~(l > 2 + p) => n = 3 + p \/ n < 3 + p
    BY <1>2
  <2> QED BY <2>1, <2>2, <2>3
<1>11. l > 3 + p => FromEnd(t, 3 + p) = Get("ctrl0")
  <2>1. l > 3 + p => 3 + p \in 0 .. n - 2 /\ n > 3 + p
    BY <1>2
  <2> QED BY <1>2, <1>3, <2>1, Zenon
<1>12. l > 4 + p => FromEnd(t, 4 + p) = [k |-> "nosource"]
  <2>1. l > 4 + p => 4 + p \in 0 .. n - 2 /\ n > 4 + p
    BY <1>2
  <2> QED BY <1>2, <1>3, <2>1, Zenon
<1>13. l = 5 + p => e.src = "NO"
  <2>1. l = 5 + p => n = 6 + p
    BY <1>2
  <2>2. n = 6 + p => Records(c[1], "src") /\ c[1].val = "NO"
    BY <1>4 DEF Records, Rec
  <2> QED BY <2>1, <2>2 DEF RecEffect
<1>14. l > 5 + p => FromEnd(t, 5 + p) = Rec("src", "NO")
  <2>1. l > 5 + p => 5 + p \in 0 .. n - 2 /\ n > 5 + p
    BY <1>2
  <2> QED BY <1>2, <1>3, <2>1, Zenon
<1>15. ASSUME NEW i \in 1 .. l, i < l - (5 + p) PROVE t[i] \in Straight
  <2>1. i \in 1 .. n - 1 /\ i + 1 \in 1 .. n /\ i + 1 < n - (5 + p)
    BY <1>2, <1>15
  <2> QED BY <1>2, <1>3, <2>1
<1>16. Selecting(t, e, q, p)
  BY <1>1, <1>2, <1>5, <1>6, <1>7, <1>8, <1>9, <1>10, <1>11, <1>12, <1>13, <1>14, <1>15, Zenon
     DEF Selecting
<1> QED BY <1>1, <1>16, Zenon

LEMMA SourceTail ==
  ASSUME NEW c \in Seq(AudSteps), c # <<>>, NEW d \in AudDs, NEW r, NEW e, NEW q, NEW m,
         RegEffect(c[1], r, q, m), RecEffect(c[1], d, e), SourceKept(c, d, r)
  PROVE  SourceKept(Tail(c), e, q)
<1>1. PICK t, s : t = Tail(c) /\ s = c[1]
  OBVIOUS
<1>2. /\ Len(t) = Len(c) - 1 /\ Len(c) \in Nat \ {0} /\ t \in Seq(AudSteps)
      /\ \A k \in 0 .. Len(c) - 2 : FromEnd(t, k) = FromEnd(c, k)
      /\ \A i \in 1 .. Len(c) - 1 : t[i] = c[i + 1]
      /\ s \in AudSteps
  BY <1>1, AudTail
<1>3. RegEffect(s, r, q, m) /\ RecEffect(s, d, e)
  BY <1>1
<1>4. CASE c \in Seq(AudSteps \ AudSourceSteps) /\ (d.count = 1 => AudSourced(d, r))
  <2>1. t \in Seq(AudSteps \ AudSourceSteps) /\ s \in AudSteps \ AudSourceSteps
    BY <1>1, <1>4, AudTail
  <2>2. /\ ~Writes(s, "ctrl0", "clip") /\ ~Records(s, "src") /\ ~Records(s, "isrc")
        /\ s.k # "closed"
    BY <2>1 DEF AudSourceSteps, Writes, Records
  <2>3. q.ctrl0.clip = r.ctrl0.clip /\ e.src = d.src /\ e.isrc = d.isrc /\ e.count = d.count
    BY <1>3, <2>2 DEF RegEffect, RecEffect
  <2>4. e.count = 1 => AudSourced(e, q)
    BY <1>4, <2>3 DEF AudSourced
  <2>5. SourceKept(t, e, q)
    BY <2>1, <2>4 DEF SourceKept
  <2> QED BY <1>1, <2>5
<1>5. CASE /\ FromEnd(c, 0) = [k |-> "closed"]
           /\ \A i \in 1 .. Len(c) : i < Len(c) => c[i] \in Straight
  <2>1. CASE Len(c) = 1
    <3>1. t = <<>>
      BY <1>2, <2>1
    <3>2. s = [k |-> "closed"]
      BY <1>1, <1>5, <2>1 DEF FromEnd
    <3>3. e.count = 0
      BY <1>3, <3>2 DEF RecEffect
    <3>4. SourceKept(t, e, q)
      BY <3>1, <3>3 DEF SourceKept
    <3> QED BY <1>1, <3>4
  <2>2. CASE Len(c) > 1
    <3>1. t # <<>> /\ 0 \in 0 .. Len(c) - 2
      BY <1>2, <2>2
    <3>2. FromEnd(t, 0) = [k |-> "closed"]
      BY <1>2, <1>5, <3>1, Zenon
    <3>3. \A i \in 1 .. Len(t) : i < Len(t) => t[i] \in Straight
      <4>1. \A i \in 1 .. Len(t) : /\ i \in 1 .. Len(c) - 1 /\ i + 1 \in 1 .. Len(c)
                                   /\ (i < Len(t) => i + 1 < Len(c))
        BY <1>2
      <4> QED BY <1>2, <1>5, <4>1
    <3>4. SourceKept(t, e, q)
      BY <3>1, <3>2, <3>3 DEF SourceKept
    <3> QED BY <1>1, <3>4
  <2> QED BY <1>2, <2>1, <2>2
<1>6. ASSUME NEW p \in {0, 1}, Selecting(c, d, r, p) PROVE SourceKept(t, e, q)
  <2>1. CASE Len(c) = 1
    <3>1. t = <<>>
      BY <1>2, <2>1
    <3>2. s = Rec("isrc", p) /\ d.src = Srcs(p) /\ r.ctrl0.clip = OfMemory(p)
      <4>1. SelectingFrom(c, d, r, p)
        BY <1>6, SelectingAt
      <4> QED BY <1>1, <2>1, <4>1, Zenon DEF SelectingFrom
    <3>3. Records(s, "isrc") /\ s.val = p /\ s.k = "rec" /\ s.field = "isrc"
      BY <3>2 DEF Records, Rec
    <3>4. e.isrc = p /\ e.src = d.src /\ q.ctrl0.clip = r.ctrl0.clip
      BY <1>3, <3>3 DEF RegEffect, RecEffect, Records, Writes
    <3>5. AudSourced(e, q)
      BY <3>2, <3>4 DEF AudSourced, Srcs, OfMemory
    <3> QED BY <3>1, <3>5 DEF SourceKept
  <2>2. CASE Len(c) > 1
    <3>1. Selecting(t, e, q, p)
      BY <1>1, <1>6, <2>2, SelectingTail, Zenon
    <3> QED BY <3>1 DEF SourceKept
  <2> QED BY <1>2, <2>1, <2>2
<1> QED BY <1>1, <1>4, <1>5, <1>6 DEF SourceKept

\* A call whose next step only waits or turns synchronisation on again, and
\* a source that is free when it is asked for.
LEMMA SourceWaits ==
  ASSUME NEW c \in Seq(AudSteps), c # <<>>, NEW d, NEW r, SourceKept(c, d, r)
  PROVE  /\ c[1].k \in {"resync", "ready"} =>
              /\ Tail(c) \in Seq(AudSteps \ AudSourceSteps)
              /\ \A n \in Seq(AudSteps \ AudSourceSteps) : SourceKept(n, d, r)
         /\ c[1].k = "nosource" => d.src = "NO"
<1>1. Len(c) \in Nat \ {0} /\ c[1] \in AudSteps
  BY AudTail
<1>2. CASE c \in Seq(AudSteps \ AudSourceSteps) /\ (d.count = 1 => AudSourced(d, r))
  <2>1. c[1] \in AudSteps \ AudSourceSteps /\ Tail(c) \in Seq(AudSteps \ AudSourceSteps)
    BY <1>2, AudTail
  <2>2. c[1].k # "nosource"
    BY <2>1 DEF AudSourceSteps
  <2>3. \A n \in Seq(AudSteps \ AudSourceSteps) : SourceKept(n, d, r)
    BY <1>2 DEF SourceKept
  <2> QED BY <2>1, <2>2, <2>3
<1>3. CASE /\ FromEnd(c, 0) = [k |-> "closed"]
           /\ \A i \in 1 .. Len(c) : i < Len(c) => c[i] \in Straight
  <2>1. CASE Len(c) = 1
    <3>1. c[1] = [k |-> "closed"]
      BY <1>3, <2>1 DEF FromEnd
    <3> QED BY <3>1
  <2>2. CASE Len(c) > 1
    <3>1. c[1] \in Straight
      BY <1>1, <1>3, <2>2
    <3> QED BY <3>1 DEF Straight
  <2>3. Len(c) = 1 \/ Len(c) > 1
    <3>1. Len(c) \in Nat \ {0}
      BY <1>1
    <3>2. \A n \in Nat \ {0} : n = 1 \/ n > 1
      OBVIOUS
    <3> QED BY <3>1, <3>2, Zenon
  <2> QED BY <2>1, <2>2, <2>3, Zenon
<1>4. ASSUME NEW p \in {0, 1}, Selecting(c, d, r, p)
      PROVE  c[1].k \notin {"resync", "ready"} /\ (c[1].k = "nosource" => d.src = "NO")
  <2>1. \/ c[1] = Rec("isrc", p) \/ c[1] = Rec("src", Srcs(p)) \/ c[1] = [k |-> "create"]
        \/ c[1] = Put("ctrl0", "clip", OfMemory(p)) \/ c[1] = Get("ctrl0")
        \/ (c[1] = [k |-> "nosource"] /\ d.src = "NO") \/ c[1] = Rec("src", "NO") \/ c[1] \in Straight
    <3>1. \/ Len(c) = 1 \/ Len(c) = 2 \/ (Len(c) = 3 /\ p = 1) \/ Len(c) = 3 + p
          \/ Len(c) = 4 + p \/ Len(c) = 5 + p \/ Len(c) = 6 + p \/ Len(c) > 6 + p
      <4>1. p = 0 \/ p = 1
        BY <1>4
      <4>2. \A n \in Nat : n # 0 =>
              \/ n = 1 \/ n = 2 \/ (n = 3 /\ p = 1) \/ n = 3 + p
              \/ n = 4 + p \/ n = 5 + p \/ n = 6 + p \/ n > 6 + p
        <5>1. CASE p = 0
          BY <5>1
        <5>2. CASE p = 1
          BY <5>2
        <5> QED BY <4>1, <5>1, <5>2
      <4>3. Len(c) \in Nat /\ Len(c) # 0
        BY <1>1
      <4> QED BY <4>2, <4>3
    <3>2. SelectingFrom(c, d, r, p)
      BY <1>4, SelectingAt
    <3> QED BY <3>1, <3>2, Zenon DEF SelectingFrom
  <2> QED BY <2>1 DEF Rec, Put, Get, Straight
<1> QED BY <1>2, <1>3, <1>4 DEF SourceKept

-----------------------------------------------------------------------------
(* A step of a call keeps what is claimed.                                  *)

LEMMA WholeIsLoaded == ASSUME NEW c, Whole(c), NEW d, NEW r PROVE Paired(c) /\ Loaded(c, d, r)
  BY DEF Whole, Loaded

LEMMA TailKept ==
  ASSUME NEW c \in Seq(AudSteps), c # <<>>, NEW d \in AudDs, NEW e, NEW r \in AudRegs, NEW q,
         AudKept(c, d, r), NEW m \in BOOLEAN, d.mute => m,
         RegEffect(c[1], r, q, m), RecEffect(c[1], d, e), c[1].k = "resync" => ~r.was
  PROVE  AudKept(Tail(c), e, q)
<1>1. Paired(c) /\ Loaded(c, d, r) /\ SyncKept(c, d, r) /\ MuteKept(c, d, r)
  BY DEF AudKept
<1>2. Tail(c) \in Seq(AudSteps)
  BY AudTail
<1>3. Paired(Tail(c))
  BY <1>1, PairedTail
<1>4. Loaded(Tail(c), e, q)
  BY <1>1, LoadedTail
<1>5. SyncKept(Tail(c), e, q)
  BY <1>1, SyncTail
<1>6. MuteKept(Tail(c), e, q)
  BY <1>1, MuteTail
<1> QED BY <1>2, <1>3, <1>4, <1>5, <1>6 DEF AudKept

LEMMA PtsIsWhole == Whole(aud_atom_get_pts)
<1>1. PICK a, b : a = aud_atom_sync_off /\ b = <<Ready, Ready, Words, Resync("ctrl0")>>
  OBVIOUS
<1>2. Whole(a)
  BY <1>1, WholeOff DEF aud_atom_sync_off
<1>3. a \in Seq(AudSteps)
  <2>1. Get("ctrl0") \in AudSteps /\ [k |-> "save"] \in AudSteps /\ Put("ctrl0", "sync", FALSE) \in AudSteps
    BY ClockedAre DEF Clocked
  <2> QED BY <1>1, <2>1, ListsOfSteps DEF aud_atom_sync_off
<1>4. b \in Seq(Dry) /\ b \in Seq(AudSteps)
  <2>1. Ready \in AudSteps /\ Words \in AudSteps /\ Resync("ctrl0") \in AudSteps
    BY ClockedAre DEF Clocked
  <2>2. b \in Seq(Dry)
    BY <1>1, DryMarks, ListsOfSteps
  <2>3. b \in Seq(AudSteps)
    BY <1>1, <2>1, ListsOfSteps
  <2> QED BY <2>2, <2>3
<1>5. Whole(b)
  BY <1>4, DryIsWhole
<1>6. Whole(a \o b)
  BY <1>2, <1>3, <1>4, <1>5, WholeJoins
<1> QED BY <1>1, <1>6, Zenon DEF aud_atom_get_pts

LEMMA AnsweredIsWhole == ASSUME NEW c \in Answered PROVE Whole(c) /\ c \in Seq(AudSteps)
<1>1. PICK t \in Later : c = <<Resync("ctrl0")>> \o t
  BY DEF Answered, Before
<1>2. Whole(t) /\ t \in Seq(AudSteps)
  <2>1. Whole(t)
    BY WholeNone, PtsIsWhole DEF Later
  <2>2. t \in Seq(Clocked)
    BY FormsAreLists
  <2>3. Clocked \subseteq AudSteps
    BY DEF Clocked
  <2> QED BY <2>1, <2>2, <2>3, SeqGrows
<1>3. PICK x, a : x = Resync("ctrl0") /\ a = <<x>>
  OBVIOUS
<1>4. x \in AudSteps /\ x.k = "resync"
  BY <1>3, MarksAre DEF Resync
<1>5. a \in Seq(AudSteps) /\ Whole(a)
  <2>1. a \in Seq(AudSteps)
    BY <1>3, <1>4
  <2>2. Whole(<<x>>)
    BY <1>4, WholeOne
  <2> QED BY <1>3, <2>1, <2>2, Zenon
<1>6. Whole(a \o t) /\ a \o t \in Seq(AudSteps)
  BY <1>2, <1>5, WholeJoins, ListsOfSteps
<1> QED BY <1>1, <1>3, <1>6, Zenon

LEMMA SyncOnIsList ==
  ASSUME NEW x \in {"ctrl0", "chip"}
  PROVE  Modified(x, "sync", TRUE) \in Seq(Clocked)
<1>1. PICK g, p : g = Get(x) /\ p = Put(x, "sync", TRUE)
  OBVIOUS
<1>2. g \in Clocked
  BY <1>1, GetsAre DEF Clocked, Harmless
<1>3. p \in Clocked
  <2>1. Put(x, "sync", TRUE) \in AudPuts
    BY PutsAre
  <2>2. p \in AudSteps
    BY <1>1, <2>1 DEF AudSteps
  <2>3. p.k = "put" /\ p.field = "sync"
    BY <1>1 DEF Put
  <2> QED BY <2>2, <2>3 DEF Clocked, MuteSteps, AudSourceSteps
<1>4. <<g, p>> \in Seq(Clocked)
  BY <1>2, <1>3
<1> QED BY <1>1, <1>4, Zenon DEF Modified

LEMMA ClockedIsIn ==
  ASSUME NEW n \in Seq(Clocked)
  PROVE  n \in Seq(AudSteps) /\ n \in Seq(AudSteps \ MuteSteps) /\ n \in Seq(AudSteps \ AudSourceSteps)
<1>1. Clocked \subseteq AudSteps /\ Clocked \subseteq AudSteps \ MuteSteps
      /\ Clocked \subseteq AudSteps \ AudSourceSteps
  BY DEF Clocked
<1> QED BY <1>1, SeqGrows

LEMMA ResyncKept ==
  ASSUME NEW c \in Seq(AudSteps), c # <<>>, NEW d, NEW r, AudKept(c, d, r), c[1].k = "resync", r.was,
         NEW n, n = Modified(c[1].reg, "sync", TRUE) \o Tail(c)
  PROVE  AudKept(n, d, r) /\ (SourceKept(c, d, r) => SourceKept(n, d, r))
<1>1. PICK t, x, a : t = Tail(c) /\ x = c[1].reg /\ a = Modified(x, "sync", TRUE)
  OBVIOUS
<1>2. n = a \o t
  BY <1>1, Zenon
<1>3. x \in {"ctrl0", "chip"}
  <2>1. c[1] \in AudSteps
    BY AudTail
  <2> QED BY <1>1, <2>1, StepsAreKinds
<1>4. a \in Seq(Clocked) /\ Whole(a)
  BY <1>1, <1>3, SyncOnIsList, WholeModified, Zenon
<1>5. a \in Seq(AudSteps) /\ a \in Seq(AudSteps \ MuteSteps) /\ a \in Seq(AudSteps \ AudSourceSteps)
  BY <1>4, ClockedIsIn
<1>6. t \in Seq(AudSteps) /\ Whole(t)
  BY <1>1, AudTail, WholeTail DEF AudKept
<1>7. n \in Seq(AudSteps) /\ Whole(n)
  <2>1. PICK S : S = AudSteps
    OBVIOUS
  <2>2. a \in Seq(S) /\ t \in Seq(S)
    BY <1>5, <1>6, <2>1
  <2>3. a \o t \in Seq(S)
    BY <2>2, ListsOfSteps
  <2>4. Whole(a \o t)
    BY <1>4, <1>5, <1>6, WholeJoins
  <2> QED BY <1>2, <2>1, <2>3, <2>4, Zenon
<1>8. MuteKept(n, d, r)
  <2>1. MuteKept(c, d, r) /\ <<>> \in Seq(AudSteps \ MuteSteps)
    BY DEF AudKept
  <2>2. t \in Seq(AudSteps \ MuteSteps)
    BY <1>1, <2>1, MuteWaits
  <2>3. n \in Seq(AudSteps \ MuteSteps)
    <3>1. PICK S : S = AudSteps \ MuteSteps
      OBVIOUS
    <3>2. a \in Seq(S) /\ t \in Seq(S)
      BY <1>5, <2>2, <3>1
    <3>3. a \o t \in Seq(S)
      BY <3>2, ListsOfSteps
    <3> QED BY <1>2, <3>1, <3>3, Zenon
  <2> QED BY <2>1, <2>3, MuteWaits
<1>9. ASSUME SourceKept(c, d, r) PROVE SourceKept(n, d, r)
  <2>1. t \in Seq(AudSteps \ AudSourceSteps)
    BY <1>1, <1>9, SourceWaits
  <2>2. n \in Seq(AudSteps \ AudSourceSteps)
    <3>1. PICK S : S = AudSteps \ AudSourceSteps
      OBVIOUS
    <3>2. a \in Seq(S) /\ t \in Seq(S)
      BY <1>5, <2>1, <3>1
    <3>3. a \o t \in Seq(S)
      BY <3>2, ListsOfSteps
    <3> QED BY <1>2, <3>1, <3>3, Zenon
  <2> QED BY <1>9, <2>2, SourceWaits
<1>10. SyncKept(n, d, r)
  BY SyncResync DEF AudKept
<1> QED BY <1>7, <1>8, <1>9, <1>10, WholeIsLoaded DEF AudKept

LEMMA LateKept ==
  ASSUME NEW c \in Seq(AudSteps), c # <<>>, NEW d, NEW r, AudKept(c, d, r), c[1].k = "ready"
  PROVE  AudKept(TimedOut(c), d, r) /\ (SourceKept(c, d, r) => SourceKept(TimedOut(c), d, r))
<1>1. PICK n : n = TimedOut(c)
  OBVIOUS
<1>2. n \in Answered /\ SyncKept(n, d, r)
  BY <1>1, SyncLate DEF AudKept
<1>3. n \in Seq(AudSteps) /\ Whole(n)
  BY <1>2, AnsweredIsWhole
<1>4. n \in Seq(AudSteps \ MuteSteps) /\ n \in Seq(AudSteps \ AudSourceSteps)
  BY <1>2, FormsAreLists, ClockedIsIn
<1>5. MuteKept(n, d, r)
  BY <1>4, MuteWaits DEF AudKept
<1>6. SourceKept(c, d, r) => SourceKept(n, d, r)
  BY <1>4, SourceWaits
<1>7. AudKept(n, d, r)
  BY <1>2, <1>3, <1>5, WholeIsLoaded DEF AudKept
<1> QED BY <1>1, <1>6, <1>7, Zenon

LEMMA GivenUpKept ==
  ASSUME NEW c \in Seq(AudSteps), c # <<>>, NEW d, NEW r, AudKept(c, d, r),
         c[1].k \in {"nosource", "create"}
  PROVE  AudKept(<<>>, d, r)
<1>1. SyncKept(<<>>, d, r)
  BY SyncGivenUp DEF AudKept
<1>2. MuteKept(<<>>, d, r)
  <2>1. <<>> \in Seq(AudSteps \ MuteSteps)
    OBVIOUS
  <2> QED BY <2>1, MuteWaits DEF AudKept
<1>3. Paired(<<>>) /\ Loaded(<<>>, d, r)
  BY WholeNone, WholeIsLoaded
<1> QED BY <1>1, <1>2, <1>3 DEF AudKept

MutedNow(c, d) == d.mute \/ MutingIn(c)

\* Whichever step is next, what is claimed still holds after it.
LEMMA AudRunKeeps == ASSUME AudInv, RunAudStep PROVE AudInv'
<1>1. PICK c, d, r, m : c = acall /\ d = aud /\ r = areg /\ m = MutedNow(c, d)
  OBVIOUS
<1>2. /\ c \in Seq(AudSteps) /\ c # <<>> /\ d \in AudDs /\ r \in AudRegs /\ AudKept(c, d, r)
      /\ Asked("fail") \/ SourceKept(c, d, r)
      /\ Paired(c) /\ Loaded(c, d, r)
  BY <1>1 DEF AudInv, AudKept, RunAudStep
<1>3. m \in BOOLEAN /\ (d.mute => m)
  BY <1>1, <1>2 DEF MutedNow, MutingIn
<1>4. PICK s : s = c[1]
  OBVIOUS
<1>5. s = Head(acall) /\ s \in AudSteps
  BY <1>1, <1>2, <1>4, AudTail
<1>6. Asked("fail")' = Asked("fail")
  BY DEF RunAudStep, Asked
<1>7. ASSUME NEW n, NEW e, NEW q, acall' = n, aud' = e, areg' = q, e \in AudDs, q \in AudRegs,
             AudKept(n, e, q), Asked("fail") \/ SourceKept(n, e, q)
      PROVE  AudInv'
  BY <1>6, <1>7 DEF AudInv
<1>8. ASSUME acall' = Tail(c), s.k = "resync" => ~r.was, NEW e, NEW q, aud' = e, areg' = q,
             e \in AudDs, q \in AudRegs, RegEffect(s, r, q, m), RecEffect(s, d, e)
      PROVE  AudInv'
  <2>1. AudKept(Tail(c), e, q)
    BY <1>2, <1>3, <1>4, <1>8, TailKept
  <2>2. SourceKept(c, d, r) => SourceKept(Tail(c), e, q)
    BY <1>2, <1>4, <1>8, SourceTail
  <2> QED BY <1>2, <1>7, <1>8, <2>1, <2>2
<1>9. CASE RunAccess(s)
  <2>1. acall' = Tail(c) /\ aud' = d
    BY <1>1, <1>9 DEF RunAccess
  <2>2. PICK q : q = areg'
    OBVIOUS
  <2>3. s.k # "resync" /\ s.k \notin {"rec", "closed"}
    BY <1>9 DEF RunAccess
  <2>4. q \in AudRegs /\ RegEffect(s, r, q, m)
    <3>1. CASE s.k = "get"
      <4>1. q = [r EXCEPT !.acc = r[s.reg]]
        BY <1>1, <1>9, <2>2, <3>1 DEF RunAccess
      <4>2. s \in AudGets
        BY <1>5, <3>1, StepsAreKinds
      <4> QED BY <1>2, <1>3, <4>1, <4>2, GetEffect
    <3>2. CASE s.k = "put"
      <4>1. q = [r EXCEPT ![s.reg] = [r.acc EXCEPT ![s.field] = s.val]]
        BY <1>1, <1>9, <2>2, <3>2 DEF RunAccess
      <4>2. s \in AudPuts
        BY <1>5, <3>2, StepsAreKinds
      <4>3. FreshFor(s.reg, r) /\ (s.reg = "ctrl1" /\ m => r.acc = r.ctrl1)
        BY <1>1, <1>2, <1>4, <3>2 DEF Loaded, MutedNow
      <4> QED BY <1>2, <1>3, <4>1, <4>2, <4>3, PutEffect
    <3> QED BY <1>9, <3>1, <3>2 DEF RunAccess
  <2>5. RecEffect(s, d, d)
    BY <1>2, <2>3, NoRecEffect
  <2> QED BY <1>2, <1>8, <2>1, <2>2, <2>3, <2>4, <2>5
<1>10. CASE RunAudRecord(s)
  <2>1. acall' = Tail(c) /\ areg' = r
    BY <1>1, <1>10 DEF RunAudRecord
  <2>2. PICK e : e = aud'
    OBVIOUS
  <2>3. s.k \notin {"resync", "get", "put", "save"}
    BY <1>10 DEF RunAudRecord
  <2>4. e \in AudDs /\ RecEffect(s, d, e)
    <3>1. CASE s.k = "rec"
      <4>1. e = [d EXCEPT ![s.field] = s.val]
        BY <1>1, <1>10, <2>2, <3>1 DEF RunAudRecord
      <4>2. s \in AudRecs
        BY <1>5, <3>1, StepsAreKinds
      <4> QED BY <1>2, <4>1, <4>2, RecordEffect
    <3>2. CASE s.k = "closed"
      <4>1. e = [d EXCEPT !.count = 0, !.open = FALSE, !.irq = FALSE, !.isrc = -1]
        BY <1>1, <1>10, <2>2, <3>2 DEF RunAudRecord, ClosedDecoder
      <4> QED BY <1>2, <3>2, <4>1, CloseEffect
    <3> QED BY <1>10, <3>1, <3>2 DEF RunAudRecord
  <2>5. RegEffect(s, r, r, m)
    BY <1>2, <1>3, <2>3, NoRegEffect
  <2> QED BY <1>2, <1>8, <2>1, <2>2, <2>3, <2>4, <2>5
<1>11. CASE RunSync(s) /\ ~(s.k = "resync" /\ r.was)
  <2>1. acall' = Tail(c) /\ aud' = d
    <3>1. acall' = <<>> \o Tail(c) /\ aud' = d
      BY <1>1, <1>11 DEF RunSync
    <3>2. Tail(c) \in Seq(AudSteps)
      BY <1>2, AudTail
    <3> QED BY <3>1, <3>2, ConcatEmptySeq
  <2>2. PICK q : q = areg'
    OBVIOUS
  <2>3. s.k \notin {"rec", "closed", "get", "put"}
    BY <1>11 DEF RunSync
  <2>4. q \in AudRegs /\ RegEffect(s, r, q, m)
    <3>1. CASE s.k = "save"
      <4>1. q = [r EXCEPT !.was = r.acc.sync]
        BY <1>1, <1>11, <2>2, <3>1 DEF RunSync
      <4>2. r.acc.sync \in BOOLEAN
        <5>1. 1 \in 1 .. Len(c) /\ 1 + 1 = 2
          BY <1>2
        <5>2. c[2] \in {Put("ctrl0", "sync", FALSE), Put("chip", "sync", FALSE)}
          BY <1>2, <1>4, <3>1, <5>1 DEF Paired
        <5>3. FreshFor(c[2].reg, r) /\ c[2].reg \in {"ctrl0", "chip"}
          BY <1>2, <1>4, <3>1, <5>2 DEF Loaded, Put
        <5>4. r.ctrl0 \in Ctrl0s
          BY <1>2 DEF AudRegs
        <5>5. r.acc \in Ctrl0s \/ r.acc \in Chips
          BY <5>3, <5>4 DEF FreshFor
        <5> QED BY <5>5 DEF Ctrl0s, Chips
      <4> QED BY <1>2, <1>3, <3>1, <4>1, <4>2, SaveEffect
    <3>2. CASE s.k # "save"
      <4>1. q = r
        BY <1>1, <1>11, <2>2, <3>2 DEF RunSync
      <4> QED BY <1>2, <1>3, <2>3, <3>2, <4>1, NoRegEffect
    <3> QED BY <3>1, <3>2
  <2>5. RecEffect(s, d, d)
    BY <1>2, <2>3, NoRecEffect
  <2> QED BY <1>2, <1>8, <1>11, <2>1, <2>2, <2>4, <2>5
<1>12. CASE RunSync(s) /\ s.k = "resync" /\ r.was
  <2>1. aud' = d /\ areg' = r /\ acall' = Modified(c[1].reg, "sync", TRUE) \o Tail(c)
    BY <1>1, <1>4, <1>12, Zenon DEF RunSync
  <2>2. PICK n : n = Modified(c[1].reg, "sync", TRUE) \o Tail(c)
    OBVIOUS
  <2>3. AudKept(n, d, r) /\ (SourceKept(c, d, r) => SourceKept(n, d, r))
    BY <1>2, <1>4, <1>12, <2>2, ResyncKept
  <2>4. acall' = n
    BY <2>1, <2>2, Zenon
  <2> QED BY <1>2, <1>7, <2>1, <2>3, <2>4
<1>13. ASSUME NEW ok \in BOOLEAN, RunAudTest(s, ok) PROVE AudInv'
  <2>1. aud' = d /\ areg' = r /\ s.k \in {"ready", "nosource", "create"}
    BY <1>1, <1>13 DEF RunAudTest
  <2>2. CASE ok
    <3>1. acall' = Tail(c)
      BY <1>1, <1>13, <2>2 DEF RunAudTest
    <3>2. RegEffect(s, r, r, m) /\ RecEffect(s, d, d)
      BY <1>2, <1>3, <2>1, NoRegEffect, NoRecEffect
    <3>3. s.k # "resync"
      BY <2>1
    <3> QED BY <1>2, <1>8, <2>1, <3>1, <3>2, <3>3
  <2>3. CASE ~ok /\ s.k = "ready"
    <3>1. acall' = TimedOut(c)
      BY <1>1, <1>13, <2>3 DEF RunAudTest
    <3>2. AudKept(TimedOut(c), d, r) /\ (SourceKept(c, d, r) => SourceKept(TimedOut(c), d, r))
      BY <1>2, <1>4, <2>3, LateKept
    <3> QED BY <1>2, <1>7, <2>1, <3>1, <3>2
  <2>4. CASE ~ok /\ s.k \in {"nosource", "create"}
    <3>1. acall' = <<>>
      BY <1>1, <1>13, <2>4 DEF RunAudTest
    <3>2. Asked("fail")
      <4>1. CASE s.k = "create"
        BY <1>13, <2>4, <4>1 DEF RunAudTest
      <4>2. CASE s.k = "nosource"
        <5>1. d.src # "NO"
          BY <1>1, <1>13, <2>4, <4>2 DEF RunAudTest
        <5> QED BY <1>2, <1>4, <4>2, <5>1, SourceWaits
      <4> QED BY <2>4, <4>1, <4>2
    <3>3. AudKept(<<>>, d, r)
      BY <1>2, <1>4, <2>4, GivenUpKept
    <3> QED BY <1>2, <1>7, <2>1, <3>1, <3>2, <3>3
  <2> QED BY <2>1, <2>2, <2>3, <2>4
<1>14. RunAccess(s) \/ RunAudRecord(s) \/ RunSync(s) \/ \E ok \in BOOLEAN : RunAudTest(s, ok)
  BY <1>5 DEF RunAudStep
<1> QED BY <1>9, <1>10, <1>11, <1>12, <1>13, <1>14

-----------------------------------------------------------------------------
(* A call begins.                                                           *)

Settled(d, r) == (d.count = 1 => r.ctrl0.sync = d.sync) /\ (d.mute => r.ctrl1.soft)
SourceSettled(d, r) == d.count = 1 => AudSourced(d, r)

LEMMA IdleSettled ==
  ASSUME AudInv, AudIdle
  PROVE  Settled(aud, areg) /\ (Asked("fail") \/ SourceSettled(aud, areg))
<1>1. PICK c, d, r : c = acall /\ d = aud /\ r = areg
  OBVIOUS
<1>2. c = <<>> /\ SyncKept(c, d, r) /\ MuteKept(c, d, r) /\ (Asked("fail") \/ SourceKept(c, d, r))
  BY <1>1 DEF AudInv, AudKept, AudIdle
<1>3. ~SyncRecorded(c, r)
  BY <1>2 DEF SyncRecorded
<1>4. ~SyncBorrowed(c, d, r)
  <2>1. c \notin Asking
    BY <1>2, FormsAt, Zenon
  <2>2. /\ c \notin Borrowing /\ c \notin Before([k |-> "save"], TurnedOff) /\ c \notin TurnedOff
        /\ c \notin Before(Get("ctrl0"), Before(Put("ctrl0", "sync", TRUE), Later))
        /\ c \notin Before(Put("ctrl0", "sync", TRUE), Later)
    BY <1>2, FormsAt, Zenon
  <2> QED BY <2>1, <2>2, Zenon DEF SyncBorrowed, Borrowing
<1>5. d.count = 1 => r.ctrl0.sync = d.sync
  BY <1>2, <1>3, <1>4 DEF SyncKept
<1>6. d.mute => r.ctrl1.soft
  BY <1>2 DEF MuteKept
<1>7. SourceKept(c, d, r) => SourceSettled(d, r)
  <2>1. \A p \in {0, 1} : ~Selecting(c, d, r, p)
    BY <1>2 DEF Selecting
  <2> QED BY <1>2, <2>1 DEF SourceKept, SourceSettled
<1> QED BY <1>1, <1>2, <1>5, <1>6, <1>7 DEF Settled

\* Lists of steps of a kind that begin with their own reading.
Fits(S, c) == S \in SUBSET AudSteps /\ c \in Seq(S) /\ Whole(c)

LEMMA FitsIsKept ==
  ASSUME NEW S, NEW c, Fits(S, c) PROVE c \in Seq(AudSteps) /\ Whole(c) /\ c \in Seq(S)
  BY SeqGrows DEF Fits

LEMMA FitsJoins ==
  ASSUME NEW S, NEW a, NEW b, Fits(S, a), Fits(S, b) PROVE Fits(S, a \o b)
<1>1. a \in Seq(S) /\ b \in Seq(S) /\ S \in SUBSET AudSteps
  BY DEF Fits
<1>2. a \o b \in Seq(S)
  BY <1>1, ListsOfSteps
<1>3. a \in Seq(AudSteps) /\ b \in Seq(AudSteps) /\ Whole(a) /\ Whole(b)
  BY FitsIsKept
<1>4. Whole(a \o b)
  BY <1>3, WholeJoins
<1> QED BY <1>1, <1>2, <1>4 DEF Fits

LEMMA FitsNone == ASSUME NEW S \in SUBSET AudSteps PROVE Fits(S, <<>>)
  BY WholeNone DEF Fits

LEMMA FitsOne ==
  ASSUME NEW S \in SUBSET AudSteps, NEW x \in S, x.k \notin {"put", "save"} PROVE Fits(S, <<x>>)
<1>1. <<x>> \in Seq(S)
  OBVIOUS
<1>2. Whole(<<x>>)
  BY WholeOne
<1> QED BY <1>1, <1>2 DEF Fits

LEMMA FitsModified ==
  ASSUME NEW S \in SUBSET AudSteps, NEW x, NEW f, NEW v, Get(x) \in S, Put(x, f, v) \in S
  PROVE  Fits(S, Modified(x, f, v)) /\ Len(Modified(x, f, v)) = 2
         /\ Modified(x, f, v)[1] = Get(x) /\ Modified(x, f, v)[2] = Put(x, f, v)
<1>1. PICK g, p, l : g = Get(x) /\ p = Put(x, f, v) /\ l = <<g, p>>
  OBVIOUS
<1>2. g \in S /\ p \in S
  BY <1>1
<1>3. l \in Seq(S) /\ Len(l) = 2 /\ l[1] = g /\ l[2] = p
  <2>1. l = <<g, p>>
    BY <1>1
  <2> QED BY <1>2, <2>1
<1>4. l = Modified(x, f, v)
  BY <1>1, Zenon DEF Modified
<1>5. Whole(Modified(x, f, v))
  BY WholeModified
<1>6. Fits(S, l)
  BY <1>3, <1>4, <1>5 DEF Fits
<1> QED BY <1>1, <1>3, <1>4, <1>6, Zenon

LEMMA SettledNeutral ==
  ASSUME NEW c, Fits(Harmless, c), NEW d, NEW r, Settled(d, r)
  PROVE  AudKept(c, d, r) /\ (SourceSettled(d, r) => SourceKept(c, d, r))
<1>1. c \in Seq(AudSteps) /\ Whole(c) /\ c \in Seq(Harmless)
  BY FitsIsKept
<1>2. /\ Harmless \subseteq AudSteps \ SyncSteps /\ Harmless \subseteq AudSteps \ MuteSteps
      /\ Harmless \subseteq AudSteps \ AudSourceSteps
  BY DEF Harmless
<1>3. /\ c \in Seq(AudSteps \ SyncSteps) /\ c \in Seq(AudSteps \ MuteSteps)
      /\ c \in Seq(AudSteps \ AudSourceSteps)
  BY <1>1, <1>2, SeqGrows
<1>4. SyncKept(c, d, r) /\ MuteKept(c, d, r)
  BY <1>3 DEF SyncKept, MuteKept, Settled
<1>5. SourceSettled(d, r) => SourceKept(c, d, r)
  BY <1>3 DEF SourceKept, SourceSettled
<1> QED BY <1>1, <1>4, <1>5, WholeIsLoaded DEF AudKept

LEMMA CallKeeps ==
  ASSUME AudInv, AudIdle, NEW c, acall' = c, UNCHANGED <<aud, areg, audEnv>>,
         AudKept(c, aud, areg),
         SourceSettled(aud, areg) => SourceKept(c, aud, areg)
  PROVE  AudInv'
<1>1. Asked("fail") \/ SourceKept(c, aud, areg)
  BY IdleSettled
<1> QED BY <1>1 DEF AudInv, Asked

LEMMA HarmlessPuts ==
  /\ \A b \in BOOLEAN : /\ Put("ctrl2", "halt", b) \in Harmless /\ Put("ctrl2", "mute", b) \in Harmless
                        /\ Put("dsr", "master", b) \in Harmless /\ Put("chip", "sync", b) \in Harmless
  /\ \A s \in Streams : Put("ctrl0", "type", s) \in Harmless
  /\ \A c \in AudChannels : Put("ctrl1", "channel", c) \in Harmless
  /\ Put("ctrl2", "endian", "asked") \in Harmless /\ Put("dsp", "pcm", "asked") \in Harmless
  /\ Put("dsp", "mix", "asked") \in Harmless
<1>1. ASSUME NEW x, NEW f, NEW v, Put(x, f, v) \in AudPuts,
             f \notin {"sync", "soft", "clip"} \/ x = "chip"
      PROVE  Put(x, f, v) \in Harmless
  <2>1. PICK p : p = Put(x, f, v)
    OBVIOUS
  <2>2. p \in AudSteps
    BY <1>1, <2>1 DEF AudSteps
  <2>3. p.k = "put" /\ p.reg = x /\ p.field = f
    BY <2>1 DEF Put
  <2>4. p \in Harmless
    BY <1>1, <2>2, <2>3 DEF Harmless, SyncSteps, MuteSteps, AudSourceSteps
  <2> QED BY <2>1, <2>4
<1> QED BY <1>1, PutsAre

LEMMA HarmlessRecs ==
  /\ \A s \in {"STOPPED", "PLAYING"} : Rec("state", s) \in Harmless
  /\ \A s \in {"PES", "PCM", "bad"} : Rec("stream", s) \in Harmless
  /\ \A c \in AudChannels : Rec("channel", c) \in Harmless
<1>1. ASSUME NEW f, NEW v, Rec(f, v) \in AudRecs, f \in {"state", "stream", "channel"}
      PROVE  Rec(f, v) \in Harmless
  <2>1. PICK p : p = Rec(f, v)
    OBVIOUS
  <2>2. p \in AudSteps
    BY <1>1, <2>1 DEF AudSteps
  <2>3. p.k = "rec" /\ p.field = f
    BY <2>1 DEF Rec
  <2>4. p \in Harmless
    BY <1>1, <2>2, <2>3 DEF Harmless, SyncSteps, MuteSteps, AudSourceSteps
  <2> QED BY <2>1, <2>4
<1> QED BY <1>1, RecsAre

LEMMA FitsMore ==
  ASSUME NEW S, NEW T \in SUBSET AudSteps, S \subseteq T, NEW c, Fits(S, c) PROVE Fits(T, c)
  BY SeqGrows DEF Fits

Plain == Harmless \cap Straight
StopSteps == IF aud.state = "STOPPED" THEN <<>> ELSE aud_atom_stop \o <<Rec("state", "STOPPED")>>

LEMMA SetsOfSteps ==
  /\ Harmless \in SUBSET AudSteps /\ Plain \in SUBSET AudSteps /\ Plain \subseteq Harmless
  /\ Straight \in SUBSET AudSteps
  BY DEF Harmless, Plain, Straight

LEMMA PlainAre ==
  /\ \A x \in {"ctrl0", "ctrl1", "ctrl2", "dsr", "dsp", "chip"} : Get(x) \in Plain
  /\ \A b \in BOOLEAN : /\ Put("ctrl2", "halt", b) \in Plain /\ Put("ctrl2", "mute", b) \in Plain
                        /\ Put("dsr", "master", b) \in Plain
  /\ \A s \in Streams : Put("ctrl0", "type", s) \in Plain
  /\ \A c \in AudChannels : Put("ctrl1", "channel", c) \in Plain
  /\ Put("ctrl2", "endian", "asked") \in Plain /\ Put("dsp", "pcm", "asked") \in Plain
  /\ Put("dsp", "mix", "asked") \in Plain
  /\ \A s \in {"STOPPED", "PLAYING"} : Rec("state", s) \in Plain /\ Rec("state", s).k = "rec"
  /\ \A s \in {"PES", "PCM", "bad"} : Rec("stream", s) \in Plain /\ Rec("stream", s).k = "rec"
  /\ \A c \in AudChannels : Rec("channel", c) \in Plain /\ Rec("channel", c).k = "rec"
<1>1. \A x, f, v : Put(x, f, v) \in Harmless => Put(x, f, v) \in Plain
  <2> SUFFICES ASSUME NEW x, NEW f, NEW v, Put(x, f, v) \in Harmless PROVE Put(x, f, v) \in Plain
    OBVIOUS
  <2>1. Put(x, f, v).k = "put" /\ Put(x, f, v) \in AudSteps
    BY DEF Put, Harmless
  <2> QED BY <2>1 DEF Plain, Straight
<1>2. \A f, v : Rec(f, v) \in Harmless => Rec(f, v) \in Plain /\ Rec(f, v).k = "rec"
  <2> SUFFICES ASSUME NEW f, NEW v, Rec(f, v) \in Harmless
               PROVE  Rec(f, v) \in Plain /\ Rec(f, v).k = "rec"
    OBVIOUS
  <2>1. Rec(f, v).k = "rec" /\ Rec(f, v) \in AudSteps
    BY DEF Rec, Harmless
  <2> QED BY <2>1 DEF Plain, Straight
<1>3. \A x \in {"ctrl0", "ctrl1", "ctrl2", "dsr", "dsp", "chip"} : Get(x) \in Plain
  BY GetsAre DEF Plain
<1> QED BY <1>1, <1>2, <1>3, HarmlessPuts, HarmlessRecs

\* A register modified and what was done recorded.
LEMMA PlainRecorded ==
  ASSUME NEW x \in {"ctrl0", "ctrl1", "ctrl2", "dsr", "dsp", "chip"}, NEW f, NEW v,
         Put(x, f, v) \in Plain, NEW g, NEW w, Rec(g, w) \in Plain
  PROVE  Fits(Plain, Modified(x, f, v) \o <<Rec(g, w)>>)
<1>1. Fits(Plain, Modified(x, f, v))
  BY PlainAre, SetsOfSteps, FitsModified
<1>2. PICK y : y = Rec(g, w)
  OBVIOUS
<1>3. y \in Plain /\ y.k = "rec"
  BY <1>2 DEF Rec
<1>4. Fits(Plain, <<y>>)
  BY <1>3, SetsOfSteps, FitsOne
<1>5. Fits(Plain, Modified(x, f, v) \o <<y>>)
  BY <1>1, <1>4, FitsJoins
<1> QED BY <1>2, <1>5, Zenon

LEMMA StopFits == Fits(Plain, StopSteps)
<1>1. Fits(Plain, aud_atom_stop \o <<Rec("state", "STOPPED")>>)
  BY PlainAre, PlainRecorded DEF aud_atom_stop
<1>2. Fits(Plain, <<>>)
  BY SetsOfSteps, FitsNone
<1> QED BY <1>1, <1>2, Zenon DEF StopSteps

LEMMA PlainCalls ==
  /\ Fits(Plain, aud_osi_play) /\ Fits(Plain, aud_osi_stop(<<>>))
  /\ \A s \in {"PES", "PCM", "bad"} : Fits(Plain, aud_osi_set_stream_type(s))
  /\ \A c \in AudChannels : Fits(Plain, aud_osi_set_channel(c))
  /\ Fits(Plain, aud_atom_set_pcm_fmt("asked")) /\ Fits(Plain, aud_atom_set_mixer_fmt("asked"))
<1>0. Fits(Plain, <<>>)
  BY SetsOfSteps, FitsNone
<1>1. Fits(Plain, aud_osi_play)
  <2>1. Fits(Plain, aud_atom_play \o <<Rec("state", "PLAYING")>>)
    BY PlainAre, PlainRecorded DEF aud_atom_play
  <2> QED BY <1>0, <2>1, Zenon DEF aud_osi_play
<1>2. Fits(Plain, aud_osi_stop(<<>>))
  <2>1. aud_osi_stop(<<>>) = StopSteps \o <<>>
    BY Zenon DEF aud_osi_stop, StopSteps
  <2>2. Fits(Plain, StopSteps \o <<>>)
    BY <1>0, StopFits, FitsJoins
  <2> QED BY <2>1, <2>2, Zenon
<1>3. ASSUME NEW s \in {"PES", "PCM", "bad"} PROVE Fits(Plain, aud_osi_set_stream_type(s))
  <2>1. PICK y, g : y = Rec("stream", s) /\ g = Get("ctrl0")
    OBVIOUS
  <2>2. y \in Plain /\ y.k = "rec" /\ g \in Plain /\ g.k = "get"
    BY <2>1, PlainAre DEF Get
  <2>3. Fits(Plain, <<y>>) /\ Fits(Plain, <<g>>)
    BY <2>2, SetsOfSteps, FitsOne
  <2>4. Fits(Plain, aud_atom_set_stream_type(s))
    <3>1. CASE s \in Streams
      <4>1. PICK p, a : p = Put("ctrl0", "type", s) /\ a = Modified("ctrl0", "type", s)
        OBVIOUS
      <4>2. <<g>> \o <<p>> = <<g, p>>
        <5>0. PICK e : e = <<>>
          OBVIOUS
        <5>1. p \in Plain /\ e \in Seq(Plain)
          BY <3>1, <4>1, <5>0, PlainAre
        <5>2. <<g, p>> \o e = <<g>> \o (<<p>> \o e)
          BY <2>2, <5>1, Joined, SMTT(20)
        <5>3. PICK l, k : l = <<g, p>> /\ k = <<p>>
          OBVIOUS
        <5>4. l \in Seq(Plain) /\ k \in Seq(Plain)
          BY <2>2, <5>1, <5>3
        <5>5. l \o e = l /\ k \o e = k
          BY <5>0, <5>4, ConcatEmptySeq
        <5> QED BY <5>2, <5>3, <5>5, Zenon
      <4>3. a = <<g, p>>
        BY <2>1, <4>1, Zenon DEF Modified
      <4>4. aud_atom_set_stream_type(s) = a
        BY <2>1, <3>1, <4>1, <4>2, <4>3, Zenon DEF aud_atom_set_stream_type
      <4>5. Fits(Plain, Modified("ctrl0", "type", s))
        BY <3>1, PlainAre, SetsOfSteps, FitsModified
      <4> QED BY <4>1, <4>4, <4>5, Zenon
    <3>2. CASE s \notin Streams
      <4>1. Fits(Plain, <<g>> \o <<>>)
        BY <1>0, <2>3, FitsJoins
      <4> QED BY <2>1, <3>2, <4>1, Zenon DEF aud_atom_set_stream_type
    <3> QED BY <3>1, <3>2
  <2>5. Fits(Plain, aud_atom_set_stream_type(s) \o <<y>>)
    BY <2>3, <2>4, FitsJoins
  <2> QED BY <1>0, <2>1, <2>5, Zenon DEF aud_osi_set_stream_type
<1>4. ASSUME NEW c \in AudChannels PROVE Fits(Plain, aud_osi_set_channel(c))
  <2>1. Fits(Plain, aud_atom_set_channel(c) \o <<Rec("channel", c)>>)
    BY PlainAre, PlainRecorded DEF aud_atom_set_channel
  <2> QED BY <1>0, <2>1, Zenon DEF aud_osi_set_channel
<1>5. Fits(Plain, aud_atom_set_pcm_fmt("asked"))
  <2>1. Fits(Plain, Modified("dsp", "pcm", "asked"))
    BY PlainAre, SetsOfSteps, FitsModified
  <2>2. Fits(Plain, Modified("ctrl2", "endian", "asked"))
    BY PlainAre, SetsOfSteps, FitsModified
  <2> QED BY <2>1, <2>2, FitsJoins DEF aud_atom_set_pcm_fmt
<1>6. Fits(Plain, aud_atom_set_mixer_fmt("asked"))
  BY PlainAre, SetsOfSteps, FitsModified DEF aud_atom_set_mixer_fmt
<1> QED BY <1>1, <1>2, <1>3, <1>4, <1>5, <1>6

LEMMA VideoFits == Fits(Harmless, vid_atom_set_stc) /\ Fits(Harmless, vid_atom_get_stc)
<1>1. PICK g, v, p, w, z :
        /\ g = Get("chip") /\ v = [k |-> "save"] /\ p = Put("chip", "sync", FALSE)
        /\ w = Words /\ z = Resync("chip")
  OBVIOUS
<1>2. g \in Harmless /\ v \in Harmless /\ p \in Harmless /\ w \in Harmless /\ z \in Harmless
  BY <1>1, GetsAre, MarksAre, HarmlessPuts
<1>3. PICK a, b : a = <<g, v, p>> /\ b = <<w, z>>
  OBVIOUS
<1>4. a \in Seq(Harmless) /\ b \in Seq(Harmless)
  BY <1>2, <1>3
<1>5. Whole(a)
  <2>1. Whole(<<Get("chip"), [k |-> "save"], Put("chip", "sync", FALSE)>>)
    BY WholeOff
  <2> QED BY <1>1, <1>3, <2>1, Zenon
<1>6. Whole(b)
  <2>1. w \in Dry /\ z \in Dry
    BY <1>1, DryMarks
  <2>2. b \in Seq(Dry)
    BY <1>3, <2>1
  <2> QED BY <2>2, DryIsWhole
<1>7. Fits(Harmless, a) /\ Fits(Harmless, b)
  BY <1>4, <1>5, <1>6, SetsOfSteps DEF Fits
<1>8. Fits(Harmless, a \o b)
  BY <1>7, FitsJoins
<1>9. vid_atom_set_stc = a \o b /\ vid_atom_get_stc = a \o b
  BY <1>1, <1>3, Zenon DEF vid_atom_set_stc, vid_atom_get_stc, vid_atom_disable_sync
<1> QED BY <1>8, <1>9, Zenon

\* The end of a list that is put together.
LEMMA EndOf ==
  ASSUME NEW S, NEW a \in Seq(S), NEW b \in Seq(S)
  PROVE  /\ Len(a \o b) = Len(a) + Len(b) /\ Len(a) \in Nat /\ Len(b) \in Nat
         /\ \A k \in 0 .. Len(b) - 1 : FromEnd(a \o b, k) = FromEnd(b, k)
         /\ \A k \in 0 .. Len(a) - 1 : FromEnd(a \o b, k + Len(b)) = FromEnd(a, k)
<1>1. PICK c, m, n : c = a \o b /\ m = Len(a) /\ n = Len(b)
  OBVIOUS
<1>2. /\ m \in Nat /\ n \in Nat /\ Len(c) = m + n
      /\ \A i \in 1 .. m : c[i] = a[i]
      /\ \A i \in m + 1 .. m + n : c[i] = b[i - m]
  BY <1>1
<1>3. ASSUME NEW k \in 0 .. n - 1 PROVE FromEnd(c, k) = FromEnd(b, k)
  <2>1. (m + n) - k \in m + 1 .. m + n /\ ((m + n) - k) - m = n - k
    BY <1>2
  <2>2. c[(m + n) - k] = b[n - k]
    BY <1>2, <2>1
  <2> QED BY <1>1, <1>2, <2>2 DEF FromEnd
<1>4. ASSUME NEW k \in 0 .. m - 1 PROVE FromEnd(c, k + n) = FromEnd(a, k)
  <2>1. m - k \in 1 .. m /\ (m + n) - (k + n) = m - k
    BY <1>2
  <2>2. c[(m + n) - (k + n)] = a[m - k]
    BY <1>2, <2>1
  <2> QED BY <1>1, <1>2, <2>2 DEF FromEnd
<1> QED BY <1>1, <1>2, <1>3, <1>4

LEMMA EndOfOne ==
  ASSUME NEW S, NEW a \in Seq(S), NEW x \in S
  PROVE  /\ a \o <<x>> \in Seq(S) /\ a \o <<x>> # <<>> /\ Len(a \o <<x>>) = Len(a) + 1
         /\ FromEnd(a \o <<x>>, 0) = x
         /\ Len(a) > 0 => FromEnd(a \o <<x>>, 1) = FromEnd(a, 0)
         /\ \A i \in 1 .. Len(a \o <<x>>) : i < Len(a \o <<x>>) => (a \o <<x>>)[i] \in S
<1>1. PICK b, c : b = <<x>> /\ c = a \o b
  OBVIOUS
<1>2. b \in Seq(S) /\ Len(b) = 1 /\ b[1] = x
  BY <1>1
<1>3. /\ Len(c) = Len(a) + Len(b) /\ Len(a) \in Nat
      /\ \A k \in 0 .. Len(b) - 1 : FromEnd(c, k) = FromEnd(b, k)
      /\ \A k \in 0 .. Len(a) - 1 : FromEnd(c, k + Len(b)) = FromEnd(a, k)
  <2>1. /\ Len(a \o b) = Len(a) + Len(b) /\ Len(a) \in Nat
        /\ \A k \in 0 .. Len(b) - 1 : FromEnd(a \o b, k) = FromEnd(b, k)
        /\ \A k \in 0 .. Len(a) - 1 : FromEnd(a \o b, k + Len(b)) = FromEnd(a, k)
    <3>1. b \in Seq(S)
      BY <1>2
    <3> QED BY <3>1, EndOf
  <2>2. a \o b = c
    BY <1>1
  <2> QED BY <2>1, <2>2, Zenon
<1>4. c \in Seq(S)
  BY <1>1, <1>2
<1>5. Len(c) = Len(a) + 1 /\ c # <<>>
  BY <1>2, <1>3, <1>4
<1>6. FromEnd(c, 0) = x
  <2>1. 0 \in 0 .. Len(b) - 1
    BY <1>2
  <2>2. FromEnd(b, 0) = x
    BY <1>2 DEF FromEnd
  <2> QED BY <1>3, <2>1, <2>2
<1>7. Len(a) > 0 => FromEnd(c, 1) = FromEnd(a, 0)
  <2>1. Len(a) > 0 => 0 \in 0 .. Len(a) - 1 /\ 0 + Len(b) = 1
    BY <1>2, <1>3
  <2> QED BY <1>3, <2>1
<1>8. \A i \in 1 .. Len(c) : i < Len(c) => c[i] \in S
  BY <1>4
<1>9. c = a \o <<x>>
  BY <1>1, Zenon
<1> QED BY <1>4, <1>5, <1>6, <1>7, <1>8, <1>9, Zenon

Synced == Straight \cap Clocked

LEMMA SyncedAre ==
  /\ Synced \in SUBSET AudSteps
  /\ Get("ctrl0") \in Synced /\ Get("dsr") \in Synced
  /\ \A b \in BOOLEAN : /\ Put("ctrl0", "sync", b) \in Synced /\ Put("dsr", "master", b) \in Synced
                        /\ Rec("sync", b) \in Synced
<1>1. Plain \subseteq Synced /\ Synced \in SUBSET AudSteps
  BY DEF Plain, Synced, Straight, Clocked, Harmless
<1>2. ASSUME NEW b \in BOOLEAN PROVE Put("ctrl0", "sync", b) \in Synced
  <2>1. Put("ctrl0", "sync", b) \in AudPuts
    BY PutsAre
  <2>2. Put("ctrl0", "sync", b) \in Straight
    BY <2>1, PutsAreSteps
  <2> QED BY <2>2, ClockedAre DEF Synced
<1>3. ASSUME NEW b \in BOOLEAN PROVE Rec("sync", b) \in Synced
  <2>1. PICK p : p = Rec("sync", b)
    OBVIOUS
  <2>2. p \in AudSteps
    BY <2>1, RecsAre DEF AudSteps
  <2>3. p.k = "rec" /\ p.field = "sync"
    BY <2>1 DEF Rec
  <2>4. p \in Synced
    BY <2>2, <2>3 DEF Synced, Straight, Clocked, MuteSteps, AudSourceSteps
  <2> QED BY <2>1, <2>4
<1> QED BY <1>1, <1>2, <1>3, PlainAre

LEMMA RecordingKept ==
  ASSUME NEW a, Fits(Synced, a), NEW b \in BOOLEAN, Len(a) > 0, FromEnd(a, 0) = Put("ctrl0", "sync", b),
         NEW d, NEW r, Settled(d, r)
  PROVE  /\ AudKept(a \o <<Rec("sync", b)>>, d, r)
         /\ SourceSettled(d, r) => SourceKept(a \o <<Rec("sync", b)>>, d, r)
<1>1. PICK x, c : x = Rec("sync", b) /\ c = a \o <<x>>
  OBVIOUS
<1>2. x \in Synced /\ x.k = "rec" /\ x.field = "sync" /\ x.val = b
  BY <1>1, SyncedAre DEF Rec
<1>3. Fits(Synced, c)
  <2>1. Fits(Synced, <<x>>)
    BY <1>2, SyncedAre, FitsOne
  <2> QED BY <1>1, <2>1, FitsJoins, Zenon
<1>4. c \in Seq(AudSteps) /\ Whole(c) /\ c \in Seq(Synced)
  BY <1>3, FitsIsKept
<1>5. c \in Seq(Straight) /\ c \in Seq(Clocked)
  <2>1. Synced \subseteq Straight /\ Synced \subseteq Clocked
    BY DEF Synced
  <2> QED BY <1>4, <2>1, SeqGrows
<1>6. c # <<>> /\ FromEnd(c, 0) = x /\ FromEnd(c, 1) = FromEnd(a, 0) /\ Len(c) # 1
  <2>1. a \in Seq(Synced)
    BY FitsIsKept
  <2>2. /\ a \o <<x>> # <<>> /\ FromEnd(a \o <<x>>, 0) = x /\ Len(a \o <<x>>) = Len(a) + 1
        /\ FromEnd(a \o <<x>>, 1) = FromEnd(a, 0)
    BY <1>2, <2>1, EndOfOne
  <2>3. c # <<>> /\ FromEnd(c, 0) = x /\ Len(c) = Len(a) + 1 /\ FromEnd(c, 1) = FromEnd(a, 0)
    BY <1>1, <2>2, Zenon
  <2> QED BY <2>1, <2>3
<1>7. SyncRecorded(c, r)
  BY <1>2, <1>5, <1>6 DEF SyncRecorded
<1>8. MuteKept(c, d, r) /\ (SourceSettled(d, r) => SourceKept(c, d, r))
  BY <1>5, ClockedIsIn DEF MuteKept, SourceKept, SourceSettled, Settled
<1>9. AudKept(c, d, r)
  BY <1>4, <1>7, <1>8, WholeIsLoaded DEF AudKept, SyncKept
<1> QED BY <1>1, <1>8, <1>9, Zenon

LEMMA SwitchingFits ==
  ASSUME NEW b \in BOOLEAN
  PROVE  Fits(Synced, Modified("ctrl0", "sync", b)) /\ Len(Modified("ctrl0", "sync", b)) = 2
         /\ FromEnd(Modified("ctrl0", "sync", b), 0) = Put("ctrl0", "sync", b)
<1>1. /\ Fits(Synced, Modified("ctrl0", "sync", b)) /\ Len(Modified("ctrl0", "sync", b)) = 2
      /\ Modified("ctrl0", "sync", b)[2] = Put("ctrl0", "sync", b)
  BY SyncedAre, FitsModified
<1>2. PICK l : l = Modified("ctrl0", "sync", b)
  OBVIOUS
<1>3. Len(l) = 2 /\ l[2] = Put("ctrl0", "sync", b)
  BY <1>1, <1>2
<1>4. FromEnd(l, 0) = Put("ctrl0", "sync", b)
  BY <1>3 DEF FromEnd
<1> QED BY <1>1, <1>2, <1>4

LEMMA EnableKept ==
  ASSUME NEW m \in BOOLEAN, NEW d, NEW r, Settled(d, r)
  PROVE  /\ AudKept(aud_osi_enable_sync(m), d, r)
         /\ SourceSettled(d, r) => SourceKept(aud_osi_enable_sync(m), d, r)
<1>1. PICK a, b, e : /\ a = Modified("ctrl0", "sync", FALSE) /\ b = Modified("dsr", "master", m)
                     /\ e = Modified("ctrl0", "sync", TRUE)
  OBVIOUS
<1>2. Fits(Synced, a) /\ Fits(Synced, e) /\ Len(e) = 2 /\ FromEnd(e, 0) = Put("ctrl0", "sync", TRUE)
  BY <1>1, SwitchingFits
<1>3. Fits(Synced, b)
  BY <1>1, SyncedAre, FitsModified
<1>4. Fits(Synced, a \o b) /\ Fits(Synced, (a \o b) \o e)
  BY <1>2, <1>3, FitsJoins
<1>5. PICK f, g : f = a \o b /\ g = f \o e
  OBVIOUS
<1>6. f \in Seq(Synced) /\ e \in Seq(Synced) /\ Fits(Synced, g)
  BY <1>2, <1>4, <1>5, FitsIsKept
<1>7. Len(g) > 0 /\ FromEnd(g, 0) = Put("ctrl0", "sync", TRUE)
  <2>1. /\ Len(f \o e) = Len(f) + Len(e) /\ Len(f) \in Nat
        /\ \A k \in 0 .. Len(e) - 1 : FromEnd(f \o e, k) = FromEnd(e, k)
    BY <1>6, EndOf
  <2>2. 0 \in 0 .. Len(e) - 1
    BY <1>2
  <2>3. FromEnd(g, 0) = FromEnd(e, 0) /\ Len(g) = Len(f) + Len(e)
    BY <1>5, <2>1, <2>2
  <2>4. Len(g) > 0
    BY <1>2, <2>1, <2>3
  <2> QED BY <1>2, <2>3, <2>4, Zenon
<1>8. aud_osi_enable_sync(m) = g \o <<Rec("sync", TRUE)>>
  BY <1>1, <1>5, Zenon DEF aud_osi_enable_sync, aud_atom_sync_master
<1>9. /\ AudKept(g \o <<Rec("sync", TRUE)>>, d, r)
      /\ SourceSettled(d, r) => SourceKept(g \o <<Rec("sync", TRUE)>>, d, r)
  BY <1>6, <1>7, RecordingKept
<1> QED BY <1>8, <1>9, Zenon

LEMMA DisableKept ==
  ASSUME NEW d, NEW r, Settled(d, r), aud_osi_disable_sync # <<>>
  PROVE  /\ AudKept(aud_osi_disable_sync, d, r)
         /\ SourceSettled(d, r) => SourceKept(aud_osi_disable_sync, d, r)
<1>1. PICK a : a = Modified("ctrl0", "sync", FALSE)
  OBVIOUS
<1>2. Fits(Synced, a) /\ Len(a) = 2 /\ FromEnd(a, 0) = Put("ctrl0", "sync", FALSE)
  BY <1>1, SwitchingFits
<1>3. Len(a) > 0
  BY <1>2
<1>4. aud_osi_disable_sync = a \o <<Rec("sync", FALSE)>>
  BY <1>1, Zenon DEF aud_osi_disable_sync
<1>5. /\ AudKept(a \o <<Rec("sync", FALSE)>>, d, r)
      /\ SourceSettled(d, r) => SourceKept(a \o <<Rec("sync", FALSE)>>, d, r)
  BY <1>2, <1>3, RecordingKept
<1> QED BY <1>4, <1>5, Zenon

LEMMA BorrowingKept ==
  ASSUME NEW c \in Borrowing, Whole(c), NEW d, NEW r, Settled(d, r), d.count = 1
  PROVE  AudKept(c, d, r) /\ (SourceSettled(d, r) => SourceKept(c, d, r))
<1>1. c \in Seq(Clocked)
  <2>1. PICK S, g, T : S = Clocked /\ g = Get("ctrl0") /\ T = Before([k |-> "save"], TurnedOff)
    OBVIOUS
  <2>2. g \in S /\ T \in SUBSET Seq(S) /\ c \in Before(g, T)
    BY <2>1, ClockedAre, FormsAreLists DEF Borrowing
  <2>3. c \in Seq(S)
    BY <2>2, BeforeHas
  <2> QED BY <2>1, <2>3
<1>2. SyncKept(c, d, r)
  BY DEF SyncKept, SyncBorrowed, Borrowing, Settled
<1>3. MuteKept(c, d, r) /\ (SourceSettled(d, r) => SourceKept(c, d, r))
  BY <1>1, ClockedIsIn DEF MuteKept, SourceKept, SourceSettled, Settled
<1>4. c \in Seq(AudSteps)
  BY <1>1, ClockedIsIn
<1> QED BY <1>2, <1>3, <1>4, WholeIsLoaded DEF AudKept

LEMMA ClocksAreRead ==
  /\ aud_atom_get_stc \o aud_atom_get_pts \in Borrowing /\ Whole(aud_atom_get_stc \o aud_atom_get_pts)
  /\ aud_atom_set_stc \in Borrowing /\ Whole(aud_atom_set_stc)
<1>1. aud_atom_get_stc = aud_atom_get_pts
  BY Zenon DEF aud_atom_get_stc, aud_atom_get_pts
<1>2. PICK c : c = aud_atom_get_pts
  OBVIOUS
<1>3. c \in Seq(AudSteps) /\ Whole(c)
  BY <1>2, FormsAreLists, ClockedIsIn, PtsIsWhole
<1>4. Whole(c \o c)
  BY <1>3, WholeJoins
<1>5. aud_atom_get_pts \o c \in Borrowing
  <2>1. c \in Later
    BY <1>2 DEF Later
  <2> QED BY <2>1, PtsBorrows
<1>6. Whole(aud_atom_set_stc)
  <2>1. PICK a, b : a = aud_atom_sync_off /\ b = <<Ready, Words, Resync("ctrl0")>>
    OBVIOUS
  <2>2. Whole(a)
    BY <2>1, WholeOff DEF aud_atom_sync_off
  <2>3. a \in Seq(AudSteps)
    <3>1. /\ Get("ctrl0") \in AudSteps /\ [k |-> "save"] \in AudSteps
          /\ Put("ctrl0", "sync", FALSE) \in AudSteps
      BY ClockedAre DEF Clocked
    <3> QED BY <2>1, <3>1, ListsOfSteps DEF aud_atom_sync_off
  <2>4. PICK e, w, z : e = Ready /\ w = Words /\ z = Resync("ctrl0")
    OBVIOUS
  <2>5. e \in Dry /\ w \in Dry /\ z \in Dry /\ e \in AudSteps /\ w \in AudSteps /\ z \in AudSteps
    BY <2>4, DryMarks, MarksAre
  <2>6. b = <<e, w, z>>
    BY <2>1, <2>4
  <2>7. b \in Seq(Dry) /\ b \in Seq(AudSteps)
    BY <2>5, <2>6
  <2>8. Whole(b)
    BY <2>7, DryIsWhole
  <2>9. Whole(a \o b)
    BY <2>2, <2>3, <2>7, <2>8, WholeJoins
  <2> QED BY <2>1, <2>9, Zenon DEF aud_atom_set_stc
<1> QED BY <1>1, <1>2, <1>4, <1>5, <1>6, StcBorrows, Zenon

LEMMA MutingKept ==
  ASSUME NEW b \in BOOLEAN, NEW c,
         c = Modified("ctrl1", "soft", b) \o Modified("ctrl2", "mute", b) \o <<Rec("mute", b)>>,
         NEW d, NEW r, Settled(d, r)
  PROVE  AudKept(c, d, r) /\ (SourceSettled(d, r) => SourceKept(c, d, r))
<1>1. PICK S : S = Straight \ (SyncSteps \cup AudSourceSteps)
  OBVIOUS
<1>2. S \in SUBSET AudSteps /\ Plain \subseteq S
  BY <1>1 DEF Straight, Plain, Harmless
<1>3. Put("ctrl1", "soft", b) \in S
  <2>1. PICK p : p = Put("ctrl1", "soft", b)
    OBVIOUS
  <2>2. p \in AudSteps
    BY <2>1, PutsAre DEF AudSteps
  <2>3. p.k = "put" /\ p.field = "soft"
    BY <2>1 DEF Put
  <2> QED BY <1>1, <2>1, <2>2, <2>3 DEF Straight, SyncSteps, AudSourceSteps
<1>4. Rec("mute", b) \in S
  <2>1. PICK p : p = Rec("mute", b)
    OBVIOUS
  <2>2. p \in AudSteps
    BY <2>1, RecsAre DEF AudSteps
  <2>3. p.k = "rec" /\ p.field = "mute"
    BY <2>1 DEF Rec
  <2> QED BY <1>1, <2>1, <2>2, <2>3 DEF Straight, SyncSteps, AudSourceSteps
<1>5. Get("ctrl1") \in S /\ Get("ctrl2") \in S /\ Put("ctrl2", "mute", b) \in S
  BY <1>2, PlainAre
<1>6. PICK a, e, x, f : /\ a = Modified("ctrl1", "soft", b) /\ e = Modified("ctrl2", "mute", b)
                        /\ x = Rec("mute", b) /\ f = a \o e
  OBVIOUS
<1>7. /\ Fits(S, a) /\ Len(a) = 2 /\ a[1] = Get("ctrl1") /\ a[2] = Put("ctrl1", "soft", b)
  BY <1>2, <1>3, <1>5, <1>6, FitsModified
<1>8. /\ Fits(S, e) /\ Len(e) = 2 /\ e[1] = Get("ctrl2") /\ e[2] = Put("ctrl2", "mute", b)
  BY <1>2, <1>5, <1>6, FitsModified
<1>9. x \in S /\ x.k = "rec"
  BY <1>4, <1>6 DEF Rec
<1>10. Fits(S, f)
  BY <1>6, <1>7, <1>8, FitsJoins
<1>11. Fits(S, c)
  <2>1. Fits(S, <<x>>)
    BY <1>2, <1>9, FitsOne
  <2>2. Fits(S, f \o <<x>>)
    BY <1>10, <2>1, FitsJoins
  <2> QED BY <1>6, <2>2, Zenon
<1>12. a \in Seq(S) /\ e \in Seq(S) /\ f \in Seq(S) /\ c \in Seq(S) /\ c \in Seq(AudSteps) /\ Whole(c)
  BY <1>7, <1>8, <1>10, <1>11, FitsIsKept
<1>13. Len(f) = 4 /\ f[2] = a[2] /\ f[3] = e[1] /\ f[4] = e[2]
  <2>1. a \in Seq(S) /\ e \in Seq(S)
    BY <1>12
  <2>2. f = a \o e
    BY <1>6
  <2>3. /\ Len(f) = Len(a) + Len(e)
        /\ \A i \in 1 .. Len(a) : f[i] = a[i]
        /\ \A i \in 1 .. Len(e) : f[Len(a) + i] = e[i]
    BY <2>1, <2>2, JoinedAt
  <2>4. 2 \in 1 .. Len(a) /\ 1 \in 1 .. Len(e) /\ 2 \in 1 .. Len(e) /\ Len(a) + 1 = 3 /\ Len(a) + 2 = 4
    BY <1>7, <1>8
  <2>5. f[2] = a[2] /\ f[Len(a) + 1] = e[1] /\ f[Len(a) + 2] = e[2]
    BY <2>3, <2>4
  <2> QED BY <1>8, <2>3, <2>4, <2>5
<1>14. c = f \o <<x>>
  BY <1>6, Zenon
<1>15. c # <<>> /\ Len(c) = 5 /\ FromEnd(c, 0) = x
  <2>1. /\ f \o <<x>> # <<>> /\ Len(f \o <<x>>) = Len(f) + 1 /\ FromEnd(f \o <<x>>, 0) = x
    BY <1>9, <1>12, EndOfOne
  <2>2. c # <<>> /\ Len(c) = Len(f) + 1 /\ FromEnd(c, 0) = x
    BY <1>14, <2>1, Zenon
  <2> QED BY <1>13, <2>2
<1>16. c[2] = Put("ctrl1", "soft", b) /\ c[3] = Get("ctrl2") /\ c[4] = Put("ctrl2", "mute", b) /\ c[5] = x
  <2>1. c[5] = x
    BY <1>15 DEF FromEnd
  <2>2. PICK y : y = <<x>>
    OBVIOUS
  <2>3. y \in Seq(S)
    BY <1>9, <2>2
  <2>4. \A i \in 1 .. Len(f) : (f \o y)[i] = f[i]
    BY <1>12, <2>3
  <2>5. c[2] = f[2] /\ c[3] = f[3] /\ c[4] = f[4]
    <3>1. 2 \in 1 .. Len(f) /\ 3 \in 1 .. Len(f) /\ 4 \in 1 .. Len(f)
      BY <1>13
    <3>2. c = f \o y
      BY <1>14, <2>2
    <3> QED BY <2>4, <3>1, <3>2
  <2> QED BY <1>7, <1>8, <1>13, <2>1, <2>5, Zenon
<1>17. c \in Seq(Straight) /\ c \in Seq(AudSteps \ SyncSteps) /\ c \in Seq(AudSteps \ AudSourceSteps)
  <2>1. S \subseteq Straight /\ S \subseteq AudSteps \ SyncSteps /\ S \subseteq AudSteps \ AudSourceSteps
    BY <1>1, <1>2
  <2> QED BY <1>12, <2>1, SeqGrows
<1>18. MuteKept(c, d, r)
  <2>1. CASE b = FALSE
    BY <1>6, <1>15, <1>17, <2>1 DEF MuteKept
  <2>2. CASE b = TRUE
    <3>1. FromEnd(c, 3) = Put("ctrl1", "soft", TRUE)
      <4>1. FromEnd(c, 3) = c[2]
        BY <1>15 DEF FromEnd
      <4> QED BY <1>16, <2>2, <4>1, Zenon
    <3>2. ASSUME NEW i \in 1 .. Len(c), i > Len(c) - 3
          PROVE  ~(c[i].k = "put" /\ c[i].reg = "ctrl1")
      <4>1. i = 3 \/ i = 4 \/ i = 5
        BY <1>15, <3>2
      <4>5. Get("ctrl2").k = "get"
        BY DEF Get
      <4>2. c[3].k = "get"
        BY <1>16, <4>5, Zenon
      <4>4. Put("ctrl2", "mute", b).reg = "ctrl2"
        BY DEF Put
      <4>3. c[4].reg = "ctrl2" /\ c[5].k = "rec"
        BY <1>9, <1>16, <4>4, Zenon
      <4> QED BY <4>1, <4>2, <4>3
    <3>3. Len(c) > 3 /\ ~(Len(c) <= 3)
      BY <1>15
    <3>4. FromEnd(c, 0) = Rec("mute", TRUE)
      BY <1>6, <1>15, <2>2
    <3> QED BY <1>15, <1>17, <3>1, <3>2, <3>3, <3>4 DEF MuteKept
  <2> QED BY <2>1, <2>2
<1>19. SyncKept(c, d, r) /\ (SourceSettled(d, r) => SourceKept(c, d, r))
  BY <1>17 DEF SyncKept, SourceKept, SourceSettled, Settled
<1> QED BY <1>12, <1>18, <1>19, WholeIsLoaded DEF AudKept

\* The steps that neither synchronise nor mute.
Sourcing == AudSteps \ (SyncSteps \cup MuteSteps)

LEMMA SourcingAre ==
  /\ Sourcing \in SUBSET AudSteps /\ Plain \subseteq Sourcing
  /\ Get("ctrl0") \in Sourcing
  /\ \A b \in BOOLEAN : Put("ctrl0", "clip", b) \in Sourcing /\ Put("ctrl0", "clip", b) \in Straight
  /\ \A y \in {"nosource", "create", "closed"} : [k |-> y] \in Sourcing
  /\ \A s \in {"NO", "DEMUX", "MEMORY"} : Rec("src", s) \in Sourcing /\ Rec("src", s) \in Straight
  /\ \A p \in {0, 1} : Rec("isrc", p) \in Sourcing
<1>1. Sourcing \in SUBSET AudSteps /\ Plain \subseteq Sourcing
  BY DEF Sourcing, Plain, Harmless
<1>2. ASSUME NEW b \in BOOLEAN
      PROVE  Put("ctrl0", "clip", b) \in Sourcing /\ Put("ctrl0", "clip", b) \in Straight
  <2>1. PICK p : p = Put("ctrl0", "clip", b)
    OBVIOUS
  <2>2. p \in AudSteps
    BY <2>1, PutsAre DEF AudSteps
  <2>3. p.k = "put" /\ p.field = "clip"
    BY <2>1 DEF Put
  <2>4. p \in Sourcing /\ p \in Straight
    BY <2>2, <2>3 DEF Sourcing, Straight, SyncSteps, MuteSteps
  <2> QED BY <2>1, <2>4, Zenon
<1>3. ASSUME NEW y \in {"nosource", "create", "closed"} PROVE [k |-> y] \in Sourcing
  <2>1. [k |-> y] \in AudSteps /\ [k |-> y].k = y
    BY MarksAre
  <2> QED BY <2>1 DEF Sourcing, SyncSteps, MuteSteps
<1>4. ASSUME NEW f \in {"src", "isrc"}, NEW v, Rec(f, v) \in AudRecs
      PROVE  Rec(f, v) \in Sourcing /\ Rec(f, v) \in Straight
  <2>1. PICK p : p = Rec(f, v)
    OBVIOUS
  <2>2. p \in AudSteps
    BY <1>4, <2>1 DEF AudSteps
  <2>3. p.k = "rec" /\ p.field = f
    BY <2>1 DEF Rec
  <2>4. p \in Sourcing /\ p \in Straight
    BY <1>4, <2>2, <2>3 DEF Sourcing, Straight, SyncSteps, MuteSteps
  <2> QED BY <2>1, <2>4, Zenon
<1>5. \A s \in {"NO", "DEMUX", "MEMORY"} : Rec("src", s) \in Sourcing /\ Rec("src", s) \in Straight
  BY <1>4, RecsAre
<1>6. \A p \in {0, 1} : Rec("isrc", p) \in Sourcing
  BY <1>4, RecsAre
<1> QED BY <1>1, <1>2, <1>3, <1>5, <1>6, PlainAre

LEMMA SourcingKept ==
  ASSUME NEW c, Fits(Sourcing, c), NEW d, NEW r, Settled(d, r) PROVE AudKept(c, d, r)
<1>1. c \in Seq(AudSteps) /\ Whole(c) /\ c \in Seq(Sourcing)
  BY FitsIsKept
<1>2. Sourcing \subseteq AudSteps \ SyncSteps /\ Sourcing \subseteq AudSteps \ MuteSteps
  BY DEF Sourcing
<1>3. c \in Seq(AudSteps \ SyncSteps) /\ c \in Seq(AudSteps \ MuteSteps)
  BY <1>1, <1>2, SeqGrows
<1>4. SyncKept(c, d, r) /\ MuteKept(c, d, r)
  BY <1>3 DEF SyncKept, MuteKept, Settled
<1> QED BY <1>1, <1>4, WholeIsLoaded DEF AudKept

\* The selection of a source: what is kept of it whatever comes before.
SelectSteps(p) == IF p = 0 THEN aud_osi_init_tv(<<Rec("isrc", p)>>)
                  ELSE aud_osi_init_clip(<<Rec("isrc", p)>>)
SelectEnds(c, p) ==
  /\ Len(c) = 5 + p /\ FromEnd(c, 0) = Rec("isrc", p) /\ FromEnd(c, 1) = Rec("src", Srcs(p))
  /\ p = 1 => FromEnd(c, 2) = [k |-> "create"]
  /\ FromEnd(c, 2 + p) = Put("ctrl0", "clip", OfMemory(p)) /\ FromEnd(c, 3 + p) = Get("ctrl0")
  /\ FromEnd(c, 4 + p) = [k |-> "nosource"]

LEMMA SelectFits ==
  ASSUME NEW p \in {0, 1} PROVE Fits(Sourcing, SelectSteps(p)) /\ SelectEnds(SelectSteps(p), p)
<1>1. PICK n, a, s, i, k : /\ n = [k |-> "nosource"] /\ a = Modified("ctrl0", "clip", OfMemory(p))
                           /\ s = Rec("src", Srcs(p)) /\ i = Rec("isrc", p) /\ k = [k |-> "create"]
  OBVIOUS
<1>2. OfMemory(p) \in BOOLEAN /\ Srcs(p) \in {"NO", "DEMUX", "MEMORY"}
  BY DEF Srcs, OfMemory
<1>3. /\ n \in Sourcing /\ k \in Sourcing /\ i \in Sourcing
      /\ n.k = "nosource" /\ k.k = "create"
  BY <1>1, SourcingAre
<1>4. s \in Sourcing
  BY <1>1, <1>2, SourcingAre
<1>5. s.k = "rec" /\ i.k = "rec"
  BY <1>1 DEF Rec
<1>6. /\ Fits(Sourcing, a) /\ Len(a) = 2 /\ a[1] = Get("ctrl0") /\ a[2] = Put("ctrl0", "clip", OfMemory(p))
  BY <1>1, <1>2, SourcingAre, FitsModified
<1>7. Fits(Sourcing, <<n>>) /\ Fits(Sourcing, <<k>>) /\ Fits(Sourcing, <<s>>) /\ Fits(Sourcing, <<i>>)
  BY <1>3, <1>4, <1>5, SourcingAre, FitsOne
<1>8. PICK x : x = <<n>>
  OBVIOUS
<1>9. x \in Seq(Sourcing) /\ Len(x) = 1 /\ x[1] = n /\ Fits(Sourcing, x)
  <2>1. x \in Seq(Sourcing) /\ Len(x) = 1 /\ x[1] = n
    BY <1>3, <1>8
  <2> QED BY <1>7, <1>8, <2>1, Zenon
<1>10. PICK f : f = x \o a
  OBVIOUS
<1>11. Fits(Sourcing, f)
  BY <1>6, <1>9, <1>10, FitsJoins
<1>12. a \in Seq(Sourcing) /\ f \in Seq(Sourcing)
  BY <1>6, <1>11, FitsIsKept
<1>13. Len(f) = 3 /\ f[1] = n /\ f[2] = Get("ctrl0") /\ f[3] = Put("ctrl0", "clip", OfMemory(p))
  <2>2. /\ Len(f) = Len(x) + Len(a)
        /\ \A j \in 1 .. Len(x) : f[j] = x[j]
        /\ \A j \in 1 .. Len(a) : f[Len(x) + j] = a[j]
    <3>1. x \in Seq(Sourcing) /\ a \in Seq(Sourcing)
      BY <1>9, <1>12
    <3>2. f = x \o a
      BY <1>10
    <3> QED BY <3>1, <3>2, JoinedAt
  <2>3. 1 \in 1 .. Len(x) /\ 1 \in 1 .. Len(a) /\ 2 \in 1 .. Len(a) /\ Len(x) + 1 = 2 /\ Len(x) + 2 = 3
    BY <1>6, <1>9
  <2>4. f[Len(x) + 1] = a[1] /\ f[Len(x) + 2] = a[2] /\ f[1] = x[1]
    BY <2>2, <2>3
  <2>1. Len(f) = 3 /\ f[1] = x[1] /\ f[2] = a[1] /\ f[3] = a[2]
    BY <1>6, <1>9, <2>2, <2>3, <2>4
  <2> QED BY <1>6, <1>9, <2>1, Zenon
<1>14. CASE p = 0
  <2>4. PICK g, c : g = f \o <<s>> /\ c = g \o <<i>>
    OBVIOUS
  <2>5. Fits(Sourcing, g)
    BY <1>7, <1>11, <2>4, FitsJoins
  <2>6. g \in Seq(Sourcing)
    BY <2>5, FitsIsKept
  <2>7. Len(g) = 4 /\ g[1] = f[1] /\ g[2] = f[2] /\ g[3] = f[3] /\ g[4] = s
    <3>1. Len(g) = Len(f) + 1 /\ g[Len(f) + 1] = s /\ \A j \in 1 .. Len(f) : g[j] = f[j]
      BY <1>4, <1>12, <2>4, OneMore
    <3> QED BY <1>13, <3>1
  <2>8. SelectSteps(p) = c
    <3>1. SelectSteps(p) = aud_osi_init_tv(<<i>>)
      BY <1>1, <1>14 DEF SelectSteps
    <3>2. s = Rec("src", "DEMUX") /\ a = Modified("ctrl0", "clip", FALSE)
      <4>1. OfMemory(p) = FALSE /\ Srcs(p) = "DEMUX"
        BY <1>14 DEF OfMemory, Srcs
      <4> QED BY <1>1, <4>1, Zenon
    <3>3. aud_osi_init_tv(<<i>>) = c
      BY <1>1, <1>8, <1>10, <2>4, <3>2, Zenon DEF aud_osi_init_tv
    <3> QED BY <3>1, <3>3, Zenon
  <2>11. Fits(Sourcing, c)
    BY <1>7, <2>4, <2>5, FitsJoins
  <2>12. Len(c) = 5 /\ c[1] = g[1] /\ c[2] = g[2] /\ c[3] = g[3] /\ c[4] = g[4] /\ c[5] = i
    <3>1. Len(c) = Len(g) + 1 /\ c[Len(g) + 1] = i /\ \A j \in 1 .. Len(g) : c[j] = g[j]
      BY <1>3, <2>4, <2>6, OneMore
    <3> QED BY <2>7, <3>1
  <2>13. /\ FromEnd(c, 0) = c[5] /\ FromEnd(c, 1) = c[4] /\ FromEnd(c, 2) = c[3]
         /\ FromEnd(c, 3) = c[2] /\ FromEnd(c, 4) = c[1]
    BY <2>12 DEF FromEnd
  <2>14. /\ FromEnd(c, 0) = i /\ FromEnd(c, 1) = s /\ FromEnd(c, 2) = Put("ctrl0", "clip", OfMemory(p))
         /\ FromEnd(c, 3) = Get("ctrl0") /\ FromEnd(c, 4) = n
    BY <1>13, <2>7, <2>12, <2>13, Zenon
  <2>15. 2 + p = 2 /\ 3 + p = 3 /\ 4 + p = 4 /\ 5 + p = 5 /\ p # 1
    BY <1>14
  <2>16. SelectEnds(c, p)
    BY <1>1, <2>12, <2>14, <2>15, Zenon DEF SelectEnds
  <2> QED BY <2>8, <2>11, <2>16, Zenon
<1>15. CASE p = 1
  <2>1. PICK y : y = <<k, s>>
    OBVIOUS
  <2>2. y \in Seq(Sourcing) /\ Len(y) = 2 /\ y[1] = k /\ y[2] = s
    BY <1>3, <1>4, <2>1
  <2>3. Fits(Sourcing, y)
    <3>1. <<k>> \o <<s>> = y
      <4>1. PICK u, v : u = <<k>> /\ v = <<s>>
        OBVIOUS
      <4>2. u \in Seq(Sourcing) /\ v \in Seq(Sourcing) /\ Len(u) = 1 /\ Len(v) = 1 /\ u[1] = k /\ v[1] = s
        BY <1>3, <1>4, <4>1
      <4>3. PICK w : w = u \o v
        OBVIOUS
      <4>4. w \in Seq(Sourcing) /\ Len(w) = 2 /\ w[1] = k /\ w[2] = s
        <5>1. w = u \o <<s>>
          BY <4>1, <4>3, Zenon
        <5>2. w \in Seq(Sourcing) /\ Len(w) = Len(u) + 1 /\ w[Len(u) + 1] = s
              /\ \A j \in 1 .. Len(u) : w[j] = u[j]
          BY <1>4, <4>2, <5>1, OneMore
        <5> QED BY <4>2, <5>2
      <4>5. \A j \in 1 .. 2 : j = 1 \/ j = 2
        OBVIOUS
      <4>6. w = y
        BY <2>2, <4>4, <4>5, SeqEqual
      <4> QED BY <4>1, <4>3, <4>6, Zenon
    <3>2. Fits(Sourcing, <<k>> \o <<s>>)
      BY <1>7, FitsJoins
    <3> QED BY <3>1, <3>2, Zenon
  <2>4. PICK g, c : g = f \o y /\ c = g \o <<i>>
    OBVIOUS
  <2>5. Fits(Sourcing, g)
    BY <1>11, <2>3, <2>4, FitsJoins
  <2>6. g \in Seq(Sourcing)
    BY <2>5, FitsIsKept
  <2>7. Len(g) = 5 /\ g[1] = f[1] /\ g[2] = f[2] /\ g[3] = f[3] /\ g[4] = k /\ g[5] = s
    <3>1. /\ Len(g) = Len(f) + Len(y)
          /\ \A j \in 1 .. Len(f) : g[j] = f[j]
          /\ \A j \in 1 .. Len(y) : g[Len(f) + j] = y[j]
      <4>1. f \in Seq(Sourcing) /\ y \in Seq(Sourcing)
        BY <1>12, <2>2
      <4>2. g = f \o y
        BY <2>4
      <4> QED BY <4>1, <4>2, JoinedAt
    <3>2. /\ 1 \in 1 .. Len(f) /\ 2 \in 1 .. Len(f) /\ 3 \in 1 .. Len(f) /\ 1 \in 1 .. Len(y)
          /\ 2 \in 1 .. Len(y) /\ Len(f) + 1 = 4 /\ Len(f) + 2 = 5 /\ Len(f) + Len(y) = 5
      BY <1>13, <2>2
    <3>3. /\ g[1] = f[1] /\ g[2] = f[2] /\ g[3] = f[3]
          /\ g[Len(f) + 1] = y[1] /\ g[Len(f) + 2] = y[2]
      BY <3>1, <3>2
    <3> QED BY <2>2, <3>1, <3>2, <3>3
  <2>8. SelectSteps(p) = c
    <3>1. SelectSteps(p) = aud_osi_init_clip(<<i>>)
      BY <1>1, <1>15 DEF SelectSteps
    <3>2. s = Rec("src", "MEMORY") /\ a = Modified("ctrl0", "clip", TRUE)
      <4>1. OfMemory(p) = TRUE /\ Srcs(p) = "MEMORY"
        BY <1>15 DEF OfMemory, Srcs
      <4> QED BY <1>1, <4>1, Zenon
    <3>3. aud_osi_init_clip(<<i>>) = c
      BY <1>1, <1>8, <1>10, <2>1, <2>4, <3>2, Zenon DEF aud_osi_init_clip
    <3> QED BY <3>1, <3>3, Zenon
  <2>11. Fits(Sourcing, c)
    BY <1>7, <2>4, <2>5, FitsJoins
  <2>12. Len(c) = 6 /\ c[1] = g[1] /\ c[2] = g[2] /\ c[3] = g[3] /\ c[4] = g[4] /\ c[5] = g[5] /\ c[6] = i
    <3>1. Len(c) = Len(g) + 1 /\ c[Len(g) + 1] = i /\ \A j \in 1 .. Len(g) : c[j] = g[j]
      BY <1>3, <2>4, <2>6, OneMore
    <3> QED BY <2>7, <3>1
  <2>13. /\ FromEnd(c, 0) = c[6] /\ FromEnd(c, 1) = c[5] /\ FromEnd(c, 2) = c[4]
         /\ FromEnd(c, 3) = c[3] /\ FromEnd(c, 4) = c[2] /\ FromEnd(c, 5) = c[1]
    BY <2>12 DEF FromEnd
  <2>14. /\ FromEnd(c, 0) = i /\ FromEnd(c, 1) = s /\ FromEnd(c, 2) = k
         /\ FromEnd(c, 3) = Put("ctrl0", "clip", OfMemory(p))
         /\ FromEnd(c, 4) = Get("ctrl0") /\ FromEnd(c, 5) = n
    BY <1>13, <2>7, <2>12, <2>13, Zenon
  <2>15. 2 + p = 3 /\ 3 + p = 4 /\ 4 + p = 5 /\ 5 + p = 6
    BY <1>15
  <2>16. SelectEnds(c, p)
    BY <1>1, <2>12, <2>14, <2>15, Zenon DEF SelectEnds
  <2> QED BY <2>8, <2>11, <2>16, Zenon
<1> QED BY <1>14, <1>15

\* The source is free when the selection is made, or is freed before it.
Freed(a, d) == IF a = <<>> THEN d.src = "NO" ELSE FromEnd(a, 0) = Rec("src", "NO")

LEMMA SelectingSpelled ==
  ASSUME NEW p \in {0, 1}, NEW a \in Seq(Straight), NEW s \in Seq(AudSteps), SelectEnds(s, p),
         NEW d, NEW r, Freed(a, d)
  PROVE  Selecting(a \o s, d, r, p)
<1>1. PICK S, c, n : S = AudSteps /\ c = a \o s /\ n = Len(c)
  OBVIOUS
<1>2. a \in Seq(S) /\ s \in Seq(S)
  BY <1>1, SetsOfSteps, SeqGrows
<1>3. /\ n = Len(a) + Len(s) /\ Len(a) \in Nat /\ c \in Seq(S)
      /\ \A i \in 1 .. Len(a) : c[i] = a[i]
  <2>1. c = a \o s
    BY <1>1
  <2> QED BY <1>1, <1>2, <2>1, JoinedAt
<1>4. /\ \A k \in 0 .. Len(s) - 1 : FromEnd(c, k) = FromEnd(s, k)
      /\ \A k \in 0 .. Len(a) - 1 : FromEnd(c, k + Len(s)) = FromEnd(a, k)
  <2>1. /\ \A k \in 0 .. Len(s) - 1 : FromEnd(a \o s, k) = FromEnd(s, k)
        /\ \A k \in 0 .. Len(a) - 1 : FromEnd(a \o s, k + Len(s)) = FromEnd(a, k)
    BY <1>2, EndOf
  <2> QED BY <1>1, <2>1
<1>5. Len(s) = 5 + p /\ p \in {0, 1}
  BY DEF SelectEnds
<1>6. /\ FromEnd(c, 0) = FromEnd(s, 0) /\ FromEnd(c, 1) = FromEnd(s, 1) /\ FromEnd(c, 2) = FromEnd(s, 2)
      /\ FromEnd(c, 2 + p) = FromEnd(s, 2 + p) /\ FromEnd(c, 3 + p) = FromEnd(s, 3 + p)
      /\ FromEnd(c, 4 + p) = FromEnd(s, 4 + p)
  <2>1. /\ 0 \in 0 .. Len(s) - 1 /\ 1 \in 0 .. Len(s) - 1 /\ 2 \in 0 .. Len(s) - 1
        /\ 2 + p \in 0 .. Len(s) - 1 /\ 3 + p \in 0 .. Len(s) - 1 /\ 4 + p \in 0 .. Len(s) - 1
    BY <1>5
  <2> QED BY <1>4, <2>1
<1>7. n > 5 + p => FromEnd(c, 5 + p) = Rec("src", "NO")
  <2>1. n > 5 + p => 0 \in 0 .. Len(a) - 1 /\ 0 + Len(s) = 5 + p /\ a # <<>>
    BY <1>3, <1>5
  <2> QED BY <1>4, <2>1 DEF Freed
<1>8. n = 5 + p => d.src = "NO"
  <2>1. n = 5 + p => a = <<>>
    BY <1>3, <1>5
  <2> QED BY <2>1 DEF Freed
<1>9. ASSUME NEW i \in 1 .. n, i < n - (5 + p) PROVE c[i] \in Straight
  <2>1. i \in 1 .. Len(a)
    BY <1>3, <1>5, <1>9
  <2> QED BY <1>3, <2>1
<1>10. n > 1 /\ n > 2 + p /\ c # <<>>
  <2>1. n > 1 /\ n > 2 + p
    BY <1>3, <1>5
  <2>2. c # <<>>
    BY <1>1, <2>1
  <2> QED BY <2>1, <2>2
<1>11. /\ FromEnd(c, 0) = Rec("isrc", p) /\ FromEnd(c, 1) = Rec("src", Srcs(p))
       /\ p = 1 => FromEnd(c, 2) = [k |-> "create"]
       /\ FromEnd(c, 2 + p) = Put("ctrl0", "clip", OfMemory(p)) /\ FromEnd(c, 3 + p) = Get("ctrl0")
       /\ FromEnd(c, 4 + p) = [k |-> "nosource"]
  BY <1>6, Zenon DEF SelectEnds
<1>12. Selecting(c, d, r, p)
  BY <1>1, <1>7, <1>8, <1>9, <1>10, <1>11, Zenon DEF Selecting
<1> QED BY <1>1, <1>12, Zenon

\* The same source again.
LEMMA SelectedAgain ==
  ASSUME NEW p \in {0, 1}, NEW d, NEW r, AudSourced(d, r), d.isrc = p
  PROVE  Selecting(<<Rec("isrc", p)>>, d, r, p) /\ Fits(Sourcing, <<Rec("isrc", p)>>)
<1>1. PICK x, c : x = Rec("isrc", p) /\ c = <<x>>
  OBVIOUS
<1>2. x \in Sourcing /\ x.k = "rec"
  BY <1>1, SourcingAre DEF Rec
<1>3. Len(c) = 1 /\ c[1] = x /\ c # <<>>
  BY <1>1
<1>4. FromEnd(c, 0) = x
  BY <1>3 DEF FromEnd
<1>5. d.src = Srcs(p) /\ r.ctrl0.clip = OfMemory(p)
  <2>1. d.src = Srcs(p) /\ (d.src = "MEMORY" <=> p = 1)
    BY DEF AudSourced, Srcs
  <2>2. r.ctrl0.clip = (d.src = "MEMORY")
    BY Zenon DEF AudSourced
  <2>3. r.ctrl0.clip = OfMemory(p)
    BY <2>1, <2>2, Zenon DEF OfMemory
  <2> QED BY <2>1, <2>3
<1>6. /\ ~(Len(c) > 1) /\ ~(Len(c) > 2) /\ ~(Len(c) > 2 + p) /\ ~(Len(c) > 3 + p) /\ ~(Len(c) > 4 + p)
      /\ Len(c) # 5 + p /\ ~(Len(c) > 5 + p) /\ \A i \in 1 .. Len(c) : ~(i < Len(c) - (5 + p))
  BY <1>3
<1>7. Selecting(c, d, r, p)
  BY <1>1, <1>3, <1>4, <1>5, <1>6, Zenon DEF Selecting
<1>8. Fits(Sourcing, <<x>>)
  BY <1>2, SourcingAre, FitsOne
<1> QED BY <1>1, <1>7, <1>8, Zenon

\* What comes before a selection or a closing.
Freeing(a) == Fits(Sourcing, a) /\ a \in Seq(Straight) /\ a # <<>> /\ FromEnd(a, 0) = Rec("src", "NO")

LEMMA ClosingTV ==
  ASSUME NEW b \in Seq(Sourcing)
  PROVE  \E a : Freeing(a) /\ aud_osi_close_tv(b) = a \o b
<1>1. PICK x, s, a : x = Rec("src", "NO") /\ s = StopSteps /\ a = s \o <<x>>
  OBVIOUS
<1>2. x \in Sourcing /\ x.k = "rec" /\ x \in Straight
  BY <1>1, SourcingAre DEF Rec
<1>3. Fits(Sourcing, s) /\ s \in Seq(Straight)
  <2>1. Fits(Plain, s)
    BY <1>1, StopFits
  <2>2. s \in Seq(Plain) /\ Plain \subseteq Straight
    BY <2>1, FitsIsKept DEF Plain
  <2> QED BY <2>1, <2>2, SourcingAre, FitsMore, SeqGrows
<1>4. Fits(Sourcing, a)
  <2>1. Fits(Sourcing, <<x>>)
    BY <1>2, SourcingAre, FitsOne
  <2> QED BY <1>1, <1>3, <2>1, FitsJoins
<1>5. a \in Seq(Straight) /\ a # <<>> /\ FromEnd(a, 0) = x
  <2>1. s \o <<x>> \in Seq(Straight) /\ s \o <<x>> # <<>> /\ FromEnd(s \o <<x>>, 0) = x
    BY <1>2, <1>3, EndOfOne
  <2> QED BY <1>1, <2>1, Zenon
<1>6. Freeing(a)
  BY <1>1, <1>4, <1>5 DEF Freeing
<1>7. aud_osi_close_tv(b) = a \o b
  <2>1. PICK y : y = <<x>>
    OBVIOUS
  <2>2. y \in Seq(Sourcing) /\ s \in Seq(Sourcing) /\ b \in Seq(Sourcing)
    BY <1>2, <1>3, <2>1, FitsIsKept
  <2>3. (s \o y) \o b = s \o (y \o b)
    BY <2>2, Regrouped
  <2>4. aud_osi_close_tv(b) = s \o (y \o b)
    BY <1>1, <2>1, Zenon DEF aud_osi_close_tv, aud_osi_stop, StopSteps
  <2> QED BY <1>1, <2>1, <2>3, <2>4, Zenon
<1> QED BY <1>6, <1>7

LEMMA ClosingClip ==
  ASSUME NEW b \in Seq(Sourcing)
  PROVE  \E a : Freeing(a) /\ aud_osi_close_clip(b) = a \o b
<1>1. PICK t : Freeing(t) /\ aud_osi_close_tv(b) = t \o b
  BY ClosingTV
<1>2. PICK m, a : m = Modified("ctrl0", "clip", FALSE) /\ a = m \o t
  OBVIOUS
<1>3. /\ Fits(Sourcing, m) /\ m[1] = Get("ctrl0") /\ m[2] = Put("ctrl0", "clip", FALSE) /\ Len(m) = 2
  <2>1. /\ Sourcing \in SUBSET AudSteps /\ Get("ctrl0") \in Sourcing
        /\ Put("ctrl0", "clip", FALSE) \in Sourcing
    BY SourcingAre
  <2>2. PICK v : v = FALSE
    OBVIOUS
  <2>3. Sourcing \in SUBSET AudSteps /\ Get("ctrl0") \in Sourcing /\ Put("ctrl0", "clip", v) \in Sourcing
    BY <2>1, <2>2, Zenon
  <2>4. /\ Fits(Sourcing, Modified("ctrl0", "clip", v)) /\ Len(Modified("ctrl0", "clip", v)) = 2
        /\ Modified("ctrl0", "clip", v)[1] = Get("ctrl0")
        /\ Modified("ctrl0", "clip", v)[2] = Put("ctrl0", "clip", v)
    <3> QED BY <2>3, FitsModified
  <2> QED BY <1>2, <2>2, <2>4, Zenon
<1>4. t \in Seq(Straight) /\ Fits(Sourcing, t) /\ t # <<>> /\ FromEnd(t, 0) = Rec("src", "NO")
  BY <1>1 DEF Freeing
<1>5. m \in Seq(Straight)
  <2>1. PICK g, p : g = Get("ctrl0") /\ p = Put("ctrl0", "clip", FALSE)
    OBVIOUS
  <2>2. g \in Straight /\ p \in Straight
    BY <2>1, SourcingAre, PlainAre DEF Plain
  <2>3. m = <<g, p>>
    BY <1>2, <2>1, Zenon DEF Modified
  <2> QED BY <2>2, <2>3
<1>6. Fits(Sourcing, a)
  BY <1>2, <1>3, <1>4, FitsJoins
<1>7. a \in Seq(Straight) /\ a # <<>> /\ FromEnd(a, 0) = FromEnd(t, 0)
  <2>1. /\ Len(m \o t) = Len(m) + Len(t) /\ Len(m) \in Nat /\ Len(t) \in Nat
        /\ \A k \in 0 .. Len(t) - 1 : FromEnd(m \o t, k) = FromEnd(t, k)
    BY <1>4, <1>5, EndOf
  <2>2. 0 \in 0 .. Len(t) - 1
    BY <1>4
  <2>3. FromEnd(a, 0) = FromEnd(t, 0) /\ Len(a) = Len(m) + Len(t)
    BY <1>2, <2>1, <2>2
  <2>4. a \in Seq(Straight)
    BY <1>2, <1>4, <1>5, ListsOfSteps
  <2>5. a # <<>>
    BY <1>3, <2>2, <2>3, <2>4
  <2> QED BY <2>3, <2>4, <2>5
<1>8. Freeing(a)
  BY <1>4, <1>6, <1>7 DEF Freeing
<1>9. aud_osi_close_clip(b) = a \o b
  <2>1. m \in Seq(Sourcing) /\ t \in Seq(Sourcing)
    BY <1>3, <1>4, FitsIsKept
  <2>2. (m \o t) \o b = m \o (t \o b)
    BY <2>1, Regrouped
  <2>3. aud_osi_close_clip(b) = m \o (t \o b)
    BY <1>1, <1>2, Zenon DEF aud_osi_close_clip, aud_osi_close_tv
  <2> QED BY <1>2, <2>2, <2>3, Zenon
<1> QED BY <1>8, <1>9

LEMMA SelectionKept ==
  ASSUME NEW p \in {0, 1}, NEW a, Fits(Sourcing, a), a \in Seq(Straight), NEW c, c = a \o SelectSteps(p),
         NEW d, NEW r, Settled(d, r)
  PROVE  AudKept(c, d, r) /\ (Freed(a, d) => SourceKept(c, d, r))
<1>1. PICK s : s = SelectSteps(p)
  OBVIOUS
<1>2. Fits(Sourcing, s) /\ SelectEnds(s, p)
  BY <1>1, SelectFits
<1>3. s \in Seq(AudSteps)
  BY <1>2, FitsIsKept
<1>4. Fits(Sourcing, a \o s)
  BY <1>2, FitsJoins
<1>5. Freed(a, d) => Selecting(a \o s, d, r, p)
  BY <1>2, <1>3, SelectingSpelled
<1>6. c = a \o s
  BY <1>1, Zenon
<1>7. Fits(Sourcing, c) /\ (Freed(a, d) => Selecting(c, d, r, p))
  BY <1>4, <1>5, <1>6, Zenon
<1> QED BY <1>7, SourcingKept DEF SourceKept

LEMMA FreeingKept ==
  ASSUME NEW p \in {0, 1}, NEW c, \E a : Freeing(a) /\ c = a \o SelectSteps(p), NEW d, NEW r, Settled(d, r)
  PROVE  AudKept(c, d, r) /\ SourceKept(c, d, r)
<1>1. PICK a : Freeing(a) /\ c = a \o SelectSteps(p)
  OBVIOUS
<1>2. Fits(Sourcing, a) /\ a \in Seq(Straight) /\ Freed(a, d)
  BY <1>1 DEF Freeing, Freed
<1> QED BY <1>1, <1>2, SelectionKept

LEMMA SelectKeeps ==
  ASSUME AudInv, NEW p \in {0, 1}, AudSelectSource(p) PROVE AudInv'
<1>1. PICK d, r, s, e, c : d = aud /\ r = areg /\ s = SelectSteps(p) /\ e = <<Rec("isrc", p)>> /\ c = acall'
  OBVIOUS
<1>2. AudIdle /\ d.count = 1 /\ UNCHANGED <<aud, areg, audEnv>>
  BY <1>1 DEF AudSelectSource, MainOpen
<1>3. Settled(d, r) /\ d.isrc \in {-1, 0, 1}
  BY <1>1, <1>2, IdleSettled DEF AudInv, AudDs
<1>4. s \in Seq(Sourcing)
  BY <1>1, SelectFits, FitsIsKept
<1>5. c = CASE d.isrc = p -> e
            [] d.isrc = -1 -> s
            [] d.isrc = 0 /\ p = 1 -> aud_osi_close_tv(s)
            [] OTHER -> aud_osi_close_clip(s)
  BY <1>1, Zenon DEF AudSelectSource, SelectSteps
<1>6. \/ d.isrc = p /\ c = e
      \/ d.isrc # p /\ d.isrc = -1 /\ c = s
      \/ c = aud_osi_close_tv(s) \/ c = aud_osi_close_clip(s)
  <2>1. d.isrc = p => d.isrc # -1
    BY <1>3
  <2> QED BY <1>3, <1>5, <2>1
<1>7. AudKept(c, d, r) /\ (SourceSettled(d, r) => SourceKept(c, d, r))
  <2>1. CASE d.isrc = p /\ c = e
    <3>1. Fits(Sourcing, <<Rec("isrc", p)>>)
      <4>1. PICK x : x = Rec("isrc", p)
        OBVIOUS
      <4>2. x \in Sourcing /\ x.k = "rec"
        BY <4>1, SourcingAre DEF Rec
      <4>3. Fits(Sourcing, <<x>>)
        BY <4>2, SourcingAre, FitsOne
      <4> QED BY <4>1, <4>3, Zenon
    <3>2. AudKept(e, d, r)
      BY <1>1, <1>3, <3>1, SourcingKept
    <3>3. SourceSettled(d, r) => AudSourced(d, r)
      BY <1>2 DEF SourceSettled
    <3>4. SourceSettled(d, r) => Selecting(<<Rec("isrc", p)>>, d, r, p)
      BY <2>1, <3>3, SelectedAgain
    <3>5. SourceSettled(d, r) => SourceKept(e, d, r)
      BY <1>1, <3>4, Zenon DEF SourceKept
    <3> QED BY <2>1, <3>2, <3>5
  <2>2. CASE d.isrc # p /\ d.isrc = -1 /\ c = s
    <3>1. PICK a : a = <<>>
      OBVIOUS
    <3>2. Fits(Sourcing, a) /\ a \in Seq(Straight)
      BY <3>1, SourcingAre, FitsNone
    <3>3. a \o s = s
      BY <1>4, <3>1
    <3>4. SourceSettled(d, r) => Freed(a, d)
      BY <1>2, <2>2, <3>1 DEF SourceSettled, AudSourced, Freed
    <3>5. c = a \o SelectSteps(p)
      BY <1>1, <2>2, <3>3, Zenon
    <3> QED BY <1>3, <3>2, <3>4, <3>5, SelectionKept
  <2>3. CASE c = aud_osi_close_tv(s)
    <3>1. \E a : Freeing(a) /\ c = a \o s
      BY <1>4, <2>3, ClosingTV
    <3>2. \E a : Freeing(a) /\ c = a \o SelectSteps(p)
      BY <1>1, <3>1, Zenon
    <3> QED BY <1>3, <3>2, FreeingKept
  <2>4. CASE c = aud_osi_close_clip(s)
    <3>1. \E a : Freeing(a) /\ c = a \o s
      BY <1>4, <2>4, ClosingClip
    <3>2. \E a : Freeing(a) /\ c = a \o SelectSteps(p)
      BY <1>1, <3>1, Zenon
    <3> QED BY <1>3, <3>2, FreeingKept
  <2> QED BY <1>6, <2>1, <2>2, <2>3, <2>4
<1>8. acall' = c /\ AudKept(c, aud, areg) /\ (SourceSettled(aud, areg) => SourceKept(c, aud, areg))
  BY <1>1, <1>7
<1> QED BY <1>2, <1>8, CallKeeps

\* Closing the device.
LEMMA ClosedKept ==
  ASSUME NEW a, Fits(Sourcing, a), a \in Seq(Straight), NEW c, c = a \o <<[k |-> "closed"]>>,
         NEW d, NEW r, Settled(d, r)
  PROVE  AudKept(c, d, r) /\ SourceKept(c, d, r)
<1>1. PICK x : x = [k |-> "closed"]
  OBVIOUS
<1>2. x \in Sourcing /\ x.k = "closed"
  BY <1>1, SourcingAre
<1>3. Fits(Sourcing, <<x>>)
  BY <1>2, SourcingAre, FitsOne
<1>4. c = a \o <<x>>
  BY <1>1, Zenon
<1>5. Fits(Sourcing, c)
  BY <1>3, <1>4, FitsJoins
<1>6. a \in Seq(Sourcing)
  BY FitsIsKept
<1>7. PICK b : b = <<x>>
  OBVIOUS
<1>8. b \in Seq(Sourcing) /\ Len(b) = 1 /\ b[1] = x
  BY <1>2, <1>7
<1>9. /\ Len(c) = Len(a) + Len(b) /\ Len(a) \in Nat /\ Len(b) \in Nat
      /\ \A i \in 1 .. Len(a) : c[i] = a[i]
      /\ \A i \in 1 .. Len(b) : c[Len(a) + i] = b[i]
  <2>1. c = a \o b
    BY <1>4, <1>7
  <2> QED BY <1>6, <1>8, <2>1, JoinedAt
<1>10. Len(c) = Len(a) + 1 /\ c[Len(a) + 1] = x
  <2>1. 1 \in 1 .. Len(b)
    BY <1>8
  <2> QED BY <1>8, <1>9, <2>1
<1>11. c # <<>> /\ FromEnd(c, 0) = x
  <2>1. Len(c) - 0 = Len(a) + 1 /\ Len(c) > 0
    BY <1>9, <1>10
  <2>2. c \in Seq(Sourcing)
    BY <1>5, FitsIsKept
  <2>3. c # <<>>
    BY <2>1, <2>2
  <2> QED BY <1>10, <2>1, <2>3 DEF FromEnd
<1>12. \A i \in 1 .. Len(c) : i < Len(c) => c[i] \in Straight
  BY <1>9, <1>10
<1>13. SourceKept(c, d, r)
  BY <1>1, <1>11, <1>12 DEF SourceKept
<1> QED BY <1>5, <1>13, SourcingKept

LEMMA ReleaseKeeps == ASSUME AudInv, aud_inf_release PROVE AudInv'
<1>1. PICK d, r, b, c : d = aud /\ r = areg /\ b = <<[k |-> "closed"]>> /\ c = acall'
  OBVIOUS
<1>2. AudIdle /\ UNCHANGED <<aud, areg, audEnv>>
  BY DEF aud_inf_release, MainOpen
<1>3. Settled(d, r)
  BY <1>1, <1>2, IdleSettled
<1>4. b \in Seq(Sourcing)
  <2>1. [k |-> "closed"] \in Sourcing
    BY SourcingAre
  <2> QED BY <1>1, <2>1
<1>5. c = CASE d.src = "DEMUX" -> aud_osi_close_tv(b)
            [] d.src = "MEMORY" -> aud_osi_close_clip(b)
            [] OTHER -> b
  BY <1>1, Zenon DEF aud_inf_release
<1>6. c = b \/ c = aud_osi_close_tv(b) \/ c = aud_osi_close_clip(b)
  BY <1>5
<1>7. \E a : Fits(Sourcing, a) /\ a \in Seq(Straight) /\ c = a \o b
  <2>1. CASE c = b
    <3>1. PICK a : a = <<>>
      OBVIOUS
    <3>2. Fits(Sourcing, a) /\ a \in Seq(Straight) /\ a \o b = b
      BY <1>4, <3>1, SourcingAre, FitsNone
    <3> QED BY <2>1, <3>2
  <2>2. CASE c = aud_osi_close_tv(b)
    BY <1>4, <2>2, ClosingTV DEF Freeing
  <2>3. CASE c = aud_osi_close_clip(b)
    BY <1>4, <2>3, ClosingClip DEF Freeing
  <2> QED BY <1>6, <2>1, <2>2, <2>3
<1>8. PICK a : Fits(Sourcing, a) /\ a \in Seq(Straight) /\ c = a \o b
  BY <1>7
<1>9. c = a \o <<[k |-> "closed"]>>
  BY <1>1, <1>8, Zenon
<1>10. AudKept(c, d, r) /\ SourceKept(c, d, r)
  BY <1>3, <1>8, <1>9, ClosedKept
<1>11. acall' = c /\ AudKept(c, aud, areg) /\ (SourceSettled(aud, areg) => SourceKept(c, aud, areg))
  BY <1>1, <1>10
<1> QED BY <1>2, <1>11, CallKeeps

LEMMA HarmlessKeeps ==
  ASSUME AudInv, AudIdle, NEW c, acall' = c, UNCHANGED <<aud, areg, audEnv>>, Fits(Harmless, c)
  PROVE  AudInv'
<1>1. Settled(aud, areg)
  BY IdleSettled
<1>2. AudKept(c, aud, areg) /\ (SourceSettled(aud, areg) => SourceKept(c, aud, areg))
  BY <1>1, SettledNeutral
<1> QED BY <1>2, CallKeeps

LEMMA PlainKeeps ==
  ASSUME AudInv, NEW e, NEW c, AudCall(e, c), Fits(Plain, c) PROVE AudInv'
<1>1. AudIdle /\ acall' = c /\ UNCHANGED <<aud, areg, audEnv>>
  BY DEF AudCall, MainOpen
<1>2. Fits(Harmless, c)
  BY SetsOfSteps, FitsMore
<1> QED BY <1>1, <1>2, HarmlessKeeps

LEMMA KeptKeeps ==
  ASSUME AudInv, NEW e, NEW c, AudCall(e, c),
         AudKept(c, aud, areg), SourceSettled(aud, areg) => SourceKept(c, aud, areg)
  PROVE  AudInv'
<1>1. AudIdle /\ acall' = c /\ UNCHANGED <<aud, areg, audEnv>>
  BY DEF AudCall, MainOpen
<1> QED BY <1>1, CallKeeps

LEMMA AskedSettled ==
  ASSUME AudInv, NEW e, NEW c, AudCall(e, c) PROVE Settled(aud, areg) /\ aud.count = 1 /\ c # <<>>
  BY IdleSettled DEF AudCall, MainOpen

LEMMA PlayCallsKeep == ASSUME AudInv, AudPlayCalls PROVE AudInv'
<1>1. ASSUME AudCall("play", aud_osi_play) PROVE AudInv'
  BY <1>1, PlainCalls, PlainKeeps
<1>2. ASSUME AudCall("play", aud_osi_stop(<<>>)) PROVE AudInv'
  BY <1>2, PlainCalls, PlainKeeps
<1>3. ASSUME NEW b \in BOOLEAN, NEW c, AudCall("mute", c),
             c = Modified("ctrl1", "soft", b) \o Modified("ctrl2", "mute", b) \o <<Rec("mute", b)>>
      PROVE  AudInv'
  <2>1. Settled(aud, areg)
    BY <1>3, AskedSettled
  <2>2. AudKept(c, aud, areg) /\ (SourceSettled(aud, areg) => SourceKept(c, aud, areg))
    BY <1>3, <2>1, MutingKept
  <2> QED BY <1>3, <2>2, KeptKeeps
<1>4. ASSUME AudCall("mute", aud_atom_mute) PROVE AudInv'
  <2>1. aud_atom_mute = Modified("ctrl1", "soft", TRUE) \o Modified("ctrl2", "mute", TRUE)
                        \o <<Rec("mute", TRUE)>>
    BY Zenon DEF aud_atom_mute
  <2>2. PICK c : c = aud_atom_mute
    OBVIOUS
  <2>3. AudCall("mute", c) /\ c = Modified("ctrl1", "soft", TRUE) \o Modified("ctrl2", "mute", TRUE)
                                  \o <<Rec("mute", TRUE)>>
    BY <1>4, <2>1, <2>2, Zenon
  <2>4. TRUE \in BOOLEAN
    OBVIOUS
  <2> QED BY <1>3, <2>3, <2>4, Zenon
<1>5. ASSUME AudCall("mute", aud_atom_unmute) PROVE AudInv'
  <2>1. aud_atom_unmute = Modified("ctrl1", "soft", FALSE) \o Modified("ctrl2", "mute", FALSE)
                          \o <<Rec("mute", FALSE)>>
    BY Zenon DEF aud_atom_unmute
  <2>2. PICK c : c = aud_atom_unmute
    OBVIOUS
  <2>3. AudCall("mute", c) /\ c = Modified("ctrl1", "soft", FALSE) \o Modified("ctrl2", "mute", FALSE)
                                  \o <<Rec("mute", FALSE)>>
    BY <1>5, <2>1, <2>2, Zenon
  <2>4. FALSE \in BOOLEAN
    OBVIOUS
  <2> QED BY <1>3, <2>3, <2>4, Zenon
<1>6. ASSUME NEW s \in {"PES", "PCM", "bad"}, AudCall("play", aud_osi_set_stream_type(s)) PROVE AudInv'
  BY <1>6, PlainCalls, PlainKeeps
<1>7. ASSUME NEW c \in AudChannels, AudCall("channel", aud_osi_set_channel(c)) PROVE AudInv'
  BY <1>7, PlainCalls, PlainKeeps
<1> QED BY <1>1, <1>2, <1>4, <1>5, <1>6, <1>7 DEF AudPlayCalls

LEMMA FormatCallsKeep == ASSUME AudInv, AudFormatCalls PROVE AudInv'
<1>1. ASSUME AudCall("format", aud_atom_set_pcm_fmt("asked")) PROVE AudInv'
  BY <1>1, PlainCalls, PlainKeeps
<1>2. ASSUME AudCall("format", aud_atom_set_mixer_fmt("asked")) PROVE AudInv'
  BY <1>2, PlainCalls, PlainKeeps
<1> QED BY <1>1, <1>2 DEF AudFormatCalls

LEMMA SyncCallsKeep == ASSUME AudInv, AudSyncCalls PROVE AudInv'
<1>1. ASSUME NEW c, AudCall("sync", c), c \in Borrowing, Whole(c) PROVE AudInv'
  <2>1. Settled(aud, areg) /\ aud.count = 1
    BY <1>1, AskedSettled
  <2>2. AudKept(c, aud, areg) /\ (SourceSettled(aud, areg) => SourceKept(c, aud, areg))
    BY <1>1, <2>1, BorrowingKept
  <2> QED BY <1>1, <2>2, KeptKeeps
<1>2. ASSUME AudCall("sync", aud_atom_get_stc \o aud_atom_get_pts) PROVE AudInv'
  BY <1>1, <1>2, ClocksAreRead
<1>3. ASSUME AudCall("sync", aud_atom_set_stc) PROVE AudInv'
  BY <1>1, <1>3, ClocksAreRead
<1>4. ASSUME NEW m \in BOOLEAN, AudCall("sync", aud_osi_enable_sync(m)) PROVE AudInv'
  <2>1. Settled(aud, areg)
    BY <1>4, AskedSettled
  <2>2. /\ AudKept(aud_osi_enable_sync(m), aud, areg)
        /\ SourceSettled(aud, areg) => SourceKept(aud_osi_enable_sync(m), aud, areg)
    BY <2>1, EnableKept
  <2> QED BY <1>4, <2>2, KeptKeeps
<1>5. ASSUME AudCall("sync", aud_osi_disable_sync) PROVE AudInv'
  <2>1. Settled(aud, areg) /\ aud_osi_disable_sync # <<>>
    BY <1>5, AskedSettled
  <2>2. /\ AudKept(aud_osi_disable_sync, aud, areg)
        /\ SourceSettled(aud, areg) => SourceKept(aud_osi_disable_sync, aud, areg)
    BY <2>1, DisableKept
  <2> QED BY <1>5, <2>2, KeptKeeps
<1> QED BY <1>2, <1>3, <1>4, <1>5 DEF AudSyncCalls

\* Between calls a step has only to leave things as asked for.
LEMMA IdleKeeps ==
  ASSUME acall' = <<>>, aud' \in AudDs, areg' \in AudRegs, Settled(aud', areg'), audEnv' = audEnv,
         Asked("fail") \/ SourceSettled(aud', areg')
  PROVE  AudInv'
<1>1. Fits(Harmless, <<>>)
  BY SetsOfSteps, FitsNone
<1>2. PICK c, d, r : c = <<>> /\ d = aud' /\ r = areg'
  OBVIOUS
<1>3. Fits(Harmless, c) /\ Settled(d, r)
  BY <1>1, <1>2
<1>4. AudKept(c, d, r) /\ (SourceSettled(d, r) => SourceKept(c, d, r))
  BY <1>3, SettledNeutral
<1>5. AudKept(acall', aud', areg') /\ (Asked("fail") \/ SourceKept(acall', aud', areg'))
  BY <1>2, <1>4
<1>6. AudKept(acall, aud, areg)' /\ (Asked("fail")' \/ SourceKept(acall, aud, areg)')
  BY <1>5 DEF Asked
<1> QED BY <1>6 DEF AudInv

LEMMA RegKeeps ==
  ASSUME NEW r \in AudRegs
  PROVE  /\ \A b \in BOOLEAN : /\ [r EXCEPT !.chip.sync = b] \in AudRegs
                               /\ [r EXCEPT !.chip.sync = b].ctrl0 = r.ctrl0
                               /\ [r EXCEPT !.chip.sync = b].ctrl1 = r.ctrl1
                               /\ [r EXCEPT !.ctrl0.mix = b] \in AudRegs
                               /\ [r EXCEPT !.ctrl0.mix = b].ctrl0.sync = r.ctrl0.sync
                               /\ [r EXCEPT !.ctrl0.mix = b].ctrl0.clip = r.ctrl0.clip
                               /\ [r EXCEPT !.ctrl0.mix = b].ctrl1 = r.ctrl1
         /\ \A v \in 0 .. AudVolMax : /\ [r EXCEPT !.vol = v] \in AudRegs
                                      /\ [r EXCEPT !.vol = v].ctrl0 = r.ctrl0
                                      /\ [r EXCEPT !.vol = v].ctrl1 = r.ctrl1
<1>1. r.chip \in Chips /\ r.ctrl0 \in Ctrl0s
  BY DEF AudRegs
<1>2. ASSUME NEW b \in BOOLEAN
      PROVE  /\ [r EXCEPT !.chip.sync = b] \in AudRegs
             /\ [r EXCEPT !.chip.sync = b].ctrl0 = r.ctrl0
             /\ [r EXCEPT !.chip.sync = b].ctrl1 = r.ctrl1
  <2>1. PICK x : x = [r.chip EXCEPT !.sync = b]
    OBVIOUS
  <2>2. x \in Chips
    BY <1>1, <2>1 DEF Chips
  <2>3. [r EXCEPT !.chip.sync = b] = [r EXCEPT !.chip = x]
    BY <2>1 DEF AudRegs
  <2>4. /\ [r EXCEPT !.chip = x] \in AudRegs /\ [r EXCEPT !.chip = x].ctrl0 = r.ctrl0
        /\ [r EXCEPT !.chip = x].ctrl1 = r.ctrl1
    BY <2>2 DEF AudRegs
  <2> QED BY <2>3, <2>4
<1>3. ASSUME NEW b \in BOOLEAN
      PROVE  /\ [r EXCEPT !.ctrl0.mix = b] \in AudRegs
             /\ [r EXCEPT !.ctrl0.mix = b].ctrl0.sync = r.ctrl0.sync
             /\ [r EXCEPT !.ctrl0.mix = b].ctrl0.clip = r.ctrl0.clip
             /\ [r EXCEPT !.ctrl0.mix = b].ctrl1 = r.ctrl1
  <2>1. PICK x : x = [r.ctrl0 EXCEPT !.mix = b]
    OBVIOUS
  <2>2. x \in Ctrl0s /\ x.sync = r.ctrl0.sync /\ x.clip = r.ctrl0.clip
    BY <1>1, <2>1 DEF Ctrl0s
  <2>3. [r EXCEPT !.ctrl0.mix = b] = [r EXCEPT !.ctrl0 = x]
    BY <2>1 DEF AudRegs
  <2>4. /\ [r EXCEPT !.ctrl0 = x] \in AudRegs /\ [r EXCEPT !.ctrl0 = x].ctrl0 = x
        /\ [r EXCEPT !.ctrl0 = x].ctrl1 = r.ctrl1
    BY <2>2 DEF AudRegs
  <2> QED BY <2>2, <2>3, <2>4
<1>4. ASSUME NEW v \in 0 .. AudVolMax
      PROVE  /\ [r EXCEPT !.vol = v] \in AudRegs /\ [r EXCEPT !.vol = v].ctrl0 = r.ctrl0
             /\ [r EXCEPT !.vol = v].ctrl1 = r.ctrl1
  BY DEF AudRegs
<1> QED BY <1>2, <1>3, <1>4

LEMMA VideoCallsKeep == ASSUME AudInv, VideoCalls PROVE AudInv'
<1>1. AudIdle /\ aud' = aud /\ audEnv' = audEnv
  BY DEF VideoCalls
<1>2. CASE acall' \in {vid_atom_set_stc, vid_atom_get_stc} /\ areg' = areg
  <2>1. Fits(Harmless, acall')
    BY <1>2, VideoFits
  <2> QED BY <1>1, <1>2, <2>1, HarmlessKeeps
<1>3. CASE acall' = <<>> /\ \E on \in BOOLEAN : areg' = [areg EXCEPT !.chip.sync = on]
  <2>1. PICK on \in BOOLEAN : areg' = [areg EXCEPT !.chip.sync = on]
    BY <1>3
  <2>2. aud \in AudDs /\ areg \in AudRegs
    BY DEF AudInv
  <2>3. areg' \in AudRegs /\ areg'.ctrl0 = areg.ctrl0 /\ areg'.ctrl1 = areg.ctrl1
    BY <2>1, <2>2, RegKeeps
  <2>4. Settled(aud', areg') /\ (Asked("fail") \/ SourceSettled(aud', areg'))
    BY <1>1, <2>3, IdleSettled DEF Settled, SourceSettled, AudSourced
  <2> QED BY <1>1, <1>3, <2>2, <2>3, <2>4, IdleKeeps
<1> QED BY <1>2, <1>3 DEF VideoCalls

LEMMA SetVolKeeps == ASSUME AudInv, NEW v \in 0 .. AudVolMax + 1, SetVol(v) PROVE AudInv'
<1>1. AudIdle /\ acall' = <<>> /\ aud' = aud /\ audEnv' = audEnv
  BY DEF SetVol, AudIdle
<1>2. aud \in AudDs /\ areg \in AudRegs
  BY DEF AudInv
<1>3. aud_atom_set_vol(v) \in 0 .. AudVolMax
  BY DEF aud_atom_set_vol
<1>4. areg' = [areg EXCEPT !.vol = aud_atom_set_vol(v)]
  BY DEF SetVol
<1>5. areg' \in AudRegs /\ areg'.ctrl0 = areg.ctrl0 /\ areg'.ctrl1 = areg.ctrl1
  BY <1>2, <1>3, <1>4, RegKeeps
<1>6. Settled(aud', areg') /\ (Asked("fail") \/ SourceSettled(aud', areg'))
  BY <1>1, <1>5, IdleSettled DEF Settled, SourceSettled, AudSourced
<1> QED BY <1>1, <1>2, <1>5, <1>6, IdleKeeps

LEMMA MixerKeeps == ASSUME AudInv, OpenMixer \/ CloseMixer PROVE AudInv'
<1>1. AudIdle /\ acall' = <<>> /\ audEnv' = audEnv
  BY DEF OpenMixer, CloseMixer, MainOpen, AudIdle
<1>2. aud \in AudDs /\ areg \in AudRegs
  BY DEF AudInv
<1>3. PICK b \in BOOLEAN, n \in 0 .. 1 :
        areg' = [areg EXCEPT !.ctrl0.mix = b] /\ aud' = [aud EXCEPT !.mixers = n]
  <2>1. TRUE \in BOOLEAN /\ FALSE \in BOOLEAN /\ 0 \in 0 .. 1 /\ 1 \in 0 .. 1
    OBVIOUS
  <2> QED BY <2>1, Zenon DEF OpenMixer, CloseMixer
<1>4. /\ areg' \in AudRegs /\ areg'.ctrl0.sync = areg.ctrl0.sync /\ areg'.ctrl0.clip = areg.ctrl0.clip
      /\ areg'.ctrl1 = areg.ctrl1
  BY <1>2, <1>3, RegKeeps
<1>5. /\ aud' \in AudDs /\ aud'.count = aud.count /\ aud'.sync = aud.sync /\ aud'.mute = aud.mute
      /\ aud'.src = aud.src /\ aud'.isrc = aud.isrc
  BY <1>2, <1>3 DEF AudDs
<1>6. Settled(aud', areg') /\ (Asked("fail") \/ SourceSettled(aud', areg'))
  BY <1>1, <1>4, <1>5, IdleSettled DEF Settled, SourceSettled, AudSourced
<1> QED BY <1>1, <1>4, <1>5, <1>6, IdleKeeps

LEMMA OpenKeeps == ASSUME AudInv, NEW m, aud_inf_open(m) PROVE AudInv'
<1>1. AudIdle /\ acall' = <<>> /\ audEnv' = audEnv /\ areg' = aud_atom_init(areg) /\ aud.count = 0
  BY DEF aud_inf_open, AudIdle
<1>2. aud \in AudDs /\ areg \in AudRegs
  BY DEF AudInv
<1>3. PICK x, y : /\ x = [type |-> "none", clip |-> FALSE, mix |-> FALSE, sync |-> FALSE]
                  /\ y = [halt |-> FALSE, mute |-> FALSE, endian |-> "default"]
  OBVIOUS
<1>4. x \in Ctrl0s /\ y \in Ctrl2s /\ x.sync = FALSE /\ x.clip = FALSE
  BY <1>3 DEF Ctrl0s, Ctrl2s
<1>5. areg' = [areg EXCEPT !.ctrl0 = x, !.ctrl2 = y]
  BY <1>1, <1>3 DEF aud_atom_init
<1>6. areg' \in AudRegs /\ areg'.ctrl0 = x /\ areg'.ctrl1 = areg.ctrl1
  BY <1>2, <1>4, <1>5 DEF AudRegs
<1>7. CASE aud' = [OpenedDecoder(aud) EXCEPT !.count = 1, !.isrc = -1]
  <2>1. PICK o : o = OpenedDecoder(aud)
    OBVIOUS
  <2>2. PICK n : n = [aud EXCEPT !.src = "NO", !.state = "STOPPED", !.stream = "UNKNOWN"]
    OBVIOUS
  <2>3. n \in AudDs /\ n.mute = aud.mute /\ n.src = "NO"
    BY <1>2, <2>2 DEF AudDs
  <2>4. PICK q : q = [n EXCEPT !.channel = "STEREO", !.sync = FALSE]
    OBVIOUS
  <2>5. q \in AudDs /\ q.mute = aud.mute /\ q.src = "NO" /\ q.sync = FALSE
    BY <2>3, <2>4 DEF AudDs, AudChannels
  <2>6. o = [q EXCEPT !.open = TRUE, !.irq = TRUE]
    BY <2>1, <2>2, <2>4 DEF OpenedDecoder
  <2>7. o \in AudDs /\ o.mute = aud.mute /\ o.src = "NO" /\ o.sync = FALSE
    BY <2>5, <2>6 DEF AudDs
  <2>8. aud' = [o EXCEPT !.count = 1, !.isrc = -1]
    BY <1>7, <2>1
  <2>9. aud' \in AudDs /\ aud'.mute = aud.mute /\ aud'.src = "NO" /\ aud'.sync = FALSE /\ aud'.isrc = -1
    <3>1. PICK w, z : w = -1 /\ z = [o EXCEPT !.count = 1]
      OBVIOUS
    <3>2. w \in {-1, 0, 1}
      BY <3>1
    <3>3. z \in AudDs /\ z.mute = aud.mute /\ z.src = "NO" /\ z.sync = FALSE
      BY <2>7, <3>1 DEF AudDs
    <3>4. aud' = [z EXCEPT !.isrc = w]
      BY <2>8, <3>1
    <3>5. /\ [z EXCEPT !.isrc = w] \in AudDs /\ [z EXCEPT !.isrc = w].mute = z.mute
          /\ [z EXCEPT !.isrc = w].src = z.src /\ [z EXCEPT !.isrc = w].sync = z.sync
          /\ [z EXCEPT !.isrc = w].isrc = w
      BY <3>2, <3>3 DEF AudDs
    <3> QED BY <3>1, <3>3, <3>4, <3>5, Zenon
  <2>10. Settled(aud', areg')
    BY <1>1, <1>4, <1>6, <2>9, IdleSettled DEF Settled
  <2>11. SourceSettled(aud', areg')
    <3>1. aud'.src # "MEMORY"
      BY <2>9
    <3>2. areg'.ctrl0.clip = (aud'.src = "MEMORY")
      BY <1>4, <1>6, <3>1, Zenon
    <3>3. aud'.src = CASE aud'.isrc = -1 -> "NO" [] aud'.isrc = 0 -> "DEMUX" [] OTHER -> "MEMORY"
      BY <2>9
    <3> QED BY <3>2, <3>3, Zenon DEF SourceSettled, AudSourced
  <2> QED BY <1>1, <1>6, <2>9, <2>10, <2>11, IdleKeeps
<1>8. CASE aud' = [aud EXCEPT !.irq = TRUE]
  <2>1. aud' \in AudDs /\ aud'.mute = aud.mute /\ aud'.count = 0
    BY <1>1, <1>2, <1>8 DEF AudDs
  <2>2. Settled(aud', areg') /\ SourceSettled(aud', areg')
    BY <1>1, <1>6, <2>1, IdleSettled DEF Settled, SourceSettled
  <2> QED BY <1>1, <1>6, <2>1, <2>2, IdleKeeps
<1> QED BY <1>7, <1>8 DEF aud_inf_open

\* The handler, which may come between two steps of a call.
LEMMA CompleteKeeps == ASSUME ~AudWindow, AudInv, ChannelChangeComplete PROVE AudInv'
<1>1. PICK c, d, r, q : c = acall /\ d = aud /\ r = areg /\ q = areg'
  OBVIOUS
<1>2. /\ d \in AudDs /\ r \in AudRegs /\ AudKept(c, d, r) /\ (Asked("fail") \/ SourceKept(c, d, r))
      /\ ~d.mute
  BY <1>1 DEF AudInv, ChannelChangeComplete
<1>3. ~MutingIn(c)
  BY <1>1 DEF ChannelChangeComplete, Muting, MutingIn
<1>4. PICK x, y : x = [r.ctrl1 EXCEPT !.soft = FALSE] /\ y = [r.ctrl2 EXCEPT !.mute = FALSE]
  OBVIOUS
<1>5. x \in Ctrl1s /\ y \in Ctrl2s
  BY <1>2, <1>4 DEF AudRegs, Ctrl1s, Ctrl2s
<1>6. q = [r EXCEPT !.ctrl1 = x, !.ctrl2 = y]
  BY <1>1, <1>2, <1>4 DEF ChannelChangeComplete, AudRegs
<1>7. q \in AudRegs /\ q.ctrl0 = r.ctrl0 /\ q.acc = r.acc /\ q.was = r.was
  BY <1>2, <1>5, <1>6 DEF AudRegs
<1>8. c \in Seq(AudSteps) /\ Paired(c) /\ Loaded(c, d, r) /\ SyncKept(c, d, r) /\ MuteKept(c, d, r)
  BY <1>2 DEF AudKept
<1>9. Loaded(c, d, q)
  BY <1>2, <1>3, <1>7, <1>8 DEF Loaded, FreshFor
<1>10. SyncKept(c, d, q)
  BY <1>7, <1>8 DEF SyncKept, SyncRecorded, SyncBorrowed
<1>11. MuteKept(c, d, q)
  <2>1. c # <<>> => FromEnd(c, 0) # Rec("mute", TRUE)
    <3>1. ASSUME c # <<>>, FromEnd(c, 0) = Rec("mute", TRUE) PROVE FALSE
      <4>1. Len(c) \in 1 .. Len(c) /\ c[Len(c)] = Rec("mute", TRUE)
        <5>1. Len(c) \in Nat \ {0}
          BY <1>8, <3>1, AudTail
        <5>2. Len(c) \in 1 .. Len(c) /\ Len(c) - 0 = Len(c)
          BY <5>1
        <5>3. c[Len(c) - 0] = Rec("mute", TRUE)
          BY <3>1, Zenon DEF FromEnd
        <5> QED BY <5>2, <5>3, Zenon
      <4>2. Rec("mute", TRUE).k = "rec" /\ Rec("mute", TRUE).field = "mute" /\ Rec("mute", TRUE).val
        BY DEF Rec
      <4>3. MutingIn(c)
        BY <4>1, <4>2, Zenon DEF MutingIn
      <4> QED BY <1>3, <4>3
    <3> QED BY <3>1
  <2>2. \/ c \in Seq(AudSteps \ MuteSteps)
        \/ c \in Seq(Straight) /\ c # <<>> /\ FromEnd(c, 0) = Rec("mute", FALSE)
    BY <1>8, <2>1, Zenon DEF MuteKept
  <2> QED BY <1>2, <2>2, Zenon DEF MuteKept
<1>12. SourceKept(c, d, r) => SourceKept(c, d, q)
  BY <1>7, Zenon DEF SourceKept, AudSourced, Selecting
<1>13. AudKept(c, d, q) /\ (Asked("fail") \/ SourceKept(c, d, q))
  BY <1>2, <1>8, <1>9, <1>10, <1>11, <1>12 DEF AudKept
<1>14. acall' = c /\ aud' = d /\ audEnv' = audEnv
  BY <1>1 DEF ChannelChangeComplete
<1> QED BY <1>1, <1>2, <1>7, <1>13, <1>14 DEF AudInv, Asked

\* Each access of the handler leaves synchronisation as it was.
LEMMA MasterKeeps == ASSUME AudInv, MasterSync PROVE AudInv'
<1>1. PICK r : r = areg
  OBVIOUS
<1>2. r \in AudRegs /\ r.ctrl0 \in Ctrl0s /\ r.chip \in Chips
  BY <1>1 DEF AudInv, AudRegs
<1>3. Resynced("ctrl0") = r.ctrl0
  BY <1>1, <1>2 DEF Resynced, Ctrl0s
<1>4. Resynced("chip") = r.chip
  BY <1>1, <1>2 DEF Resynced, Chips
<1>5. areg' = [r EXCEPT !.ctrl0 = r.ctrl0, !.chip = r.chip]
  BY <1>1, <1>3, <1>4 DEF MasterSync
<1>6. areg' = r
  BY <1>2, <1>5 DEF AudRegs
<1> QED BY <1>1, <1>6 DEF MasterSync, AudInv, Asked

LEMMA AudInitKept == ASSUME AudInit PROVE AudInv
<1>1. /\ aud.count = 0 /\ aud.mute = FALSE /\ acall = <<>>
      /\ aud \in AudDs
  BY DEF AudInit, AudDs, AudChannels
<1>2. PICK x, y, z : /\ x = [type |-> "none", clip |-> FALSE, mix |-> FALSE, sync |-> FALSE]
                     /\ y = [soft |-> FALSE, channel |-> "STEREO"]
                     /\ z = [halt |-> FALSE, mute |-> FALSE, endian |-> "default"]
  OBVIOUS
<1>3. x \in Ctrl0s /\ y \in Ctrl1s /\ z \in Ctrl2s
  BY <1>2 DEF Ctrl0s, Ctrl1s, Ctrl2s, AudChannels
<1>4. PICK m, f, g : /\ m = [master |-> FALSE] /\ f = [pcm |-> "default", mix |-> "default"]
                     /\ g = [sync |-> FALSE]
  OBVIOUS
<1>5. m \in Dsrs /\ f \in Dsps /\ g \in Chips
  BY <1>4 DEF Dsrs, Dsps, Chips
<1>6. areg = [ctrl0 |-> x, ctrl1 |-> y, ctrl2 |-> z, dsr |-> m, dsp |-> f, chip |-> g,
              vol |-> 0, acc |-> <<>>, was |-> FALSE]
  BY <1>2, <1>4, Zenon DEF AudInit
<1>7. areg \in AudRegs
  BY <1>3, <1>5, <1>6 DEF AudRegs
<1>8. Settled(aud, areg) /\ SourceSettled(aud, areg)
  BY <1>1 DEF Settled, SourceSettled
<1>9. Fits(Harmless, <<>>)
  BY SetsOfSteps, FitsNone
<1>10. PICK c, d, r : c = <<>> /\ d = aud /\ r = areg
  OBVIOUS
<1>11. Fits(Harmless, c) /\ Settled(d, r) /\ SourceSettled(d, r)
  BY <1>8, <1>9, <1>10
<1>12. AudKept(c, d, r) /\ SourceKept(c, d, r)
  BY <1>11, SettledNeutral
<1> QED BY <1>1, <1>7, <1>10, <1>12 DEF AudInv

LEMMA AudStepKeeps == ASSUME ~AudWindow, AudInv, [AudNext]_audVars PROVE AudInv'
<1>1. CASE UNCHANGED audVars
  BY <1>1 DEF audVars, AudInv, Asked
<1>2. CASE AudNext
  <2>1. CASE \E m \in AudMinors : aud_inf_open(m)
    BY <2>1, OpenKeeps
  <2>2. CASE aud_inf_release
    BY <2>2, ReleaseKeeps
  <2>3. CASE OpenMixer \/ CloseMixer
    BY <2>3, MixerKeeps
  <2>4. CASE \E p \in {0, 1} : AudSelectSource(p)
    BY <2>4, SelectKeeps
  <2>5. CASE AudPlayCalls
    BY <2>5, PlayCallsKeep
  <2>6. CASE AudFormatCalls
    BY <2>6, FormatCallsKeep
  <2>7. CASE AudSyncCalls
    BY <2>7, SyncCallsKeep
  <2>8. CASE VideoCalls
    BY <2>8, VideoCallsKeep
  <2>9. CASE RunAudStep
    BY <2>9, AudRunKeeps
  <2>10. CASE \E v \in 0 .. AudVolMax + 1 : SetVol(v)
    BY <2>10, SetVolKeeps
  <2>11. CASE ChannelChangeComplete
    BY <2>11, CompleteKeeps
  <2>12. CASE MasterSync
    BY <2>12, MasterKeeps
  <2> QED BY <1>2, <2>1, <2>2, <2>3, <2>4, <2>5, <2>6, <2>7, <2>8, <2>9, <2>10, <2>11, <2>12 DEF AudNext
<1> QED BY <1>1, <1>2

LEMMA AudIsSafe == ASSUME AudInv PROVE AudioAsAsked
<1>1. PICK d, r : d = aud /\ r = areg
  OBVIOUS
<1>2. d \in AudDs /\ r \in AudRegs
  BY <1>1 DEF AudInv
<1>3. AudTypeOK
  <2>1. /\ d.count \in 0 .. 1 /\ d.mixers \in 0 .. 1 /\ d.isrc \in {-1, 0, 1}
        /\ d.src \in {"NO", "DEMUX", "MEMORY"} /\ d.state \in {"STOPPED", "PLAYING"}
    BY <1>2 DEF AudDs
  <2>2. r.ctrl1 \in Ctrl1s /\ r.vol \in 0 .. AudVolMax
    BY <1>2 DEF AudRegs
  <2>3. r.ctrl1.channel \in AudChannels
    BY <2>2 DEF Ctrl1s
  <2> QED BY <1>1, <2>1, <2>2, <2>3, Zenon DEF AudTypeOK
<1>4. SyncAsAsked /\ MutedStaysMuted /\ AudSourceAgrees
  <2>1. ASSUME AudIdle PROVE Settled(aud, areg) /\ (Asked("fail") \/ SourceSettled(aud, areg))
    BY <2>1, IdleSettled
  <2>2. SyncAsAsked
    BY <2>1 DEF SyncAsAsked, MainOpen, Settled
  <2>3. MutedStaysMuted
    BY <2>1 DEF MutedStaysMuted, Settled
  <2>4. AudSourceAgrees
    BY <2>1, Zenon DEF AudSourceAgrees, MainOpen, SourceSettled, AudSourced
  <2> QED BY <2>2, <2>3, <2>4
<1> QED BY <1>3, <1>4 DEF AudioAsAsked

-----------------------------------------------------------------------------
(* The theorem of the audio decoder.                                        *)

\* Where the interrupt handler does not come in the middle of a mute: whenever
\* no call is under way, audio is synchronised just when that was asked for,
\* what the user has muted is muted, and the node, the decoder and the clip bit
\* agree on the source, if no clip device failed to be created; whatever calls,
\* late answers of the DSP, channel changes and interrupts between any two
\* accesses came before (aud_inf_ioctl, aud_atom_sync_off, aud_atom_mute,
\* aud_atom_irq_handler).
THEOREM NodeAndAudioAgree ==
  ASSUME ~AudWindow PROVE AudSpec => []AudioAsAsked
<1>1. AudInit => AudInv
  BY AudInitKept
<1>2. AudInv /\ [AudNext]_audVars => AudInv'
  BY AudStepKeeps
<1> QED BY <1>1, <1>2, AudIsSafe, PTL DEF AudSpec
=============================================================================
