------------------------------- MODULE IrRemote -------------------------------
(***************************************************************************)
(* The infrared receiver (ir_osi_device.c, ir_atom.c), the detector of the *)
(* remote control's codes (ir_osi_hitachi.c) and the device that hands the *)
(* keys to any number of readers (the rawir part of ir_inf_combo.c).       *)
(*                                                                         *)
(* A pulse is two numbers of samples, from its start to the start of the   *)
(* next and its own length.  The remote control, the receiver's FIFO and   *)
(* the load of the module as a whole are external.  A code is a sequence   *)
(* of bits: the group, the key and the key inverted.                       *)
(***************************************************************************)
EXTENDS Integers, Sequences

CONSTANTS RcGroupBits, RcKeyBits,  \* bits of a code's group and key
          RcKeyinfo,  \* keyinfo: from <<group, key>> to key_code
          RcGroups,   \* the groups of the table's remote controls
          RcEaten,    \* RC_REPEAT_EATEN
          RcScripts,  \* what a behaviour does: the pulses the remote control sends, whether
                      \* they come faster than they are handled, the files that are used,
                      \* and the build (raw: _IR_RAWMODE_)
          RcSentCodes,\* the codes the scripts hold
          IrFifo,     \* places of the receiver's FIFO
          IrQueue,    \* messages the interrupt task's queue holds
          RawFiles,   \* the files
          RawMaxOpens, RawQueue,  \* RAWIR_MAX_OPENS, RAWIR_QUEUE_SIZE
          RawLengths, \* places for keys in a reader's buffer
          RawMaxCalls \* bound: opens, reads and polls of a file

ASSUME IrAssumption ==
  /\ RcGroupBits \in Nat /\ RcKeyBits \in Nat \ {0} /\ RcEaten \in Nat
  /\ IrFifo \in Nat \ {0} /\ IrQueue \in Nat \ {0} /\ RawQueue \in Nat \ {0, 1} /\ RawMaxOpens \in Nat

VARIABLES
  irLoad,    \* the module is loaded
  rcEnv,     \* the script of this behaviour
  rcAir,     \* pulses still to come
  irFifo,    \* FIFO of the receiver
  irStat,    \* its interrupt status
  irMsgs,    \* messages of the interrupt task
  rc,        \* detector: rc_status and the bits of rc_code
  rcLast, rcRepeats,  \* last_sent_code, repeat_count
  rcHeld,    \* the last complete code the detector saw
  rcOut,     \* the last key handed on and the code held then
  rawSlots,  \* _gpRawIRSlots, head first
  rawq,      \* dataq of each file
  rawPc,     \* where each file's caller is
  rawIn,     \* buffer of the reader: place, the keys put into it so far
  rawPosted, rawGot,  \* keys a file's queue had room for, and keys its readers saw
  rawCalls

irVars == <<irLoad, rcEnv, rcAir, irFifo, irStat, irMsgs, rc, rcLast, rcRepeats, rcHeld, rcOut,
            rawSlots, rawq, rawPc, rawIn, rawPosted, rawGot, rawCalls>>
rxVars == <<rcEnv, rcAir, irFifo, irStat, irMsgs, rc, rcLast, rcRepeats, rcHeld, rcOut>>
rawVars == <<rawSlots, rawq, rawPc, rawIn, rawPosted, rawGot, rawCalls>>

InvalidCode == <<"invalid">>   \* INVALID_IR_CODE
NoKey == <<"none">>
NoBuffer == [places |-> 0, keys |-> <<>>]
RcReady == [status |-> "start", bits |-> <<>>]

IrInit ==
  /\ irLoad = FALSE /\ rcEnv \in RcScripts /\ rcAir = rcEnv.air /\ irFifo = <<>> /\ irStat = {} /\ irMsgs = <<>>
  /\ rc = RcReady /\ rcLast = <<"zero">> /\ rcRepeats = 0 /\ rcHeld = <<>> /\ rcOut = <<NoKey, <<>>>>
  /\ rawSlots = <<>> /\ rawq = [f \in RawFiles |-> <<>>] /\ rawPc = [f \in RawFiles |-> "closed"]
  /\ rawIn = [f \in RawFiles |-> NoBuffer]
  /\ rawPosted = [f \in RawFiles |-> <<>>] /\ rawGot = [f \in RawFiles |-> <<>>]
  /\ rawCalls = [f \in RawFiles |-> 0]

-----------------------------------------------------------------------------
\* Loading and unloading.  When a step of the load fails all before it is
\* undone.  The detector starts with what its static variables hold: nobody
\* resets it.
ir_osi_init == irFifo' = <<>> /\ irStat' = {} /\ irMsgs' = <<>>

ir_inf_init ==
  /\ ~ irLoad /\ irLoad' \in BOOLEAN
  /\ rc' = RcReady /\ rcLast' = <<"zero">> /\ rcRepeats' = 0 /\ rcHeld' = <<>>
  /\ ir_osi_init
  /\ UNCHANGED <<rcEnv, rcAir, rcOut, rawVars>>

\* The receiver is stopped, the interrupt task and what it had to do are gone.
ir_osi_deinit == irStat' = {} /\ irMsgs' = <<>> /\ UNCHANGED irFifo

\* A module in use stays.
ir_inf_deinit ==
  /\ irLoad /\ rawSlots = <<>>
  /\ irLoad' = FALSE /\ ir_osi_deinit
  /\ UNCHANGED <<rcEnv, rcAir, rc, rcLast, rcRepeats, rcHeld, rcOut, rawVars>>

-----------------------------------------------------------------------------
\* The receiver: a pulse, and the interrupt.
IrPulse ==
  /\ irLoad /\ rcAir # <<>> /\ (rcEnv.fast \/ (irFifo = <<>> /\ irMsgs = <<>>))
  /\ rcAir' = Tail(rcAir)
  /\ IF Len(irFifo) = IrFifo THEN irStat' = irStat \cup {"overflow"} /\ UNCHANGED irFifo
     ELSE irFifo' = Append(irFifo, Head(rcAir)) /\ irStat' = irStat \cup {"level"}
  /\ UNCHANGED <<irLoad, rcEnv, irMsgs, rc, rcLast, rcRepeats, rcHeld, rcOut, rawVars>>

\* The codes read, at most 32, and what os_call_irq_task makes of them: those the queue has no room
\* for are lost.
ir_atom_get_codes == SubSeq(irFifo, 1, IF Len(irFifo) < 32 THEN Len(irFifo) ELSE 32)
Posted(msgs, codes) == SubSeq(msgs \o codes, 1, IF Len(msgs \o codes) > IrQueue THEN IrQueue ELSE Len(msgs \o codes))

\* An overflow restarts the receiver, and what the FIFO held is lost.
ir_int_handler ==
  /\ irStat # {}
  /\ irFifo' = <<>> /\ irStat' = {}
  /\ irMsgs' = IF "overflow" \in irStat THEN irMsgs ELSE Posted(irMsgs, ir_atom_get_codes)
  /\ UNCHANGED <<irLoad, rcEnv, rcAir, rc, rcLast, rcRepeats, rcHeld, rcOut, rawVars>>

-----------------------------------------------------------------------------
\* The detector.
RcBase == 280   \* RC_CLOCK_BASE
RcWidth(t) == (t + RcBase \div 2) \div RcBase
RcBits == RcGroupBits + 2 * RcKeyBits

IsStart(p) == RcWidth(p.pulse) = 16 /\ RcWidth(p.sig) = 24
IsRepeat(p) == RcWidth(p.pulse) = 16 /\ RcWidth(p.sig) = 20

Received(d, bit) == [d EXCEPT !.bits = Append(@, bit), !.status = IF Len(d.bits) + 1 = RcBits THEN "repeat" ELSE @]

\* <<the detector, "code", "repeat" or "no">>
ir_osi_detect_hitachi_code(d, p) ==
  CASE d.status \in {"start", "repeat"} /\ IsStart(p) -> <<[status |-> "bits", bits |-> <<>>], "no">>
    [] d.status = "repeat" /\ IsRepeat(p) -> <<d, "repeat">>
    [] d.status \in {"start", "repeat"} -> <<d, "no">>
    [] RcWidth(p.pulse) = 1 /\ RcWidth(p.sig) \in {2, 4} ->
         LET next == Received(d, IF RcWidth(p.sig) = 4 THEN 1 ELSE 0)
         IN  <<next, IF next.status = "repeat" THEN "code" ELSE "no">>
    [] OTHER -> <<[d EXCEPT !.status = "start"], "no">>

\* A code is taken apart.
GroupOf(code) == SubSeq(code, 1, RcGroupBits)
KeyBitsOf(code) == SubSeq(code, RcGroupBits + 1, RcGroupBits + RcKeyBits)
XorKeyOf(code) == SubSeq(code, RcGroupBits + RcKeyBits + 1, RcBits)
Inverted(bits) == [i \in DOMAIN bits |-> 1 - bits[i]]
KeyChecks(code) == XorKeyOf(code) = Inverted(KeyBitsOf(code))
GroupChecks(code) ==
  LET g == GroupOf(code) IN SubSeq(g, (RcGroupBits \div 2) + 1, RcGroupBits) = Inverted(SubSeq(g, 1, RcGroupBits \div 2))

Known(code) == <<GroupOf(code), KeyBitsOf(code)>> \in DOMAIN RcKeyinfo
KeyCode(code) == RcKeyinfo[<<GroupOf(code), KeyBitsOf(code)>>]
RawKey(code) == <<"raw", SubSeq(GroupOf(code), 1, RcGroupBits \div 2), KeyBitsOf(code)>>

\* What is handed on for a key: it goes down and up, in raw mode only itself.
KeyEvents(key) == IF rcEnv.raw THEN <<key>> ELSE <<<<key, "down">>, <<key, "up">>>>

\* ir_osi_process_hitachi_code: <<last_sent_code, repeat_count, the key handed on>>
ProcessRepeat ==
  <<rcLast, IF rcLast = InvalidCode THEN rcRepeats ELSE rcRepeats + 1,
    IF rcLast # InvalidCode /\ rcRepeats + 1 > RcEaten THEN rcLast ELSE NoKey>>

ProcessFiltered_keeps(code) ==
  CASE GroupOf(code) \notin RcGroups -> <<rcLast, 0, NoKey>>
    [] ~ KeyChecks(code) -> <<rcLast, 0, NoKey>>
    [] Known(code) -> <<KeyCode(code), 0, KeyCode(code)>>
    [] OTHER -> <<rcLast, 0, NoKey>>
ProcessFiltered(code) ==
  CASE GroupOf(code) \notin RcGroups -> <<rcLast, 0, NoKey>>
    [] ~ KeyChecks(code) -> <<InvalidCode, 0, NoKey>>
    [] Known(code) -> <<KeyCode(code), 0, KeyCode(code)>>
    [] OTHER -> <<rcLast, 0, NoKey>>

ProcessRaw(code) ==
  IF GroupChecks(code) /\ KeyChecks(code) THEN <<RawKey(code), 0, RawKey(code)>>
  ELSE <<InvalidCode, 0, NoKey>>

ir_osi_process_hitachi_code(code, kind) ==
  CASE kind = "repeat" -> ProcessRepeat
    [] kind = "no" -> <<rcLast, rcRepeats, NoKey>>
    [] rcEnv.raw -> ProcessRaw(code)
    [] OTHER -> ProcessFiltered(code)

-----------------------------------------------------------------------------
\* The readers.  A queue holds one key less than its places.
Room(q) == Len(q) < RawQueue - 1
Enqueued(q, keys) ==
  LET one(s, k) == IF Room(s) THEN Append(s, k) ELSE s
      upto[i \in 0 .. Len(keys)] == IF i = 0 THEN q ELSE one(upto[i - 1], keys[i])
  IN  upto[Len(keys)]
NewKeys(q, keys) == SubSeq(Enqueued(q, keys), Len(q) + 1, Len(Enqueued(q, keys)))

OpenFiles == {rawSlots[i] : i \in DOMAIN rawSlots}

\* handle_raw_ir_code: every open file gets the keys, and its sleeper wakes.
handle_raw_ir_code(keys) ==
  /\ rawq' = [f \in RawFiles |-> IF f \in OpenFiles THEN Enqueued(rawq[f], keys) ELSE rawq[f]]
  /\ rawPc' = [f \in RawFiles |->
       CASE keys # <<>> /\ rawPc[f] = "sleep" -> "woken" [] keys # <<>> /\ rawPc[f] = "poll" -> "idle" [] OTHER -> rawPc[f]]

\* One message of the interrupt task, for the remote control's device.
ir_int_task ==
  LET r == ir_osi_detect_hitachi_code(rc, Head(irMsgs))
      p == ir_osi_process_hitachi_code(r[1].bits, r[2])
      keys == IF p[3] = NoKey THEN <<>> ELSE KeyEvents(p[3])
      held == IF r[2] = "code" THEN r[1].bits ELSE rcHeld
  IN  /\ irMsgs # <<>>
      /\ irMsgs' = Tail(irMsgs) /\ rc' = r[1]
      /\ rcLast' = p[1] /\ rcRepeats' = p[2] /\ rcHeld' = held
      /\ rcOut' = IF p[3] = NoKey THEN rcOut ELSE <<p[3], held>>
      /\ handle_raw_ir_code(keys)
      /\ rawPosted' = [f \in RawFiles |-> IF f \in OpenFiles THEN rawPosted[f] \o NewKeys(rawq[f], keys) ELSE rawPosted[f]]
      /\ UNCHANGED <<irLoad, rcEnv, rcAir, irFifo, irStat, rawSlots, rawIn, rawGot, rawCalls>>

Calls(f) == rawCalls[f] < RawMaxCalls /\ rawCalls' = [rawCalls EXCEPT ![f] = @ + 1]

rawir_open(f) ==
  /\ irLoad /\ f \in rcEnv.files /\ rawPc[f] = "closed" /\ Len(rawSlots) < RawMaxOpens /\ Calls(f)
  /\ rawSlots' = <<f>> \o rawSlots
  /\ rawq' = [rawq EXCEPT ![f] = <<>>] /\ rawPc' = [rawPc EXCEPT ![f] = "idle"]
  /\ rawPosted' = [rawPosted EXCEPT ![f] = <<>>] /\ rawGot' = [rawGot EXCEPT ![f] = <<>>]
  /\ UNCHANGED <<irLoad, rxVars, rawIn>>

rawir_release(f) ==
  /\ rawPc[f] = "idle"
  /\ rawSlots' = SelectSeq(rawSlots, LAMBDA g : g # f)
  /\ rawq' = [rawq EXCEPT ![f] = <<>>] /\ rawPc' = [rawPc EXCEPT ![f] = "closed"]
  /\ rawPosted' = [rawPosted EXCEPT ![f] = <<>>] /\ rawGot' = [rawGot EXCEPT ![f] = <<>>]
  /\ UNCHANGED <<irLoad, rxVars, rawIn, rawCalls>>

\* rawir_read: a key, or the way to sleep, or EAGAIN.
Dequeue(f, n) ==
  /\ rawq' = [rawq EXCEPT ![f] = Tail(@)] /\ rawPc' = [rawPc EXCEPT ![f] = "copy"]
  /\ rawIn' = [rawIn EXCEPT ![f] = [places |-> n, keys |-> <<Head(rawq[f])>>]]

rawir_read(f) ==
  /\ rawPc[f] = "idle" /\ Calls(f)
  /\ \E n \in RawLengths :
       \/ rawq[f] # <<>> /\ Dequeue(f, n)
       \/ /\ rawq[f] = <<>> /\ UNCHANGED rawq
          /\ \E pc \in {"idle", "empty"} : rawPc' = [rawPc EXCEPT ![f] = pc]
          /\ rawIn' = [rawIn EXCEPT ![f] = [places |-> n, keys |-> <<>>]]
  /\ UNCHANGED <<irLoad, rxVars, rawSlots, rawPosted, rawGot>>

\* interruptible_sleep_on: keys that come before it wake nobody.
RawSleep(f) ==
  /\ rawPc[f] = "empty" /\ rawPc' = [rawPc EXCEPT ![f] = "sleep"]
  /\ UNCHANGED <<irLoad, rxVars, rawSlots, rawq, rawIn, rawPosted, rawGot, rawCalls>>

RawSignal(f) ==
  /\ rawPc[f] = "sleep" /\ rawPc' = [rawPc EXCEPT ![f] = "idle"]
  /\ UNCHANGED <<irLoad, rxVars, rawSlots, rawq, rawIn, rawPosted, rawGot, rawCalls>>

RawWoken(f) ==
  /\ rawPc[f] = "woken"
  /\ IF rawq[f] # <<>> THEN Dequeue(f, rawIn[f].places)
     ELSE rawPc' = [rawPc EXCEPT ![f] = "idle"] /\ UNCHANGED <<rawq, rawIn>>
  /\ UNCHANGED <<irLoad, rxVars, rawSlots, rawPosted, rawGot, rawCalls>>

\* Every key is copied to the start of the buffer; the reader is told how many
\* there were, and finds the last one there and what was there before after it.
RawCopy(f) ==
  LET b == rawIn[f]
      n == Len(b.keys)
      seen == [i \in 1 .. n |-> IF i = 1 THEN b.keys[n] ELSE NoKey]
  IN  /\ rawPc[f] = "copy"
      /\ IF n < b.places /\ rawq[f] # <<>>
         THEN /\ rawq' = [rawq EXCEPT ![f] = Tail(@)]
              /\ rawIn' = [rawIn EXCEPT ![f].keys = Append(@, Head(rawq[f]))]
              /\ UNCHANGED <<rawPc, rawGot>>
         ELSE /\ rawGot' = [rawGot EXCEPT ![f] = @ \o seen]
              /\ rawPc' = [rawPc EXCEPT ![f] = "idle"] /\ rawIn' = [rawIn EXCEPT ![f] = NoBuffer]
              /\ UNCHANGED rawq
      /\ UNCHANGED <<irLoad, rxVars, rawSlots, rawPosted, rawCalls>>

\* rawir_poll: the poller is on the wait queue before the queue is looked at.
rawir_poll(f) ==
  /\ rawPc[f] = "idle" /\ Calls(f)
  /\ rawPc' = [rawPc EXCEPT ![f] = IF rawq[f] = <<>> THEN "poll" ELSE "idle"]
  /\ UNCHANGED <<irLoad, rxVars, rawSlots, rawq, rawIn, rawPosted, rawGot>>

IrNext ==
  \/ ir_inf_init \/ ir_inf_deinit \/ IrPulse \/ ir_int_handler \/ ir_int_task
  \/ \E f \in RawFiles :
       \/ rawir_open(f) \/ rawir_release(f) \/ rawir_read(f) \/ RawSleep(f) \/ RawSignal(f)
       \/ RawWoken(f) \/ RawCopy(f) \/ rawir_poll(f)

-----------------------------------------------------------------------------
\* A key that is handed on is the key of the last code that was received, and
\* that code is one the remote control sent: a repeat never stands for another
\* key, whatever pulses were lost and whichever code was damaged.
HandsOnTheKeyHeld ==
  rcOut[1] # NoKey =>
    /\ rcOut[2] \in RcSentCodes
    /\ IF rcEnv.raw THEN rcOut[1] = RawKey(rcOut[2]) ELSE Known(rcOut[2]) /\ rcOut[1] = KeyCode(rcOut[2])

\* Each open file's readers see every key its queue had room for, once and in
\* order, and no poller sleeps while there is a key.
KeysReachReaders ==
  \A f \in OpenFiles :
    /\ rawPosted[f] = rawGot[f] \o (IF rawPc[f] = "copy" THEN rawIn[f].keys ELSE <<>>) \o rawq[f]
    /\ rawPc[f] = "poll" => rawq[f] = <<>>

\* "Logically the queue used in rawir will not cause races": no reader sleeps
\* while its queue holds a key.
NoSleepOverKey == \A f \in OpenFiles : rawPc[f] = "sleep" => rawq[f] = <<>>

\* From the air to the readers: the keys the remote control sent, once and in order.
KeysAsSent == HandsOnTheKeyHeld /\ KeysReachReaders
=============================================================================
