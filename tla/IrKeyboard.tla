------------------------------ MODULE IrKeyboard ------------------------------
(***************************************************************************)
(* The infrared keyboard and mouse (ir_osi_acer_kbms.c): a detector that   *)
(* puts bytes together from the distances between pulses, takes three of   *)
(* them for a code, and a handler that keeps the shift keys of the console *)
(* in step with the keyboard although codes get lost on the way.           *)
(*                                                                         *)
(* A distance is a number of samples.  The keyboard is external: its first *)
(* byte carries the shift keys and buttons that are down, the one just     *)
(* pressed included.  A pulse that nothing follows is reported with        *)
(* distance 0.  What the remote control's signals do to this detector is   *)
(* KbNoise.                                                                *)
(***************************************************************************)
EXTENDS Integers, Sequences, FiniteSets

CONSTANTS KbEnvs,     \* the keys a behaviour may use, "mouse" to move it, "open" to open and close it
          KbJitters,  \* the errors of the distances of a frame, in samples
          KbLosses    \* bound: pulses lost and noise received

ASSUME KbAssumption == KbLosses \in Nat /\ KbJitters \subseteq Int

VARIABLES
  kbEnv,     \* what this behaviour uses
  pressed,   \* the keys that are down on the keyboard
  kbAir,     \* distances still to be received
  acer,      \* the detector's static variables
  kbHeld,    \* shift_down
  kbStatus,  \* old_shift_status
  console,   \* the keys and buttons the console has as down
  mouseOpen, \* pMouseHandle is set
  kbFaults,  \* pulses lost and noise received so far
  kbClean    \* all since the last key's frame was received whole, by a detector that was ready

kbVars == <<kbEnv, pressed, kbAir, acer, kbHeld, kbStatus, console, mouseOpen, kbFaults, kbClean>>

KbTypeOK ==
  /\ kbAir \in Seq(Nat) /\ acer.bits \in 0 .. 9 /\ acer.line \in 0 .. 1023
  /\ acer.state \in {"sync", "data1", "data2"}

-----------------------------------------------------------------------------
\* The keys, by their number on the keyboard: the shift keys and buttons, two
\* that are handled apart, and one of each kind of entry of
\* acer_irkb_scan_code (plain, with a prefix, none).
KeyNumber == [lsft |-> 93, rsft |-> 45, alt |-> 59, ctl |-> 115, lbtn |-> 95, rbtn |-> 31,
              pause |-> 85, print |-> 101, plain |-> 58, prefixed |-> 48, unused |-> 3]
KeyNames == DOMAIN KeyNumber
KeyOf(number) == {k \in KeyNames : KeyNumber[k] = number}

\* The bits of the status byte, the keys each stands for, and the one that is
\* assumed when its code was lost.
StatusBit == [sft |-> 4, alt |-> 2, ctl |-> 1, lbtn |-> 8, rbtn |-> 32]
StatusBits == DOMAIN StatusBit
KeysOf(b) == CASE b = "sft" -> {"lsft", "rsft"} [] OTHER -> {b}
Assumed(b) == IF b = "sft" THEN "lsft" ELSE b
Buttons == {"lbtn", "rbtn"}
ShiftKeys == UNION {KeysOf(b) : b \in StatusBits}

Bit(n, i) == (n \div 2 ^ i) % 2
Ones(n, width) == Cardinality({i \in 0 .. width - 1 : Bit(n, i) = 1})
StatusByte(bits) ==
  LET sum[s \in SUBSET StatusBits] ==
        IF s = {} THEN 0 ELSE LET b == CHOOSE x \in s : TRUE IN StatusBit[b] + sum[s \ {b}]
  IN  sum[bits]
StatusOf(byte) == {b \in StatusBits : (byte \div StatusBit[b]) % 2 = 1}

-----------------------------------------------------------------------------
\* The detector.
KbBase == 416           \* KB_CLOCK_BASE
KbTolerance == KbBase \div 2

KbReady == [state |-> "sync", bits |-> 0, line |-> 0, code |-> <<>>, reverse |-> TRUE]
NoCode == <<>>

\* clear_state: the bits of the byte under way are kept.
ClearState(d) == [d EXCEPT !.state = "sync", !.reverse = TRUE]

odd_check(line) == Ones(line, 9) % 2 = 1

KbWidth(t) == (t + KbTolerance) \div KbBase

\* A pulse and the silence after it: ten bits make a byte, whatever exceeds
\* them is the idle time before the next.
KbShift(d, t) ==
  LET w == IF KbWidth(t) = 0 THEN 10 ELSE KbWidth(t)
      n == IF w + d.bits > 10 THEN 10 - d.bits ELSE w
  IN  [d EXCEPT !.bits = @ + n,
                !.line = IF d.reverse THEN @ * 2 ^ n + 2 ^ (n - 1) ELSE @ + 2 ^ (d.bits + n - 1)]

\* A byte with its parity right, in each of the three states.
KbByte(d) == (IF d.reverse THEN d.line \div 2 ELSE d.line) % 256

IsSync(byte) == (Bit(byte, 7) = 1 /\ Bit(byte, 6) = 1 /\ Bit(byte, 4) = 0) \/ byte = 80

TakeByte(d) ==
  LET byte == KbByte(d)
      end == [d EXCEPT !.bits = 0, !.line = 0]
  IN  CASE d.state = "sync" /\ IsSync(byte) ->
             <<[end EXCEPT !.state = "data1", !.code = <<byte>>, !.reverse = byte # 80], NoCode>>
        [] d.state = "sync" -> <<ClearState(end), NoCode>>
        [] d.state = "data1" -> <<[end EXCEPT !.state = "data2", !.code = <<d.code[1], byte>>], NoCode>>
        [] d.code[1] = 80 -> <<ClearState(end), <<"mouse", d.code[2], byte>>>>
        [] d.code[2] + byte = 255 -> <<ClearState(end), <<"key", d.code[1] % 64, d.code[2]>>>>
        [] OTHER -> <<ClearState(end), NoCode>>

\* ir_osi_detect_acer_keycode: <<the detector, the code>>.  A pulse nothing
\* follows ends the code, complete or not.
ir_osi_detect_acer_keycode(d, t) ==
  LET s == KbShift(d, t)
      taken == IF odd_check(s.line) THEN TakeByte(s)
               ELSE <<ClearState([s EXCEPT !.bits = 0, !.line = 0]), NoCode>>
  IN  IF s.bits < 10 THEN <<s, NoCode>>
      ELSE IF KbWidth(t) = 0 THEN <<ClearState(taken[1]), taken[2]>> ELSE taken

-----------------------------------------------------------------------------
\* ir_osi_process_acer_keycode: the shift keys, as the key itself and then the
\* changes of the status byte have them.
OwnKey(held, k, isDown) ==
  IF ~ (k \subseteq ShiftKeys) THEN held ELSE IF isDown THEN held \cup k ELSE held \ k

Regenerated(held, status, changes) ==
  {Assumed(b) : b \in {c \in changes \cap status : KeysOf(c) \cap held = {}}}
Released_left(held, status, changes) == {Assumed(b) : b \in changes \ status} \cap held
Released(held, status, changes) == UNION {KeysOf(b) \cap held : b \in changes \ status}

\* What the console is told: buttons only when the mouse is open.
Heard(keys) == IF mouseOpen THEN keys ELSE keys \ Buttons
Told(k, isDown, before) ==
  IF k = {"unused"} THEN before ELSE IF isDown THEN before \cup Heard(k) ELSE before \ Heard(k)

ir_osi_process_acer_keycode(code) ==
  IF code = NoCode \/ code[1] = "mouse" THEN UNCHANGED <<kbHeld, kbStatus, console>>
  ELSE LET k == KeyOf(code[3] \div 2)
           isDown == code[3] % 2 = 1
           status == StatusOf(code[2])
           changes == (status \ kbStatus) \cup (kbStatus \ status)
           own == OwnKey(kbHeld, k, isDown)
           new == Regenerated(own, status, changes)
           gone == Released(own, status, changes)
       IN  /\ kbHeld' = (own \cup new) \ gone
           /\ kbStatus' = status
           /\ console' = Told(k, isDown, (console \cup Heard(new)) \ Heard(gone))

acer_kbms_event ==
  LET r == ir_osi_detect_acer_keycode(acer, Head(kbAir))
  IN  /\ kbAir # <<>>
      /\ kbAir' = Tail(kbAir) /\ acer' = r[1]
      /\ ir_osi_process_acer_keycode(r[2])
      /\ UNCHANGED <<kbEnv, pressed, mouseOpen, kbFaults, kbClean>>

\* The mouse device.  The bus mouse driver forgets its buttons when it is
\* opened.
open_mouse ==
  /\ "open" \in kbEnv /\ ~ mouseOpen
  /\ mouseOpen' = TRUE /\ console' = console \ Buttons
  /\ UNCHANGED <<kbEnv, pressed, kbAir, acer, kbHeld, kbStatus, kbFaults, kbClean>>

release_mouse ==
  /\ "open" \in kbEnv /\ mouseOpen
  /\ mouseOpen' = FALSE
  /\ UNCHANGED <<kbEnv, pressed, kbAir, acer, kbHeld, kbStatus, console, kbFaults, kbClean>>

-----------------------------------------------------------------------------
\* The keyboard.  A byte is a start bit, eight bits (the first byte and those
\* of a key code from the highest, those of a movement from the lowest) and
\* one that makes the parity odd; a one is a pulse.
LineBits(byte, reverse) ==
  [i \in 0 .. 9 |-> CASE i = 0 -> 1
                      [] i = 9 -> (1 + Ones(byte, 8)) % 2
                      [] OTHER -> Bit(byte, IF reverse THEN 8 - i ELSE i - 1)]

\* The distances of the pulses of a frame, n bits long; the last one is last.
Distances(frame, n, jitter, last) ==
  LET pulses == {i \in 0 .. n - 1 : frame[i] = 1}
      next(i) == {j \in pulses : j > i}
      dist(i) == IF next(i) = {} THEN last
                 ELSE ((CHOOSE j \in next(i) : \A l \in next(i) : j <= l) - i) * KbBase + jitter
      upto[i \in 0 .. n] == IF i = 0 THEN <<>>
        ELSE IF (i - 1) \in pulses THEN Append(upto[i - 1], dist(i - 1)) ELSE upto[i - 1]
  IN  upto[n]

KbFrame(b1, b2, b3, reverse, jitter, last) ==
  LET bits == [i \in 0 .. 35 |-> CASE i % 12 > 9 -> 0
                                   [] i < 12 -> LineBits(b1, TRUE)[i]
                                   [] i < 24 -> LineBits(b2, reverse)[i - 12]
                                   [] OTHER -> LineBits(b3, reverse)[i - 24]]
  IN  Distances(bits, 36, jitter, last)

Clean == acer.state = "sync" /\ acer.bits = 0
KbSend(b1, b2, b3, reverse, clean) ==
  /\ \E jitter \in KbJitters, last \in {0, 20 * KbBase} :
       kbAir' = KbFrame(b1, b2, b3, reverse, jitter, last)
  /\ kbClean' = clean
  /\ UNCHANGED <<kbEnv, acer, kbHeld, kbStatus, console, mouseOpen, kbFaults>>

DownBits(keys) == {b \in StatusBits : KeysOf(b) \cap keys # {}}

KeyMoves(k) ==
  LET now == IF k \in pressed THEN pressed \ {k} ELSE pressed \cup {k}
      byte == 2 * KeyNumber[k] + (IF k \in now THEN 1 ELSE 0)
  IN  /\ kbAir = <<>> /\ pressed' = now
      /\ KbSend(192 + StatusByte(DownBits(now)), byte, 255 - byte, TRUE, Clean)

MouseMoves ==
  /\ kbAir = <<>> /\ "mouse" \in kbEnv /\ UNCHANGED pressed
  /\ \E dx, dy \in {1, 200} : KbSend(80, dx, dy, FALSE, Clean /\ kbClean)

\* A pulse that is not received makes the distance of the one before longer.
KbLost ==
  /\ Len(kbAir) > 1 /\ kbFaults < KbLosses
  /\ kbAir' = IF kbAir[2] = 0 THEN <<0>> ELSE <<kbAir[1] + kbAir[2]>> \o SubSeq(kbAir, 3, Len(kbAir))
  /\ kbFaults' = kbFaults + 1 /\ kbClean' = FALSE
  /\ UNCHANGED <<kbEnv, pressed, acer, kbHeld, kbStatus, console, mouseOpen>>

\* A whole frame that is not received.
KbBlocked ==
  /\ kbAir # <<>> /\ kbFaults < KbLosses
  /\ kbAir' = <<>>
  /\ kbFaults' = kbFaults + 1 /\ kbClean' = FALSE
  /\ UNCHANGED <<kbEnv, pressed, acer, kbHeld, kbStatus, console, mouseOpen>>

KbNoise ==
  /\ kbAir = <<>> /\ kbFaults < KbLosses
  /\ \E w \in {0, 1, 4, 9} : kbAir' = <<w * KbBase>>
  /\ kbFaults' = kbFaults + 1 /\ kbClean' = FALSE
  /\ UNCHANGED <<kbEnv, pressed, acer, kbHeld, kbStatus, console, mouseOpen>>

KbInit ==
  /\ kbEnv \in KbEnvs
  /\ pressed = {} /\ kbAir = <<>> /\ acer = KbReady /\ kbHeld = {} /\ kbStatus = {}
  /\ console = {} /\ mouseOpen = FALSE /\ kbFaults = 0 /\ kbClean = FALSE

KbNext ==
  \/ \E k \in kbEnv \cap KeyNames : KeyMoves(k)
  \/ MouseMoves \/ KbLost \/ KbBlocked \/ KbNoise
  \/ acer_kbms_event
  \/ open_mouse \/ release_mouse

-----------------------------------------------------------------------------
\* Once a key's frame is received whole by a detector that was ready, the console
\* has no shift key, alt, control or (with the mouse open) button down that is
\* up on the keyboard,
\* and has alt and control down if they are, whatever was lost before.
NoKeyStuck ==
  kbAir = <<>> /\ kbClean =>
    /\ \A b \in StatusBits : KeysOf(b) \cap pressed = {} => Heard(KeysOf(b)) \cap console = {}
    /\ \A k \in {"alt", "ctl"} : k \in pressed => k \in console

\* Keyboard, driver and console agree.
KeyboardAgrees == KbTypeOK /\ NoKeyStuck
=============================================================================
