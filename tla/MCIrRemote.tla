----------------------------- MODULE MCIrRemote ------------------------------
(***************************************************************************)
(* A remote control of two groups and six code bits for TLC, and what it   *)
(* sends: pulse widths at the edges of their windows.                      *)
(***************************************************************************)
EXTENDS IrRemote, TLC

Pulses(s, p) == [sig |-> s * 280 + 139, pulse |-> p * 280 - 140]
CodeFrame(c) ==
  <<Pulses(24, 16)>> \o [i \in 1 .. Len(c) |-> IF c[i] = 1 THEN Pulses(4, 1) ELSE Pulses(2, 1)]
RepeatFrames == <<Pulses(20, 16), Pulses(20, 16), Pulses(20, 16)>>

KeyA == <<0, 1, 1, 1, 0, 0>>
KeyB == <<1, 0, 0, 1, 1, 0>>
Damaged6 == <<0, 1, 1, 0, 1, 1>>
ForeignKey == <<1, 1, 1, 1, 0, 0>>
UnknownKey == <<0, 1, 0, 0, 1, 1>>

MCKeyinfo == (<<<<0, 1>>, <<1, 1>>>> :> <<"a">>) @@ (<<<<1, 0>>, <<0, 1>>>> :> <<"b">>)
MCGroups == {<<0, 1>>, <<1, 0>>}
MCSent == {KeyA, KeyB}

Sends(air, fast, files, raw) == [air |-> air, fast |-> fast, files |-> files, raw |-> raw]
MCScripts ==
  {Sends(CodeFrame(KeyA) \o RepeatFrames, TRUE, {}, FALSE),
   Sends(CodeFrame(KeyA) \o CodeFrame(Damaged6) \o RepeatFrames, FALSE, {}, FALSE),
   Sends(CodeFrame(KeyA) \o CodeFrame(ForeignKey) \o CodeFrame(KeyB) \o CodeFrame(UnknownKey)
           \o CodeFrame(KeyA) \o RepeatFrames, FALSE, {}, FALSE),
   Sends(CodeFrame(KeyA) \o CodeFrame(KeyB), FALSE, RawFiles, FALSE),
   Sends(CodeFrame(KeyA) \o CodeFrame(Damaged6) \o RepeatFrames \o CodeFrame(KeyB) \o RepeatFrames,
         FALSE, {}, TRUE)}

\* A key the driver does not know is held.
UnknownHeld == {Sends(CodeFrame(KeyA) \o CodeFrame(UnknownKey) \o RepeatFrames, FALSE, {}, FALSE)}
==============================================================================
