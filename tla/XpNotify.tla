------------------------------- MODULE XpNotify -------------------------------
(***************************************************************************)
(* The notification tables of the transport's interrupts (xp_osi_inter.c): *)
(* a table holds entries [mask, fn], and an interrupt runs the functions   *)
(* whose mask it meets in the order of the entries.  A mask of {} marks a  *)
(* free entry; a table not yet allocated is the empty sequence.            *)
(***************************************************************************)
EXTENDS Integers, FiniteSets, FiniteSetsExt

CONSTANT XcSlots      \* entries of a table (10 in the code)

ASSUME XcSlotsAssumption == XcSlots \in Nat \ {0}

FreeEntry == [mask |-> {}, fn |-> "none"]
XcFound(t, m, fn) == {i \in DOMAIN t : t[i] = [mask |-> m, fn |-> fn]}
MasksOf(t) == UNION {t[i].mask : i \in DOMAIN t}

\* The entry the first listener of a table gets.
FirstEntry == 1

\* The table is allocated by the first call; later calls take the last free
\* entry.
add_mask(t, m, fn) ==
  LET free == {i \in DOMAIN t : t[i].mask = {}}
      entry == [mask |-> m, fn |-> fn]
  IN  IF XcFound(t, m, fn) # {} THEN [ok |-> FALSE, t |-> t]
      ELSE IF free # {} THEN [ok |-> TRUE, t |-> [t EXCEPT ![Max(free)] = entry]]
      ELSE IF t = << >>
      THEN [ok |-> TRUE,
            t |-> [i \in 1..XcSlots |-> IF i = FirstEntry THEN entry ELSE FreeEntry]]
      ELSE [ok |-> FALSE, t |-> t]

del_mask(t, m, fn) ==
  [ok |-> XcFound(t, m, fn) # {},
   t |-> [i \in DOMAIN t |-> IF i \in XcFound(t, m, fn) THEN FreeEntry ELSE t[i]]]

\* The table of a freed channel is given back.
reset_mask(t) == << >>

\* XP_INTERRUPT_NOTIFY_ADD and XP_INTERRUPT_NOTIFY_DELETE.
Changed(t, cmd, m, fn) ==
  IF cmd = "ADD" THEN add_mask(t, m, fn) ELSE del_mask(t, m, fn)
=============================================================================
