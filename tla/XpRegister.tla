----------------------------- MODULE XpRegister -----------------------------
(***************************************************************************)
(* The demultiplexer's registers (xp_atom_dcr.c).  They are reached        *)
(* indirectly: an access first latches the register's number in LR and     *)
(* then moves the word through DT, so one access is two processor          *)
(* instructions, and changing a field of a register is four.  The          *)
(* interrupt handler uses the same LR and DT, between any two instructions *)
(* of the interrupted code unless the caller disabled interrupts.          *)
(*                                                                         *)
(* A register is the set of its fields; a word latched for one register    *)
(* and moved while LR holds another is Junk in every field.                *)
(***************************************************************************)
EXTENDS Integers, Sequences

CONSTANTS
  MaxRegCalls,  \* bound on the calls of one behaviour
  RegEnvs       \* which of the driver's callers are present

ASSUME RegAssumption == MaxRegCalls \in Nat

Junk == -1

\* The registers and the fields of them that the driver changes one by one.
FieldsOf ==
  [QCONFIGA |-> {"enda", "starta", "bthres"},
   QCONFIGB |-> {"rptr", "apus", "enbl", "dtype", "scpc", "fsf"},
   PID      |-> {"pidv"},    FILTER |-> {"f_enbl", "nfilt", "ncol", "sfid"},
   FDATA    |-> {"data"},    FMASK  |-> {"mask"},    FPOL   |-> {"polarity"},
   BUCKET1Q |-> {"bvalid", "indx"},                  CONFIG1 |-> {"apwma"},
   QSTATB   |-> {"wptr"},    QSTATD |-> {"wstart"},
   QSTAT    |-> {"event"},   QINT   |-> {"q_int"},   QINTMSK |-> {"q_mask"}]

Registers == DOMAIN FieldsOf
Fields == UNION {FieldsOf[a] : a \in Registers}
RegisterOf(f) == CHOOSE a \in Registers : f \in FieldsOf[a]

VARIABLES
  dcr,       \* [file, lr, val]: the registers, the latch, the words loaded
  regCall,   \* the call in progress: [on, prog, guarded], or Idle
  regIdeal,  \* what the calls so far were asked to leave in the registers
  regEnv,    \* the callers present in this behaviour
  regCalls   \* calls made so far

regVars == <<dcr, regCall, regIdeal, regEnv, regCalls>>

Idle == [on |-> FALSE, prog |-> << >>, guarded |-> FALSE]

\* The settings in set, over those of rest; the setting of one field.
Over(set, rest) ==
  [f \in DOMAIN set \cup DOMAIN rest |-> IF f \in DOMAIN set THEN set[f] ELSE rest[f]]
Only(f, v) == [g \in {f} |-> v]

-----------------------------------------------------------------------------
(* The instructions.                                                       *)

Latch(a) == [do |-> "latch", at |-> a, set |-> << >>]
Load(a) == [do |-> "load", at |-> a, set |-> << >>]
Store(a, set) == [do |-> "store", at |-> a, set |-> set]

\* xp_atom_dcr_read and xp_atom_dcr_write
xp_atom_dcr_read(a) == <<Latch(a), Load(a)>>
xp_atom_dcr_write(a, set) == <<Latch(a), Store(a, set)>>

\* QSTAT is cleared by writing the word read back; elsewhere a store gives the
\* fields in set their values and the others what was loaded.
Stored(d, a, set, f) ==
  IF a = "QSTAT" THEN IF d.val[f] = 1 THEN 0 ELSE d.file[f]
  ELSE IF f \in DOMAIN set THEN set[f] ELSE d.val[f]

\* What one instruction does to the registers, the latch and the loaded words.
Execute(d, i) ==
  CASE i.do = "latch" -> [d EXCEPT !.lr = i.at]
    [] i.do = "load" ->
         [d EXCEPT !.val = Over([f \in FieldsOf[i.at] |->
                              IF d.lr = i.at THEN d.file[f] ELSE Junk], d.val)]
    [] i.do = "store" ->
         [d EXCEPT !.file = Over([f \in FieldsOf[d.lr] |->
                               IF d.lr = i.at THEN Stored(d, i.at, i.set, f)
                               ELSE Junk], d.file)]

\* A whole access: the instruction i on the register latched for it.
Access(d, i) == Execute(Execute(d, Latch(i.at)), i)

-----------------------------------------------------------------------------
(* The operations on single fields and on the queue's registers.           *)

Modify_blind(a, set) == xp_atom_dcr_write(a, set)
Modify(a, set) == xp_atom_dcr_read(a) \o xp_atom_dcr_write(a, set)

\* The unload type decides the queue's threshold and section counter.
BurstOf(dtype) == IF dtype < 2 THEN 2 ELSE 0
SectionOf(dtype) == IF dtype < 2 THEN 0 ELSE 1

\* Setting dtype reads QCONFIGB, rewrites QCONFIGA through the nested call for
\* bthres and then stores the word read first.  DTYPE's 8 is 2 here.
xp_atom_dcr_write_register_channel(f, v) ==
  IF f # "dtype" THEN Modify(RegisterOf(f), Only(f, v))
  ELSE xp_atom_dcr_read("QCONFIGB")
         \o Modify("QCONFIGA", [bthres |-> BurstOf(v)])
         \o xp_atom_dcr_write("QCONFIGB", [dtype |-> v, scpc |-> SectionOf(v)])

xp_atom_dcr_read_register_channel(f) == xp_atom_dcr_read(RegisterOf(f))

xp_atom_dcr_write_register(f, v) == Modify(RegisterOf(f), Only(f, v))

xp_atom_dcr_write_filter_link(next, eoc) ==
  Modify("FILTER", [nfilt |-> next, ncol |-> eoc])

\* Control first, then data, mask and polarity.
xp_atom_dcr_write_dram_filter(v) ==
  xp_atom_dcr_write("FILTER", [f \in FieldsOf["FILTER"] |-> v])
    \o xp_atom_dcr_write("FDATA", [data |-> v])
    \o xp_atom_dcr_write("FMASK", [mask |-> v])
    \o xp_atom_dcr_write("FPOL", [polarity |-> v])

\* Both words are read before either is written; the threshold and the
\* section counter follow the dtype that was read.
xp_atom_dcr_init_queue(top, bottom, dtype) ==
  xp_atom_dcr_read("QCONFIGA") \o xp_atom_dcr_read("QCONFIGB")
    \o xp_atom_dcr_write("QCONFIGA", [enda |-> top, starta |-> bottom,
                                       bthres |-> BurstOf(dtype)])
    \o xp_atom_dcr_write("QCONFIGB", [rptr |-> top, apus |-> 1, enbl |-> 0,
                                       scpc |-> SectionOf(dtype)])

xp_atom_dcr_reset_queue ==
  xp_atom_dcr_write("QCONFIGA", [f \in FieldsOf["QCONFIGA"] |-> 0])
    \o xp_atom_dcr_write("QCONFIGB", [f \in FieldsOf["QCONFIGB"] |-> 0])

xp_atom_dcr_read_queue_config == xp_atom_dcr_read("QCONFIGA")

\* The fields the single-field calls are made for.
ChannelFields == {"pidv", "dtype", "enbl", "bthres", "rptr", "f_enbl", "nfilt",
                  "sfid", "fsf", "wptr", "wstart"}
ReadFields == {"pidv", "dtype", "enbl", "rptr", "f_enbl", "nfilt", "fsf", "wptr",
               "wstart"}
DeviceFields == {"bvalid", "indx", "apwma"}

\* A call: its instructions, and the fields it is asked to change.
RegCall(prog, meant) == [prog |-> prog, meant |-> meant]

\* The guarded calls: every caller but two enters a critical section first.
GuardedCalls(file) ==
  {RegCall(xp_atom_dcr_write_register_channel(f, v),
           IF f = "dtype"
           THEN [dtype |-> v, bthres |-> BurstOf(v), scpc |-> SectionOf(v)]
           ELSE Only(f, v)) : f \in ChannelFields, v \in {1, 2}}
  \cup {RegCall(xp_atom_dcr_read_register_channel(f), << >>) :
          f \in ReadFields}
  \cup {RegCall(xp_atom_dcr_write_register(f, 1), Only(f, 1)) :
          f \in DeviceFields}
  \cup {RegCall(xp_atom_dcr_write_filter_link(1, 2), [nfilt |-> 1, ncol |-> 2]),
        RegCall(xp_atom_dcr_write_dram_filter(1),
                [f \in UNION {FieldsOf[a] : a \in {"FILTER", "FDATA", "FMASK", "FPOL"}} |-> 1]),
        RegCall(xp_atom_dcr_init_queue(2, 1, file["dtype"]),
                [enda |-> 2, starta |-> 1, rptr |-> 2, apus |-> 1, enbl |-> 0,
                 bthres |-> BurstOf(file["dtype"]), scpc |-> SectionOf(file["dtype"])]),
        RegCall(xp_atom_dcr_reset_queue,
                [f \in FieldsOf["QCONFIGA"] \cup FieldsOf["QCONFIGB"] |-> 0]),
        RegCall(xp_atom_dcr_read_queue_config, << >>)}

\* DemuxCallback_nb runs in the interrupt task, with interrupts enabled, and
\* reads the queue's pointers outside any critical section.
DemuxCallback_nb == xp_atom_dcr_read_register_channel("wstart")
                      \o xp_atom_dcr_read_register_channel("rptr")

\* The ioctl PVR_SET_VID_PID writes a register outside any critical section.
pvr_osi_set_vid(v) == xp_atom_dcr_write("PID", [pidv |-> v])

UnguardedCalls ==
  IF "unguarded" \in regEnv
  THEN {RegCall(DemuxCallback_nb, << >>),
        RegCall(pvr_osi_set_vid(1), [pidv |-> 1])}
  ELSE {}

\* The handler's own accesses: QINT, QINTMSK, then QSTAT read and cleared.
InterruptAccesses(d) ==
  LET pending == Access(d, Load("QINT"))
      masked == Access(pending, Load("QINTMSK"))
      status == Access(masked, Load("QSTAT"))
  IN  Access(status, Store("QSTAT", << >>))

-----------------------------------------------------------------------------
ResetFile == [f \in Fields |-> IF f = "q_mask" THEN 1 ELSE 0]

RegInit ==
  /\ dcr = [file |-> ResetFile, lr |-> "QCONFIGA", val |-> ResetFile]
  /\ regCall = Idle
  /\ regIdeal = ResetFile
  /\ regEnv \in RegEnvs
  /\ regCalls = 0

RegBegin ==
  /\ regCall = Idle /\ regCalls < MaxRegCalls
  /\ \E guarded \in BOOLEAN :
       \E c \in (IF guarded THEN GuardedCalls(dcr.file) ELSE UnguardedCalls) :
         /\ regCall' = [on |-> TRUE, prog |-> c.prog, guarded |-> guarded]
         /\ regIdeal' = Over(c.meant, regIdeal)
  /\ regCalls' = regCalls + 1
  /\ UNCHANGED <<dcr, regEnv>>

RegStep ==
  /\ regCall.prog # << >>
  /\ dcr' = Execute(dcr, Head(regCall.prog))
  /\ regCall' = [regCall EXCEPT !.prog = Tail(@)]
  /\ UNCHANGED <<regIdeal, regEnv, regCalls>>

\* The call returns; what it loaded is its caller's.
RegEnd ==
  /\ regCall # Idle /\ regCall.prog = << >>
  /\ regCall' = Idle
  /\ UNCHANGED <<dcr, regIdeal, regEnv, regCalls>>

\* The hardware raises an event on the queue.
RegEvent ==
  /\ dcr.file["event"] = 0
  /\ dcr' = [dcr EXCEPT !.file["event"] = 1, !.file["q_int"] = 1]
  /\ regIdeal' = [regIdeal EXCEPT !["event"] = 1, !["q_int"] = 1]
  /\ UNCHANGED <<regCall, regEnv, regCalls>>

\* The handler runs between two instructions of the interrupted call.  The
\* words the call has loaded are in the processor's registers, which the
\* handler saves; the hardware drops QINT once QSTAT is clear.
xp_osi_interrupt_access ==
  /\ dcr.file["event"] = 1
  /\ ~regCall.guarded
  /\ dcr' = [InterruptAccesses(dcr) EXCEPT !.val = dcr.val,
                                          !.file["q_int"] = 0]
  /\ regIdeal' = [regIdeal EXCEPT !["event"] = 0, !["q_int"] = 0]
  /\ UNCHANGED <<regCall, regEnv, regCalls>>

RegNext == RegBegin \/ RegStep \/ RegEnd \/ RegEvent \/ xp_osi_interrupt_access

RegSpec == RegInit /\ [][RegNext]_regVars

-----------------------------------------------------------------------------
(* Properties.                                                             *)

\* When a call returns, the registers hold what it was asked to write and
\* every other field is as it was: none is lost in a read-modify-write, and no
\* word went to, or came from, a register an interrupt latched in between
\* (xp_atom_dcr_read and xp_atom_dcr_write, whose comments ask for a critical
\* section around them).
AccessesAreItsOwn ==
  regCall.prog = << >> => /\ dcr.file = regIdeal
                          /\ \A f \in Fields : dcr.val[f] # Junk
=============================================================================
