--------------------------- MODULE TransportProofs ---------------------------
(***************************************************************************)
(* Proofs about three parts of the transport driver: the indirect          *)
(* registers (XpRegister), the reader of an unbuffered queue               *)
(* (UnbufferedQueue), and the channels and their interrupts (XpChannel).   *)
(***************************************************************************)
EXTENDS MCTransport, WellFoundedInduction, TLAPS

-----------------------------------------------------------------------------
(* The registers: the inductive invariant.                                 *)
(*                                                                         *)
(* What is left of a call is a sequence of instructions.  Instead of       *)
(* following each call, the invariant says what makes any such sequence    *)
(* sound from the registers as they are.                                   *)

\* The values of fields, the settings of some of them, the instructions.
Values == 0 .. 2
Contents == [Fields -> Values]
Settings == UNION {[D -> Values] : D \in SUBSET Fields}
Instructions == [do : {"latch", "load", "store"}, at : Registers, set : Settings]

\* Every load and store comes after the latch of its register.
Latched(p, lr) ==
  \A i \in 1 .. Len(p) :
    p[i].do # "latch" =>
      IF i = 1 THEN p[i].at = lr
      ELSE p[i - 1].do = "latch" /\ p[i - 1].at = p[i].at

\* A store writes only its register's fields, and that is none of those that
\* the hardware changes.
OwnFields(p) ==
  \A j \in 1 .. Len(p) :
    p[j].do = "store" => /\ p[j].at # "QSTAT"
                         /\ "event" \notin FieldsOf[p[j].at]
                         /\ "q_int" \notin FieldsOf[p[j].at]
                         /\ DOMAIN p[j].set \subseteq FieldsOf[p[j].at]

\* A field that a store leaves alone has been loaded as it is, or will be.
Loads(p, j) == \E i \in 1 .. j - 1 : p[i].do = "load" /\ p[i].at = p[j].at
Backed(p, d) ==
  \A j \in 1 .. Len(p) :
    p[j].do = "store" =>
      \A f \in FieldsOf[p[j].at] :
        f \in DOMAIN p[j].set \/ Loads(p, j) \/ d.val[f] = d.file[f]

\* No store changes what a later one has loaded, or sets.
Apart(p) ==
  \A i, j \in 1 .. Len(p) :
    i < j /\ p[i].do = "store" /\ p[j].do = "store"
      => DOMAIN p[i].set \cap FieldsOf[p[j].at] = {}

\* A field is as it should be, or a store is still to come that makes it so.
StillToSet(p, f) == \E j \in 1 .. Len(p) : p[j].do = "store" /\ f \in DOMAIN p[j].set
Leaves(p, file, ideal) ==
  /\ \A f \in Fields : file[f] = ideal[f] \/ StillToSet(p, f)
  /\ \A j \in 1 .. Len(p) :
       p[j].do = "store" => \A f \in DOMAIN p[j].set : p[j].set[f] = ideal[f]

RegSound(p, d, ideal) ==
  /\ Latched(p, d.lr) /\ OwnFields(p) /\ Backed(p, d) /\ Apart(p)
  /\ Leaves(p, d.file, ideal)

RegTypeOK ==
  /\ dcr \in [file : Contents, lr : Registers, val : Contents]
  /\ regIdeal \in Contents
  /\ regCall \in [on : BOOLEAN, prog : Seq(Instructions), guarded : BOOLEAN]
  /\ regEnv \in RegEnvs

RegInv ==
  /\ RegTypeOK
  /\ ~regCall.guarded => regCall = Idle
  /\ RegSound(regCall.prog, dcr, regIdeal)

-----------------------------------------------------------------------------
(* The registers: one instruction.                                         *)

LEMMA FieldsAreFields ==
  /\ \A a \in Registers : FieldsOf[a] \subseteq Fields
  /\ \A f \in Fields : RegisterOf(f) \in Registers /\ f \in FieldsOf[RegisterOf(f)]
BY DEF Fields, RegisterOf

\* What follows the first instruction of a sequence.
LEMMA TailOf ==
  ASSUME NEW p \in Seq(Instructions), p # << >>
  PROVE  /\ Tail(p) \in Seq(Instructions) /\ Len(Tail(p)) = Len(p) - 1
         /\ Head(p) = p[1] /\ Head(p) \in Instructions /\ Len(p) \in Nat /\ Len(p) > 0
         /\ \A i \in 1 .. Len(p) : p[i] \in Instructions
         /\ \A i \in 1 .. Len(Tail(p)) : Tail(p)[i] = p[i + 1] /\ i + 1 \in 1 .. Len(p)
OBVIOUS

\* The rest of a sound sequence has the parts of soundness that do not speak
\* of the registers.
LEMMA TailIsSound ==
  ASSUME NEW p \in Seq(Instructions), p # << >>, OwnFields(p), Apart(p)
  PROVE  OwnFields(Tail(p)) /\ Apart(Tail(p))
<1>1. OwnFields(Tail(p))
  BY TailOf DEF OwnFields
<1>2. ASSUME NEW i \in 1 .. Len(Tail(p)), NEW j \in 1 .. Len(Tail(p)),
             i < j, Tail(p)[i].do = "store", Tail(p)[j].do = "store"
      PROVE  DOMAIN Tail(p)[i].set \cap FieldsOf[Tail(p)[j].at] = {}
  <2>1. /\ i + 1 \in 1 .. Len(p) /\ j + 1 \in 1 .. Len(p) /\ i + 1 < j + 1
        /\ Tail(p)[i] = p[i + 1] /\ Tail(p)[j] = p[j + 1]
    BY <1>2, TailOf
  <2> QED BY <1>2, <2>1 DEF Apart
<1> QED BY <1>1, <1>2 DEF Apart

\* The latch takes its register.
LEMMA LatchStep ==
  ASSUME NEW p \in Seq(Instructions), p # << >>, Head(p).do = "latch",
         NEW d, d \in [file : Contents, lr : Registers, val : Contents],
         NEW ideal, RegSound(p, d, ideal)
  PROVE  RegSound(Tail(p), Execute(d, Head(p)), ideal)
<1> DEFINE e == Execute(d, Head(p))
           q == Tail(p)
<1>1. e = [d EXCEPT !.lr = Head(p).at]
  BY DEF Execute
<1>2. e.lr = p[1].at /\ e.file = d.file /\ e.val = d.val
  BY <1>1, TailOf
<1> HIDE DEF e
<1>3. Latched(q, e.lr)
  BY <1>2, TailOf DEF RegSound, Latched
<1>4. Backed(q, e)
  <2> SUFFICES ASSUME NEW j \in 1 .. Len(q), q[j].do = "store",
                      NEW f \in FieldsOf[q[j].at], f \notin DOMAIN q[j].set,
                      ~ Loads(q, j)
               PROVE  e.val[f] = e.file[f]
    BY DEF Backed
  <2>1. j + 1 \in 1 .. Len(p) /\ q[j] = p[j + 1]
    BY TailOf
  <2>2. ~ Loads(p, j + 1)
    <3> SUFFICES ASSUME NEW i \in 1 .. j, p[i].do = "load", p[i].at = p[j + 1].at
                 PROVE  FALSE
      BY DEF Loads
    <3>1. i # 1
      BY TailOf
    <3>2. i - 1 \in 1 .. j - 1 /\ q[i - 1] = p[i]
      BY <3>1, <2>1, TailOf
    <3> QED BY <3>2, <2>1 DEF Loads
  <2> QED BY <1>2, <2>1, <2>2 DEF RegSound, Backed
<1>5. Leaves(q, e.file, ideal)
  <2>1. ASSUME NEW f \in Fields, StillToSet(p, f)
        PROVE  StillToSet(q, f)
    <3>1. PICK j \in 1 .. Len(p) : p[j].do = "store" /\ f \in DOMAIN p[j].set
      BY <2>1 DEF StillToSet
    <3>2. j # 1
      BY <3>1, TailOf
    <3>3. j - 1 \in 1 .. Len(q) /\ q[j - 1] = p[j]
      BY <3>2, TailOf
    <3> QED BY <3>1, <3>3 DEF StillToSet
  <2> QED BY <2>1, <1>2, TailOf DEF RegSound, Leaves
<1> QED BY <1>3, <1>4, <1>5, TailIsSound DEF RegSound, e

\* What a load and a store do once their register is latched.
LEMMA LoadEffect ==
  ASSUME NEW d, d \in [file : Contents, lr : Registers, val : Contents],
         NEW i, i.do = "load", i.at = d.lr
  PROVE  /\ Execute(d, i) \in [file : Contents, lr : Registers, val : Contents]
         /\ Execute(d, i).file = d.file /\ Execute(d, i).lr = d.lr
         /\ \A f \in Fields : Execute(d, i).val[f]
                                = IF f \in FieldsOf[i.at] THEN d.file[f] ELSE d.val[f]
<1> DEFINE v == Over([f \in FieldsOf[i.at] |-> IF d.lr = i.at THEN d.file[f] ELSE Junk], d.val)
<1>1. Execute(d, i) = [d EXCEPT !.val = v]
  BY DEF Execute
<1>2. FieldsOf[i.at] \subseteq Fields /\ d.val \in Contents /\ d.file \in Contents
  BY FieldsAreFields
<1>3. v = [f \in Fields |-> IF f \in FieldsOf[i.at] THEN d.file[f] ELSE d.val[f]]
  BY <1>2 DEF Over, Contents
<1>4. v \in Contents
  BY <1>2, <1>3 DEF Contents
<1> HIDE DEF v
<1> QED BY <1>1, <1>2, <1>3, <1>4

LEMMA StoreEffect ==
  ASSUME NEW d, d \in [file : Contents, lr : Registers, val : Contents],
         NEW i, i.do = "store", i.at = d.lr, i.set \in Settings
  PROVE  /\ Execute(d, i) \in [file : Contents, lr : Registers, val : Contents]
         /\ Execute(d, i).val = d.val /\ Execute(d, i).lr = d.lr
         /\ \A f \in Fields : Execute(d, i).file[f]
                                = IF f \in FieldsOf[i.at] THEN Stored(d, i.at, i.set, f)
                                  ELSE d.file[f]
<1> DEFINE w == Over([f \in FieldsOf[d.lr] |-> IF d.lr = i.at THEN Stored(d, i.at, i.set, f)
                                          ELSE Junk], d.file)
<1>1. Execute(d, i) = [d EXCEPT !.file = w]
  BY DEF Execute
<1>2. FieldsOf[i.at] \subseteq Fields /\ d.val \in Contents /\ d.file \in Contents
  BY FieldsAreFields
<1>3. w = [f \in Fields |-> IF f \in FieldsOf[i.at] THEN Stored(d, i.at, i.set, f)
                            ELSE d.file[f]]
  BY <1>2 DEF Over, Contents
<1>4. ASSUME NEW f \in FieldsOf[i.at]
      PROVE  Stored(d, i.at, i.set, f) \in Values
  <2>1. f \in DOMAIN i.set => i.set[f] \in Values
    BY DEF Settings
  <2> QED BY <1>2, <1>4, <2>1 DEF Stored, Contents, Values
<1>5. w \in Contents
  BY <1>2, <1>3, <1>4 DEF Contents
<1> HIDE DEF w
<1> QED BY <1>1, <1>2, <1>3, <1>5

LEMMA LoadStep ==
  ASSUME NEW p \in Seq(Instructions), p # << >>, Head(p).do = "load",
         NEW d, d \in [file : Contents, lr : Registers, val : Contents],
         NEW ideal, RegSound(p, d, ideal)
  PROVE  RegSound(Tail(p), Execute(d, Head(p)), ideal)
<1> DEFINE e == Execute(d, Head(p))
           q == Tail(p)
<1>1. Head(p).at = d.lr
  BY TailOf DEF RegSound, Latched
<1>2. /\ e.file = d.file /\ e.lr = d.lr
      /\ \A f \in Fields : e.val[f] = IF f \in FieldsOf[p[1].at] THEN d.file[f] ELSE d.val[f]
  BY <1>1, LoadEffect, TailOf
<1> HIDE DEF e
<1>3. Latched(q, e.lr)
  <2> SUFFICES ASSUME NEW i \in 1 .. Len(q), q[i].do # "latch"
               PROVE  i # 1 /\ q[i - 1].do = "latch" /\ q[i - 1].at = q[i].at
    BY DEF Latched
  <2>1. i + 1 \in 1 .. Len(p) /\ i + 1 # 1 /\ q[i] = p[i + 1]
    BY TailOf
  <2>2. p[(i + 1) - 1].do = "latch" /\ p[(i + 1) - 1].at = p[i + 1].at
    BY <2>1 DEF RegSound, Latched
  <2>3. p[i].do = "latch" /\ p[i].at = p[i + 1].at
    BY <2>2
  <2>4. i # 1
    BY <2>3, TailOf
  <2>5. q[i - 1] = p[i]
    BY <2>4, TailOf
  <2> QED BY <2>1, <2>3, <2>4, <2>5
<1>4. Backed(q, e)
  <2> SUFFICES ASSUME NEW j \in 1 .. Len(q), q[j].do = "store",
                      NEW f \in FieldsOf[q[j].at], f \notin DOMAIN q[j].set,
                      ~ Loads(q, j)
               PROVE  e.val[f] = e.file[f]
    BY DEF Backed
  <2>1. j + 1 \in 1 .. Len(p) /\ q[j] = p[j + 1] /\ p[j + 1] \in Instructions
    BY TailOf
  <2>2. f \in Fields
    BY <2>1, FieldsAreFields DEF Instructions
  <2>3. CASE p[1].at = p[j + 1].at
    BY <1>2, <2>1, <2>2, <2>3
  <2>4. CASE p[1].at # p[j + 1].at
    <3>1. ~ Loads(p, j + 1)
      <4> SUFFICES ASSUME NEW i \in 1 .. j, p[i].do = "load", p[i].at = p[j + 1].at
                   PROVE  FALSE
        BY DEF Loads
      <4>1. i # 1
        BY <2>4
      <4>2. i - 1 \in 1 .. j - 1 /\ q[i - 1] = p[i]
        BY <4>1, <2>1, TailOf
      <4> QED BY <4>2, <2>1 DEF Loads
    <3>2. d.val[f] = d.file[f]
      BY <2>1, <3>1 DEF RegSound, Backed
    <3> QED BY <1>2, <2>2, <3>2
  <2> QED BY <2>3, <2>4
<1>5. Leaves(q, e.file, ideal)
  <2>1. ASSUME NEW f \in Fields, StillToSet(p, f)
        PROVE  StillToSet(q, f)
    <3>1. PICK j \in 1 .. Len(p) : p[j].do = "store" /\ f \in DOMAIN p[j].set
      BY <2>1 DEF StillToSet
    <3>2. j # 1
      BY <3>1, TailOf
    <3>3. j - 1 \in 1 .. Len(q) /\ q[j - 1] = p[j]
      BY <3>2, TailOf
    <3> QED BY <3>1, <3>3 DEF StillToSet
  <2> QED BY <2>1, <1>2, TailOf DEF RegSound, Leaves
<1> QED BY <1>3, <1>4, <1>5, TailIsSound DEF RegSound, e

LEMMA StoreStep ==
  ASSUME NEW p \in Seq(Instructions), p # << >>, Head(p).do = "store",
         NEW d, d \in [file : Contents, lr : Registers, val : Contents],
         NEW ideal, RegSound(p, d, ideal)
  PROVE  RegSound(Tail(p), Execute(d, Head(p)), ideal)
<1> DEFINE e == Execute(d, Head(p))
           q == Tail(p)
<1>0. Head(p).set \in Settings
  BY TailOf DEF Instructions
<1>1. Head(p).at = d.lr
  BY TailOf DEF RegSound, Latched
<1>2. /\ e.val = d.val /\ e.lr = d.lr
      /\ \A f \in Fields : e.file[f] = IF f \in FieldsOf[p[1].at]
                                       THEN Stored(d, p[1].at, p[1].set, f) ELSE d.file[f]
  BY <1>0, <1>1, StoreEffect, TailOf
<1> HIDE DEF e
<1>3. Latched(q, e.lr)
  <2> SUFFICES ASSUME NEW i \in 1 .. Len(q), q[i].do # "latch"
               PROVE  i # 1 /\ q[i - 1].do = "latch" /\ q[i - 1].at = q[i].at
    BY DEF Latched
  <2>1. i + 1 \in 1 .. Len(p) /\ i + 1 # 1 /\ q[i] = p[i + 1]
    BY TailOf
  <2>2. p[(i + 1) - 1].do = "latch" /\ p[(i + 1) - 1].at = p[i + 1].at
    BY <2>1 DEF RegSound, Latched
  <2>3. p[i].do = "latch" /\ p[i].at = p[i + 1].at
    BY <2>2
  <2>4. i # 1
    BY <2>3, TailOf
  <2>5. q[i - 1] = p[i]
    BY <2>4, TailOf
  <2> QED BY <2>1, <2>3, <2>4, <2>5
\* The field is either set, and then as it should be, or stored as it was.
<1>4. \A f \in Fields : e.file[f] = IF f \in DOMAIN p[1].set THEN ideal[f] ELSE d.file[f]
  <2> SUFFICES ASSUME NEW f \in Fields
               PROVE  e.file[f] = IF f \in DOMAIN p[1].set THEN ideal[f] ELSE d.file[f]
    OBVIOUS
  <2>1. /\ p[1].at # "QSTAT" /\ DOMAIN p[1].set \subseteq FieldsOf[p[1].at]
        /\ f \in DOMAIN p[1].set => p[1].set[f] = ideal[f]
    BY TailOf DEF RegSound, OwnFields, Leaves
  <2>2. ASSUME f \in FieldsOf[p[1].at], f \notin DOMAIN p[1].set
        PROVE  d.val[f] = d.file[f]
    <3>1. ~ Loads(p, 1)
      BY DEF Loads
    <3> QED BY <2>2, <3>1, TailOf DEF RegSound, Backed
  <2> QED BY <1>2, <2>1, <2>2 DEF Stored
<1>5. Backed(q, e)
  <2> SUFFICES ASSUME NEW j \in 1 .. Len(q), q[j].do = "store",
                      NEW f \in FieldsOf[q[j].at], f \notin DOMAIN q[j].set,
                      ~ Loads(q, j)
               PROVE  e.val[f] = e.file[f]
    BY DEF Backed
  <2>1. j + 1 \in 1 .. Len(p) /\ q[j] = p[j + 1] /\ p[j + 1] \in Instructions
    BY TailOf
  <2>2. f \in Fields
    BY <2>1, FieldsAreFields DEF Instructions
  <2>3. f \notin DOMAIN p[1].set
    <3>1. 1 \in 1 .. Len(p) /\ 1 < j + 1 /\ p[1].do = "store" /\ p[j + 1].do = "store"
      BY <2>1, TailOf
    <3> QED BY <2>1, <3>1 DEF RegSound, Apart
  <2>4. ~ Loads(p, j + 1)
    <3> SUFFICES ASSUME NEW i \in 1 .. j, p[i].do = "load", p[i].at = p[j + 1].at
                 PROVE  FALSE
      BY DEF Loads
    <3>1. i # 1
      BY TailOf
    <3>2. i - 1 \in 1 .. j - 1 /\ q[i - 1] = p[i]
      BY <3>1, <2>1, TailOf
    <3> QED BY <3>2, <2>1 DEF Loads
  <2>5. d.val[f] = d.file[f]
    BY <2>1, <2>4 DEF RegSound, Backed
  <2> QED BY <1>2, <1>4, <2>2, <2>3, <2>5
<1>6. Leaves(q, e.file, ideal)
  <2>1. ASSUME NEW f \in Fields, StillToSet(p, f), f \notin DOMAIN p[1].set
        PROVE  StillToSet(q, f)
    <3>1. PICK j \in 1 .. Len(p) : p[j].do = "store" /\ f \in DOMAIN p[j].set
      BY <2>1 DEF StillToSet
    <3>2. j # 1
      BY <3>1, <2>1
    <3>3. j - 1 \in 1 .. Len(q) /\ q[j - 1] = p[j]
      BY <3>2, TailOf
    <3> QED BY <3>1, <3>3 DEF StillToSet
  <2> QED BY <2>1, <1>4, TailOf DEF RegSound, Leaves
<1> QED BY <1>3, <1>5, <1>6, TailIsSound DEF RegSound, e

\* One instruction keeps the registers' types and the soundness of what is left.
LEMMA InstructionKeeps ==
  ASSUME NEW p \in Seq(Instructions), p # << >>,
         NEW d, d \in [file : Contents, lr : Registers, val : Contents],
         NEW ideal, RegSound(p, d, ideal)
  PROVE  /\ Execute(d, Head(p)) \in [file : Contents, lr : Registers, val : Contents]
         /\ RegSound(Tail(p), Execute(d, Head(p)), ideal)
<1>1. Head(p).do \in {"latch", "load", "store"} /\ Head(p).at \in Registers
      /\ Head(p).set \in Settings
  BY TailOf DEF Instructions
<1>2. CASE Head(p).do = "latch"
  <2>1. Execute(d, Head(p)) = [d EXCEPT !.lr = Head(p).at]
    BY <1>2 DEF Execute
  <2>2. Execute(d, Head(p)) \in [file : Contents, lr : Registers, val : Contents]
    BY <1>1, <2>1
  <2> QED BY <1>2, <2>2, LatchStep
<1>3. Head(p).do # "latch" => Head(p).at = d.lr
  BY TailOf DEF RegSound, Latched
<1>4. CASE Head(p).do = "load"
  BY <1>3, <1>4, LoadEffect, LoadStep
<1>5. CASE Head(p).do = "store"
  BY <1>1, <1>3, <1>5, StoreEffect, StoreStep
<1> QED BY <1>1, <1>2, <1>4, <1>5

-----------------------------------------------------------------------------
(* The registers: a call of the driver is a sound sequence.                *)

\* A stretch of a call: its accesses are whole, what its stores leave alone has
\* been loaded in it or before it (loaded), what they set is meant; it loads the
\* registers in loads, sets the fields in sets and stores in those of touched.
SetsFields(p) == {f \in Fields : StillToSet(p, f)}
LoadsRegisters(p) == {a \in Registers : \E i \in 1 .. Len(p) : p[i].do = "load" /\ p[i].at = a}
TouchesFields(p) == {f \in Fields : \E j \in 1 .. Len(p) :
                                      p[j].do = "store" /\ f \in FieldsOf[p[j].at]}

WholeAccesses(p) ==
  \A i \in 1 .. Len(p) :
    p[i].do # "latch" => i # 1 /\ p[i - 1].do = "latch" /\ p[i - 1].at = p[i].at

FromLoaded(p, loaded) ==
  \A j \in 1 .. Len(p) :
    p[j].do = "store" =>
      \A f \in FieldsOf[p[j].at] : f \in DOMAIN p[j].set \/ p[j].at \in loaded \/ Loads(p, j)

AsMeant(p, meant) ==
  \A j \in 1 .. Len(p) :
    p[j].do = "store" =>
      \A f \in DOMAIN p[j].set : f \in DOMAIN meant /\ p[j].set[f] = meant[f]

Stretch(p, loaded, meant) ==
  /\ p \in Seq(Instructions)
  /\ WholeAccesses(p) /\ OwnFields(p) /\ Apart(p)
  /\ FromLoaded(p, loaded) /\ AsMeant(p, meant)

LEMMA NothingToSet == << >> \in Settings /\ DOMAIN << >> = {}
<1>1. << >> \in [{} -> Values]
  OBVIOUS
<1> QED BY <1>1 DEF Settings

LEMMA InstructionTypes ==
  ASSUME NEW a \in Registers
  PROVE  /\ Latch(a) \in Instructions /\ Load(a) \in Instructions
         /\ \A set \in Settings : Store(a, set) \in Instructions
         /\ Latch(a).do = "latch" /\ Latch(a).at = a
         /\ Load(a).do = "load" /\ Load(a).at = a
         /\ \A set : Store(a, set).do = "store" /\ Store(a, set).at = a
                     /\ Store(a, set).set = set
BY NothingToSet DEF Latch, Load, Store, Instructions

\* The registers whose fields only the driver changes.
DriversOwn == Registers \ {"QSTAT", "QINT"}

LEMMA DriversOwnFields ==
  \A a \in DriversOwn : a # "QSTAT" /\ "event" \notin FieldsOf[a] /\ "q_int" \notin FieldsOf[a]
BY DEF DriversOwn, Registers, FieldsOf

LEMMA ReadStretch ==
  ASSUME NEW a \in Registers, NEW loaded, NEW meant
  PROVE  LET p == xp_atom_dcr_read(a)
         IN  /\ Stretch(p, loaded, meant)
             /\ SetsFields(p) = {} /\ TouchesFields(p) = {} /\ a \in LoadsRegisters(p)
<1> DEFINE p == xp_atom_dcr_read(a)
<1>1. p \in Seq(Instructions) /\ Len(p) = 2 /\ p[1] = Latch(a) /\ p[2] = Load(a)
  BY InstructionTypes DEF xp_atom_dcr_read
<1> HIDE DEF p
<1>2. \A i \in 1 .. Len(p) : (i = 1 \/ i = 2) /\ p[i].do # "store"
  BY <1>1, InstructionTypes
<1>3. OwnFields(p) /\ Apart(p) /\ FromLoaded(p, loaded) /\ AsMeant(p, meant)
  BY <1>2 DEF OwnFields, Apart, FromLoaded, AsMeant
<1>4. WholeAccesses(p)
  BY <1>1, <1>2, InstructionTypes DEF WholeAccesses
<1>5. SetsFields(p) = {} /\ TouchesFields(p) = {}
  BY <1>2 DEF SetsFields, TouchesFields, StillToSet
<1>6. a \in LoadsRegisters(p)
  BY <1>1, InstructionTypes DEF LoadsRegisters
<1> QED BY <1>1, <1>3, <1>4, <1>5, <1>6 DEF Stretch, p

LEMMA WriteStretch ==
  ASSUME NEW a \in DriversOwn, NEW set \in Settings, NEW loaded, NEW meant,
         DOMAIN set \subseteq FieldsOf[a],
         a \in loaded \/ FieldsOf[a] \subseteq DOMAIN set,
         \A f \in DOMAIN set : f \in DOMAIN meant /\ set[f] = meant[f]
  PROVE  LET p == xp_atom_dcr_write(a, set)
         IN  /\ Stretch(p, loaded, meant)
             /\ SetsFields(p) = DOMAIN set /\ TouchesFields(p) = FieldsOf[a]
<1> DEFINE p == xp_atom_dcr_write(a, set)
<1>0. a \in Registers /\ FieldsOf[a] \subseteq Fields
  BY FieldsAreFields DEF DriversOwn
<1>1. p \in Seq(Instructions) /\ Len(p) = 2 /\ p[1] = Latch(a) /\ p[2] = Store(a, set)
  BY <1>0, InstructionTypes DEF xp_atom_dcr_write
<1> HIDE DEF p
<1>2. /\ \A i \in 1 .. Len(p) : (i = 1 \/ i = 2)
      /\ p[1].do = "latch" /\ p[1].at = a /\ p[2].do = "store" /\ p[2].at = a /\ p[2].set = set
      /\ 2 \in 1 .. Len(p)
  BY <1>0, <1>1, InstructionTypes
<1>3. OwnFields(p)
  BY <1>2, DriversOwnFields DEF OwnFields
<1>4. Apart(p)
  BY <1>2 DEF Apart
<1>5. FromLoaded(p, loaded) /\ AsMeant(p, meant)
  BY <1>2 DEF FromLoaded, AsMeant
<1>6. WholeAccesses(p)
  BY <1>2 DEF WholeAccesses
<1>7. SetsFields(p) = DOMAIN set
  BY <1>0, <1>2 DEF SetsFields, StillToSet
<1>8. TouchesFields(p) = FieldsOf[a]
  BY <1>0, <1>2 DEF TouchesFields
<1> QED BY <1>1, <1>3, <1>4, <1>5, <1>6, <1>7, <1>8 DEF Stretch, p

\* Two stretches in a row, the second one from what the first has loaded too,
\* and away from what it has set.
LEMMA Stretches ==
  ASSUME NEW p, NEW q, NEW loaded, NEW meant, Stretch(p, loaded, meant),
         Stretch(q, loaded \cup LoadsRegisters(p), meant),
         SetsFields(p) \cap TouchesFields(q) = {}
  PROVE  /\ Stretch(p \o q, loaded, meant)
         /\ SetsFields(p \o q) = SetsFields(p) \cup SetsFields(q)
         /\ TouchesFields(p \o q) = TouchesFields(p) \cup TouchesFields(q)
         /\ LoadsRegisters(p) \cup LoadsRegisters(q) \subseteq LoadsRegisters(p \o q)
<1> DEFINE n == Len(p)
           m == Len(q)
<1>1. p \in Seq(Instructions) /\ q \in Seq(Instructions)
  BY DEF Stretch
<1> PICK r : r = p \o q
  OBVIOUS
<1>2. /\ r \in Seq(Instructions) /\ n \in Nat /\ m \in Nat /\ Len(r) = n + m
      /\ \A i \in 1 .. n : r[i] = p[i]
      /\ \A i \in 1 .. m : r[n + i] = q[i]
  BY <1>1
<1>3. ASSUME NEW i \in 1 .. Len(r)
      PROVE  /\ r[i] \in Instructions
             /\ \/ i \in 1 .. n /\ r[i] = p[i]
                \/ i > n /\ i - n \in 1 .. m /\ r[i] = q[i - n]
  BY <1>2
<1>4. ASSUME NEW i \in 1 .. n PROVE i \in 1 .. Len(r) /\ r[i] = p[i]
  BY <1>2
<1>5. ASSUME NEW i \in 1 .. m PROVE n + i \in 1 .. Len(r) /\ r[n + i] = q[i]
  BY <1>2
<1>0. /\ \A i \in 1 .. n : p[i] \in Instructions
      /\ \A i \in 1 .. m : q[i] \in Instructions
  BY <1>1
<1> HIDE DEF n, m
<1>6. WholeAccesses(r)
  <2> SUFFICES ASSUME NEW i \in 1 .. Len(r), r[i].do # "latch"
               PROVE  i # 1 /\ r[i - 1].do = "latch" /\ r[i - 1].at = r[i].at
    BY DEF WholeAccesses
  <2>1. CASE i \in 1 .. n /\ r[i] = p[i]
    <3>1. i # 1 /\ p[i - 1].do = "latch" /\ p[i - 1].at = p[i].at
      BY <2>1 DEF Stretch, WholeAccesses, n
    <3>2. i - 1 \in 1 .. n
      BY <2>1, <3>1, <1>2
    <3> QED BY <2>1, <3>1, <3>2, <1>4
  <2>2. CASE i > n /\ i - n \in 1 .. m /\ r[i] = q[i - n]
    <3>1. i - n # 1 /\ q[(i - n) - 1].do = "latch" /\ q[(i - n) - 1].at = q[i - n].at
      BY <2>2 DEF Stretch, WholeAccesses, m
    <3>2. (i - n) - 1 \in 1 .. m /\ n + ((i - n) - 1) = i - 1
      BY <2>2, <3>1, <1>2
    <3>3. r[i - 1] = q[(i - n) - 1]
      BY <3>2, <1>5
    <3>4. i # 1
      BY <2>2, <3>1, <1>2
    <3> QED BY <2>2, <3>1, <3>3, <3>4
  <2> QED BY <2>1, <2>2, <1>3
<1>7. OwnFields(r)
  <2> SUFFICES ASSUME NEW j \in 1 .. Len(r), r[j].do = "store"
               PROVE  /\ r[j].at # "QSTAT"
                      /\ "event" \notin FieldsOf[r[j].at]
                      /\ "q_int" \notin FieldsOf[r[j].at]
                      /\ DOMAIN r[j].set \subseteq FieldsOf[r[j].at]
    BY DEF OwnFields
  <2>1. OwnFields(p) /\ OwnFields(q)
    BY DEF Stretch
  <2>2. CASE j \in 1 .. n /\ r[j] = p[j]
    BY <2>1, <2>2 DEF OwnFields, n
  <2>3. CASE j - n \in 1 .. m /\ r[j] = q[j - n]
    BY <2>1, <2>3 DEF OwnFields, m
  <2> QED BY <1>3, <2>2, <2>3
<1>8. ASSUME NEW j \in 1 .. n, p[j].do = "store", NEW f \in DOMAIN p[j].set
      PROVE  f \in SetsFields(p)
  <2>1. p[j].at \in Registers /\ DOMAIN p[j].set \subseteq FieldsOf[p[j].at]
    BY <1>0, <1>8 DEF Stretch, OwnFields, Instructions, n
  <2>2. f \in Fields
    BY <2>1, FieldsAreFields
  <2> QED BY <1>8, <2>2 DEF SetsFields, StillToSet, n
<1>9. ASSUME NEW j \in 1 .. m, q[j].do = "store", NEW f \in FieldsOf[q[j].at]
      PROVE  f \in TouchesFields(q)
  <2>1. q[j].at \in Registers
    BY <1>0, <1>9 DEF Instructions
  <2>2. f \in Fields
    BY <2>1, FieldsAreFields
  <2> QED BY <1>9, <2>2 DEF TouchesFields, m
<1>10. Apart(r)
  <2> SUFFICES ASSUME NEW i \in 1 .. Len(r), NEW j \in 1 .. Len(r), i < j,
                      r[i].do = "store", r[j].do = "store"
               PROVE  DOMAIN r[i].set \cap FieldsOf[r[j].at] = {}
    BY DEF Apart
  <2>1. CASE i \in 1 .. n /\ j \in 1 .. n
    BY <2>1, <1>4 DEF Stretch, Apart, n
  <2>2. CASE i \in 1 .. n /\ j \notin 1 .. n
    <3>1. j - n \in 1 .. m /\ r[j] = q[j - n]
      BY <2>2, <1>3
    <3>2. r[i] = p[i]
      BY <2>2, <1>4
    <3> QED BY <2>2, <3>1, <3>2, <1>8, <1>9
  <2>3. CASE i \notin 1 .. n
    <3>1. i - n \in 1 .. m /\ r[i] = q[i - n]
      BY <2>3, <1>3
    <3>2. j \notin 1 .. n
      BY <2>3, <1>2
    <3>3. j - n \in 1 .. m /\ r[j] = q[j - n]
      BY <3>2, <1>3
    <3>4. i - n < j - n
      BY <1>2
    <3> QED BY <3>1, <3>3, <3>4 DEF Stretch, Apart, m
  <2> QED BY <2>1, <2>2, <2>3
<1>11. FromLoaded(r, loaded)
  <2> SUFFICES ASSUME NEW j \in 1 .. Len(r), r[j].do = "store",
                      NEW f \in FieldsOf[r[j].at], f \notin DOMAIN r[j].set,
                      r[j].at \notin loaded
               PROVE  Loads(r, j)
    BY DEF FromLoaded
  <2>1. CASE j \in 1 .. n
    <3>1. r[j] = p[j] /\ Loads(p, j)
      BY <2>1, <1>4 DEF Stretch, FromLoaded, n
    <3>2. PICK i \in 1 .. j - 1 : p[i].do = "load" /\ p[i].at = p[j].at
      BY <3>1 DEF Loads
    <3>3. i \in 1 .. n
      BY <2>1, <1>2
    <3> QED BY <3>1, <3>2, <3>3, <1>4 DEF Loads
  <2>2. CASE j \notin 1 .. n
    <3>1. j > n /\ j - n \in 1 .. m /\ r[j] = q[j - n]
      BY <2>2, <1>3
    <3>2. CASE r[j].at \in LoadsRegisters(p)
      <4>1. PICK i \in 1 .. n : p[i].do = "load" /\ p[i].at = r[j].at
        BY <3>2 DEF LoadsRegisters, n
      <4>2. r[i] = p[i] /\ i \in 1 .. j - 1
        BY <3>1, <1>2
      <4> QED BY <4>1, <4>2 DEF Loads
    <3>3. CASE Loads(q, j - n)
      <4>1. PICK i \in 1 .. (j - n) - 1 : q[i].do = "load" /\ q[i].at = q[j - n].at
        BY <3>3 DEF Loads
      <4>2. r[n + i] = q[i] /\ n + i \in 1 .. j - 1
        BY <3>1, <1>2
      <4> QED BY <3>1, <4>1, <4>2 DEF Loads
    <3> QED BY <3>1, <3>2, <3>3 DEF Stretch, FromLoaded, m
  <2> QED BY <2>1, <2>2
<1>12. AsMeant(r, meant)
  <2>1. \A j \in 1 .. n :
          p[j].do = "store" =>
            \A f \in DOMAIN p[j].set : f \in DOMAIN meant /\ p[j].set[f] = meant[f]
    BY DEF Stretch, AsMeant, n
  <2>2. \A j \in 1 .. m :
          q[j].do = "store" =>
            \A f \in DOMAIN q[j].set : f \in DOMAIN meant /\ q[j].set[f] = meant[f]
    BY DEF Stretch, AsMeant, m
  <2> QED BY <2>1, <2>2, <1>3 DEF AsMeant
<1>13. SetsFields(r) = SetsFields(p) \cup SetsFields(q)
  <2>1. ASSUME NEW f, StillToSet(r, f) PROVE StillToSet(p, f) \/ StillToSet(q, f)
    BY <2>1, <1>3 DEF StillToSet, n, m
  <2>2. ASSUME NEW f, StillToSet(p, f) PROVE StillToSet(r, f)
    BY <2>2, <1>4 DEF StillToSet, n
  <2>3. ASSUME NEW f, StillToSet(q, f) PROVE StillToSet(r, f)
    BY <2>3, <1>5 DEF StillToSet, m
  <2> QED BY <2>1, <2>2, <2>3 DEF SetsFields
<1>14. TouchesFields(r) = TouchesFields(p) \cup TouchesFields(q)
  <2>1. TouchesFields(r) \subseteq TouchesFields(p) \cup TouchesFields(q)
    BY <1>3 DEF TouchesFields, n, m
  <2>2. TouchesFields(p) \subseteq TouchesFields(r)
    BY <1>4 DEF TouchesFields, n
  <2>3. TouchesFields(q) \subseteq TouchesFields(r)
    BY <1>5 DEF TouchesFields, m
  <2> QED BY <2>1, <2>2, <2>3
<1>15. LoadsRegisters(p) \subseteq LoadsRegisters(r)
  BY <1>4 DEF LoadsRegisters, n
<1>16. LoadsRegisters(q) \subseteq LoadsRegisters(r)
  BY <1>5 DEF LoadsRegisters, m
<1> QED BY <1>2, <1>6, <1>7, <1>10, <1>11, <1>12, <1>13, <1>14, <1>15, <1>16 DEF Stretch

LEMMA ModifyStretch ==
  ASSUME NEW a \in DriversOwn, NEW set \in Settings, NEW loaded, NEW meant,
         DOMAIN set \subseteq FieldsOf[a],
         \A f \in DOMAIN set : f \in DOMAIN meant /\ set[f] = meant[f]
  PROVE  LET p == Modify(a, set)
         IN  /\ Stretch(p, loaded, meant)
             /\ SetsFields(p) = DOMAIN set /\ TouchesFields(p) = FieldsOf[a]
<1> DEFINE p == xp_atom_dcr_read(a)
           q == xp_atom_dcr_write(a, set)
<1>1. /\ Stretch(p, loaded, meant)
      /\ SetsFields(p) = {} /\ TouchesFields(p) = {} /\ a \in LoadsRegisters(p)
  BY ReadStretch DEF DriversOwn
<1>2. a \in loaded \cup LoadsRegisters(p)
  BY <1>1
<1> DEFINE before == loaded \cup LoadsRegisters(p)
<1>3. a \in before \/ FieldsOf[a] \subseteq DOMAIN set
  BY <1>2
<1> HIDE DEF p, q, before
<1>4. /\ Stretch(q, before, meant)
      /\ SetsFields(q) = DOMAIN set /\ TouchesFields(q) = FieldsOf[a]
  BY <1>3, WriteStretch DEF q
<1>5. SetsFields(p) \cap TouchesFields(q) = {}
  BY <1>1
<1>6. Stretch(q, loaded \cup LoadsRegisters(p), meant)
  BY <1>4 DEF before
<1>7. /\ Stretch(p \o q, loaded, meant)
      /\ SetsFields(p \o q) = SetsFields(p) \cup SetsFields(q)
      /\ TouchesFields(p \o q) = TouchesFields(p) \cup TouchesFields(q)
  BY <1>1, <1>5, <1>6, Stretches
<1>8. Modify(a, set) = p \o q
  BY DEF Modify, p, q
<1> QED BY <1>1, <1>4, <1>7, <1>8

\* A call that is sound from any registers: it sets the fields it is meant to.
CallIsSound(c) ==
  /\ c.meant \in Settings /\ Stretch(c.prog, {}, c.meant)
  /\ SetsFields(c.prog) = DOMAIN c.meant

LEMMA SettingsAreFunctions ==
  /\ \A f \in Fields, v \in Values : Only(f, v) \in Settings /\ DOMAIN Only(f, v) = {f}
                                     /\ Only(f, v)[f] = v
  /\ \A D : \A g \in [D -> Values] : D \subseteq Fields => g \in Settings /\ DOMAIN g = D
<1>1. ASSUME NEW f \in Fields, NEW v \in Values
      PROVE  Only(f, v) \in [{f} -> Values] /\ Only(f, v)[f] = v
  BY DEF Only
<1>2. ASSUME NEW D, NEW g \in [D -> Values], D \subseteq Fields
      PROVE  g \in Settings /\ DOMAIN g = D
  BY <1>2 DEF Settings
<1>3. ASSUME NEW f \in Fields, NEW v \in Values
      PROVE  Only(f, v) \in Settings /\ DOMAIN Only(f, v) = {f} /\ Only(f, v)[f] = v
  <2>1. {f} \subseteq Fields
    OBVIOUS
  <2>2. Only(f, v) \in [{f} -> Values] /\ Only(f, v)[f] = v
    BY <1>1
  <2>3. Only(f, v) \in Settings /\ DOMAIN Only(f, v) = {f}
    BY <1>2, <2>1, <2>2, Zenon
  <2> QED BY <2>2, <2>3
<1> QED BY <1>2, <1>3

LEMMA FieldIsSound ==
  ASSUME NEW f \in Fields, f # "event", f # "q_int", NEW v \in Values
  PROVE  CallIsSound(RegCall(Modify(RegisterOf(f), Only(f, v)), Only(f, v)))
<1>1. RegisterOf(f) \in DriversOwn /\ f \in FieldsOf[RegisterOf(f)]
  <2>1. FieldsOf["QSTAT"] = {"event"} /\ FieldsOf["QINT"] = {"q_int"}
    BY DEF FieldsOf
  <2> QED BY <2>1, FieldsAreFields DEF DriversOwn
<1>2. Only(f, v) \in Settings /\ DOMAIN Only(f, v) = {f}
  BY SettingsAreFunctions
<1>3. /\ Stretch(Modify(RegisterOf(f), Only(f, v)), {}, Only(f, v))
      /\ SetsFields(Modify(RegisterOf(f), Only(f, v))) = DOMAIN Only(f, v)
  BY <1>1, <1>2, ModifyStretch
<1> QED BY <1>2, <1>3 DEF CallIsSound, RegCall

LEMMA ReadingIsSound ==
  ASSUME NEW a \in Registers
  PROVE  CallIsSound(RegCall(xp_atom_dcr_read(a), << >>))
BY ReadStretch, NothingToSet DEF CallIsSound, RegCall

LEMMA FieldsOfTheCalls ==
  /\ {"QCONFIGA", "QCONFIGB", "FILTER", "FDATA", "FMASK", "FPOL"} \subseteq DriversOwn
  /\ FieldsOf["QCONFIGA"] = {"enda", "starta", "bthres"}
  /\ FieldsOf["QCONFIGB"] = {"rptr", "apus", "enbl", "dtype", "scpc", "fsf"}
  /\ FieldsOf["FILTER"] = {"f_enbl", "nfilt", "ncol", "sfid"}
  /\ FieldsOf["FDATA"] = {"data"} /\ FieldsOf["FMASK"] = {"mask"}
  /\ FieldsOf["FPOL"] = {"polarity"}
  /\ ChannelFields \cup DeviceFields \subseteq Fields \ {"event", "q_int"}
  /\ \A a \in DriversOwn : FieldsOf[a] \subseteq Fields
<1>1. \A f \in ChannelFields \cup DeviceFields :
        f \notin {"event", "q_int"} /\ \E a \in Registers : f \in FieldsOf[a]
  BY DEF ChannelFields, DeviceFields, Registers, FieldsOf
<1>2. ChannelFields \cup DeviceFields \subseteq Fields
  BY <1>1 DEF Fields
<1>3. {"QCONFIGA", "QCONFIGB", "FILTER", "FDATA", "FMASK", "FPOL"} \subseteq DriversOwn
  BY DEF DriversOwn, Registers, FieldsOf
<1>4. /\ FieldsOf["QCONFIGA"] = {"enda", "starta", "bthres"}
      /\ FieldsOf["QCONFIGB"] = {"rptr", "apus", "enbl", "dtype", "scpc", "fsf"}
      /\ FieldsOf["FILTER"] = {"f_enbl", "nfilt", "ncol", "sfid"}
      /\ FieldsOf["FDATA"] = {"data"} /\ FieldsOf["FMASK"] = {"mask"}
      /\ FieldsOf["FPOL"] = {"polarity"}
  BY DEF FieldsOf
<1> QED BY <1>1, <1>2, <1>3, <1>4, FieldsAreFields DEF DriversOwn

LEMMA BurstAndSection ==
  \A v \in Values : BurstOf(v) \in Values /\ SectionOf(v) \in Values
BY DEF BurstOf, SectionOf, Values

LEMMA LinkIsSound ==
  CallIsSound(RegCall(xp_atom_dcr_write_filter_link(1, 2), [nfilt |-> 1, ncol |-> 2]))
<1> DEFINE set == [nfilt |-> 1, ncol |-> 2]
<1>1. set \in [{"nfilt", "ncol"} -> Values]
  BY DEF Values
<1>2. {"nfilt", "ncol"} \subseteq FieldsOf["FILTER"] /\ "FILTER" \in DriversOwn
      /\ {"nfilt", "ncol"} \subseteq Fields
  BY FieldsOfTheCalls
<1> HIDE DEF set
<1>3. set \in Settings /\ DOMAIN set \subseteq FieldsOf["FILTER"]
  BY <1>1, <1>2, SettingsAreFunctions
<1>4. Stretch(Modify("FILTER", set), {}, set) /\ SetsFields(Modify("FILTER", set)) = DOMAIN set
  BY <1>2, <1>3, ModifyStretch
<1> QED BY <1>3, <1>4 DEF CallIsSound, RegCall, xp_atom_dcr_write_filter_link, set

\* The word of QCONFIGB is loaded before and stored after QCONFIGA is changed.
LEMMA DtypeIsSound ==
  ASSUME NEW v \in Values
  PROVE  CallIsSound(RegCall(xp_atom_dcr_write_register_channel("dtype", v),
                             [dtype |-> v, bthres |-> BurstOf(v), scpc |-> SectionOf(v)]))
<1> DEFINE meant == [dtype |-> v, bthres |-> BurstOf(v), scpc |-> SectionOf(v)]
           burst == [bthres |-> BurstOf(v)]
           type == [dtype |-> v, scpc |-> SectionOf(v)]
           p == xp_atom_dcr_read("QCONFIGB")
           q == Modify("QCONFIGA", burst)
           w == xp_atom_dcr_write("QCONFIGB", type)
<1>1. /\ meant \in [{"dtype", "bthres", "scpc"} -> Values]
      /\ burst \in [{"bthres"} -> Values] /\ type \in [{"dtype", "scpc"} -> Values]
  BY BurstAndSection
<1>2. /\ \A f \in {"bthres"} : f \in DOMAIN meant /\ burst[f] = meant[f]
      /\ \A f \in {"dtype", "scpc"} : f \in DOMAIN meant /\ type[f] = meant[f]
  OBVIOUS
<1>3. xp_atom_dcr_write_register_channel("dtype", v) = (p \o q) \o w
  BY DEF xp_atom_dcr_write_register_channel
<1> HIDE DEF meant, burst, type, p, q, w
<1>4. {"dtype", "bthres", "scpc"} \subseteq Fields
  BY FieldsOfTheCalls
<1>5. /\ meant \in Settings /\ DOMAIN meant = {"dtype", "bthres", "scpc"}
      /\ burst \in Settings /\ DOMAIN burst = {"bthres"}
      /\ type \in Settings /\ DOMAIN type = {"dtype", "scpc"}
  BY <1>1, <1>4, SettingsAreFunctions
<1>6. /\ Stretch(p, {}, meant)
      /\ SetsFields(p) = {} /\ TouchesFields(p) = {} /\ "QCONFIGB" \in LoadsRegisters(p)
  BY ReadStretch, FieldsOfTheCalls DEF p, DriversOwn
<1>7. /\ Stretch(q, {} \cup LoadsRegisters(p), meant)
      /\ SetsFields(q) = {"bthres"} /\ TouchesFields(q) = FieldsOf["QCONFIGA"]
  BY <1>2, <1>5, ModifyStretch, FieldsOfTheCalls DEF q
<1>8. /\ Stretch(p \o q, {}, meant) /\ SetsFields(p \o q) = {"bthres"}
      /\ "QCONFIGB" \in LoadsRegisters(p \o q)
  BY <1>6, <1>7, Stretches
<1>9. /\ Stretch(w, {} \cup LoadsRegisters(p \o q), meant)
      /\ SetsFields(w) = {"dtype", "scpc"} /\ TouchesFields(w) = FieldsOf["QCONFIGB"]
  BY <1>2, <1>5, <1>8, WriteStretch, FieldsOfTheCalls DEF w
<1>10. SetsFields(p \o q) \cap TouchesFields(w) = {}
  BY <1>8, <1>9, FieldsOfTheCalls
<1>11. /\ Stretch((p \o q) \o w, {}, meant)
       /\ SetsFields((p \o q) \o w) = {"dtype", "bthres", "scpc"}
  BY <1>8, <1>9, <1>10, Stretches
<1> QED BY <1>3, <1>5, <1>11 DEF CallIsSound, RegCall, meant

LEMMA ResetIsSound ==
  CallIsSound(RegCall(xp_atom_dcr_reset_queue,
                      [f \in FieldsOf["QCONFIGA"] \cup FieldsOf["QCONFIGB"] |-> 0]))
<1> DEFINE A == FieldsOf["QCONFIGA"]
           B == FieldsOf["QCONFIGB"]
           meant == [f \in A \cup B |-> 0]
           p == xp_atom_dcr_write("QCONFIGA", [f \in A |-> 0])
           q == xp_atom_dcr_write("QCONFIGB", [f \in B |-> 0])
<1>1. A \subseteq Fields /\ B \subseteq Fields /\ A \cup B \subseteq Fields /\ A \cap B = {}
  BY FieldsOfTheCalls
<1>2. /\ meant \in [A \cup B -> Values] /\ [f \in A |-> 0] \in [A -> Values]
      /\ [f \in B |-> 0] \in [B -> Values]
  BY DEF Values
<1>3. /\ \A f \in A : f \in DOMAIN meant /\ [g \in A |-> 0][f] = meant[f]
      /\ \A f \in B : f \in DOMAIN meant /\ [g \in B |-> 0][f] = meant[f]
  OBVIOUS
<1>4. xp_atom_dcr_reset_queue = p \o q
  BY DEF xp_atom_dcr_reset_queue
<1> PICK zeroA : zeroA = [f \in A |-> 0]
  OBVIOUS
<1> PICK zeroB : zeroB = [f \in B |-> 0]
  OBVIOUS
<1>5. p = xp_atom_dcr_write("QCONFIGA", zeroA) /\ q = xp_atom_dcr_write("QCONFIGB", zeroB)
  OBVIOUS
<1>6. /\ zeroA \in [A -> Values] /\ zeroB \in [B -> Values]
      /\ \A f \in A : f \in DOMAIN meant /\ zeroA[f] = meant[f]
      /\ \A f \in B : f \in DOMAIN meant /\ zeroB[f] = meant[f]
  BY <1>2, <1>3
<1> HIDE DEF meant, p, q, A, B
<1>7. /\ meant \in Settings /\ DOMAIN meant = A \cup B
      /\ zeroA \in Settings /\ DOMAIN zeroA = A /\ zeroB \in Settings /\ DOMAIN zeroB = B
  BY <1>1, <1>2, <1>6, SettingsAreFunctions
<1>8. /\ Stretch(p, {}, meant) /\ SetsFields(p) = A
  BY <1>5, <1>6, <1>7, WriteStretch, FieldsOfTheCalls DEF A
<1>9. /\ Stretch(q, {} \cup LoadsRegisters(p), meant)
      /\ SetsFields(q) = B /\ TouchesFields(q) = B
  BY <1>5, <1>6, <1>7, WriteStretch, FieldsOfTheCalls DEF B
<1>10. Stretch(p \o q, {}, meant) /\ SetsFields(p \o q) = A \cup B
  BY <1>1, <1>8, <1>9, Stretches
<1> QED BY <1>4, <1>7, <1>10 DEF CallIsSound, RegCall, meant, A, B

\* Both words are loaded before either is stored.
LEMMA InitQueueIsSound ==
  ASSUME NEW v \in Values
  PROVE  CallIsSound(RegCall(xp_atom_dcr_init_queue(2, 1, v),
                             [enda |-> 2, starta |-> 1, rptr |-> 2, apus |-> 1, enbl |-> 0,
                              bthres |-> BurstOf(v), scpc |-> SectionOf(v)]))
<1> DEFINE meant == [enda |-> 2, starta |-> 1, rptr |-> 2, apus |-> 1, enbl |-> 0,
                     bthres |-> BurstOf(v), scpc |-> SectionOf(v)]
           inA == {"enda", "starta", "bthres"}
           inB == {"rptr", "apus", "enbl", "scpc"}
           a == [enda |-> 2, starta |-> 1, bthres |-> BurstOf(v)]
           b == [rptr |-> 2, apus |-> 1, enbl |-> 0, scpc |-> SectionOf(v)]
           ra == xp_atom_dcr_read("QCONFIGA")
           rb == xp_atom_dcr_read("QCONFIGB")
           wa == xp_atom_dcr_write("QCONFIGA", a)
           wb == xp_atom_dcr_write("QCONFIGB", b)
<1>0. BurstOf(v) \in Values /\ SectionOf(v) \in Values /\ 0 \in Values /\ 1 \in Values
      /\ 2 \in Values
  BY BurstAndSection DEF Values
<1>1. meant \in [inA \cup inB -> Values] /\ a \in [inA -> Values] /\ b \in [inB -> Values]
  BY <1>0
<1>2. /\ \A f \in inA : f \in DOMAIN meant /\ a[f] = meant[f]
      /\ \A f \in inB : f \in DOMAIN meant /\ b[f] = meant[f]
  OBVIOUS
<1>3. xp_atom_dcr_init_queue(2, 1, v) = ((ra \o rb) \o wa) \o wb
  BY DEF xp_atom_dcr_init_queue
<1>4. /\ inA \subseteq FieldsOf["QCONFIGA"] /\ inB \subseteq FieldsOf["QCONFIGB"]
      /\ inA \cup inB \subseteq Fields /\ inA \subseteq Fields /\ inB \subseteq Fields
      /\ inA \cap FieldsOf["QCONFIGB"] = {}
  BY FieldsOfTheCalls
<1> HIDE DEF meant, inA, inB, a, b, ra, rb, wa, wb
<1>5. /\ meant \in Settings /\ DOMAIN meant = inA \cup inB
      /\ a \in Settings /\ DOMAIN a = inA /\ b \in Settings /\ DOMAIN b = inB
  BY <1>1, <1>4, SettingsAreFunctions
<1>6. /\ Stretch(ra, {}, meant)
      /\ SetsFields(ra) = {} /\ TouchesFields(ra) = {} /\ "QCONFIGA" \in LoadsRegisters(ra)
  BY ReadStretch, FieldsOfTheCalls DEF ra, DriversOwn
<1>7. /\ Stretch(rb, {} \cup LoadsRegisters(ra), meant)
      /\ SetsFields(rb) = {} /\ TouchesFields(rb) = {} /\ "QCONFIGB" \in LoadsRegisters(rb)
  BY ReadStretch, FieldsOfTheCalls DEF rb, DriversOwn
<1>8. /\ Stretch(ra \o rb, {}, meant) /\ SetsFields(ra \o rb) = {}
      /\ {"QCONFIGA", "QCONFIGB"} \subseteq LoadsRegisters(ra \o rb)
  BY <1>6, <1>7, Stretches
<1>9. /\ Stretch(wa, {} \cup LoadsRegisters(ra \o rb), meant)
      /\ SetsFields(wa) = inA /\ TouchesFields(wa) = FieldsOf["QCONFIGA"]
  BY <1>2, <1>4, <1>5, <1>8, WriteStretch, FieldsOfTheCalls DEF wa
<1>10. /\ Stretch((ra \o rb) \o wa, {}, meant) /\ SetsFields((ra \o rb) \o wa) = inA
       /\ "QCONFIGB" \in LoadsRegisters((ra \o rb) \o wa)
  BY <1>8, <1>9, Stretches
<1>11. /\ Stretch(wb, {} \cup LoadsRegisters((ra \o rb) \o wa), meant)
       /\ SetsFields(wb) = inB /\ TouchesFields(wb) = FieldsOf["QCONFIGB"]
  BY <1>2, <1>4, <1>5, <1>10, WriteStretch, FieldsOfTheCalls DEF wb
<1>12. /\ Stretch(((ra \o rb) \o wa) \o wb, {}, meant)
       /\ SetsFields(((ra \o rb) \o wa) \o wb) = inA \cup inB
  BY <1>4, <1>10, <1>11, Stretches
<1> QED BY <1>3, <1>5, <1>12 DEF CallIsSound, RegCall, meant

\* Four words, none of them loaded: each sets every field of its register.
LEMMA DramFilterIsSound ==
  CallIsSound(RegCall(xp_atom_dcr_write_dram_filter(1),
    [f \in UNION {FieldsOf[a] : a \in {"FILTER", "FDATA", "FMASK", "FPOL"}} |-> 1]))
<1> DEFINE inF == {"f_enbl", "nfilt", "ncol", "sfid"}
           all == inF \cup {"data", "mask", "polarity"}
           meant == [f \in UNION {FieldsOf[a] : a \in {"FILTER", "FDATA", "FMASK", "FPOL"}} |-> 1]
           wf == xp_atom_dcr_write("FILTER", [f \in FieldsOf["FILTER"] |-> 1])
           wd == xp_atom_dcr_write("FDATA", [data |-> 1])
           wm == xp_atom_dcr_write("FMASK", [mask |-> 1])
           wp == xp_atom_dcr_write("FPOL", [polarity |-> 1])
<1>1. UNION {FieldsOf[a] : a \in {"FILTER", "FDATA", "FMASK", "FPOL"}} = all
  BY FieldsOfTheCalls
<1>2. meant = [f \in all |-> 1]
  BY <1>1
<1>3. xp_atom_dcr_write_dram_filter(1) = ((wf \o wd) \o wm) \o wp
  BY DEF xp_atom_dcr_write_dram_filter
<1> PICK f1 : f1 = [f \in FieldsOf["FILTER"] |-> 1]
  OBVIOUS
<1> PICK d1 : d1 = [data |-> 1]
  OBVIOUS
<1> PICK m1 : m1 = [mask |-> 1]
  OBVIOUS
<1> PICK p1 : p1 = [polarity |-> 1]
  OBVIOUS
<1>4. /\ wf = xp_atom_dcr_write("FILTER", f1) /\ wd = xp_atom_dcr_write("FDATA", d1)
      /\ wm = xp_atom_dcr_write("FMASK", m1) /\ wp = xp_atom_dcr_write("FPOL", p1)
  OBVIOUS
<1> HIDE DEF meant, wf, wd, wm, wp
<1>5. /\ f1 \in [inF -> Values] /\ d1 \in [{"data"} -> Values]
      /\ m1 \in [{"mask"} -> Values] /\ p1 \in [{"polarity"} -> Values]
      /\ meant \in [all -> Values]
  BY <1>2, FieldsOfTheCalls DEF Values
<1>6. /\ \A f \in inF : f \in DOMAIN meant /\ f1[f] = meant[f]
      /\ "data" \in DOMAIN meant /\ d1["data"] = meant["data"]
      /\ "mask" \in DOMAIN meant /\ m1["mask"] = meant["mask"]
      /\ "polarity" \in DOMAIN meant /\ p1["polarity"] = meant["polarity"]
  BY <1>2, FieldsOfTheCalls
<1>7. /\ inF \subseteq Fields /\ {"data"} \subseteq Fields /\ {"mask"} \subseteq Fields
      /\ {"polarity"} \subseteq Fields /\ all \subseteq Fields
  BY FieldsOfTheCalls
<1>8. /\ FieldsOf["FILTER"] = inF /\ FieldsOf["FDATA"] = {"data"}
      /\ FieldsOf["FMASK"] = {"mask"} /\ FieldsOf["FPOL"] = {"polarity"}
      /\ {"FILTER", "FDATA", "FMASK", "FPOL"} \subseteq DriversOwn
      /\ inF \cap {"data"} = {} /\ (inF \cup {"data"}) \cap {"mask"} = {}
      /\ (inF \cup {"data", "mask"}) \cap {"polarity"} = {}
  BY FieldsOfTheCalls
<1> HIDE DEF inF
<1>9. /\ f1 \in Settings /\ DOMAIN f1 = inF /\ d1 \in Settings /\ DOMAIN d1 = {"data"}
      /\ m1 \in Settings /\ DOMAIN m1 = {"mask"} /\ p1 \in Settings /\ DOMAIN p1 = {"polarity"}
  BY <1>5, <1>7, SettingsAreFunctions
<1>10. meant \in Settings /\ DOMAIN meant = all
  BY <1>5, <1>7, SettingsAreFunctions
<1>11. /\ Stretch(wf, {}, meant) /\ SetsFields(wf) = inF
  BY <1>4, <1>6, <1>8, <1>9, WriteStretch
<1>12. /\ Stretch(wd, {} \cup LoadsRegisters(wf), meant)
       /\ SetsFields(wd) = {"data"} /\ TouchesFields(wd) = {"data"}
  <2>1. /\ "FDATA" \in DriversOwn /\ d1 \in Settings /\ DOMAIN d1 = FieldsOf["FDATA"]
        /\ \A f \in DOMAIN d1 : f \in DOMAIN meant /\ d1[f] = meant[f]
    BY <1>6, <1>8, <1>9
  <2> QED BY <1>4, <1>8, <2>1, WriteStretch
<1>13. Stretch(wf \o wd, {}, meant) /\ SetsFields(wf \o wd) = inF \cup {"data"}
  BY <1>8, <1>11, <1>12, Stretches
<1>14. /\ Stretch(wm, {} \cup LoadsRegisters(wf \o wd), meant)
       /\ SetsFields(wm) = {"mask"} /\ TouchesFields(wm) = {"mask"}
  <2>1. /\ "FMASK" \in DriversOwn /\ m1 \in Settings /\ DOMAIN m1 = FieldsOf["FMASK"]
        /\ \A f \in DOMAIN m1 : f \in DOMAIN meant /\ m1[f] = meant[f]
    BY <1>6, <1>8, <1>9
  <2> QED BY <1>4, <1>8, <2>1, WriteStretch
<1>15. /\ Stretch((wf \o wd) \o wm, {}, meant)
       /\ SetsFields((wf \o wd) \o wm) = inF \cup {"data", "mask"}
  BY <1>8, <1>13, <1>14, Stretches
<1>16. /\ Stretch(wp, {} \cup LoadsRegisters((wf \o wd) \o wm), meant)
       /\ SetsFields(wp) = {"polarity"} /\ TouchesFields(wp) = {"polarity"}
  <2>1. /\ "FPOL" \in DriversOwn /\ p1 \in Settings /\ DOMAIN p1 = FieldsOf["FPOL"]
        /\ \A f \in DOMAIN p1 : f \in DOMAIN meant /\ p1[f] = meant[f]
    BY <1>6, <1>8, <1>9
  <2> QED BY <1>4, <1>8, <2>1, WriteStretch
<1>17. /\ Stretch(((wf \o wd) \o wm) \o wp, {}, meant)
       /\ SetsFields(((wf \o wd) \o wm) \o wp) = (inF \cup {"data", "mask"}) \cup {"polarity"}
  BY <1>8, <1>15, <1>16, Stretches
<1>18. (inF \cup {"data", "mask"}) \cup {"polarity"} = all
  OBVIOUS
<1> QED BY <1>3, <1>10, <1>17, <1>18 DEF CallIsSound, RegCall, meant

\* Every call made in a critical section.
LEMMA GuardedCallsAreSound ==
  ASSUME NEW file \in Contents, NEW c \in GuardedCalls(file)
  PROVE  CallIsSound(c)
<1>1. ASSUME NEW f \in ChannelFields, NEW v \in {1, 2},
             c = RegCall(xp_atom_dcr_write_register_channel(f, v),
                   IF f = "dtype"
                   THEN [dtype |-> v, bthres |-> BurstOf(v), scpc |-> SectionOf(v)]
                   ELSE Only(f, v))
      PROVE  CallIsSound(c)
  <2>1. v \in Values
    BY DEF Values
  <2>2. CASE f = "dtype"
    BY <1>1, <2>1, <2>2, DtypeIsSound
  <2>3. CASE f # "dtype"
    <3>1. c = RegCall(Modify(RegisterOf(f), Only(f, v)), Only(f, v))
      BY <1>1, <2>3 DEF xp_atom_dcr_write_register_channel
    <3>2. f \in Fields /\ f # "event" /\ f # "q_int"
      BY FieldsOfTheCalls
    <3> QED BY <2>1, <3>1, <3>2, FieldIsSound
  <2> QED BY <2>2, <2>3
<1>2. ASSUME NEW f \in ReadFields,
             c = RegCall(xp_atom_dcr_read_register_channel(f), << >>)
      PROVE  CallIsSound(c)
  <2>1. f \in Fields
    BY FieldsOfTheCalls DEF ReadFields, ChannelFields
  <2> QED BY <1>2, <2>1, FieldsAreFields, ReadingIsSound DEF xp_atom_dcr_read_register_channel
<1>3. ASSUME NEW f \in DeviceFields, c = RegCall(xp_atom_dcr_write_register(f, 1), Only(f, 1))
      PROVE  CallIsSound(c)
  <2>1. f \in Fields /\ f # "event" /\ f # "q_int" /\ 1 \in Values
    BY FieldsOfTheCalls DEF Values
  <2> QED BY <1>3, <2>1, FieldIsSound DEF xp_atom_dcr_write_register
<1>4. file["dtype"] \in Values
  BY FieldsOfTheCalls DEF Contents, ChannelFields
<1>5. CallIsSound(RegCall(xp_atom_dcr_read_queue_config, << >>))
  BY ReadingIsSound, FieldsOfTheCalls DEF xp_atom_dcr_read_queue_config, DriversOwn
<1>6. \/ \E f \in ChannelFields, v \in {1, 2} :
           c = RegCall(xp_atom_dcr_write_register_channel(f, v),
                 IF f = "dtype"
                 THEN [dtype |-> v, bthres |-> BurstOf(v), scpc |-> SectionOf(v)]
                 ELSE Only(f, v))
      \/ \E f \in ReadFields : c = RegCall(xp_atom_dcr_read_register_channel(f), << >>)
      \/ \E f \in DeviceFields : c = RegCall(xp_atom_dcr_write_register(f, 1), Only(f, 1))
      \/ c = RegCall(xp_atom_dcr_write_filter_link(1, 2), [nfilt |-> 1, ncol |-> 2])
      \/ c = RegCall(xp_atom_dcr_write_dram_filter(1),
               [f \in UNION {FieldsOf[a] : a \in {"FILTER", "FDATA", "FMASK", "FPOL"}} |-> 1])
      \/ c = RegCall(xp_atom_dcr_init_queue(2, 1, file["dtype"]),
               [enda |-> 2, starta |-> 1, rptr |-> 2, apus |-> 1, enbl |-> 0,
                bthres |-> BurstOf(file["dtype"]), scpc |-> SectionOf(file["dtype"])])
      \/ c = RegCall(xp_atom_dcr_reset_queue,
               [f \in FieldsOf["QCONFIGA"] \cup FieldsOf["QCONFIGB"] |-> 0])
      \/ c = RegCall(xp_atom_dcr_read_queue_config, << >>)
  BY DEF GuardedCalls
<1>7. CallIsSound(RegCall(xp_atom_dcr_init_queue(2, 1, file["dtype"]),
        [enda |-> 2, starta |-> 1, rptr |-> 2, apus |-> 1, enbl |-> 0,
         bthres |-> BurstOf(file["dtype"]), scpc |-> SectionOf(file["dtype"])]))
  BY <1>4, InitQueueIsSound
<1> QED BY <1>1, <1>2, <1>3, <1>5, <1>6, <1>7, LinkIsSound, DramFilterIsSound, ResetIsSound,
           Zenon

-----------------------------------------------------------------------------
(* The registers: the handler, and the invariant.                          *)

LEMMA AccessEffect ==
  ASSUME NEW d, d \in [file : Contents, lr : Registers, val : Contents], NEW a \in Registers
  PROVE  /\ Access(d, Load(a)) \in [file : Contents, lr : Registers, val : Contents]
         /\ Access(d, Load(a)).file = d.file
         /\ \A f \in Fields : Access(d, Load(a)).val[f]
                                = IF f \in FieldsOf[a] THEN d.file[f] ELSE d.val[f]
         /\ Access(d, Store(a, << >>)) \in [file : Contents, lr : Registers, val : Contents]
         /\ \A f \in Fields : Access(d, Store(a, << >>)).file[f]
                                = IF f \in FieldsOf[a] THEN Stored(d, a, << >>, f)
                                  ELSE d.file[f]
<1> DEFINE e == Execute(d, Latch(a))
<1>1. e = [d EXCEPT !.lr = a]
  BY InstructionTypes DEF Execute
<1>2. e \in [file : Contents, lr : Registers, val : Contents]
      /\ e.lr = a /\ e.file = d.file /\ e.val = d.val
  BY <1>1
<1>3. Access(d, Load(a)) = Execute(e, Load(a))
      /\ Access(d, Store(a, << >>)) = Execute(e, Store(a, << >>))
  BY InstructionTypes DEF Access
<1> HIDE DEF e
<1>4. /\ Execute(e, Load(a)) \in [file : Contents, lr : Registers, val : Contents]
      /\ Execute(e, Load(a)).file = e.file
      /\ \A f \in Fields : Execute(e, Load(a)).val[f]
                             = IF f \in FieldsOf[a] THEN e.file[f] ELSE e.val[f]
  <2>1. Load(a).do = "load" /\ Load(a).at = a
    BY InstructionTypes
  <2> QED BY <1>2, <2>1, LoadEffect
<1>5. /\ Execute(e, Store(a, << >>)) \in [file : Contents, lr : Registers, val : Contents]
      /\ \A f \in Fields : Execute(e, Store(a, << >>)).file[f]
                             = IF f \in FieldsOf[a] THEN Stored(e, a, << >>, f) ELSE e.file[f]
  <2>1. Store(a, << >>).do = "store" /\ Store(a, << >>).at = a /\ Store(a, << >>).set = << >>
    BY InstructionTypes
  <2> QED BY <1>2, <2>1, NothingToSet, StoreEffect
<1>6. \A f : Stored(e, a, << >>, f) = Stored(d, a, << >>, f)
  BY <1>2 DEF Stored
<1> QED BY <1>2, <1>3, <1>4, <1>5, <1>6

\* e is g with one field changed.
OneChanged(e, g, f, v) ==
  e \in Contents /\ \A h \in Fields : e[h] = IF h = f THEN v ELSE g[h]

LEMMA OneField ==
  ASSUME NEW g, g \in Contents, NEW f, NEW v, v \in Values, NEW e, e = [g EXCEPT ![f] = v]
  PROVE  OneChanged(e, g, f, v)
BY DEF Contents, OneChanged

\* The handler loads the status it then clears: the event goes, nothing else does.
LEMMA HandlerEffect ==
  ASSUME NEW d, d \in [file : Contents, lr : Registers, val : Contents],
         d.file["event"] = 1
  PROVE  /\ InterruptAccesses(d) \in [file : Contents, lr : Registers, val : Contents]
         /\ \A f \in Fields : InterruptAccesses(d).file[f]
                                = IF f = "event" THEN 0 ELSE d.file[f]
<1> DEFINE pending == Access(d, Load("QINT"))
           masked == Access(pending, Load("QINTMSK"))
           status == Access(masked, Load("QSTAT"))
<1>1. /\ {"QINT", "QINTMSK", "QSTAT"} \subseteq Registers
      /\ FieldsOf["QSTAT"] = {"event"}
  BY DEF Registers, FieldsOf
<1>2. InterruptAccesses(d) = Access(status, Store("QSTAT", << >>))
  BY DEF InterruptAccesses
<1>3. pending \in [file : Contents, lr : Registers, val : Contents] /\ pending.file = d.file
  BY <1>1, AccessEffect
<1> HIDE DEF pending
<1>4. masked \in [file : Contents, lr : Registers, val : Contents] /\ masked.file = d.file
  BY <1>1, <1>3, AccessEffect
<1> HIDE DEF masked
<1>5. "event" \in Fields
  BY <1>1, FieldsAreFields
<1>6. /\ status \in [file : Contents, lr : Registers, val : Contents] /\ status.file = d.file
      /\ \A f \in Fields : status.val[f] = IF f \in FieldsOf["QSTAT"] THEN masked.file[f]
                                          ELSE masked.val[f]
  BY <1>1, <1>4, AccessEffect
<1> HIDE DEF status
<1>8. status.val["event"] = 1
  BY <1>1, <1>4, <1>5, <1>6
<1>7. Stored(status, "QSTAT", << >>, "event") = 0
  BY <1>8 DEF Stored
<1> DEFINE e == Access(status, Store("QSTAT", << >>))
<1>9. /\ e \in [file : Contents, lr : Registers, val : Contents]
      /\ \A f \in Fields : e.file[f] = IF f \in FieldsOf["QSTAT"]
                                      THEN Stored(status, "QSTAT", << >>, f)
                                      ELSE status.file[f]
  BY <1>1, <1>6, AccessEffect
<1> HIDE DEF e
<1>10. \A f \in Fields : e.file[f] = IF f = "event" THEN 0 ELSE d.file[f]
  BY <1>1, <1>6, <1>7, <1>9
<1> QED BY <1>2, <1>9, <1>10 DEF e

LEMMA NothingLeft ==
  ASSUME NEW d, NEW ideal
  PROVE  /\ RegSound(<< >>, d, ideal) <=> \A f \in Fields : d.file[f] = ideal[f]
         /\ << >> \in Seq(Instructions)
<1>1. ~ \E f : StillToSet(<< >>, f)
  BY DEF StillToSet
<1>2. Latched(<< >>, d.lr) /\ OwnFields(<< >>) /\ Backed(<< >>, d) /\ Apart(<< >>)
  BY DEF Latched, OwnFields, Backed, Apart
<1>3. Leaves(<< >>, d.file, ideal) <=> \A f \in Fields : d.file[f] = ideal[f]
  BY <1>1 DEF Leaves
<1>4. << >> \in Seq(Instructions)
  OBVIOUS
<1> QED BY <1>2, <1>3, <1>4 DEF RegSound

\* A call that begins with the registers as they should be.
LEMMA BeginsSound ==
  ASSUME NEW c, CallIsSound(c),
         NEW d, d \in [file : Contents, lr : Registers, val : Contents],
         NEW ideal \in Contents, d.file = ideal
  PROVE  /\ RegSound(c.prog, d, Over(c.meant, ideal))
         /\ Over(c.meant, ideal) \in Contents /\ c.prog \in Seq(Instructions)
<1> DEFINE p == c.prog
           m == c.meant
           o == Over(m, ideal)
<1>1. PICK D \in SUBSET Fields : m \in [D -> Values]
  BY DEF CallIsSound, Settings
<1>2. o = [f \in Fields |-> IF f \in DOMAIN m THEN m[f] ELSE ideal[f]]
  BY <1>1 DEF Over, Contents
<1>3. o \in Contents
  BY <1>1, <1>2 DEF Contents
<1>4. /\ p \in Seq(Instructions) /\ WholeAccesses(p) /\ OwnFields(p) /\ Apart(p)
      /\ FromLoaded(p, {}) /\ AsMeant(p, m) /\ SetsFields(p) = DOMAIN m
  BY DEF CallIsSound, Stretch
<1>5. \A f \in DOMAIN m : f \in Fields /\ o[f] = m[f]
  BY <1>1, <1>2
<1>6. \A f \in Fields : d.file[f] = o[f] \/ StillToSet(p, f)
  <2> SUFFICES ASSUME NEW f \in Fields, ~ StillToSet(p, f)
               PROVE  d.file[f] = o[f]
    OBVIOUS
  <2>1. f \notin DOMAIN m
    BY <1>4 DEF SetsFields
  <2> QED BY <1>2, <2>1
<1> HIDE DEF p, m, o
<1>7. Latched(p, d.lr)
  BY <1>4 DEF WholeAccesses, Latched
<1>8. Backed(p, d)
  BY <1>4 DEF FromLoaded, Backed
<1>9. Leaves(p, d.file, o)
  BY <1>4, <1>5, <1>6 DEF AsMeant, Leaves
<1> QED BY <1>3, <1>4, <1>7, <1>8, <1>9 DEF RegSound, p, m, o

\* Callers that do not enter a critical section are not among those considered.
OnlyGuarded == \A e \in RegEnvs : "unguarded" \notin e

LEMMA RegInitInv == RegInit => RegInv
<1> SUFFICES ASSUME RegInit PROVE RegInv
  OBVIOUS
<1>1. ResetFile \in Contents
  BY DEF ResetFile, Contents, Values
<1>2. "QCONFIGA" \in Registers
  BY DEF Registers, FieldsOf
<1>3. RegTypeOK
  BY <1>1, <1>2, NothingLeft DEF RegInit, RegTypeOK, Idle
<1>4. RegSound(<< >>, dcr, regIdeal)
  BY NothingLeft DEF RegInit
<1> QED BY <1>3, <1>4 DEF RegInit, RegInv, Idle

LEMMA RegNextInv ==
  ASSUME OnlyGuarded, RegInv, [RegNext]_regVars
  PROVE  RegInv'
<1> USE DEF RegInv
<1>1. CASE RegBegin
  <2>1. PICK guarded \in BOOLEAN :
          \E c \in (IF guarded THEN GuardedCalls(dcr.file) ELSE UnguardedCalls) :
            /\ regCall' = [on |-> TRUE, prog |-> c.prog, guarded |-> guarded]
            /\ regIdeal' = Over(c.meant, regIdeal)
    BY <1>1, Zenon DEF RegBegin
  <2>2. UnguardedCalls = {}
    BY DEF UnguardedCalls, OnlyGuarded, RegTypeOK
  <2>3. guarded
    BY <2>1, <2>2
  <2>4. PICK c \in GuardedCalls(dcr.file) :
          /\ regCall' = [on |-> TRUE, prog |-> c.prog, guarded |-> TRUE]
          /\ regIdeal' = Over(c.meant, regIdeal)
    BY <2>1, <2>3, Zenon
  <2>5. dcr.file \in Contents /\ regIdeal \in Contents
    BY DEF RegTypeOK
  <2>6. CallIsSound(c)
    BY <2>5, GuardedCallsAreSound
  <2>7. dcr.file = regIdeal
    <3>1. \A f \in Fields : dcr.file[f] = regIdeal[f]
      BY <1>1, NothingLeft DEF RegBegin, Idle
    <3> QED BY <2>5, <3>1 DEF Contents
  <2>8. /\ RegSound(c.prog, dcr, regIdeal')
        /\ regIdeal' \in Contents /\ c.prog \in Seq(Instructions)
    BY <2>4, <2>5, <2>6, <2>7, BeginsSound DEF RegTypeOK
  <2>9. dcr' = dcr /\ regEnv' = regEnv
    BY <1>1 DEF RegBegin
  <2>10. regCall'.prog = c.prog /\ regCall'.guarded
         /\ regCall' \in [on : BOOLEAN, prog : Seq(Instructions), guarded : BOOLEAN]
    BY <2>4, <2>8
  <2> QED BY <2>8, <2>9, <2>10 DEF RegTypeOK
<1>2. CASE RegStep
  <2>1. /\ regCall.prog # << >> /\ dcr' = Execute(dcr, Head(regCall.prog))
        /\ regCall' = [regCall EXCEPT !.prog = Tail(@)]
        /\ regIdeal' = regIdeal /\ regEnv' = regEnv
    BY <1>2 DEF RegStep
  <2>2. /\ dcr' \in [file : Contents, lr : Registers, val : Contents]
        /\ RegSound(Tail(regCall.prog), dcr', regIdeal)
    BY <2>1, InstructionKeeps DEF RegTypeOK
  <2>3. Tail(regCall.prog) \in Seq(Instructions)
    BY <2>1, TailOf DEF RegTypeOK
  <2>4. /\ regCall'.prog = Tail(regCall.prog) /\ regCall'.guarded = regCall.guarded
        /\ regCall' \in [on : BOOLEAN, prog : Seq(Instructions), guarded : BOOLEAN]
    BY <2>1, <2>3 DEF RegTypeOK
  <2>5. regCall.guarded
    BY <2>1 DEF Idle
  <2>6. regCall'.guarded
    BY <2>4, <2>5
  <2> QED BY <2>1, <2>2, <2>4, <2>6 DEF RegTypeOK
<1>3. CASE RegEnd
  <2>1. regCall' = Idle /\ regCall.prog = << >> /\ UNCHANGED <<dcr, regIdeal, regEnv>>
    BY <1>3 DEF RegEnd
  <2>2. Idle \in [on : BOOLEAN, prog : Seq(Instructions), guarded : BOOLEAN]
    BY NothingLeft DEF Idle
  <2> QED BY <2>1, <2>2 DEF RegTypeOK, Idle
<1>4. CASE RegEvent
  <2>1. /\ dcr' = [dcr EXCEPT !.file["event"] = 1, !.file["q_int"] = 1]
        /\ regIdeal' = [regIdeal EXCEPT !["event"] = 1, !["q_int"] = 1]
        /\ UNCHANGED <<regCall, regEnv>>
    BY <1>4 DEF RegEvent
  <2>2. {"event", "q_int"} \subseteq Fields
    BY DEF Fields, Registers, FieldsOf
  <2> DEFINE Raised(g) == [[g EXCEPT !["event"] = 1] EXCEPT !["q_int"] = 1]
  <2>a. ASSUME NEW g \in Contents
        PROVE  /\ Raised(g) \in Contents
               /\ \A f \in Fields : Raised(g)[f] = IF f \in {"event", "q_int"} THEN 1 ELSE g[f]
    <3>1. 1 \in Values
      BY DEF Values
    <3> PICK e : e = [g EXCEPT !["event"] = 1]
      OBVIOUS
    <3>2. OneChanged(e, g, "event", 1)
      BY <3>1, OneField
    <3>5. e \in Contents
      BY <3>2 DEF OneChanged
    <3> PICK r : r = [e EXCEPT !["q_int"] = 1]
      OBVIOUS
    <3>3. OneChanged(r, e, "q_int", 1)
      BY <3>1, <3>5, OneField
    <3>4. Raised(g) = r
      OBVIOUS
    <3> HIDE DEF Raised
    <3> QED BY <3>2, <3>3, <3>4 DEF OneChanged
  <2>b. dcr' = [dcr EXCEPT !.file = Raised(dcr.file)] /\ regIdeal' = Raised(regIdeal)
    BY <2>1
  <2> HIDE DEF Raised
  <2>3. /\ dcr' \in [file : Contents, lr : Registers, val : Contents]
        /\ dcr'.lr = dcr.lr /\ dcr'.val = dcr.val
        /\ dcr'.file = Raised(dcr.file)
    BY <2>a, <2>b DEF RegTypeOK
  <2>4. regIdeal' \in Contents
    BY <2>a, <2>b DEF RegTypeOK
  <2>5. RegTypeOK'
    BY <2>1, <2>3, <2>4 DEF RegTypeOK
  <2>6. \A f \in Fields :
          /\ dcr'.file[f] = IF f \in {"event", "q_int"} THEN 1 ELSE dcr.file[f]
          /\ regIdeal'[f] = IF f \in {"event", "q_int"} THEN 1 ELSE regIdeal[f]
    BY <2>a, <2>b, <2>3 DEF RegTypeOK
  <2> DEFINE p == regCall.prog
  <2>7. p \in Seq(Instructions) /\ OwnFields(p) /\ Backed(p, dcr) /\ Leaves(p, dcr.file, regIdeal)
    BY DEF RegSound, RegTypeOK
  <2> HIDE DEF p
  <2>8. ASSUME NEW j \in 1 .. Len(p), p[j].do = "store"
        PROVE  /\ FieldsOf[p[j].at] \subseteq Fields \ {"event", "q_int"}
               /\ DOMAIN p[j].set \subseteq FieldsOf[p[j].at]
    <3>1. p[j].at \in Registers
      <4>1. p[j] \in Instructions
        BY <2>7
      <4> QED BY <4>1 DEF Instructions
    <3> QED BY <2>7, <2>8, <3>1, FieldsAreFields DEF OwnFields
  <2>9. Backed(p, dcr')
    BY <2>3, <2>6, <2>7, <2>8 DEF Backed
  <2>10. Leaves(p, dcr'.file, regIdeal')
    <3>1. \A f \in Fields : dcr'.file[f] = regIdeal'[f] \/ StillToSet(p, f)
      BY <2>6, <2>7 DEF Leaves
    <3>2. ASSUME NEW j \in 1 .. Len(p), p[j].do = "store", NEW f \in DOMAIN p[j].set
          PROVE  p[j].set[f] = regIdeal'[f]
      <4>1. f \in Fields /\ f \notin {"event", "q_int"}
        BY <2>8, <3>2
      <4> QED BY <2>6, <2>7, <3>2, <4>1 DEF Leaves
    <3> QED BY <3>1, <3>2 DEF Leaves
  <2> QED BY <2>1, <2>3, <2>5, <2>9, <2>10 DEF RegSound, p
<1>5. CASE xp_osi_interrupt_access
  <2>1. /\ dcr.file["event"] = 1 /\ ~regCall.guarded
        /\ dcr' = [InterruptAccesses(dcr) EXCEPT !.val = dcr.val, !.file["q_int"] = 0]
        /\ regIdeal' = [regIdeal EXCEPT !["event"] = 0, !["q_int"] = 0]
        /\ UNCHANGED <<regCall, regEnv>>
    BY <1>5 DEF xp_osi_interrupt_access
  <2>2. regCall = Idle /\ \A f \in Fields : dcr.file[f] = regIdeal[f]
    BY <2>1, NothingLeft DEF Idle
  <2>3. dcr \in [file : Contents, lr : Registers, val : Contents]
    BY DEF RegTypeOK
  <2>4. /\ InterruptAccesses(dcr) \in [file : Contents, lr : Registers, val : Contents]
        /\ \A f \in Fields : InterruptAccesses(dcr).file[f]
                               = IF f = "event" THEN 0 ELSE dcr.file[f]
    BY <2>1, <2>3, HandlerEffect
  <2> PICK h : h = InterruptAccesses(dcr)
    OBVIOUS
  <2> PICK q : q = [h.file EXCEPT !["q_int"] = 0]
    OBVIOUS
  <2>5. dcr' = [h EXCEPT !.val = dcr.val, !.file = q]
    BY <2>1
  <2>a. 0 \in Values /\ h.file \in Contents /\ regIdeal \in Contents
    BY <2>4 DEF Values, RegTypeOK
  <2>d. OneChanged(q, h.file, "q_int", 0)
    BY <2>a, OneField
  <2>6. q \in Contents
    BY <2>d DEF OneChanged
  <2>7. /\ dcr' \in [file : Contents, lr : Registers, val : Contents]
        /\ dcr'.file = q
    BY <2>3, <2>4, <2>5, <2>6
  <2> PICK i : i = [regIdeal EXCEPT !["event"] = 0]
    OBVIOUS
  <2>b. OneChanged(i, regIdeal, "event", 0)
    BY <2>a, OneField
  <2>e. i \in Contents
    BY <2>b DEF OneChanged
  <2>c. regIdeal' = [i EXCEPT !["q_int"] = 0]
    BY <2>1
  <2>f. OneChanged(regIdeal', i, "q_int", 0)
    BY <2>a, <2>c, <2>e, OneField
  <2>8. regIdeal' \in Contents
    BY <2>f DEF OneChanged
  <2>9. \A f \in Fields : dcr'.file[f] = regIdeal'[f]
    BY <2>2, <2>4, <2>7, <2>b, <2>d, <2>f DEF OneChanged
  <2>10. RegSound(<< >>, dcr', regIdeal')
    BY <2>9, NothingLeft
  <2> QED BY <2>1, <2>2, <2>7, <2>8, <2>10 DEF RegTypeOK, Idle
<1>6. CASE UNCHANGED regVars
  BY <1>6 DEF regVars, RegTypeOK
<1> QED BY <1>1, <1>2, <1>3, <1>4, <1>5, <1>6 DEF RegNext

\* Whoever calls in a critical section leaves the registers as it was asked to,
\* and reads no word of another register: for any number of calls, with the
\* interrupt handler between any two of them (xp_atom_dcr_read,
\* xp_atom_dcr_write and every function built of them in xp_atom_dcr.c).
THEOREM RegistersAreTheirOwn ==
  ASSUME OnlyGuarded
  PROVE  RegSpec => []AccessesAreItsOwn
<1>1. RegInv => AccessesAreItsOwn
  <2> SUFFICES ASSUME RegInv, regCall.prog = << >>
               PROVE  dcr.file = regIdeal /\ \A f \in Fields : dcr.val[f] # Junk
    BY DEF AccessesAreItsOwn
  <2>1. dcr.file \in Contents /\ regIdeal \in Contents /\ dcr.val \in Contents
    BY DEF RegInv, RegTypeOK
  <2>2. \A f \in Fields : dcr.file[f] = regIdeal[f]
    BY NothingLeft DEF RegInv
  <2>3. dcr.file = regIdeal
    BY <2>1, <2>2 DEF Contents
  <2>4. \A f \in Fields : dcr.val[f] # Junk
    BY <2>1 DEF Contents, Values, Junk
  <2> QED BY <2>3, <2>4
<1> QED BY <1>1, RegInitInv, RegNextInv, PTL DEF RegSpec

-----------------------------------------------------------------------------
(* The unbuffered queue: the inductive invariant.                          *)
(*                                                                         *)
(* Offsets are compared by their distance from the read pointer.  What is  *)
(* filled reaches from there as far as the hardware has come; what the     *)
(* filter knows of it, and what the application was told of, no further.   *)

\* The offset an address names, the top being the start.
Offset(a) == IF a = UbBlocks THEN 0 ELSE a

\* How far x is from r around the ring.
Beyond(r, x) == IF x >= r THEN x - r ELSE x - r + UbBlocks

\* How many blocks are filled, from the read pointer on.
Filled(u) == IF u.full THEN UbBlocks ELSE Beyond(u.ulRead, Offset(u.wstart))

UbTypeOK ==
  /\ ub \in [states : {"ALLOC", "SET", "READY", "START"}, ulRead : UbOffsets,
             ulWrite : UbOffsets \cup {UbNowhere}, mapped : {"no", "queue", "freed"},
             wstart : 0 .. UbBlocks, rptr : 1 .. UbBlocks, full : BOOLEAN, run : BOOLEAN,
             qstat : SUBSET {"BTI", "RPI"}, posted : {0, 1}]
  /\ ubReader \in {"idle", "sleeping"}
  /\ ubTold \in [r : UbOffsets, w : UbOffsets]
  /\ ubUnread \subseteq UbOffsets

\* Nothing is left of the queue before.
Empty ==
  /\ ub.ulRead = 0 /\ ub.ulWrite = UbNowhere /\ ~ub.run
  /\ ubTold = UbNone /\ ubUnread = {}

\* The register follows the filter; a queue filled up to it has come round; the
\* filter knows of no more than is filled; and the application of no more than
\* the filter, unless the filter has come round since.
InOrderAround ==
  /\ Offset(ub.rptr) = ub.ulRead
  /\ ub.full => Offset(ub.wstart) = ub.ulRead
  /\ ubUnread = {c \in UbOffsets : Beyond(ub.ulRead, c) < Filled(ub)}
  /\ Beyond(ub.ulRead, UbWritten) <= Filled(ub)
  /\ \/ Beyond(ub.ulRead, ubTold.w) <= Beyond(ub.ulRead, UbWritten)
     \/ ub.full /\ UbWritten = ub.ulRead

UbInv ==
  /\ UbTypeOK
  /\ ubTold.r = ub.ulRead
  /\ IF ub.states = "ALLOC" THEN Empty ELSE InOrderAround

-----------------------------------------------------------------------------
(* The unbuffered queue: the arithmetic of the ring.                       *)

LEMMA OffsetIsRemainder ==
  /\ \A a \in 0 .. UbBlocks : a % UbBlocks = Offset(a)
  /\ \A a \in UbOffsets : a % UbBlocks = a
  /\ \A a \in 0 .. UbBlocks : Offset(a) \in UbOffsets
<1>1. UbBlocks \in Nat /\ UbBlocks > 0
  BY UbAssumption
<1>2. ASSUME NEW a \in 0 .. UbBlocks, a # UbBlocks PROVE a % UbBlocks = a
  BY <1>1, <1>2
<1>3. UbBlocks % UbBlocks = 0
  BY <1>1
<1> QED BY <1>1, <1>2, <1>3 DEF Offset, UbOffsets

LEMMA BeyondIsDistance ==
  ASSUME NEW r \in UbOffsets, NEW x \in UbOffsets
  PROVE  Beyond(r, x) \in UbOffsets /\ Beyond(r, x) \in Nat /\ Beyond(r, r) = 0
BY UbAssumption DEF Beyond, UbOffsets

LEMMA SameDistance ==
  ASSUME NEW r \in UbOffsets, NEW x \in UbOffsets, NEW y \in UbOffsets,
         Beyond(r, x) = Beyond(r, y)
  PROVE  x = y
BY UbAssumption DEF Beyond, UbOffsets

\* The block after x is one further away, or the read pointer itself.
LEMMA NextBeyond ==
  ASSUME NEW r \in UbOffsets, NEW x \in UbOffsets
  PROVE  /\ Offset(x + 1) # r => Beyond(r, Offset(x + 1)) = Beyond(r, x) + 1
         /\ Offset(x + 1) = r => Beyond(r, x) = UbBlocks - 1
BY UbAssumption DEF Beyond, UbOffsets, Offset

LEMMA CellsByDistance ==
  ASSUME NEW r \in UbOffsets, NEW x \in UbOffsets
  PROVE  UbCells(r, x) = {c \in UbOffsets : Beyond(r, c) < Beyond(r, x)}
BY UbAssumption DEF Beyond, UbOffsets, UbCells

\* Distances from a read pointer that has moved on to n.
LEMMA Moved ==
  ASSUME NEW r \in UbOffsets, NEW n \in UbOffsets, NEW x \in UbOffsets
  PROVE  Beyond(n, x) = IF Beyond(r, x) >= Beyond(r, n) THEN Beyond(r, x) - Beyond(r, n)
                        ELSE Beyond(r, x) - Beyond(r, n) + UbBlocks
BY UbAssumption DEF Beyond, UbOffsets

-----------------------------------------------------------------------------
(* The unbuffered queue: the steps.                                        *)

\* A step that leaves alone what the invariant compares.
LEMMA UbSame ==
  ASSUME UbInv, ub.states # "ALLOC" <=> ub'.states # "ALLOC",
         UbTypeOK',
         ub'.ulRead = ub.ulRead, ub'.ulWrite = ub.ulWrite, ub'.wstart = ub.wstart,
         ub'.rptr = ub.rptr, ub'.full = ub.full, ub.states = "ALLOC" => ~ub'.run,
         UNCHANGED <<ubTold, ubUnread>>
  PROVE  UbInv'
<1>1. Filled(ub)' = Filled(ub) /\ UbWritten' = UbWritten
  BY DEF Filled, UbWritten
<1>2. CASE ub.states = "ALLOC"
  BY <1>2 DEF UbInv, Empty
<1>3. CASE ub.states # "ALLOC"
  BY <1>1, <1>3 DEF UbInv, InOrderAround
<1> QED BY <1>2, <1>3

LEMMA UbSetInv == UbInv /\ UbSet => UbInv'
<1> SUFFICES ASSUME UbInv, UbSet PROVE UbInv'
  OBVIOUS
<1>1. /\ ub.states = "ALLOC" /\ Empty /\ UbTypeOK /\ ubTold.r = ub.ulRead
      /\ UNCHANGED <<ubReader, ubTold, ubUnread>>
  BY DEF UbSet, UbInv
<1>2. ub' = [ub EXCEPT !.states = "SET", !.wstart = 0, !.rptr = UbBlocks,
                       !.full = FALSE, !.run = FALSE, !.qstat = {}]
  BY DEF UbSet
<1>3. 0 \in 0 .. UbBlocks /\ UbBlocks \in 1 .. UbBlocks /\ 0 \in UbOffsets
  BY UbAssumption DEF UbOffsets
<1>4. UbTypeOK'
  BY <1>1, <1>2, <1>3 DEF UbTypeOK
<1>5. /\ ub'.ulRead = 0 /\ ub'.ulWrite = UbNowhere /\ ub'.wstart = 0 /\ ub'.rptr = UbBlocks
      /\ ub'.full = FALSE /\ ub'.states = "SET"
  BY <1>1, <1>2 DEF UbTypeOK, Empty
<1>6. Filled(ub)' = 0 /\ UbWritten' = 0
  BY <1>3, <1>5, BeyondIsDistance DEF Filled, UbWritten, Offset
<1>7. ubUnread' = {} /\ ubTold' = UbNone
  BY <1>1 DEF Empty
<1>8. {c \in UbOffsets : Beyond(0, c) < 0} = {}
  BY <1>3, BeyondIsDistance DEF UbOffsets
<1>9. InOrderAround'
  BY <1>3, <1>5, <1>6, <1>7, <1>8, BeyondIsDistance, UbAssumption
     DEF InOrderAround, Offset, UbNone
<1> QED BY <1>1, <1>4, <1>5, <1>7, <1>9 DEF UbInv, UbNone

LEMMA UbResetInv == UbInv /\ UbReset => UbInv'
<1> SUFFICES ASSUME UbInv, UbReset PROVE UbInv'
  OBVIOUS
<1>1. ub' = [ub EXCEPT !.states = "ALLOC", !.run = FALSE, !.qstat = {},
                       !.ulRead = 0, !.ulWrite = UbNowhere,
                       !.mapped = IF @ = "queue" THEN "freed" ELSE @]
  BY DEF UbReset
<1>2. ubReader' = "idle" /\ ubTold' = UbNone /\ ubUnread' = {} /\ 0 \in UbOffsets
  BY UbAssumption DEF UbReset, UbOffsets
<1>3. UbTypeOK'
  BY <1>1, <1>2 DEF UbInv, UbTypeOK, UbNone
<1>4. /\ ub'.states = "ALLOC" /\ ub'.ulRead = 0 /\ ub'.ulWrite = UbNowhere
      /\ ub'.run = FALSE
  BY <1>1 DEF UbInv, UbTypeOK
<1> QED BY <1>2, <1>3, <1>4 DEF UbInv, Empty, UbNone

LEMMA UbStoresInv == UbInv /\ (\E announced \in BOOLEAN : UbStores(announced)) => UbInv'
<1> SUFFICES ASSUME UbInv, NEW announced \in BOOLEAN, UbStores(announced) PROVE UbInv'
  OBVIOUS
<1> DEFINE at == Offset(ub.wstart)
           w == at + 1
           met == Offset(w) = Offset(ub.rptr)
<1>1. /\ UbTypeOK /\ ub.wstart \in 0 .. UbBlocks /\ ub.rptr \in 1 .. UbBlocks
      /\ ub.ulRead \in UbOffsets /\ ubTold.w \in UbOffsets /\ UbBlocks \in Nat \ {0, 1}
  BY UbAssumption DEF UbInv, UbTypeOK
<1>2. at \in UbOffsets /\ ub.wstart % UbBlocks = at
  BY <1>1, OffsetIsRemainder
<1>3. w \in 0 .. UbBlocks /\ w % UbBlocks = Offset(w) /\ Offset(w) \in UbOffsets
      /\ ub.rptr % UbBlocks = Offset(ub.rptr)
  BY <1>1, <1>2, OffsetIsRemainder DEF UbOffsets
<1>4. /\ ub.run /\ ~ub.full
      /\ ub' = [ub EXCEPT !.wstart = w, !.full = met, !.run = ~met,
                          !.qstat = @ \cup (IF announced THEN {"BTI"} ELSE {})
                                      \cup (IF met THEN {"RPI"} ELSE {})]
      /\ ubUnread' = ubUnread \cup {w - 1}
      /\ UNCHANGED <<ubReader, ubTold>>
  BY <1>2, <1>3 DEF UbStores
<1>5. ub.states # "ALLOC" /\ InOrderAround /\ ubTold.r = ub.ulRead
  BY <1>4 DEF UbInv, Empty
<1> DEFINE q == ub.qstat \cup (IF announced THEN {"BTI"} ELSE {}) \cup (IF met THEN {"RPI"} ELSE {})
<1>6. q \in SUBSET {"BTI", "RPI"} /\ met \in BOOLEAN
  BY <1>1 DEF UbTypeOK
<1>7. ub' = [ub EXCEPT !.wstart = w, !.full = met, !.run = ~met, !.qstat = q]
  BY <1>4
<1>8. w - 1 = at
  BY <1>2 DEF UbOffsets
<1> HIDE DEF at, w, met, q
<1>9. /\ ub'.wstart = w /\ ub'.full = met /\ ub'.ulRead = ub.ulRead
      /\ ub'.ulWrite = ub.ulWrite /\ ub'.rptr = ub.rptr /\ ub'.states = ub.states
      /\ ub' \in [states : {"ALLOC", "SET", "READY", "START"}, ulRead : UbOffsets,
                  ulWrite : UbOffsets \cup {UbNowhere}, mapped : {"no", "queue", "freed"},
                  wstart : 0 .. UbBlocks, rptr : 1 .. UbBlocks, full : BOOLEAN, run : BOOLEAN,
                  qstat : SUBSET {"BTI", "RPI"}, posted : {0, 1}]
  BY <1>1, <1>3, <1>6, <1>7 DEF UbTypeOK
<1>10. ubUnread' = ubUnread \cup {at} /\ ubUnread' \subseteq UbOffsets
  BY <1>1, <1>2, <1>4, <1>8 DEF UbTypeOK
<1>11. UbTypeOK'
  BY <1>1, <1>4, <1>9, <1>10 DEF UbTypeOK
<1>12. /\ Offset(ub.rptr) = ub.ulRead /\ Filled(ub) = Beyond(ub.ulRead, at)
       /\ ubUnread = {c \in UbOffsets : Beyond(ub.ulRead, c) < Filled(ub)}
       /\ Beyond(ub.ulRead, UbWritten) <= Filled(ub)
       /\ Beyond(ub.ulRead, ubTold.w) <= Beyond(ub.ulRead, UbWritten)
  BY <1>4, <1>5 DEF InOrderAround, Filled, at
\* One block more is filled, the one the hardware stood at.
<1>13. Filled(ub)' = Beyond(ub.ulRead, at) + 1
  <2>1. CASE met
    <3>1. Offset(w) = ub.ulRead
      BY <2>1, <1>12 DEF met
    <3>2. Beyond(ub.ulRead, at) = UbBlocks - 1
      BY <3>1, <1>1, <1>2 DEF Beyond, UbOffsets, w, Offset
    <3> QED BY <2>1, <3>2, <1>1, <1>9 DEF Filled
  <2>2. CASE ~met
    <3>1. Offset(w) # ub.ulRead
      BY <2>2, <1>12 DEF met
    <3>2. Beyond(ub.ulRead, Offset(w)) = Beyond(ub.ulRead, at) + 1
      BY <3>1, <1>1, <1>2, NextBeyond DEF w
    <3> QED BY <2>2, <3>2, <1>9 DEF Filled
  <2> QED BY <2>1, <2>2
<1>14. /\ Beyond(ub.ulRead, at) \in Nat
       /\ \A c \in UbOffsets : Beyond(ub.ulRead, c) \in Nat
       /\ \A c \in UbOffsets : Beyond(ub.ulRead, c) = Beyond(ub.ulRead, at) => c = at
  BY <1>1, <1>2, BeyondIsDistance, SameDistance
<1>15. ubUnread' = {c \in UbOffsets : Beyond(ub.ulRead, c) < Filled(ub)'}
  BY <1>2, <1>10, <1>12, <1>13, <1>14
<1>16. UbWritten' = UbWritten /\ UbWritten \in UbOffsets
  BY <1>1, <1>9 DEF UbWritten, UbTypeOK, UbOffsets
<1>17. Beyond(ub.ulRead, UbWritten) <= Filled(ub)'
  BY <1>12, <1>13, <1>14, <1>16
<1>18. ub'.full => Offset(ub'.wstart) = ub'.ulRead
  BY <1>9, <1>12 DEF met
<1>19. InOrderAround'
  BY <1>4, <1>9, <1>12, <1>15, <1>16, <1>17, <1>18 DEF InOrderAround
<1> QED BY <1>4, <1>5, <1>9, <1>11, <1>19 DEF UbInv

LEMMA UbCallbackInv == UbInv /\ UbCallback => UbInv'
<1> SUFFICES ASSUME UbInv, UbCallback PROVE UbInv'
  OBVIOUS
<1>1. /\ UbTypeOK /\ ub.wstart \in 0 .. UbBlocks /\ ub.ulRead \in UbOffsets
      /\ ubTold.w \in UbOffsets /\ ubTold.r = ub.ulRead /\ UbBlocks \in Nat \ {0, 1}
  BY UbAssumption DEF UbInv, UbTypeOK
<1> DEFINE at == Offset(ub.wstart)
           known == IF ub.states = "ALLOC" THEN ub.ulWrite ELSE at
<1>2. at \in UbOffsets /\ ub.wstart % UbBlocks = at
  BY <1>1, OffsetIsRemainder
<1>3. /\ ub' = [ub EXCEPT !.posted = 0, !.ulWrite = known]
      /\ ubReader' = "idle" /\ UNCHANGED <<ubTold, ubUnread>>
  BY <1>2 DEF UbCallback
<1>4. known \in UbOffsets \cup {UbNowhere}
  BY <1>1, <1>2 DEF UbTypeOK
<1> HIDE DEF known, at
<1>5. UbTypeOK'
  BY <1>1, <1>3, <1>4 DEF UbTypeOK
<1>6. /\ ub'.ulWrite = known /\ ub'.states = ub.states /\ ub'.ulRead = ub.ulRead
      /\ ub'.wstart = ub.wstart /\ ub'.rptr = ub.rptr /\ ub'.full = ub.full
      /\ ub'.run = ub.run
  BY <1>1, <1>3 DEF UbTypeOK
<1>7. CASE ub.states = "ALLOC"
  BY <1>1, <1>3, <1>5, <1>6, <1>7 DEF UbInv, Empty, known
<1>8. CASE ub.states # "ALLOC"
  <2>1. InOrderAround
    BY <1>8 DEF UbInv
  <2>2. Filled(ub)' = Filled(ub)
    BY <1>6 DEF Filled
  <2>3. UbWritten' = at
    BY <1>2, <1>6, <1>8 DEF UbWritten, known, UbOffsets, UbNowhere
  <2>4. ub.full => at = ub.ulRead
    BY <2>1 DEF InOrderAround, at
  <2>5. ~ub.full => Filled(ub) = Beyond(ub.ulRead, at)
    BY DEF Filled, at
  <2>6. Beyond(ub.ulRead, ub.ulRead) = 0 /\ Beyond(ub.ulRead, ubTold.w) \in Nat
        /\ Beyond(ub.ulRead, at) \in Nat /\ UbWritten \in UbOffsets
        /\ Beyond(ub.ulRead, UbWritten) \in Nat
    <3>1. UbWritten \in UbOffsets
      BY <1>1 DEF UbWritten, UbTypeOK, UbOffsets
    <3> QED BY <3>1, <1>1, <1>2, BeyondIsDistance
  <2>7. Beyond(ub.ulRead, at) <= Filled(ub)
    BY <2>4, <2>5, <2>6, <1>1 DEF Filled
  <2>8. \/ Beyond(ub.ulRead, ubTold.w) <= Beyond(ub.ulRead, at)
        \/ ub.full /\ at = ub.ulRead
    <3>1. CASE ub.full
      BY <3>1, <2>4
    <3>2. CASE ~ub.full
      BY <3>2, <2>1, <2>5, <2>6 DEF InOrderAround
    <3> QED BY <3>1, <3>2
  <2>9. InOrderAround'
    BY <1>3, <1>6, <2>1, <2>2, <2>3, <2>7, <2>8 DEF InOrderAround
  <2> QED BY <1>1, <1>3, <1>5, <1>6, <1>8, <2>9 DEF UbInv
<1> QED BY <1>7, <1>8

LEMMA UbGetInv == UbInv /\ demux_filter_get_queue => UbInv'
<1> SUFFICES ASSUME UbInv, demux_filter_get_queue PROVE UbInv'
  OBVIOUS
<1>1. /\ UbTypeOK /\ ub.ulRead \in UbOffsets /\ ubTold.r = ub.ulRead
      /\ ub.states = "START" /\ InOrderAround /\ ub' = ub /\ ubUnread' = ubUnread
  BY DEF UbInv, UbTypeOK, demux_filter_get_queue, UbStarted
<1>2. UbWritten \in UbOffsets
  BY <1>1, UbAssumption DEF UbWritten, UbTypeOK, UbOffsets
<1>3. UbWritten' = UbWritten /\ Filled(ub)' = Filled(ub)
  BY <1>1 DEF UbWritten, Filled
<1>4. CASE ub.ulRead # UbWritten
  <2>1. ubTold' = [r |-> ub.ulRead, w |-> UbWritten] /\ ubReader' = ubReader
    BY <1>4 DEF demux_filter_get_queue
  <2>2. ubTold'.r = ub.ulRead /\ ubTold'.w = UbWritten
        /\ ubTold' \in [r : UbOffsets, w : UbOffsets]
    BY <1>1, <1>2, <2>1
  <2>3. UbTypeOK'
    BY <1>1, <2>1, <2>2 DEF UbTypeOK
  <2>4. Beyond(ub.ulRead, UbWritten) \in Nat
    BY <1>1, <1>2, BeyondIsDistance
  <2>5. InOrderAround'
    BY <1>1, <1>3, <2>2, <2>4 DEF InOrderAround
  <2> QED BY <1>1, <2>2, <2>3, <2>5 DEF UbInv
<1>5. CASE ~(ub.ulRead # UbWritten)
  <2>1. ubTold' = ubTold /\ ubReader' = "sleeping"
    BY <1>5 DEF demux_filter_get_queue
  <2>2. UbTypeOK'
    BY <1>1, <2>1 DEF UbTypeOK
  <2> QED BY <1>1, <2>1, <2>2, UbSame
<1> QED BY <1>4, <1>5

\* The application gives back a part of what it was told of; the rest is nearer
\* by as much.
LEMMA UbGivesBackInv == UbInv /\ UbGivesBack => UbInv'
<1> SUFFICES ASSUME UbInv, NEW rp \in 0 .. UbBlocks,
                    UbCells(ubTold.r, rp % UbBlocks) \subseteq UbCells(ubTold.r, ubTold.w),
                    UbCells(ubTold.r, rp % UbBlocks) # {},
                    demux_filter_set_readptr(rp)
             PROVE  UbInv'
  BY DEF UbGivesBack
<1> DEFINE n == Offset(rp)
           r == ub.ulRead
           w == ubTold.w
           at == Offset(ub.wstart)
           full == ub.full /\ UbReadPointer(rp) = ub.rptr
<1>1. /\ UbTypeOK /\ r \in UbOffsets /\ w \in UbOffsets /\ ubTold.r = r
      /\ ub.wstart \in 0 .. UbBlocks /\ ub.rptr \in 1 .. UbBlocks
      /\ UbBlocks \in Nat \ {0, 1}
      /\ ubTold = [r |-> r, w |-> w] /\ UbWritten \in UbOffsets
  BY UbAssumption DEF UbInv, UbTypeOK, UbWritten, UbOffsets
<1>2. /\ n \in UbOffsets /\ rp % UbBlocks = n /\ at \in UbOffsets
  BY <1>1, OffsetIsRemainder
<1>3. UbReadPointer(rp) \in 1 .. UbBlocks /\ Offset(UbReadPointer(rp)) = n
  BY <1>1, <1>2 DEF UbReadPointer, Offset
<1>4. /\ ub.states = "START" /\ InOrderAround
      /\ ub' = [ub EXCEPT !.ulRead = n, !.rptr = UbReadPointer(rp), !.full = full]
      /\ ubTold' = [ubTold EXCEPT !.r = n]
      /\ ubUnread' = ubUnread \ UbCells(r, n)
      /\ ubReader' = ubReader
  BY <1>2 DEF demux_filter_set_readptr, UbStarted, UbInv
<1>5. full \in BOOLEAN
  BY <1>1 DEF UbTypeOK
<1>6. UbCells(r, n) \subseteq UbCells(r, w) /\ UbCells(r, n) # {}
  BY <1>1, <1>2
<1> HIDE DEF n, at, w, r, full
<1>7. UbCells(r, n) = {c \in UbOffsets : Beyond(r, c) < Beyond(r, n)}
  BY <1>1, <1>2, CellsByDistance
<1>8. UbCells(r, w) = {c \in UbOffsets : Beyond(r, c) < Beyond(r, w)}
  BY <1>1, CellsByDistance
<1>9. /\ \A c \in UbOffsets : Beyond(r, c) \in Nat /\ Beyond(r, c) < UbBlocks
      /\ Beyond(r, r) = 0
      /\ \A c, d \in UbOffsets : Beyond(r, c) = Beyond(r, d) => c = d
  BY <1>1, BeyondIsDistance, SameDistance DEF UbOffsets
<1>10. Beyond(r, n) > 0
  BY <1>2, <1>6, <1>7, <1>9
<1>11. Beyond(r, n) <= Beyond(r, w)
  <2>1. ~(Beyond(r, w) < Beyond(r, n))
    BY <1>1, <1>6, <1>7, <1>8, <1>9
  <2> QED BY <2>1, <1>1, <1>2, <1>9
<1>12. r = ub.ulRead /\ w = ubTold.w /\ at = Offset(ub.wstart)
  BY DEF r, w, at
<1>13. /\ ub'.ulRead = n /\ ub'.rptr = UbReadPointer(rp) /\ ub'.full = full
       /\ ub'.ulWrite = ub.ulWrite /\ ub'.wstart = ub.wstart /\ ub'.states = "START"
  BY <1>1, <1>4 DEF UbTypeOK
<1>14. ubTold' = [r |-> n, w |-> w] /\ ubUnread' \subseteq UbOffsets
  BY <1>1, <1>4 DEF UbTypeOK
<1>15. UbTypeOK'
  BY <1>1, <1>2, <1>3, <1>4, <1>5, <1>14 DEF UbTypeOK
\* The register has moved, so a queue that was full is not any more.
<1>16. ~full
  <2>1. n # r
    BY <1>9, <1>10
  <2>2. Offset(ub.rptr) = r
    BY <1>4, <1>12 DEF InOrderAround
  <2> QED BY <1>3, <2>1, <2>2 DEF full
<1>17. Filled(ub)' = Beyond(n, at)
  BY <1>12, <1>13, <1>16 DEF Filled
<1>18. UbWritten' = UbWritten
  BY <1>13 DEF UbWritten
<1>19. \A x \in UbOffsets :
         Beyond(n, x) = IF Beyond(r, x) >= Beyond(r, n) THEN Beyond(r, x) - Beyond(r, n)
                        ELSE Beyond(r, x) - Beyond(r, n) + UbBlocks
  BY <1>1, <1>2, Moved
\* How far the hardware, the filter and the application have come, from r.
<1>20. /\ ub.full => at = r /\ Filled(ub) = UbBlocks
       /\ ~ub.full => Filled(ub) = Beyond(r, at)
       /\ ubUnread = {c \in UbOffsets : Beyond(r, c) < Filled(ub)}
       /\ Beyond(r, UbWritten) <= Filled(ub)
       /\ \/ Beyond(r, w) <= Beyond(r, UbWritten)
          \/ ub.full /\ UbWritten = r
  BY <1>4, <1>12 DEF InOrderAround, Filled
<1>21. Filled(ub)' = Filled(ub) - Beyond(r, n)
  <2>1. CASE ub.full
    BY <2>1, <1>1, <1>2, <1>9, <1>10, <1>17, <1>19, <1>20
  <2>2. CASE ~ub.full
    <3>1. Beyond(r, n) <= Beyond(r, at)
      BY <2>2, <1>1, <1>2, <1>9, <1>11, <1>20
    <3> QED BY <2>2, <3>1, <1>2, <1>17, <1>19, <1>20
  <2> QED BY <2>1, <2>2
<1>22. Filled(ub) \in Nat /\ Filled(ub) <= UbBlocks
  BY <1>1, <1>2, <1>9, <1>20
<1>23. ubUnread' = {c \in UbOffsets : Beyond(n, c) < Filled(ub)'}
  <2>1. ASSUME NEW c \in UbOffsets
        PROVE  c \in ubUnread' <=> Beyond(n, c) < Filled(ub)'
    <3>1. c \in ubUnread' <=> Beyond(r, c) < Filled(ub) /\ ~(Beyond(r, c) < Beyond(r, n))
      BY <1>4, <1>7, <1>20
    <3> HIDE <1>4
    <3> QED BY <3>1, <1>1, <1>2, <1>9, <1>19, <1>21, <1>22
  <2> QED BY <2>1, <1>14
<1>24. Beyond(n, UbWritten) <= Filled(ub)'
  <2>1. CASE ub.full /\ UbWritten = r
    BY <2>1, <1>1, <1>2, <1>9, <1>10, <1>19, <1>20, <1>21
  <2>2. CASE Beyond(r, w) <= Beyond(r, UbWritten)
    BY <2>2, <1>1, <1>2, <1>9, <1>11, <1>19, <1>20, <1>21, <1>22
  <2> QED BY <2>1, <2>2, <1>20
<1>25. Beyond(n, w) <= Beyond(n, UbWritten)
  <2>1. CASE ub.full /\ UbWritten = r
    BY <2>1, <1>1, <1>2, <1>9, <1>10, <1>11, <1>19
  <2>2. CASE Beyond(r, w) <= Beyond(r, UbWritten)
    BY <2>2, <1>1, <1>2, <1>9, <1>11, <1>19
  <2> QED BY <2>1, <2>2, <1>20
<1>26. InOrderAround'
  BY <1>3, <1>13, <1>14, <1>16, <1>18, <1>23, <1>24, <1>25 DEF InOrderAround
<1> QED BY <1>13, <1>14, <1>15, <1>26 DEF UbInv

LEMMA UbInitInv == UbInit => UbInv
<1> SUFFICES ASSUME UbInit PROVE UbInv
  OBVIOUS
<1>1. 0 \in UbOffsets /\ 0 \in 0 .. UbBlocks /\ UbBlocks \in 1 .. UbBlocks
  BY UbAssumption DEF UbOffsets
<1>2. UbTypeOK
  BY <1>1 DEF UbInit, UbTypeOK, UbNone
<1> QED BY <1>2 DEF UbInit, UbInv, Empty, UbNone

LEMMA UbNextInv == UbInv /\ [UbNext]_ubVars => UbInv'
<1> SUFFICES ASSUME UbInv, [UbNext]_ubVars PROVE UbInv'
  OBVIOUS
<1>1. CASE demux_filter_mmap
  <2>1. ub' = [ub EXCEPT !.mapped = "queue"] /\ UNCHANGED <<ubReader, ubTold, ubUnread>>
    BY <1>1 DEF demux_filter_mmap
  <2>2. UbTypeOK'
    BY <2>1 DEF UbInv, UbTypeOK
  <2> QED BY <2>1, <2>2, UbSame DEF UbInv, UbTypeOK, Empty
<1>2. CASE vma_close
  <2>1. ub' = [ub EXCEPT !.mapped = "no"] /\ UNCHANGED <<ubReader, ubTold, ubUnread>>
    BY <1>2 DEF vma_close
  <2>2. UbTypeOK'
    BY <2>1 DEF UbInv, UbTypeOK
  <2> QED BY <2>1, <2>2, UbSame DEF UbInv, UbTypeOK, Empty
<1>3. CASE UbStart
  <2>1. /\ ub.states \in {"SET", "READY"}
        /\ ub' = [ub EXCEPT !.states = "START", !.run = TRUE, !.qstat = {}]
        /\ UNCHANGED <<ubReader, ubTold, ubUnread>>
    BY <1>3 DEF UbStart
  <2>2. UbTypeOK'
    BY <2>1 DEF UbInv, UbTypeOK
  <2> QED BY <2>1, <2>2, UbSame DEF UbInv, UbTypeOK, Empty
<1>4. CASE UbStop
  <2>1. /\ ub.states = "START" /\ ubReader' = "idle"
        /\ ub' = [ub EXCEPT !.states = "READY", !.run = FALSE, !.qstat = {}]
        /\ UNCHANGED <<ubTold, ubUnread>>
    BY <1>4 DEF UbStop, UbStarted
  <2>2. UbTypeOK'
    BY <2>1 DEF UbInv, UbTypeOK
  <2> QED BY <2>1, <2>2, UbSame DEF UbInv, UbTypeOK, Empty
<1>5. CASE UbInterrupt
  <2>1. /\ ub' = [ub EXCEPT !.qstat = {}, !.posted = IF "BTI" \in ub.qstat THEN 1 ELSE 0]
        /\ UNCHANGED <<ubReader, ubTold, ubUnread>>
    BY <1>5 DEF UbInterrupt
  <2>2. UbTypeOK'
    BY <2>1 DEF UbInv, UbTypeOK
  <2> QED BY <2>1, <2>2, UbSame DEF UbInv, UbTypeOK, Empty
<1>6. CASE UbGivesUp
  <2>1. ubReader' = "idle" /\ UNCHANGED <<ub, ubTold, ubUnread>>
    BY <1>6 DEF UbGivesUp
  <2>2. UbTypeOK'
    BY <2>1 DEF UbInv, UbTypeOK
  <2> QED BY <2>1, <2>2, UbSame DEF UbInv, UbTypeOK, Empty
<1>7. CASE UNCHANGED ubVars
  BY <1>7 DEF ubVars, UbInv, UbTypeOK, Empty, InOrderAround, Filled, UbWritten
<1> QED BY <1>1, <1>2, <1>3, <1>4, <1>5, <1>6, <1>7, UbSetInv, UbResetInv, UbStoresInv,
           UbCallbackInv, UbGetInv, UbGivesBackInv DEF UbNext

\* The application reads only what the hardware has stored and nobody has given
\* back, and the hardware never writes there: for a queue of any size, and with
\* the interrupt, its deferred callback, stops, resets and signals in any order
\* (DemuxCallback_nb, demux_filter_get_queue, demux_filter_set_readptr,
\* DemuxFilterReset).
THEOREM UnreadBlocksAreSafe == UbSpec => []ReaderHasItsBlocks
<1>1. UbInv => ReaderHasItsBlocks
  <2> SUFFICES ASSUME UbInv PROVE ReaderHasItsBlocks
    OBVIOUS
  <2>1. /\ ub.ulRead \in UbOffsets /\ ubTold.w \in UbOffsets /\ ubTold.r = ub.ulRead
        /\ ub.wstart \in 0 .. UbBlocks /\ UbWritten \in UbOffsets
    BY UbAssumption DEF UbInv, UbTypeOK, UbWritten, UbOffsets
  <2>2. CASE ub.states = "ALLOC"
    <3>1. ubTold = UbNone /\ ~ub.run
      BY <2>2 DEF UbInv, Empty
    <3>2. UbCells(ubTold.r, ubTold.w) = {}
      BY <3>1 DEF UbNone, UbCells
    <3> QED BY <2>2, <3>1, <3>2 DEF ReaderHasItsBlocks
  <2>3. CASE ub.states # "ALLOC"
    <3>1. InOrderAround
      BY <2>3 DEF UbInv
    <3>a. \A c \in UbOffsets : Beyond(ub.ulRead, c) \in UbOffsets
      BY <2>1, BeyondIsDistance
    <3>2. /\ \A c \in UbOffsets : Beyond(ub.ulRead, c) \in Nat
                                  /\ Beyond(ub.ulRead, c) < UbBlocks
          /\ UbBlocks \in Nat
      BY <3>a, UbAssumption DEF UbOffsets
    <3>3. Filled(ub) \in Nat
      BY <2>1, <3>2, OffsetIsRemainder DEF Filled
    <3>4. Beyond(ub.ulRead, ubTold.w) <= Filled(ub)
      BY <2>1, <3>1, <3>2, <3>3 DEF InOrderAround, Filled
    <3>5. UbCells(ub.ulRead, ubTold.w) \subseteq ubUnread
      BY <2>1, <3>1, <3>2, <3>3, <3>4, CellsByDistance DEF InOrderAround
    <3>6. UbCells(ub.ulRead, UbWritten) \subseteq ubUnread
      BY <2>1, <3>1, <3>2, <3>3, CellsByDistance DEF InOrderAround
    <3>7. ASSUME ~ub.full PROVE ub.wstart % UbBlocks \notin ubUnread
      <4>1. ub.wstart % UbBlocks = Offset(ub.wstart) /\ Offset(ub.wstart) \in UbOffsets
        BY <2>1, OffsetIsRemainder
      <4>2. Filled(ub) = Beyond(ub.ulRead, Offset(ub.wstart))
        BY <3>7 DEF Filled
      <4> QED BY <3>1, <3>3, <4>1, <4>2 DEF InOrderAround
    <3> QED BY <2>1, <3>5, <3>6, <3>7 DEF ReaderHasItsBlocks
  <2> QED BY <2>2, <2>3
<1> QED BY <1>1, UbInitInv, UbNextInv, PTL DEF UbSpec

-----------------------------------------------------------------------------
(* The channels: the inductive invariant.                                  *)
(*                                                                         *)
(* What the registers say of the listeners does not depend on the channels, *)
(* and what they say of the channels not on the listeners.  The bucket      *)
(* needs more: its own PID register matches nothing, or freeing it would    *)
(* leave a channel that matches and is not used.                            *)

ChannelStates == {"UNUSED", "DISABLED", "ENABLED"}
ChannelRecords ==
  [status : ChannelStates, pid : Int,
   unload : {"UNDEFINED", "TRANSPORT", "PES", "SECTION"}]

\* The transport's tables and registers have the parts they begin with.
Tables(d) ==
  /\ d = [ch |-> d.ch, bucket |-> d.bucket, tab |-> d.tab, reg |-> d.reg, msgs |-> d.msgs]
  /\ d.reg = [pid |-> d.reg.pid, bvalid |-> d.reg.bvalid, bindx |-> d.reg.bindx,
              qint |-> d.reg.qint, qstatmask |-> d.reg.qstatmask,
              intmask |-> d.reg.intmask, qstat |-> d.reg.qstat]
  /\ d.ch \in [XcChannels -> ChannelRecords]
  /\ d.bucket \in XcPes \cup {NOBUCKET}
  /\ d.tab = [k \in XcTables |-> d.tab[k]]
  /\ d.reg.pid \in [XcChannels -> Int]
  /\ d.reg.bvalid \in BOOLEAN

\* As ListenersUnmasked, of any tables and registers.
Heard(d) ==
  /\ \A c \in XcChannels :
       MasksOf(d.tab[c]) # {} =>
         c \in d.reg.qint /\ MasksOf(d.tab[c]) \subseteq XcMasked(d)
  /\ MasksOf(d.tab[PRIMARY]) \subseteq d.reg.intmask

\* As PidFollowsStatus, and the bucket is a channel in use without a PID.
Matched(d) ==
  /\ \A c \in XcChannels :
       d.reg.pid[c] = IF c # d.bucket /\ d.ch[c].status = "ENABLED"
                      THEN d.ch[c].pid ELSE NULLPID
  /\ d.bucket \in XcChannels => XcValid(d, d.bucket)
  /\ d.reg.bvalid => d.reg.bindx = d.bucket /\ d.bucket \in XcChannels

Agreeing(d) == Tables(d) /\ Heard(d) /\ Matched(d)

XcInv ==
  /\ Agreeing(xc)
  /\ xcUse = [c \in XcChannels |-> xcUse[c]]
  /\ \A c \in XcChannels : xcUse[c] = "BUCKET" <=> c = xc.bucket

LEMMA ChannelNumbers ==
  /\ XcChannels \subseteq 0 .. 31 /\ XcPes \subseteq XcChannels
  /\ NOBUCKET \notin XcChannels /\ PRIMARY \notin XcChannels
  /\ PRIMARY \in XcTables /\ XcChannels \subseteq XcTables
  /\ VIDEO \in XcChannels /\ VIDEO \in XcFixed /\ VIDEO \notin XcPes
BY XcAssumption DEF XcChannels, NOBUCKET, PRIMARY, VIDEO, XcTables

\* A set of channels has a highest one.
LEMMA HighestChannel ==
  ASSUME NEW S, S \subseteq 0 .. 31, S # {}
  PROVE  Max(S) \in S
<1> DEFINE Bounds == {n \in Nat : \A y \in S : n >= y}
           R == OpToRel(<, Nat)
<1>1. Bounds \subseteq Nat /\ Bounds # {}
  <2>1. 31 \in Bounds
    OBVIOUS
  <2> QED BY <2>1
<1>2. IsWellFoundedOn(R, Nat)
  BY NatLessThanWellFounded
<1> HIDE DEF Bounds
<1>3. PICK x \in Bounds : \A y \in Bounds : ~ (<<y, x>> \in R)
  <2> HIDE DEF R
  <2> QED BY <1>1, <1>2, WFMin
<1>4. \A y \in Bounds : ~(y < x)
  BY <1>1, <1>3 DEF OpToRel
<1>5. x \in Nat /\ \A y \in S : x >= y
  BY <1>3 DEF Bounds
<1>6. x \in S
  <2> SUFFICES ASSUME x \notin S PROVE FALSE
    OBVIOUS
  <2>1. \A y \in S : x - 1 >= y
    BY <1>5
  <2>2. x - 1 \in Nat
    <3>1. PICK y \in S : TRUE
      OBVIOUS
    <3>2. y \in 0 .. 31 /\ x - 1 >= y
      BY <2>1, <3>1
    <3> QED BY <1>5, <3>2
  <2>3. x - 1 \in Bounds
    BY <2>1, <2>2 DEF Bounds
  <2> QED BY <1>4, <1>5, <2>3
<1> QED BY <1>5, <1>6 DEF Max

-----------------------------------------------------------------------------
(* The channels: listeners.                                                *)

\* e agrees with d on the channels and the registers that match PIDs.
SamePids(d, e) ==
  /\ e.ch = d.ch /\ e.bucket = d.bucket /\ e.reg.pid = d.reg.pid
  /\ e.reg.bvalid = d.reg.bvalid /\ e.reg.bindx = d.reg.bindx

\* e agrees with d on the tables of listeners and the registers that unmask them.
SameListeners(d, e) ==
  /\ e.tab = d.tab /\ e.reg.qint = d.reg.qint
  /\ e.reg.qstatmask = d.reg.qstatmask /\ e.reg.intmask = d.reg.intmask

LEMMA PidsStayMatched ==
  ASSUME NEW d, NEW e, SamePids(d, e), Matched(d)
  PROVE  Matched(e)
BY DEF SamePids, Matched, XcValid

LEMMA ListenersStayHeard ==
  ASSUME NEW d, NEW e, SameListeners(d, e), Heard(d)
  PROVE  Heard(e)
BY DEF SameListeners, Heard, XcMasked

\* The mask registers are written from every table there is.
LEMMA MaskCoversTables ==
  ASSUME NEW d, Tables(d), NEW c \in XcChannels,
         \A k \in XcChannels : MasksOf(d.tab[k]) # {} => k \in d.reg.qint,
         MasksOf(d.tab[PRIMARY]) \subseteq d.reg.intmask
  PROVE  LET e == MaskWritten(d, c)
         IN  Tables(e) /\ Heard(e) /\ SamePids(d, e)
<1> DEFINE e == MaskWritten(d, c)
<1>1. \A k \in XcChannels : MasksOf(d.tab[k]) \subseteq XpInterChanMask(d)
  BY DEF XpInterChanMask
<1>2. CASE XcVesta
  <2>1. e = [d EXCEPT !.reg.intmask = XpInterChanMask(d) \cup XpInterPriMask(d)]
    BY <1>2 DEF MaskWritten
  <2>2. Tables(e) /\ SamePids(d, e) /\ e.tab = d.tab /\ e.reg.qint = d.reg.qint
        /\ e.reg.intmask = XpInterChanMask(d) \cup XpInterPriMask(d)
    BY <2>1 DEF Tables, SamePids
  <2>3. Heard(e)
    BY <1>1, <1>2, <2>2 DEF Heard, XcMasked, XpInterPriMask
  <2> QED BY <2>2, <2>3
<1>3. CASE ~XcVesta
  <2>1. e = [d EXCEPT !.reg.qstatmask = XpInterChanMask(d)]
    BY <1>3 DEF MaskWritten
  <2>2. Tables(e) /\ SamePids(d, e) /\ e.tab = d.tab /\ e.reg.qint = d.reg.qint
        /\ e.reg.intmask = d.reg.intmask /\ e.reg.qstatmask = XpInterChanMask(d)
    BY <2>1 DEF Tables, SamePids
  <2>3. Heard(e)
    BY <1>1, <1>3, <2>2 DEF Heard, XcMasked
  <2> QED BY <2>2, <2>3
<1> QED BY <1>2, <1>3

LEMMA AddingIsHeard ==
  ASSUME NEW d, Tables(d), Heard(d), NEW c \in XcChannels, NEW m, NEW fn
  PROVE  LET e == xp_osi_interrupt_channel_notify(d, "ADD", c, m, fn)
         IN  Tables(e) /\ Heard(e) /\ SamePids(d, e)
<1> DEFINE r == Changed(d.tab[c], "ADD", m, fn)
           f == [d EXCEPT !.tab[c] = r.t]
           g == interrupt_enable(f, c, TRUE)
           e == xp_osi_interrupt_channel_notify(d, "ADD", c, m, fn)
<1>1. CASE ~r.ok
  <2>1. e = d
    BY <1>1 DEF xp_osi_interrupt_channel_notify
  <2> QED BY <2>1 DEF SamePids
<1>2. CASE r.ok
  <2>1. e = MaskWritten(g, c)
    BY <1>2 DEF xp_osi_interrupt_channel_notify
  <2> HIDE DEF r
  <2>2. Tables(f) /\ SamePids(d, f) /\ f.reg = d.reg
        /\ \A k \in XcTables \ {c} : f.tab[k] = d.tab[k]
    BY ChannelNumbers DEF Tables, SamePids
  <2>3. g = [f EXCEPT !.reg.qint = @ \cup {c}]
    BY DEF interrupt_enable
  <2> HIDE DEF f, g
  <2>4. Tables(g) /\ SamePids(d, g) /\ g.tab = f.tab /\ g.reg.qint = d.reg.qint \cup {c}
        /\ g.reg.intmask = d.reg.intmask
    BY <2>2, <2>3 DEF Tables, SamePids
  <2>5. \A k \in XcChannels : MasksOf(g.tab[k]) # {} => k \in g.reg.qint
    BY <2>2, <2>4, ChannelNumbers DEF Heard
  <2>6. MasksOf(g.tab[PRIMARY]) \subseteq g.reg.intmask
    BY <2>2, <2>4, ChannelNumbers DEF Heard
  <2> HIDE DEF e
  <2>7. Tables(e) /\ Heard(e) /\ SamePids(g, e)
    BY <2>1, <2>4, <2>5, <2>6, MaskCoversTables
  <2>8. SamePids(d, e)
    BY <2>4, <2>7 DEF SamePids
  <2> QED BY <2>7, <2>8 DEF e
<1> QED BY <1>1, <1>2

LEMMA PrimaryIsHeard ==
  ASSUME NEW d, Tables(d), Heard(d), NEW cmd, NEW m, NEW fn
  PROVE  LET e == xp_osi_interrupt_notify(d, cmd, m, fn)
         IN  Tables(e) /\ Heard(e) /\ SamePids(d, e)
<1> DEFINE r == Changed(d.tab[PRIMARY], cmd, m, fn)
           f == [d EXCEPT !.tab[PRIMARY] = r.t]
           mask == XpInterPriMask(f) \cup (IF XcVesta THEN XpInterChanMask(f) ELSE {})
           e == xp_osi_interrupt_notify(d, cmd, m, fn)
<1>1. CASE ~r.ok
  <2>1. e = d
    BY <1>1 DEF xp_osi_interrupt_notify
  <2> QED BY <2>1 DEF SamePids
<1>2. CASE r.ok
  <2>1. e = [f EXCEPT !.reg.intmask = mask]
    BY <1>2 DEF xp_osi_interrupt_notify
  <2> HIDE DEF r
  <2>2. Tables(f) /\ SamePids(d, f) /\ f.reg = d.reg
        /\ \A k \in XcTables \ {PRIMARY} : f.tab[k] = d.tab[k]
    BY ChannelNumbers DEF Tables, SamePids
  <2> HIDE DEF f, e
  <2>3. Tables(e) /\ SamePids(d, e) /\ e.tab = f.tab /\ e.reg.qint = d.reg.qint
        /\ e.reg.qstatmask = d.reg.qstatmask /\ e.reg.intmask = mask
    <3> HIDE DEF mask
    <3> QED BY <2>1, <2>2 DEF Tables, SamePids
  <2>4. MasksOf(e.tab[PRIMARY]) \subseteq e.reg.intmask
    BY <2>3 DEF XpInterPriMask
  <2>5. \A k \in XcChannels : e.tab[k] = d.tab[k]
    BY <2>2, <2>3, ChannelNumbers
  <2>6. XcVesta => \A k \in XcChannels : MasksOf(e.tab[k]) \subseteq e.reg.intmask
    BY <2>3 DEF XpInterChanMask
  <2>7. Heard(e)
    BY <2>3, <2>4, <2>5, <2>6 DEF Heard, XcMasked
  <2> QED BY <2>3, <2>7 DEF e
<1> QED BY <1>1, <1>2

\* A table that is given back has no listener.
LEMMA FreedIsHeard ==
  ASSUME NEW d, Tables(d), Heard(d), NEW c \in XcChannels
  PROVE  LET e == xp_osi_interrupt_channel_free(d, c)
         IN  Tables(e) /\ Heard(e) /\ SamePids(d, e)
<1> DEFINE e == xp_osi_interrupt_channel_free(d, c)
<1>1. Tables(e) /\ SamePids(d, e) /\ e.reg = d.reg /\ e.tab[c] = << >>
      /\ \A k \in XcTables \ {c} : e.tab[k] = d.tab[k]
  BY ChannelNumbers DEF Tables, SamePids, xp_osi_interrupt_channel_free, reset_mask
<1>2. MasksOf(e.tab[c]) = {}
  <2>1. DOMAIN << >> = {}
    OBVIOUS
  <2> QED BY <1>1, <2>1 DEF MasksOf
<1>3. Heard(e)
  <2> HIDE DEF e
  <2> QED BY <1>1, <1>2, ChannelNumbers DEF Heard, XcMasked
<1> QED BY <1>1, <1>3

-----------------------------------------------------------------------------
(* The channels: what is done to one of them.                              *)

\* Only channel c, its PID register and the bucket's register may differ.
OnlyChannel(d, e, c) ==
  /\ Tables(e) /\ SameListeners(d, e)
  /\ \A k \in XcChannels \ {c} : e.ch[k] = d.ch[k] /\ e.reg.pid[k] = d.reg.pid[k]

LEMMA EventsForgotten ==
  ASSUME NEW d, Tables(d), NEW c \in XcChannels
  PROVE  LET e == interrupt_reset(d, c)
         IN  Tables(e) /\ SameListeners(d, e) /\ SamePids(d, e)
<1> DEFINE q == [d.reg.qstat EXCEPT ![c] = {}]
<1>1. interrupt_reset(d, c) = [d EXCEPT !.reg.qstat = q]
  BY DEF interrupt_reset
<1> HIDE DEF q
<1> QED BY <1>1 DEF Tables, SameListeners, SamePids

LEMMA ChannelReplaced ==
  ASSUME NEW d, Tables(d), NEW c \in XcChannels, NEW h \in ChannelRecords
  PROVE  LET e == [d EXCEPT !.ch[c] = h]
         IN  /\ Tables(e) /\ SameListeners(d, e) /\ e.bucket = d.bucket /\ e.reg = d.reg
             /\ e.ch[c] = h /\ \A k \in XcChannels \ {c} : e.ch[k] = d.ch[k]
<1> DEFINE chs == [d.ch EXCEPT ![c] = h]
<1>1. [d EXCEPT !.ch[c] = h] = [d EXCEPT !.ch = chs]
  OBVIOUS
<1>2. chs \in [XcChannels -> ChannelRecords] /\ chs[c] = h
      /\ \A k \in XcChannels \ {c} : chs[k] = d.ch[k]
  BY DEF Tables
<1> HIDE DEF chs
<1> QED BY <1>1, <1>2 DEF Tables, SameListeners

LEMMA StoppedAgrees ==
  ASSUME NEW d, Agreeing(d), NEW c \in XcChannels
  PROVE  LET e == channel_off(d, c)
         IN  /\ Agreeing(e) /\ e.bucket = d.bucket /\ e.ch[c].status = "DISABLED"
             /\ c = d.bucket => ~e.reg.bvalid
             /\ e.reg.pid[c] = NULLPID
<1> DEFINE r == interrupt_reset(d, c)
           f == [r EXCEPT !.ch[c].status = "DISABLED"]
           e == channel_off(d, c)
<1>1. Tables(r) /\ SameListeners(d, r) /\ SamePids(d, r)
  BY EventsForgotten DEF Agreeing
<1> HIDE DEF r
<1>2. /\ Tables(f) /\ SameListeners(d, f) /\ f.bucket = d.bucket /\ f.reg = r.reg
      /\ f.ch[c].status = "DISABLED" /\ \A k \in XcChannels \ {c} : f.ch[k] = d.ch[k]
  <2> DEFINE h == [r.ch[c] EXCEPT !.status = "DISABLED"]
  <2>1. h \in ChannelRecords /\ h.status = "DISABLED"
    BY <1>1 DEF Tables, ChannelRecords, ChannelStates
  <2>2. f = [r EXCEPT !.ch[c] = h]
    OBVIOUS
  <2> HIDE DEF h, f
  <2> QED BY <1>1, <2>1, <2>2, ChannelReplaced DEF SameListeners, SamePids
<1>3. CASE c = d.bucket
  <2>1. e = [f EXCEPT !.reg.bvalid = FALSE]
    BY <1>2, <1>3 DEF channel_off, r
  <2> HIDE DEF f, e
  <2>2. /\ Tables(e) /\ SameListeners(d, e) /\ e.bucket = d.bucket /\ e.ch = f.ch
        /\ e.reg.pid = d.reg.pid /\ ~e.reg.bvalid
    BY <1>1, <1>2, <2>1 DEF Tables, SameListeners, SamePids
  <2>3. Matched(e)
    BY <1>2, <1>3, <2>2 DEF Agreeing, Matched, XcValid
  <2>4. e.reg.pid[c] = NULLPID
    BY <1>3, <2>2 DEF Agreeing, Matched
  <2> QED BY <1>2, <1>3, <2>2, <2>3, <2>4, ListenersStayHeard DEF Agreeing, e
<1>4. CASE c # d.bucket
  <2>1. e = [f EXCEPT !.reg.pid[c] = NULLPID]
    BY <1>2, <1>4 DEF channel_off, r
  <2> HIDE DEF f, e
  <2>2. /\ Tables(e) /\ SameListeners(d, e) /\ e.bucket = d.bucket /\ e.ch = f.ch
        /\ e.reg.pid = [d.reg.pid EXCEPT ![c] = NULLPID]
        /\ e.reg.bvalid = d.reg.bvalid /\ e.reg.bindx = d.reg.bindx
    BY <1>1, <1>2, <2>1 DEF Tables, SameListeners, SamePids, NULLPID
  <2>3. e.reg.pid[c] = NULLPID /\ \A k \in XcChannels \ {c} : e.reg.pid[k] = d.reg.pid[k]
    BY <2>2 DEF Agreeing, Tables
  <2>4. Matched(e)
    BY <1>2, <1>4, <2>2, <2>3 DEF Agreeing, Matched, XcValid
  <2> QED BY <1>2, <1>4, <2>2, <2>3, <2>4, ListenersStayHeard DEF Agreeing, e
<1> QED BY <1>3, <1>4

LEMMA StartedAgrees ==
  ASSUME NEW d, Agreeing(d), NEW c \in XcChannels, c # d.bucket
  PROVE  LET e == channel_on(d, c)
         IN  Agreeing(e) /\ e.bucket = d.bucket
<1> DEFINE f == [d EXCEPT !.ch[c].status = "ENABLED"]
           r == interrupt_reset(f, c)
           e == channel_on(d, c)
<1>1. /\ Tables(f) /\ SameListeners(d, f) /\ f.bucket = d.bucket /\ f.reg = d.reg
      /\ f.ch[c].status = "ENABLED" /\ f.ch[c].pid = d.ch[c].pid
      /\ \A k \in XcChannels \ {c} : f.ch[k] = d.ch[k]
  BY DEF Agreeing, Tables, SameListeners, ChannelRecords, ChannelStates
<1> HIDE DEF f
<1>2. Tables(r) /\ SameListeners(f, r) /\ SamePids(f, r)
  BY <1>1, EventsForgotten
<1>3. e = [r EXCEPT !.reg.pid[c] = r.ch[c].pid]
  BY <1>1, <1>2 DEF channel_on, channel_restart, f, SamePids
<1> HIDE DEF r, e
<1>4. /\ Tables(e) /\ SameListeners(r, e) /\ e.bucket = d.bucket /\ e.ch = f.ch
      /\ e.reg.pid = [d.reg.pid EXCEPT ![c] = d.ch[c].pid]
      /\ e.reg.bvalid = d.reg.bvalid /\ e.reg.bindx = d.reg.bindx
  BY <1>1, <1>2, <1>3 DEF Tables, SameListeners, SamePids, ChannelRecords
<1>5. e.reg.pid[c] = d.ch[c].pid /\ \A k \in XcChannels \ {c} : e.reg.pid[k] = d.reg.pid[k]
  BY <1>4 DEF Agreeing, Tables
<1>6. Matched(e)
  BY <1>1, <1>4, <1>5 DEF Agreeing, Matched, XcValid
<1>7. Heard(e)
  BY <1>1, <1>2, <1>4, ListenersStayHeard DEF Agreeing
<1> QED BY <1>4, <1>6, <1>7 DEF Agreeing, e

\* The bucket has no PID of its own.
LEMMA PidSetAgrees ==
  ASSUME NEW d, Agreeing(d), NEW c \in XcChannels, XcValid(d, c), NEW pid \in Int,
         c = d.bucket => pid = NULLPID
  PROVE  LET e == xp_osi_channel_set_pid(d, c, pid)
         IN  Agreeing(e) /\ e.bucket = d.bucket /\ e.ch[c].status = d.ch[c].status
<1> DEFINE reg == IF d.ch[c].status = "ENABLED" THEN pid ELSE NULLPID
           e == xp_osi_channel_set_pid(d, c, pid)
<1>1. e = [d EXCEPT !.ch[c].pid = pid, !.reg.pid[c] = reg]
  BY DEF xp_osi_channel_set_pid
<1>2. reg \in Int
  BY DEF NULLPID
<1> HIDE DEF e
<1>3. /\ Tables(e) /\ SameListeners(d, e) /\ e.bucket = d.bucket
      /\ e.ch[c].status = d.ch[c].status /\ e.ch[c].pid = pid
      /\ \A k \in XcChannels \ {c} : e.ch[k] = d.ch[k]
      /\ e.reg.pid = [d.reg.pid EXCEPT ![c] = reg]
      /\ e.reg.bvalid = d.reg.bvalid /\ e.reg.bindx = d.reg.bindx
  <2> HIDE DEF reg
  <2> QED BY <1>1, <1>2 DEF Agreeing, Tables, SameListeners, ChannelRecords
<1>4. e.reg.pid[c] = reg /\ \A k \in XcChannels \ {c} : e.reg.pid[k] = d.reg.pid[k]
  BY <1>3 DEF Agreeing, Tables
<1>5. Matched(e)
  BY <1>3, <1>4 DEF Agreeing, Matched, XcValid
<1> QED BY <1>3, <1>5, ListenersStayHeard DEF Agreeing, e

\* A freed channel is stopped, unused, heard of by nobody, and not the bucket.
LEMMA FreedAgrees ==
  ASSUME NEW d, Agreeing(d), NEW c \in XcChannels
  PROVE  LET e == XpChannelFree(d, c)
         IN  /\ Agreeing(e) /\ ~XcValid(e, c)
             /\ e.bucket = IF d.bucket = c THEN NOBUCKET ELSE d.bucket
<1> DEFINE f == channel_off(d, c)
           g == xp_osi_interrupt_channel_free(f, c)
           b == IF d.bucket = c THEN NOBUCKET ELSE d.bucket
           e == XpChannelFree(d, c)
<1>1. CASE ~XcValid(d, c)
  <2>1. e = d
    BY <1>1 DEF XpChannelFree
  <2>2. d.bucket # c
    BY <1>1 DEF Agreeing, Matched
  <2> QED BY <1>1, <2>1, <2>2
<1>2. CASE XcValid(d, c)
  <2>1. /\ Agreeing(f) /\ f.bucket = d.bucket /\ f.ch[c].status = "DISABLED"
        /\ c = d.bucket => ~f.reg.bvalid
        /\ f.reg.pid[c] = NULLPID
    BY StoppedAgrees
  <2> HIDE DEF f
  <2>2. Tables(g) /\ Heard(g) /\ SamePids(f, g)
    BY <2>1, FreedIsHeard DEF Agreeing
  <2>3. e = [g EXCEPT !.ch[c].status = "UNUSED", !.bucket = b]
    BY <1>2, <2>1, <2>2 DEF XpChannelFree, f, SamePids
  <2> DEFINE h == [g.ch[c] EXCEPT !.status = "UNUSED"]
             k == [g EXCEPT !.ch[c] = h]
  <2>a. h \in ChannelRecords /\ h.status = "UNUSED"
    BY <2>2 DEF Tables, ChannelRecords, ChannelStates
  <2>b. e = [k EXCEPT !.bucket = b]
    BY <2>3
  <2> HIDE DEF g, e, h
  <2>c. Tables(k) /\ SameListeners(g, k) /\ k.reg = g.reg /\ k.ch[c] = h
        /\ \A x \in XcChannels \ {c} : k.ch[x] = g.ch[x]
    BY <2>2, <2>a, ChannelReplaced
  <2> HIDE DEF k
  <2>4. b \in XcPes \cup {NOBUCKET}
    BY <2>1 DEF Agreeing, Tables
  <2>5. /\ Tables(e) /\ SameListeners(g, e) /\ e.bucket = b
        /\ e.ch[c].status = "UNUSED"
        /\ \A x \in XcChannels \ {c} : e.ch[x] = f.ch[x]
        /\ e.reg.pid = f.reg.pid
        /\ e.reg.bvalid = f.reg.bvalid /\ e.reg.bindx = f.reg.bindx
    <3> HIDE DEF b
    <3> QED BY <2>2, <2>4, <2>a, <2>b, <2>c DEF Tables, SameListeners, SamePids
  <2>6. Matched(e)
    BY <2>1, <2>5, ChannelNumbers DEF Agreeing, Matched, XcValid
  <2> QED BY <2>2, <2>5, <2>6, ListenersStayHeard DEF Agreeing, e, XcValid
<1> QED BY <1>1, <1>2

\* A channel that is free is not the bucket, so allocating it disturbs nothing.
LEMMA AllocatedAgrees ==
  ASSUME NEW d, Agreeing(d),
         NEW type \in {"BUCKET", "PES", "SUBTITLE", "VIDEO"},
         NEW c, c = Max(xp_osi_channel_get_available(d, type)),
         xp_osi_channel_get_available(d, type) # {}
  PROVE  LET e == xp_osi_channel_allocate(d, type)
         IN  /\ c \in XcChannels /\ ~XcValid(d, c) /\ c # d.bucket
             /\ Agreeing(e) /\ XcValid(e, c) /\ e.ch[c].status = "DISABLED"
             /\ type = "BUCKET" => d.bucket = NOBUCKET
             /\ e.bucket = IF type = "BUCKET" THEN c ELSE d.bucket
<1> DEFINE S == xp_osi_channel_get_available(d, type)
           b == IF type = "BUCKET" THEN c ELSE d.bucket
           e == xp_osi_channel_allocate(d, type)
<1>1. Candidates(d, type) \subseteq XcChannels
  BY DEF Candidates, XcChannels
<1>2. S \subseteq XcChannels
  BY <1>1 DEF xp_osi_channel_get_available
<1>3. c \in S
  <2>1. c = Max(S) /\ S # {}
    OBVIOUS
  <2> HIDE DEF S
  <2> QED BY <1>2, <2>1, HighestChannel, ChannelNumbers
<1>4. c \in XcChannels /\ ~XcValid(d, c)
  BY <1>2, <1>3 DEF xp_osi_channel_get_available
<1>5. c # d.bucket
  BY <1>4 DEF Agreeing, Matched
<1>6. type = "BUCKET" => d.bucket = NOBUCKET /\ c \in XcPes
  BY <1>3 DEF xp_osi_channel_get_available, Candidates
<1>7. e = [d EXCEPT !.ch[c] = [@ EXCEPT !.status = "DISABLED", !.unload = "UNDEFINED"],
                    !.bucket = b]
  BY DEF xp_osi_channel_allocate
<1>8. b \in XcPes \cup {NOBUCKET}
  BY <1>6 DEF Agreeing, Tables
<1> HIDE DEF e, S
<1>9. /\ Tables(e) /\ SameListeners(d, e) /\ e.bucket = b
      /\ e.ch[c].status = "DISABLED"
      /\ \A k \in XcChannels \ {c} : e.ch[k] = d.ch[k]
      /\ e.reg = d.reg
  <2> DEFINE h == [d.ch[c] EXCEPT !.status = "DISABLED", !.unload = "UNDEFINED"]
             f == [d EXCEPT !.ch[c] = h]
  <2>1. h \in ChannelRecords /\ h.status = "DISABLED"
    BY <1>4 DEF Agreeing, Tables, ChannelRecords, ChannelStates
  <2>2. e = [f EXCEPT !.bucket = b]
    BY <1>7
  <2> HIDE DEF h
  <2>3. Tables(f) /\ SameListeners(d, f) /\ f.reg = d.reg /\ f.ch[c] = h
        /\ \A k \in XcChannels \ {c} : f.ch[k] = d.ch[k]
    BY <1>4, <2>1, ChannelReplaced DEF Agreeing
  <2> HIDE DEF b, f
  <2> QED BY <1>8, <2>1, <2>2, <2>3 DEF Tables, SameListeners
<1>10. d.reg.pid[c] = NULLPID
  BY <1>4 DEF Agreeing, Matched, XcValid
<1>11. Matched(e)
  BY <1>4, <1>5, <1>6, <1>9, <1>10, ChannelNumbers DEF Agreeing, Matched, XcValid
<1> QED BY <1>4, <1>5, <1>6, <1>9, <1>11, ListenersStayHeard DEF Agreeing, e, XcValid

-----------------------------------------------------------------------------
(* The channels: the steps.                                                *)

\* A channel just allocated is set up, or given back for want of memory.
LEMMA SetUpAgrees ==
  ASSUME NEW d, Agreeing(d), NEW c \in XcChannels, XcValid(d, c),
         d.ch[c].status = "DISABLED",
         NEW kind \in DOMAIN Asks, c = d.bucket <=> kind = "BUCKET",
         NEW memory \in BOOLEAN, NEW buffered \in BOOLEAN
  PROVE  LET e == ChannelSetUp(d, c, Asks[kind], memory, buffered)
         IN  /\ Agreeing(e)
             /\ e.bucket = IF ~memory /\ kind = "BUCKET" THEN NOBUCKET ELSE d.bucket
<1> DEFINE ask == Asks[kind]
           e == [d EXCEPT !.ch[c].unload = ask.unload]
           f == IF buffered THEN set_notification_fn(e, c) ELSE e
           p == xp_osi_channel_set_pid(f, c, ask.pid)
           g == channel_off(p, c)
           n == xp_osi_interrupt_channel_notify(g, "ADD", c, {"RPI", "BTI"},
                                                "DemuxCallback_nb")
<1>1. /\ ask.unload \in {"TRANSPORT", "PES", "SECTION"} /\ ask.pid \in Int
      /\ kind = "BUCKET" => ask.pid = NULLPID
  BY DEF Asks, BucketAsk, NULLPID
<1> HIDE DEF ask
<1>2. /\ Agreeing(e) /\ e.bucket = d.bucket /\ e.ch[c].status = "DISABLED"
  <2> DEFINE h == [d.ch[c] EXCEPT !.unload = ask.unload]
  <2>1. h \in ChannelRecords /\ h.status = "DISABLED" /\ h.pid = d.ch[c].pid
    BY <1>1 DEF Agreeing, Tables, ChannelRecords, ChannelStates
  <2>2. e = [d EXCEPT !.ch[c] = h]
    OBVIOUS
  <2> HIDE DEF h, e
  <2>3. Tables(e) /\ SameListeners(d, e) /\ e.bucket = d.bucket /\ e.reg = d.reg
        /\ e.ch[c] = h /\ \A k \in XcChannels \ {c} : e.ch[k] = d.ch[k]
    BY <2>1, <2>2, ChannelReplaced DEF Agreeing
  <2>4. Matched(e)
    BY <2>1, <2>3 DEF Agreeing, Matched, XcValid
  <2> QED BY <2>1, <2>3, <2>4, ListenersStayHeard DEF Agreeing
<1> HIDE DEF e
<1>3. /\ Agreeing(f) /\ f.bucket = d.bucket /\ f.ch[c].status = "DISABLED"
  <2>1. CASE buffered /\ e.ch[c].unload # "UNDEFINED"
    <3>1. f = xp_osi_interrupt_channel_notify(e, "ADD", c, ListenerMask(e.ch[c].unload),
                                              "channel_data_notify")
      BY <2>1 DEF set_notification_fn
    <3> HIDE DEF f
    <3>2. Tables(f) /\ Heard(f) /\ SamePids(e, f)
      BY <1>2, <3>1, AddingIsHeard DEF Agreeing
    <3> QED BY <1>2, <3>2, PidsStayMatched DEF Agreeing, SamePids
  <2>2. CASE ~(buffered /\ e.ch[c].unload # "UNDEFINED")
    BY <1>2, <2>2 DEF set_notification_fn
  <2> QED BY <2>1, <2>2
<1> HIDE DEF f
<1>4. Agreeing(p) /\ p.bucket = d.bucket /\ p.ch[c].status = "DISABLED"
  <2>1. XcValid(f, c)
    BY <1>3 DEF XcValid
  <2> QED BY <1>1, <1>3, <2>1, PidSetAgrees
<1> HIDE DEF p
<1>5. Agreeing(g) /\ g.bucket = d.bucket
  BY <1>4, StoppedAgrees
<1> HIDE DEF g
<1>6. Agreeing(n) /\ n.bucket = d.bucket
  <2>1. Tables(n) /\ Heard(n) /\ SamePids(g, n)
    BY <1>5, AddingIsHeard DEF Agreeing
  <2> HIDE DEF n
  <2> QED BY <1>5, <2>1, PidsStayMatched DEF Agreeing, SamePids
<1>7. /\ Agreeing(XpChannelFree(e, c))
      /\ XpChannelFree(e, c).bucket = IF d.bucket = c THEN NOBUCKET ELSE d.bucket
  BY <1>2, FreedAgrees
<1>8. ChannelSetUp(d, c, ask, memory, buffered)
        = IF ~memory THEN XpChannelFree(e, c) ELSE IF buffered THEN g ELSE n
  BY DEF ChannelSetUp, e, f, p, g, ask
<1> HIDE DEF n
<1> QED BY <1>5, <1>6, <1>7, <1>8 DEF ask

LEMMA AcquireKeeps ==
  ASSUME XcInv, NEW kind \in DOMAIN Asks, NEW memory \in BOOLEAN,
         NEW buffered \in BOOLEAN, XcAcquire(kind, memory, buffered)
  PROVE  XcInv'
<1> DEFINE ask == Asks[kind]
           c == Max(xp_osi_channel_get_available(xc, ask.type))
           d == xp_osi_channel_allocate(xc, ask.type)
<1>1. /\ ask.type \in {"BUCKET", "PES", "SUBTITLE", "VIDEO"}
      /\ kind = "BUCKET" <=> ask.type = "BUCKET"
  BY DEF Asks, BucketAsk
<1>2. /\ xp_osi_channel_get_available(xc, ask.type) # {}
      /\ xc' = ChannelSetUp(d, c, ask, memory, buffered)
      /\ xcUse' = [xcUse EXCEPT ![c] = IF memory THEN kind ELSE "none"]
  BY DEF XcAcquire, XcDo
<1>3. /\ c \in XcChannels /\ c # xc.bucket
      /\ Agreeing(d) /\ XcValid(d, c) /\ d.ch[c].status = "DISABLED"
      /\ ask.type = "BUCKET" => xc.bucket = NOBUCKET
      /\ d.bucket = IF ask.type = "BUCKET" THEN c ELSE xc.bucket
  BY <1>1, <1>2, AllocatedAgrees DEF XcInv
<1> HIDE DEF c, d
<1>4. /\ Agreeing(xc')
      /\ xc'.bucket = IF ~memory /\ kind = "BUCKET" THEN NOBUCKET ELSE d.bucket
  <2>1. c = d.bucket <=> kind = "BUCKET"
    BY <1>1, <1>3
  <2> QED BY <1>2, <1>3, <2>1, SetUpAgrees
<1>5. xcUse' = [k \in XcChannels |-> xcUse'[k]]
      /\ xcUse'[c] = (IF memory THEN kind ELSE "none")
      /\ \A k \in XcChannels \ {c} : xcUse'[k] = xcUse[k]
  BY <1>2, <1>3 DEF XcInv
<1>6. \A k \in XcChannels : xcUse'[k] = "BUCKET" <=> k = xc'.bucket
  <2> SUFFICES ASSUME NEW k \in XcChannels
               PROVE  xcUse'[k] = "BUCKET" <=> k = xc'.bucket
    OBVIOUS
  <2>1. xcUse[k] = "BUCKET" <=> k = xc.bucket
    BY DEF XcInv
  <2> HIDE DEF ask
  <2> QED BY <1>1, <1>3, <1>4, <1>5, <2>1, ChannelNumbers
<1> QED BY <1>4, <1>5, <1>6 DEF XcInv

\* The decoder's channel is not the bucket.
LEMMA DecoderSetKeeps ==
  ASSUME XcInv, DemuxFilterPESDecoderSet(1)
  PROVE  XcInv'
<1> DEFINE d == IF xp_osi_channel_get_available(xc, "VIDEO") = {}
                THEN XpChannelFree(xc, VIDEO) ELSE xc
           a == xp_osi_channel_allocate(d, "VIDEO")
<1>1. VIDEO # xc.bucket
  BY ChannelNumbers DEF XcInv, Agreeing, Tables, NOBUCKET, VIDEO
<1>2. /\ Agreeing(d) /\ d.bucket = xc.bucket
      /\ xp_osi_channel_get_available(d, "VIDEO") = {VIDEO}
  <2>1. \A x : xp_osi_channel_get_available(x, "VIDEO")
                 = IF XcValid(x, VIDEO) THEN {} ELSE {VIDEO}
    BY ChannelNumbers DEF xp_osi_channel_get_available, Candidates
  <2>2. /\ Agreeing(XpChannelFree(xc, VIDEO)) /\ ~XcValid(XpChannelFree(xc, VIDEO), VIDEO)
        /\ XpChannelFree(xc, VIDEO).bucket = xc.bucket
    BY <1>1, FreedAgrees, ChannelNumbers DEF XcInv
  <2>3. CASE xp_osi_channel_get_available(xc, "VIDEO") = {}
    <3>1. d = XpChannelFree(xc, VIDEO)
      BY <2>3
    <3> HIDE DEF d
    <3> QED BY <2>1, <2>2, <3>1
  <2>4. CASE xp_osi_channel_get_available(xc, "VIDEO") # {}
    <3>1. d = xc
      BY <2>4
    <3> HIDE DEF d
    <3> QED BY <2>1, <2>4, <3>1 DEF XcInv
  <2> QED BY <2>3, <2>4
<1> HIDE DEF d
<1>3. Max({VIDEO}) = VIDEO
  BY HighestChannel DEF VIDEO
<1>4. Agreeing(a) /\ XcValid(a, VIDEO) /\ a.bucket = xc.bucket
  <2>1. VIDEO = Max(xp_osi_channel_get_available(d, "VIDEO"))
        /\ xp_osi_channel_get_available(d, "VIDEO") # {}
    BY <1>2, <1>3
  <2> QED BY <1>2, <2>1, AllocatedAgrees
<1>5. xc' = xp_osi_channel_set_pid(a, VIDEO, 1)
      /\ xcUse' = [xcUse EXCEPT ![VIDEO] = "DECODER"]
  BY DEF DemuxFilterPESDecoderSet, XcDo, d
<1> HIDE DEF a
<1>6. Agreeing(xc') /\ xc'.bucket = xc.bucket
  BY <1>1, <1>4, <1>5, PidSetAgrees, ChannelNumbers
<1>7. xcUse' = [k \in XcChannels |-> xcUse'[k]] /\ xcUse'[VIDEO] = "DECODER"
      /\ \A k \in XcChannels \ {VIDEO} : xcUse'[k] = xcUse[k]
  BY <1>5, ChannelNumbers DEF XcInv
<1>8. \A k \in XcChannels : xcUse'[k] = "BUCKET" <=> k = xc'.bucket
  BY <1>1, <1>6, <1>7 DEF XcInv
<1> QED BY <1>6, <1>7, <1>8 DEF XcInv

\* Only what the registers hold of events, and the messages, may differ.
LEMMA EventsKeep ==
  ASSUME XcInv, xcUse' = xcUse, Tables(xc'), SameListeners(xc, xc'), SamePids(xc, xc')
  PROVE  XcInv'
<1>1. Agreeing(xc')
  BY PidsStayMatched, ListenersStayHeard DEF XcInv, Agreeing
<1>2. xc'.bucket = xc.bucket
  BY DEF SamePids
<1> QED BY <1>1, <1>2 DEF XcInv

LEMMA StartKeeps ==
  ASSUME XcInv, NEW c \in XcChannels, XcStart(c)
  PROVE  XcInv'
<1>1. CASE xcUse[c] = "BUCKET"
  <2>1. xc' = [xc EXCEPT !.reg.bvalid = TRUE, !.reg.bindx = c] /\ xcUse' = xcUse
    BY <1>1 DEF XcStart, XcDo
  <2>2. c = xc.bucket
    BY <1>1 DEF XcInv
  <2>3. /\ Tables(xc') /\ SameListeners(xc, xc')
        /\ xc'.ch = xc.ch /\ xc'.bucket = xc.bucket /\ xc'.reg.pid = xc.reg.pid
        /\ xc'.reg.bvalid /\ xc'.reg.bindx = c
    BY <2>1 DEF XcInv, Agreeing, Tables, SameListeners
  <2>4. Matched(xc')
    BY <2>2, <2>3 DEF XcInv, Agreeing, Matched, XcValid
  <2> QED BY <2>1, <2>3, <2>4, ListenersStayHeard DEF XcInv, Agreeing
<1>2. CASE xcUse[c] # "BUCKET"
  <2>1. xc' = channel_on(xc, c) /\ xcUse' = xcUse /\ c # xc.bucket
    BY <1>2 DEF XcStart, XcDo, XcInv
  <2>2. Agreeing(xc') /\ xc'.bucket = xc.bucket
    BY <2>1, StartedAgrees DEF XcInv
  <2> QED BY <2>1, <2>2 DEF XcInv
<1> QED BY <1>1, <1>2

LEMMA StoppedIsAgreeing ==
  ASSUME XcInv, NEW c \in XcChannels
  PROVE  Agreeing(XcStopped(c)) /\ XcStopped(c).bucket = xc.bucket
<1> DEFINE e == XcStopped(c)
<1>1. CASE xcUse[c] = "BUCKET"
  <2>1. e = [xc EXCEPT !.reg.bvalid = FALSE, !.reg.bindx = NOBUCKET]
    BY <1>1 DEF XcStopped
  <2> HIDE DEF e
  <2>2. /\ Tables(e) /\ SameListeners(xc, e) /\ e.ch = xc.ch /\ e.bucket = xc.bucket
        /\ e.reg.pid = xc.reg.pid /\ ~e.reg.bvalid
    BY <2>1 DEF XcInv, Agreeing, Tables, SameListeners
  <2>3. Matched(e)
    BY <2>2 DEF XcInv, Agreeing, Matched, XcValid
  <2> QED BY <2>2, <2>3, ListenersStayHeard DEF XcInv, Agreeing, e
<1>2. CASE xcUse[c] # "BUCKET"
  <2>1. e = channel_off(xc, c)
    BY <1>2 DEF XcStopped
  <2> HIDE DEF e
  <2> QED BY <2>1, StoppedAgrees DEF XcInv, e
<1> QED BY <1>1, <1>2

LEMMA StopKeeps ==
  ASSUME XcInv, NEW c \in XcChannels, XcStop(c)
  PROVE  XcInv'
<1>1. xc' = XcStopped(c) /\ xcUse' = xcUse
  BY DEF XcStop, XcDo
<1> QED BY <1>1, StoppedIsAgreeing DEF XcInv

LEMMA ResetKeeps ==
  ASSUME XcInv, NEW c \in XcChannels, XcReset(c)
  PROVE  XcInv'
<1> DEFINE s == XcStopped(c)
<1>1. /\ xc' = IF xcUse[c] = "DECODER" THEN s ELSE XpChannelFree(s, c)
      /\ xcUse' = [xcUse EXCEPT ![c] = "none"]
  BY DEF XcReset, XcDo
<1>2. Agreeing(s) /\ s.bucket = xc.bucket
  BY StoppedIsAgreeing
<1> HIDE DEF s
<1>3. /\ Agreeing(xc')
      /\ xc'.bucket = IF xc.bucket = c THEN NOBUCKET ELSE xc.bucket
  <2>1. CASE xcUse[c] = "DECODER"
    BY <1>1, <1>2, <2>1 DEF XcInv
  <2>2. CASE xcUse[c] # "DECODER"
    BY <1>1, <1>2, <2>2, FreedAgrees
  <2> QED BY <2>1, <2>2
<1>4. xcUse' = [k \in XcChannels |-> xcUse'[k]] /\ xcUse'[c] = "none"
      /\ \A k \in XcChannels \ {c} : xcUse'[k] = xcUse[k]
  BY <1>1 DEF XcInv
<1>5. \A k \in XcChannels : xcUse'[k] = "BUCKET" <=> k = xc'.bucket
  BY <1>3, <1>4, ChannelNumbers DEF XcInv
<1> QED BY <1>3, <1>4, <1>5 DEF XcInv

LEMMA EventKeeps ==
  ASSUME XcInv, NEW c \in XcChannels, XcEvent(c)
  PROVE  XcInv'
<1> DEFINE q == [xc.reg.qstat EXCEPT
                   ![c] = {IF xc.ch[c].unload = "SECTION" THEN "TSC" ELSE "BTI"}]
<1>1. xc' = [xc EXCEPT !.reg.qstat = q] /\ xcUse' = xcUse
  BY DEF XcEvent, XcDo
<1> HIDE DEF q
<1>2. Tables(xc') /\ SameListeners(xc, xc') /\ SamePids(xc, xc')
  BY <1>1 DEF XcInv, Agreeing, Tables, SameListeners, SamePids
<1> QED BY <1>1, <1>2, EventsKeep

LEMMA PcrKeeps ==
  ASSUME XcInv, NEW cmd, PcrNotify(cmd)
  PROVE  XcInv'
<1>1. xc' = xp_osi_interrupt_notify(xc, cmd, {"PCRIS"}, "pcr_stc_inthdl") /\ xcUse' = xcUse
  BY DEF PcrNotify, XcDo
<1>2. Tables(xc') /\ Heard(xc') /\ SamePids(xc, xc')
  BY <1>1, PrimaryIsHeard DEF XcInv, Agreeing
<1>3. Agreeing(xc') /\ xc'.bucket = xc.bucket
  BY <1>2, PidsStayMatched DEF XcInv, Agreeing, SamePids
<1> QED BY <1>1, <1>3 DEF XcInv

LEMMA InterruptKeeps ==
  ASSUME XcInv, XcInterrupt
  PROVE  XcInv'
<1> DEFINE q == [c \in XcChannels |-> IF c \in Requests(xc) THEN {} ELSE xc.reg.qstat[c]]
<1>1. PICK posted : xc' = [xc EXCEPT !.reg.qstat = q, !.msgs = posted]
  BY DEF XcInterrupt, transport_interrupt, channel_interrupt
<1>2. xcUse' = xcUse
  BY DEF XcInterrupt
<1> HIDE DEF q
<1>3. Tables(xc') /\ SameListeners(xc, xc') /\ SamePids(xc, xc')
  BY <1>1 DEF XcInv, Agreeing, Tables, SameListeners, SamePids
<1> QED BY <1>2, <1>3, EventsKeep

LEMMA TaskKeeps ==
  ASSUME XcInv, XcTask
  PROVE  XcInv'
<1>1. xc' = [xc EXCEPT !.msgs = Tail(xc.msgs)] /\ xcUse' = xcUse
  BY DEF XcTask
<1>2. Tables(xc') /\ SameListeners(xc, xc') /\ SamePids(xc, xc')
  BY <1>1 DEF XcInv, Agreeing, Tables, SameListeners, SamePids
<1> QED BY <1>1, <1>2, EventsKeep

LEMMA XcInitInv == XcInit => XcInv
<1> SUFFICES ASSUME XcInit PROVE XcInv
  OBVIOUS
<1>1. Tables(xc)
  <2>1. /\ xc = [ch |-> xc.ch, bucket |-> xc.bucket, tab |-> xc.tab, reg |-> xc.reg,
                 msgs |-> xc.msgs]
        /\ xc.bucket = NOBUCKET /\ xc.reg.bvalid = FALSE
    BY DEF XcInit
  <2>2. xc.reg = [pid |-> xc.reg.pid, bvalid |-> xc.reg.bvalid, bindx |-> xc.reg.bindx,
                  qint |-> xc.reg.qint, qstatmask |-> xc.reg.qstatmask,
                  intmask |-> xc.reg.intmask, qstat |-> xc.reg.qstat]
    BY DEF XcInit
  <2>3. xc.ch \in [XcChannels -> ChannelRecords]
    BY DEF XcInit, ChannelRecords, ChannelStates, NULLPID
  <2>4. xc.tab = [k \in XcTables |-> xc.tab[k]]
    BY DEF XcInit
  <2>5. xc.reg.pid \in [XcChannels -> Int]
    BY DEF XcInit, NULLPID
  <2> QED BY <2>1, <2>2, <2>3, <2>4, <2>5 DEF Tables
<1>2. \A k \in XcTables : MasksOf(xc.tab[k]) = {}
  <2>1. DOMAIN << >> = {}
    OBVIOUS
  <2>2. \A k \in XcTables : xc.tab[k] = << >>
    BY DEF XcInit
  <2> QED BY <2>1, <2>2 DEF MasksOf
<1>3. Heard(xc)
  BY <1>2, ChannelNumbers DEF Heard
<1>4. Matched(xc)
  BY ChannelNumbers DEF XcInit, Matched
<1>5. /\ xcUse = [c \in XcChannels |-> xcUse[c]]
      /\ \A c \in XcChannels : xcUse[c] = "BUCKET" <=> c = xc.bucket
  BY ChannelNumbers DEF XcInit
<1> QED BY <1>1, <1>3, <1>4, <1>5 DEF XcInv, Agreeing

LEMMA XcNextInv == XcInv /\ [XcNext]_xcVars => XcInv'
<1> SUFFICES ASSUME XcInv, [XcNext]_xcVars PROVE XcInv'
  OBVIOUS
<1>1. ASSUME NEW kind \in DOMAIN Asks, NEW memory \in BOOLEAN, NEW buffered \in BOOLEAN,
             XcAcquire(kind, memory, buffered)
      PROVE  XcInv'
  BY <1>1, AcquireKeeps
<1>2. CASE DemuxFilterPESDecoderSet(1)
  BY <1>2, DecoderSetKeeps
<1>3. ASSUME NEW c \in XcChannels, XcStart(c) PROVE XcInv'
  BY <1>3, StartKeeps
<1>4. ASSUME NEW c \in XcChannels, XcStop(c) PROVE XcInv'
  BY <1>4, StopKeeps
<1>5. ASSUME NEW c \in XcChannels, XcReset(c) PROVE XcInv'
  BY <1>5, ResetKeeps
<1>6. ASSUME NEW c \in XcChannels, XcEvent(c) PROVE XcInv'
  BY <1>6, EventKeeps
<1>7. ASSUME NEW cmd \in {"ADD", "DELETE"}, PcrNotify(cmd) PROVE XcInv'
  BY <1>7, PcrKeeps
<1>8. CASE XcInterrupt
  BY <1>8, InterruptKeeps
<1>9. CASE XcTask
  BY <1>9, TaskKeeps
<1>10. CASE UNCHANGED xcVars
  BY <1>10 DEF xcVars, XcInv, Agreeing, Tables, Heard, Matched, XcMasked, XcValid
<1> QED BY <1>1, <1>2, <1>3, <1>4, <1>5, <1>6, <1>7, <1>8, <1>9, <1>10 DEF XcNext

LEMMA XcInvSuffices == XcInv => RegistersFollow
<1> SUFFICES ASSUME XcInv PROVE RegistersFollow
  OBVIOUS
<1>1. ListenersUnmasked
  BY DEF XcInv, Agreeing, Heard, ListenersUnmasked
<1>2. PidFollowsStatus
  BY DEF XcInv, Agreeing, Matched, PidFollowsStatus
<1> QED BY <1>1, <1>2 DEF RegistersFollow

-----------------------------------------------------------------------------
(* The channels and the reader, as parts of the transport.                  *)

\* A step of the transport is a step of a part, and leaves the others alone.
LEMMA TransportHasParts ==
  TransportSpec => /\ XcInit /\ [][XcNext]_xcVars
                   /\ UbSpec
<1>1. TransportInit => XcInit /\ UbInit
  BY DEF TransportInit
<1>2. [TransportNext]_<<part, fltVars, regVars, xcVars, ubVars, clkVars, pvrVars>>
        => [XcNext]_xcVars /\ [UbNext]_ubVars
  BY DEF TransportNext
<1> QED BY <1>1, <1>2, PTL DEF TransportSpec, UbSpec

\* The registers of the channels follow the tables of listeners and of channels,
\* and a reader has what it was told of: for any channels, on either chip, with
\* calls, events, interrupts and their task in any order
\* (xp_osi_interrupt_channel_notify, xp_osi_interrupt_notify, xp_osi_channel_control,
\* xp_osi_channel_free, xp_osi_channel_set_pid, demux_filter_get_queue,
\* demux_filter_set_readptr).
THEOREM RegistersAlwaysFollow == TransportSpec => []ChannelsAgree
<1>1. XcInit /\ [][XcNext]_xcVars => []RegistersFollow
  BY XcInitInv, XcNextInv, XcInvSuffices, PTL
<1>2. RegistersFollow /\ ReaderHasItsBlocks => ChannelsAgree
  BY DEF ChannelsAgree
<1> QED BY <1>1, <1>2, TransportHasParts, UnreadBlocksAreSafe, PTL
==============================================================================
