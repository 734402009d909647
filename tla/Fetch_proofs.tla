---------------------------- MODULE Fetch_proofs ----------------------------
(***************************************************************************)
(* The clocked instruction memory is as good as one that is read in the    *)
(* same clock, for every size of memory and every set of programs, and for *)
(* the macro as well as the Array.                                         *)
(***************************************************************************)
EXTENDS Fetch, Sm_proofs

LEMMA InitType == Init => TypeOK
<1>1. Blanks \in Memory /\ [s \in SM |-> Blank] \in [SM -> Nodes]
  BY NodesAssumption DEF Blanks, Memory
<1>2. [s \in SM |-> s] \in [SM -> Slots]
  BY SlotsAssumption
<1> QED BY <1>1, <1>2, ResetType DEF Init, ResetSlots, TypeOK

LEMMA WriteType ==
  ASSUME NEW w \in Write, w.we
  PROVE  w.slot \in Slots /\ w.a \in Addr /\ w.n \in Nodes
<1>1. w # Quiet
  BY DEF Quiet
<1>2. w \in [we : {TRUE}, slot : Slots, a : Addr, n : Nodes]
  BY <1>1 DEF Write
<1> QED BY <1>2

LEMMA WrittenType ==
  ASSUME TypeOK, NEW w \in Write
  PROVE  Written(w) \in Memory
<1>1. CASE ~w.we
  BY <1>1 DEF Written, TypeOK
<1>2. CASE w.we
  <2>1. w.slot \in Slots /\ w.a \in Addr /\ w.n \in Nodes
    BY <1>2, WriteType
  <2> QED BY <1>2, <2>1 DEF Written, TypeOK, Memory
<1> QED BY <1>1, <1>2

LEMMA StepTypes ==
  ASSUME TypeOK, NEW en \in SUBSET SM, NEW gpio \in Reg, NEW s \in SM
  PROVE  /\ ms[s] \in Machine /\ dout[s] \in Node /\ Cfg \in Config
         /\ Pad(ms, gpio) \in Reg
         /\ Enabled(ms[s], dout[s], Cfg, Pad(ms, gpio)) \in Machine
<1>1. /\ ms[s] \in Machine /\ dout[s] \in Node /\ Cfg \in Config
      /\ ms \in [SM -> Machine]
  BY NodesAssumption, CfgAssumption DEF TypeOK
<1>2. Pad(ms, gpio) \in Reg
  BY <1>1, HardwarePadType
<1> QED BY <1>1, <1>2, EnabledType

LEMMA TypeInductive == TypeOK /\ [Next]_vars => TypeOK'
<1> SUFFICES ASSUME TypeOK, [Next]_vars
             PROVE  TypeOK'
  OBVIOUS
<1>1. ASSUME NEW w \in Write, HaltClock(w)
      PROVE  TypeOK'
  <2>1. (~w.we) \in BOOLEAN
    OBVIOUS
  <2> QED BY <1>1, <2>1, WrittenType DEF HaltClock, Outputs, TypeOK
<1>2. ASSUME NEW s \in SM, NEW k \in Slots, SlotClock(s, k)
      PROVE  TypeOK'
  BY <1>2 DEF SlotClock, Outputs, TypeOK
<1>3. ASSUME NEW en \in SUBSET SM, NEW gpio \in Reg, RunClock(en, gpio)
      PROVE  TypeOK'
  <2>1. ms' \in [SM -> Machine]
    BY <1>3, StepTypes DEF RunClock, After, TypeOK
  <2> QED BY <1>3, <2>1 DEF RunClock, Outputs, TypeOK
<1>4. ASSUME NEW en \in SUBSET SM, NEW gpio \in Reg, NEW w \in Write,
             ResetClock(w, en, gpio)
      PROVE  TypeOK'
  <2>1. Blanks \in Memory /\ [s \in SM |-> Blank] \in [SM -> Nodes]
    BY NodesAssumption DEF Blanks, Memory
  <2>2. [s \in SM |-> s] \in [SM -> Slots]
    BY SlotsAssumption
  <2> QED
    BY <1>4, <2>1, <2>2, ResetType, WrittenType
    DEF ResetClock, ResetMemory, ResetSlots, Outputs, TypeOK
<1>5. CASE UNCHANGED vars
  BY <1>5 DEF vars, TypeOK
<1> QED BY <1>1, <1>2, <1>3, <1>4, <1>5 DEF Next

\* Registers, programs and port outputs keep their types.
THEOREM TypeCorrect == Spec => []TypeOK
BY InitType, TypeInductive, PTL DEF Spec

-----------------------------------------------------------------------------
\* Without a write both memories answer with the word at the address.
LEMMA QuietPorts ==
  ASSUME TypeOK, NEW at, Ports(Quiet, at), NEW s \in SM
  PROVE  dout'[s] = mem[at[s].slot][at[s].a]
<1>1. ~Quiet.we /\ Written(Quiet) = mem /\ \A a : ~Hits(Quiet, a)
  BY DEF Quiet, Written, Hits
<1>2. s = 0 \/ s = 1
  BY DEF SM
<1> QED BY <1>1, <1>2 DEF Ports, Word

LEMMA FetchInductive == TypeOK /\ FetchesPc /\ [Next]_vars => FetchesPc'
<1> SUFFICES ASSUME TypeOK, FetchesPc, [Next]_vars, settled', NEW s \in SM
             PROVE  (dout[s] = mem[sm_slot[s]][ms[s].pc])'
  BY DEF FetchesPc
<1>1. ASSUME NEW w \in Write, HaltClock(w)
      PROVE  (dout[s] = mem[sm_slot[s]][ms[s].pc])'
  <2>1. w = Quiet
    BY <1>1 DEF HaltClock, Write
  <2>2. mem' = mem
    BY <1>1, <2>1 DEF HaltClock, Written, Quiet
  <2>3. Ports(Quiet, At({}, {}))
    BY <1>1, <2>1 DEF HaltClock, Outputs
  <2>4. dout'[s] = mem[At({}, {})[s].slot][At({}, {})[s].a]
    BY <2>3, QuietPorts
  <2>5. At({}, {})[s].slot = sm_slot[s] /\ At({}, {})[s].a = ms[s].pc
    BY DEF At
  <2> QED BY <1>1, <2>2, <2>4, <2>5 DEF HaltClock
<1>2. ASSUME NEW t \in SM, NEW k \in Slots, SlotClock(t, k)
      PROVE  (dout[s] = mem[sm_slot[s]][ms[s].pc])'
  BY <1>2 DEF SlotClock
<1>3. ASSUME NEW en \in SUBSET SM, NEW gpio \in Reg, RunClock(en, gpio)
      PROVE  (dout[s] = mem[sm_slot[s]][ms[s].pc])'
  <2>1. Ports(Quiet, At(en, gpio)) /\ mem' = mem /\ sm_slot' = sm_slot
    BY <1>3 DEF RunClock, Outputs
  <2>2. dout'[s] = mem[At(en, gpio)[s].slot][At(en, gpio)[s].a]
    BY <2>1, QuietPorts
  <2>3. At(en, gpio)[s].slot = sm_slot[s]
    BY DEF At
  <2>4. At(en, gpio)[s].a = ms'[s].pc
    <3>1. CASE s \in en
      <4>1. ms'[s] = Enabled(ms[s], dout[s], Cfg, Pad(ms, gpio))
        BY <1>3, <3>1 DEF RunClock, After
      <4>2. At(en, gpio)[s].a = FetchPc(ms[s], dout[s], Cfg, Pad(ms, gpio))
        BY <3>1 DEF At
      <4> QED BY <4>1, <4>2, StepTypes, FetchPcIsNextPc
    <3>2. CASE s \notin en
      BY <1>3, <3>2 DEF RunClock, At
    <3> QED BY <3>1, <3>2
  <2> QED BY <2>1, <2>2, <2>3, <2>4
<1>4. ASSUME NEW en \in SUBSET SM, NEW gpio \in Reg, NEW w \in Write,
             ResetClock(w, en, gpio)
      PROVE  (dout[s] = mem[sm_slot[s]][ms[s].pc])'
  BY <1>4 DEF ResetClock
<1>5. CASE UNCHANGED vars
  BY <1>5 DEF vars, FetchesPc
<1> QED BY <1>1, <1>2, <1>3, <1>4, <1>5 DEF Next

\* After one quiet clock the port of a machine shows the instruction at its
\* pc, and keeps showing it for as long as the engine runs.
THEOREM FetchIsInTime == Spec => []FetchesPc
<1>1. Init => FetchesPc
  BY DEF Init, FetchesPc
<1> QED BY <1>1, InitType, TypeInductive, FetchInductive, PTL DEF Spec

-----------------------------------------------------------------------------
LEMMA StepIsDirect ==
  Patient /\ TypeOK /\ TypeOK' /\ FetchesPc /\ [Next]_vars => [Direct!Next]_(Direct!vars)
<1> SUFFICES ASSUME Patient, TypeOK, TypeOK', FetchesPc, [Next]_vars
             PROVE  [Direct!Next]_(Direct!vars)
  OBVIOUS
<1>1. ASSUME NEW w \in Write, HaltClock(w)
      PROVE  [Direct!Next]_(Direct!vars)
  <2>1. CASE ~w.we
    BY <1>1, <2>1 DEF HaltClock, Written, Direct!vars
  <2>2. CASE w.we
    <3>1. w.slot \in Slots /\ w.a \in Addr /\ w.n \in Nodes
      BY <2>2, WriteType
    <3>2. mem' = [mem EXCEPT ![w.slot][w.a] = w.n]
      BY <1>1, <2>2 DEF HaltClock, Written
    <3> QED BY <1>1, <3>1, <3>2 DEF HaltClock, Direct!Next, Direct!Load
  <2> QED BY <2>1, <2>2
<1>2. ASSUME NEW s \in SM, NEW k \in Slots, SlotClock(s, k)
      PROVE  [Direct!Next]_(Direct!vars)
  BY <1>2 DEF SlotClock, Direct!Next, Direct!Select
<1>3. ASSUME NEW en \in SUBSET SM, NEW gpio \in Reg, RunClock(en, gpio)
      PROVE  [Direct!Next]_(Direct!vars)
  <2>1. \A s \in SM : dout[s] = mem[sm_slot[s]][ms[s].pc]
    BY <1>3 DEF RunClock, FetchesPc
  <2>2. Direct!Run(en, gpio)
    BY <1>3, <2>1 DEF RunClock, Direct!Run
  <2> QED BY <2>2 DEF Direct!Next
<1>4. ASSUME NEW en \in SUBSET SM, NEW gpio \in Reg, NEW w \in Write,
             ResetClock(w, en, gpio)
      PROVE  [Direct!Next]_(Direct!vars)
  <2>1. Direct!Reset
    BY <1>4 DEF ResetClock, Direct!Reset, Direct!Memory, TypeOK, Memory
  <2> QED BY <2>1 DEF Direct!Next
<1>5. CASE UNCHANGED vars
  BY <1>5 DEF vars, Direct!vars
<1> QED BY <1>1, <1>2, <1>3, <1>4, <1>5 DEF Next

\* With a host that leaves a quiet clock before it raises run, the machines
\* execute exactly what they would with instruction memory read in the same
\* clock.
THEOREM FetchIsDirect ==
  ASSUME Patient
  PROVE  Spec => ImplementsDirectFetch
<1>1. Init => Direct!Init
  BY InitType DEF Init, Direct!Init, Direct!Memory, TypeOK, Memory
<1>2. TypeOK /\ TypeOK' /\ FetchesPc /\ [Next]_vars => [Direct!Next]_(Direct!vars)
  BY StepIsDirect
<1> QED
  BY <1>1, <1>2, TypeCorrect, FetchIsInTime, PTL
  DEF Spec, ImplementsDirectFetch, Direct!Spec
=============================================================================
