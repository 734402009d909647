-------------------------- MODULE SmLockstep_proofs --------------------------
(***************************************************************************)
(* The golden model of module SmLockstep is golden, for every width, every *)
(* program, any number of machines and every CSR setting.                  *)
(***************************************************************************)
EXTENDS SmLockstep, Sm_proofs

LEMMA HostTypes ==
  ASSUME NEW m \in Machine, NEW b \in Reg
  PROVE  PushTo(m, b) \in Machine /\ PopFrom(m) \in Machine
<1>1. m.tx \in Queue /\ m.rx \in Queue /\ Len(m.tx) \in Nat /\ Depth \in Nat
  BY IsaAssumption DEF Machine, Queue
<1>2. Len(m.tx) < Depth => Append(m.tx, b) \in Queue
  <2>1. Len(m.tx) < Depth => Len(m.tx) # Depth
    BY <1>1
  <2> QED BY <1>1, <2>1, QueueTypes
<1>3. m.rx # << >> => Tail(m.rx) \in Queue
  BY <1>1, QueueTypes
<1> QED BY <1>2, <1>3 DEF PushTo, PopFrom, Machine

LEMMA HostViews ==
  ASSUME NEW r \in Machine, NEW g \in Machine, NEW c, Same(r, g, c), NEW b
  PROVE  Same(PushTo(r, b), PushTo(g, b), c) /\ Same(PopFrom(r), PopFrom(g), c)
<1>1. View(r) = View(g) /\ r.tx = g.tx /\ r.rx = g.rx
  BY ViewIs DEF Same
<1>2. \A q : /\ View([r EXCEPT !.tx = q]) = View([g EXCEPT !.tx = q])
            /\ View([r EXCEPT !.rx = q]) = View([g EXCEPT !.rx = q])
  BY <1>1, ViewIs DEF Machine
<1>3. \A q : /\ [r EXCEPT !.tx = q].side_latched = r.side_latched
            /\ [r EXCEPT !.rx = q].side_latched = r.side_latched
            /\ [g EXCEPT !.tx = q].side_latched = g.side_latched
            /\ [g EXCEPT !.rx = q].side_latched = g.side_latched
            /\ [r EXCEPT !.tx = q].delay_ctr = r.delay_ctr
            /\ [r EXCEPT !.rx = q].delay_ctr = r.delay_ctr
  BY DEF Machine
<1>4. \A q : /\ Same([r EXCEPT !.tx = q], [g EXCEPT !.tx = q], c)
            /\ Same([r EXCEPT !.rx = q], [g EXCEPT !.rx = q], c)
  BY <1>2, <1>3 DEF Same
<1> QED BY <1>1, <1>4 DEF PushTo, PopFrom

LEMMA TypeInductive ==
  TypeOK /\ [Next]_vars => TypeOK'
<1> SUFFICES ASSUME TypeOK, [Next]_vars
             PROVE  TypeOK'
  OBVIOUS
<1> USE DEF TypeOK
<1>1. ASSUME NEW en \in SUBSET SM, NEW gpio \in Reg, Cycle(en, gpio)
      PROVE  TypeOK'
  <2>1. \A s \in SM : /\ imem[s][rtl[s].pc] \in Node
                     /\ imem[s][gold[s].pc] \in Node
                     /\ csr[s] \in Config
    BY ProgramsAssumption, ConfigsAssumption DEF Machine
  <2>2. \A s \in SM : Pad(rtl, gpio) \in Reg /\ Bus(gold, gpio) \in Reg
    BY PadTypes
  <2>3. rtl' \in [SM -> Machine]
    BY <1>1, <2>1, <2>2, EnabledType DEF Cycle
  <2>4. gold' \in [SM -> Machine]
    BY <1>1, <2>1, <2>2, TickType DEF Cycle
  <2>5. clean' \in BOOLEAN
    BY <1>1 DEF Cycle
  <2> QED BY <1>1, <2>3, <2>4, <2>5 DEF Cycle
<1>2. ASSUME NEW s \in SM, NEW b \in HostBytes, HostPush(s, b)
      PROVE  TypeOK'
  <2>1. b \in Reg /\ rtl[s] \in Machine /\ gold[s] \in Machine
    BY HostBytesAssumption
  <2> QED BY <1>2, <2>1, HostTypes DEF HostPush
<1>3. ASSUME NEW s \in SM, HostPop(s)
      PROVE  TypeOK'
  <2>1. {} \in Reg /\ rtl[s] \in Machine /\ gold[s] \in Machine
    BY DEF Reg
  <2> QED BY <1>3, <2>1, HostTypes DEF HostPop
<1>4. ASSUME NEW s \in SM, NEW c \in Configs, Configure(s, c)
      PROVE  TypeOK'
  <2>1. clean' \in BOOLEAN
    BY <1>4 DEF Configure
  <2> QED BY <1>4, <2>1 DEF Configure
<1>5. CASE UNCHANGED vars
  BY <1>5 DEF vars
<1> QED BY <1>1, <1>2, <1>3, <1>4, <1>5 DEF Next

\* Every register, queue and CSR keeps to its width, in both models.
THEOREM TypeCorrect == Spec => []TypeOK
<1>1. Init => TypeOK
  BY ResetType DEF Init, TypeOK
<1> QED BY <1>1, TypeInductive, PTL DEF Spec

LEMMA GoldenInductive ==
  TypeOK /\ GoldenWhileClean /\ [Next]_vars => GoldenWhileClean'
<1> SUFFICES ASSUME TypeOK, GoldenWhileClean, [Next]_vars, clean', NEW s \in SM
             PROVE  Same(rtl[s], gold[s], csr[s])'
  BY DEF GoldenWhileClean
<1>0. /\ rtl[s] \in Machine /\ gold[s] \in Machine
      /\ rtl \in [SM -> Machine] /\ gold \in [SM -> Machine]
      /\ csr[s] \in Config /\ DOMAIN csr = SM
  BY ConfigsAssumption DEF TypeOK
<1>1. ASSUME NEW en \in SUBSET SM, NEW gpio \in Reg, Cycle(en, gpio)
      PROVE  Same(rtl[s], gold[s], csr[s])'
  <2>1. /\ clean /\ ~Fight /\ \A t \in en : ~UsesSidePin(t)
        /\ csr' = csr
    BY <1>1 DEF Cycle
  <2>2. \A t \in SM : Same(rtl[t], gold[t], csr[t])
    BY <2>1 DEF GoldenWhileClean
  <2>3. \A t \in SM : /\ rtl[t].oe_reg = gold[t].oe_reg
                     /\ rtl[t].out_reg = gold[t].out_reg
    BY <2>2, ViewIs DEF Same
  <2>4. CASE s \notin en
    BY <1>0, <1>1, <2>1, <2>2, <2>4 DEF Cycle
  <2>5. CASE s \in en
    <3> DEFINE n == imem[s][rtl[s].pc]
               eff == Pad(rtl, gpio)
               bus == Bus(gold, gpio)
    <3>1. n \in Node /\ eff \in Reg /\ bus \in Reg
      BY <1>0, ProgramsAssumption, PadTypes DEF TypeOK, Machine
    <3>2. eff = EffectivePins(rtl[s], bus)
      BY <1>0, <2>1, <2>3, PadsAlike DEF Fight
    <3>3. rtl[s].delay_ctr = 0 /\ csr[s].side_count =>
            /\ ~Writes(rtl[s], n.code, csr[s].side_base)
            /\ csr[s].side_base \in rtl[s].oe_reg =>
                 ~Samples(rtl[s], n.code, csr[s].side_base)
      BY <2>1, <2>5 DEF UsesSidePin, SidePinUsed
    <3>4. gold[s].pc = rtl[s].pc
      BY <2>2, ViewIs DEF Same
    <3>5. /\ rtl'[s] = Enabled(rtl[s], n, csr[s], eff)
          /\ gold'[s] = Tick(gold[s], n, csr[s], bus)
      BY <1>1, <2>5, <3>4 DEF Cycle
    <3> HIDE DEF n, eff, bus
    <3>6. Same(Enabled(rtl[s], n, csr[s], eff), Tick(gold[s], n, csr[s], bus), csr[s])
      BY <1>0, <2>2, <3>1, <3>2, <3>3, EnabledMatches
    <3> QED BY <2>1, <3>5, <3>6
  <2> QED BY <2>4, <2>5
<1>2. ASSUME NEW t \in SM, NEW b \in HostBytes, HostPush(t, b)
      PROVE  Same(rtl[s], gold[s], csr[s])'
  <2>1. Same(rtl[s], gold[s], csr[s]) /\ csr' = csr
    BY <1>2 DEF HostPush, GoldenWhileClean
  <2>2. Same(PushTo(rtl[s], b), PushTo(gold[s], b), csr[s])
    BY <1>0, <2>1, HostViews
  <2>3. CASE s = t
    BY <1>0, <1>2, <2>1, <2>2, <2>3 DEF HostPush
  <2>4. CASE s # t
    BY <1>0, <1>2, <2>1, <2>4 DEF HostPush
  <2> QED BY <2>3, <2>4
<1>3. ASSUME NEW t \in SM, HostPop(t)
      PROVE  Same(rtl[s], gold[s], csr[s])'
  <2>1. Same(rtl[s], gold[s], csr[s]) /\ csr' = csr
    BY <1>3 DEF HostPop, GoldenWhileClean
  <2>2. Same(PopFrom(rtl[s]), PopFrom(gold[s]), csr[s])
    BY <1>0, <2>1, HostViews
  <2>3. CASE s = t
    BY <1>0, <1>3, <2>1, <2>2, <2>3 DEF HostPop
  <2>4. CASE s # t
    BY <1>0, <1>3, <2>1, <2>4 DEF HostPop
  <2> QED BY <2>3, <2>4
<1>4. ASSUME NEW t \in SM, NEW c \in Configs, Configure(t, c)
      PROVE  Same(rtl[s], gold[s], csr[s])'
  <2>1. /\ Same(rtl[s], gold[s], csr[s])
        /\ rtl' = rtl /\ gold' = gold /\ ~LatchesLate(t, c)
    BY <1>4 DEF Configure, GoldenWhileClean
  <2>2. csr'[s] = IF s = t THEN c ELSE csr[s]
    BY <1>0, <1>4 DEF Configure
  <2> QED BY <2>1, <2>2 DEF Same, LatchesLate
<1>5. CASE UNCHANGED vars
  BY <1>5 DEF vars, GoldenWhileClean
<1> QED BY <1>1, <1>2, <1>3, <1>4, <1>5 DEF Next

\* The interpreter agrees with the hardware on every register, queue and pin,
\* for any programs, inputs, host traffic and number of machines, until two
\* machines fight over a pin or a program touches its own side-set pin.
THEOREM GoldenModelIsGolden == Spec => []GoldenWhileClean
<1>1. Init => GoldenWhileClean
  BY DEF Init, GoldenWhileClean, Same, ResetMachine
<1> QED BY <1>1, TypeCorrect, GoldenInductive, PTL DEF Spec
=============================================================================
