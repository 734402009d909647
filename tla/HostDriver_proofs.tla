-------------------------- MODULE HostDriver_proofs --------------------------
(***************************************************************************)
(* The host of the datasheet, for nibbles of any width, any number of      *)
(* slots and any hold times: every pin setting of an operation shows the   *)
(* mode the operation ends in, so that the wrapper has let go of the pads  *)
(* before an operation of a halted engine puts a byte on them.  Strobe by  *)
(* strobe, every operation tells the engine what it stands for, once, in   *)
(* order and in full, when both strobes of a CSR write rise together.      *)
(***************************************************************************)
EXTENDS Integers, HostDriver, SequenceTheorems, TLAPS

-----------------------------------------------------------------------------
\* The wrapper under any pin activity: what it tells the engine is well
\* formed, at most one command an edge, and never completed from halves of
\* another mode.

\* The edge detectors remember the strobes that were in force at the last
\* edge.  Without it nothing says which strobes are old.
StrobesRemembered ==
  /\ we_d = (seen.stbA /\ seen.ena /\ ~seen.run)
  /\ tx_d = (seen.stbB /\ seen.ena)

Inv ==
  /\ PortTypeOK
  /\ OneCommandAtATime
  /\ SlotCopiesAgree
  /\ HalvesStayInTheirMode
  /\ CommandNeedsAChange
  /\ StrobesRemembered

-----------------------------------------------------------------------------
\* Widths.

LEMMA Widths ==
  /\ NibMod \in Nat /\ NibMod > 1 /\ NSlots \in Nat /\ NSlots > 0
  /\ 0 \in Nibble /\ 0 \in Byte /\ 0 \in Addr /\ 0 \in Slot
<1>1. NibMod \in Nat /\ NibMod > 1 /\ NSlots \in Nat /\ NSlots > 0
  BY NibModAssumption, NSlotsAssumption, SMT
<1>2. NibMod * NibMod \in Nat /\ NibMod * NibMod > 0
  BY <1>1, SMT
<1> QED BY <1>1, <1>2, SMT DEF Nibble, Byte, Addr, Slot

\* Two nibbles make a byte.
LEMMA NibblesMakeByte ==
  ASSUME NEW h \in Nibble, NEW l \in Nibble
  PROVE  h * NibMod + l \in Byte
<1>1. h * NibMod <= (NibMod - 1) * NibMod
  BY Widths, SMT DEF Nibble
<1>2. (NibMod - 1) * NibMod = NibMod * NibMod - NibMod
  BY Widths, SMT
<1>3. h * NibMod \in Nat /\ NibMod * NibMod \in Nat
  BY Widths, SMT DEF Nibble
<1>4. h * NibMod + l <= NibMod * NibMod - 1
  BY Widths, <1>1, <1>2, <1>3, SMT DEF Nibble
<1> QED BY Widths, <1>3, <1>4, SMT DEF Nibble, Byte

LEMMA PinWidths ==
  ASSUME NEW p \in Pins
  PROVE  /\ p.ena \in BOOLEAN /\ p.run \in BOOLEAN
         /\ p.stbA \in BOOLEAN /\ p.stbB \in BOOLEAN
         /\ p.a \in Addr /\ p.uio \in Byte
         /\ Nib(p) \in Nibble
         /\ p.uio % NSlots \in Slot /\ p.uio % 2 \in {0, 1}
<1>1. /\ p.ena \in BOOLEAN /\ p.run \in BOOLEAN
      /\ p.stbA \in BOOLEAN /\ p.stbB \in BOOLEAN
      /\ p.a \in Addr /\ p.uio \in Byte
  BY DEF Pins
<1>2. p.uio \in Nat
  BY <1>1, Widths, SMT DEF Byte
<1>3. Nib(p) \in Nibble
  BY <1>1, Widths, SMT DEF Nib, Addr, Nibble
<1>4. p.uio % NSlots \in Slot
  BY <1>2, Widths, SMT DEF Slot
<1>5. p.uio % 2 \in {0, 1}
  BY <1>2, SMT
<1> QED BY <1>1, <1>3, <1>4, <1>5

-----------------------------------------------------------------------------
\* The five conditions exclude each other: strobe A writes a CSR or a word,
\* strobe B without strobe A pushes or pops, and only one of the two modes
\* is on.
LEMMA OneConditionAtATime ==
  ASSUME NEW p \in Pins
  PROVE  /\ csr_we(p) => ~imem_we(p) /\ ~tx_we(p) /\ ~rx_re(p)
         /\ imem_we(p) => ~tx_we(p) /\ ~rx_re(p)
         /\ tx_we(p) => ~rx_re(p)
BY PinWidths
DEF csr_we, imem_we, tx_we, rx_re, tx_we_halt, rx_re_halt, tx_we_run,
    rx_re_run, we_edge, fifo_edge, we, fifo_stb, halt, running

LEMMA NothingOrOne ==
  ASSUME NEW p \in Pins
  PROVE  /\ csr_we(p) => Commands(p) = <<Csr(p.a, p.uio)>>
         /\ imem_we(p) => Commands(p) = <<Imem(wr_slot, addr, <<p.uio, lo>>)>>
         /\ tx_we(p) => Commands(p) = <<Tx(tx_data(p))>>
         /\ rx_re(p) => Commands(p) = <<Rx>>
         /\ ~csr_we(p) /\ ~imem_we(p) /\ ~tx_we(p) /\ ~rx_re(p) => Commands(p) = << >>
<1> DEFINE c == Csr(p.a, p.uio)
           i == Imem(wr_slot, addr, <<p.uio, lo>>)
           t == Tx(tx_data(p))
<1>0. Commands(p) = If(csr_we(p), c) \o If(imem_we(p), i)
                      \o If(tx_we(p), t) \o If(rx_re(p), Rx)
  BY DEF Commands
<1> HIDE DEF c, i, t
<1>1. \A x : /\ << >> \o <<x>> = <<x>> /\ <<x>> \o << >> = <<x>>
             /\ << >> \o << >> = << >>
  BY SMT
<1>2. CASE csr_we(p)
  BY <1>0, <1>1, <1>2, OneConditionAtATime DEF If, c
<1>3. CASE imem_we(p) /\ ~csr_we(p)
  BY <1>0, <1>1, <1>3, OneConditionAtATime DEF If, i
<1>4. CASE tx_we(p) /\ ~csr_we(p) /\ ~imem_we(p)
  BY <1>0, <1>1, <1>4, OneConditionAtATime DEF If, t
<1>5. CASE rx_re(p) /\ ~csr_we(p) /\ ~imem_we(p) /\ ~tx_we(p)
  BY <1>0, <1>1, <1>5 DEF If
<1>6. CASE ~csr_we(p) /\ ~imem_we(p) /\ ~tx_we(p) /\ ~rx_re(p)
  BY <1>0, <1>1, <1>6 DEF If
<1> QED BY <1>2, <1>3, <1>4, <1>5, <1>6

\* A sequence of no or one element.
LEMMA ShortSequences ==
  ASSUME NEW S
  PROVE  /\ << >> \in Seq(S) /\ Len(<< >>) = 0
         /\ \A x \in S : <<x>> \in Seq(S) /\ Len(<<x>>) = 1
<1>1. << >> \in Seq(S) /\ Len(<< >>) = 0
  BY SMT
<1>2. ASSUME NEW x \in S
      PROVE  <<x>> \in Seq(S) /\ Len(<<x>>) = 1
  BY SMT
<1> QED BY <1>1, <1>2

LEMMA CommandsTyped ==
  ASSUME PortTypeOK, NEW p \in Pins
  PROVE  Commands(p) \in Seq(Command) /\ Len(Commands(p)) <= 1
<1>1. tx_data(p) \in Byte
  BY PinWidths, NibblesMakeByte DEF tx_data, PortTypeOK
<1>2. /\ Csr(p.a, p.uio) \in Command
      /\ Imem(wr_slot, addr, <<p.uio, lo>>) \in Command
      /\ Tx(tx_data(p)) \in Command
      /\ Rx \in Command
  BY <1>1, PinWidths DEF PortTypeOK, Csr, Imem, Tx, Rx, Command
<1>3. \/ Commands(p) = << >>
      \/ \E x \in Command : Commands(p) = <<x>>
  BY <1>2, NothingOrOne
<1>4. CASE Commands(p) = << >>
  BY <1>4, ShortSequences
<1>5. ASSUME NEW x \in Command, Commands(p) = <<x>>
      PROVE  Commands(p) \in Seq(Command) /\ Len(Commands(p)) <= 1
  BY <1>5, ShortSequences
<1> QED BY <1>3, <1>4, <1>5

-----------------------------------------------------------------------------
\* A command needs a rise of a strobe that is in force; a strobe that was in
\* force already is in the edge detector's register.
LEMMA ChangeNamed ==
  ASSUME NEW p \in Pins, Edge(p)
  PROVE  /\ change' \in {"strobe", "mode", "none"}
         /\ change' = "none" =>
              /\ p.stbA => seen.stbA
              /\ p.stbB => seen.stbB
              /\ p.ena = seen.ena /\ p.run = seen.run
<1> DEFINE rise == (p.stbA /\ ~seen.stbA) \/ (p.stbB /\ ~seen.stbB)
           moved == p.ena # seen.ena \/ p.run # seen.run
<1>1. change' = CASE rise -> "strobe" [] moved -> "mode" [] OTHER -> "none"
  BY DEF Edge
<1> HIDE DEF rise, moved
<1>2. rise /\ ~moved => change' = "strobe"
  BY <1>1, Zenon
<1>3. moved /\ ~rise => change' = "mode"
  BY <1>1, Zenon
<1>4. ~rise /\ ~moved => change' = "none"
  BY <1>1, Zenon
<1>5. rise /\ moved => change' \in {"strobe", "mode"}
  BY <1>1, Zenon
<1>6. "strobe" # "none" /\ "mode" # "none"
  BY SMT
<1>7. change' = "none" => ~rise /\ ~moved
  BY <1>2, <1>3, <1>5, <1>6
<1>8. change' \in {"strobe", "mode", "none"}
  BY <1>2, <1>3, <1>4, <1>5
<1> QED BY <1>7, <1>8, Zenon DEF rise, moved

LEMMA EdgeNeedsAChange ==
  ASSUME StrobesRemembered, NEW p \in Pins, Edge(p), change' = "none"
  PROVE  ~we_edge(p) /\ ~fifo_edge(p)
BY ChangeNamed DEF StrobesRemembered, we_edge, fifo_edge, we, fifo_stb, halt

LEMMA EdgeType ==
  ASSUME PortTypeOK, NEW p \in Pins, Edge(p)
  PROVE  PortTypeOK'
<1>1. we_d' \in BOOLEAN /\ tx_d' \in BOOLEAN /\ run_q' \in BOOLEAN
  BY PinWidths DEF Edge, we, fifo_stb, running, halt
<1>2. /\ hi' \in BOOLEAN /\ addr' \in Addr /\ lo' \in Byte
      /\ nib_hi' \in BOOLEAN /\ nib_lo' \in Nibble /\ wr_slot' \in Slot
  <2>1. CASE running(p)
    BY <2>1, PinWidths DEF Edge, RunEdge, PortTypeOK
  <2>2. CASE ~running(p)
    BY <2>2, PinWidths DEF Edge, StillEdge, PortTypeOK
  <2> QED BY <2>1, <2>2
<1>3. write_slot' \in Slot /\ fifo_sel' \in {0, 1}
  BY PinWidths DEF Edge, EngineEdge, PortTypeOK
<1>4. cmd' \in Seq(Command)
  BY CommandsTyped DEF Edge
<1>5. seen' \in [ena : BOOLEAN, run : BOOLEAN, stbA : BOOLEAN, stbB : BOOLEAN]
  BY PinWidths DEF Edge
<1> QED BY <1>1, <1>2, <1>3, <1>4, <1>5, ChangeNamed DEF PortTypeOK

LEMMA EdgeKeepsInv ==
  ASSUME Inv, NEW p \in Pins, Edge(p)
  PROVE  Inv'
<1> USE DEF Inv
<1>1. PortTypeOK'
  BY EdgeType
<1>2. OneCommandAtATime'
  BY CommandsTyped DEF Edge, OneCommandAtATime
<1>3. SlotCopiesAgree'
  <2>1. csr_we(p) => ~running(p)
    BY DEF csr_we, we_edge, we, halt, running
  <2>2. CASE running(p)
    BY <2>2 DEF Edge, RunEdge, EngineEdge, SlotCopiesAgree
  <2>3. CASE ~running(p)
    BY <2>3 DEF Edge, StillEdge, EngineEdge, SlotCopiesAgree
  <2> QED BY <2>2, <2>3
<1>4. HalvesStayInTheirMode'
  <2>1. CASE running(p)
    BY <2>1 DEF Edge, RunEdge, HalvesStayInTheirMode
  <2>2. CASE ~running(p)
    BY <2>2 DEF Edge, StillEdge, HalvesStayInTheirMode
  <2> QED BY <2>1, <2>2
<1>5. CommandNeedsAChange'
  <2>1. SUFFICES ASSUME change' = "none"
                 PROVE  Commands(p) = << >>
    BY DEF CommandNeedsAChange, Edge
  <2>2. ~we_edge(p) /\ ~fifo_edge(p)
    BY <2>1, EdgeNeedsAChange
  <2>3. ~csr_we(p) /\ ~imem_we(p) /\ ~tx_we(p) /\ ~rx_re(p)
    BY <2>2 DEF csr_we, imem_we, tx_we, rx_re, tx_we_halt, rx_re_halt,
                tx_we_run, rx_re_run
  <2> QED BY <2>3, NothingOrOne
<1>6. StrobesRemembered'
  <2>1. seen' = [ena |-> p.ena, run |-> p.run, stbA |-> p.stbA, stbB |-> p.stbB]
    BY DEF Edge
  <2>2. /\ seen'.ena = p.ena /\ seen'.run = p.run
        /\ seen'.stbA = p.stbA /\ seen'.stbB = p.stbB
    BY <2>1
  <2>3. /\ we_d' = (p.stbA /\ p.ena /\ ~p.run)
        /\ tx_d' = (p.stbB /\ p.ena)
    BY Zenon DEF Edge, we, fifo_stb, halt
  <2> QED BY <2>2, <2>3 DEF StrobesRemembered
<1> QED BY <1>1, <1>2, <1>3, <1>4, <1>5, <1>6

\* The reset values satisfy the invariant; Init and ResetEdge set the same.
LEMMA InitInv == PortInit => Inv
<1> SUFFICES ASSUME PortInit PROVE Inv
  OBVIOUS
<1>1. /\ ~we_d /\ ~tx_d /\ ~hi /\ ~nib_hi /\ ~run_q
      /\ cmd = << >> /\ seen = Low /\ wr_slot = write_slot
  BY DEF PortInit
<1>2. /\ Low \in [ena : BOOLEAN, run : BOOLEAN, stbA : BOOLEAN, stbB : BOOLEAN]
      /\ ~Low.ena /\ ~Low.stbA /\ ~Low.stbB
  BY DEF Low
<1>3. PortTypeOK
  BY <1>1, <1>2, Widths, ShortSequences DEF PortInit, PortTypeOK
<1>4. OneCommandAtATime
  BY <1>1, ShortSequences DEF OneCommandAtATime
<1>5. StrobesRemembered
  <2>1. we_d = FALSE /\ tx_d = FALSE /\ seen = Low
    BY DEF PortInit
  <2> QED BY <2>1, <1>2, Zenon DEF StrobesRemembered
<1> QED
  BY <1>1, <1>3, <1>4, <1>5
  DEF Inv, SlotCopiesAgree, HalvesStayInTheirMode, CommandNeedsAChange

LEMMA ResetInv == ResetEdge => Inv'
<1> SUFFICES ASSUME ResetEdge PROVE Inv'
  OBVIOUS
<1>1. /\ ~we_d' /\ ~tx_d' /\ ~hi' /\ ~nib_hi' /\ ~run_q'
      /\ cmd' = << >> /\ seen' = Low /\ wr_slot' = write_slot'
  BY DEF ResetEdge
<1>2. /\ Low \in [ena : BOOLEAN, run : BOOLEAN, stbA : BOOLEAN, stbB : BOOLEAN]
      /\ ~Low.ena /\ ~Low.stbA /\ ~Low.stbB
  BY DEF Low
<1>3. PortTypeOK'
  BY <1>1, <1>2, Widths, ShortSequences DEF ResetEdge, PortTypeOK
<1>4. OneCommandAtATime'
  BY <1>1, ShortSequences DEF OneCommandAtATime
<1>5. StrobesRemembered'
  <2>1. we_d' = FALSE /\ tx_d' = FALSE /\ seen' = Low
    BY DEF ResetEdge
  <2> QED BY <2>1, <1>2, Zenon DEF StrobesRemembered
<1> QED
  BY <1>1, <1>3, <1>4, <1>5
  DEF Inv, SlotCopiesAgree, HalvesStayInTheirMode, CommandNeedsAChange

LEMMA InvInductive == Inv /\ [PortNext]_portvars => Inv'
<1> SUFFICES ASSUME Inv, [PortNext]_portvars PROVE Inv'
  OBVIOUS
<1>1. CASE ResetEdge
  BY <1>1, ResetInv
<1>2. ASSUME NEW p \in Pins, Edge(p) PROVE Inv'
  BY <1>2, EdgeKeepsInv
<1>3. CASE UNCHANGED portvars
  BY <1>3
  DEF portvars, wrapper, ghosts, Inv, PortTypeOK, OneCommandAtATime,
      SlotCopiesAgree, HalvesStayInTheirMode, CommandNeedsAChange,
      StrobesRemembered
<1> QED BY <1>1, <1>2, <1>3 DEF PortNext

LEMMA Invariance == PortSpec => []Inv
BY InitInv, InvInductive, PTL DEF PortSpec

-----------------------------------------------------------------------------
\* What the wrapper latches and tells the engine has the widths of the code.
THEOREM TypeCorrect == PortSpec => []PortTypeOK
<1>1. Inv => PortTypeOK
  BY DEF Inv
<1> QED BY <1>1, Invariance, PTL

\* Whatever the pins do, an edge is at most one command.
THEOREM OneCommandAnEdge == PortSpec => []OneCommandAtATime
<1>1. Inv => OneCommandAtATime
  BY DEF Inv
<1> QED BY <1>1, Invariance, PTL

\* The wrapper's copy of the write slot is the engine's.
THEOREM SlotsAgree == PortSpec => []SlotCopiesAgree
<1>1. Inv => SlotCopiesAgree
  BY DEF Inv
<1> QED BY <1>1, Invariance, PTL

\* No word is completed across a run and no live byte across a halt.
THEOREM NoStaleHalves == PortSpec => []HalvesStayInTheirMode
<1>1. Inv => HalvesStayInTheirMode
  BY DEF Inv
<1> QED BY <1>1, Invariance, PTL

\* A strobe that stays high is not taken again, unless the mode changes
\* under it.
THEOREM HeldStrobeIsOneCommand == PortSpec => []CommandNeedsAChange
<1>1. Inv => CommandNeedsAChange
  BY DEF Inv
<1> QED BY <1>1, Invariance, PTL

-----------------------------------------------------------------------------
\* The host of the datasheet.

\* A pin sequence that holds run at one level.
Shows(s, r) ==
  /\ s \in Seq(Pins) /\ s # << >>
  /\ \A i \in DOMAIN s : s[i].run = r

-----------------------------------------------------------------------------
\* The settings of the scripts, and their sequences.

LEMMA Settings ==
  ASSUME NEW r \in BOOLEAN, NEW a \in Addr, NEW d \in Byte
  PROVE  /\ Quiet(r, a, d) \in Pins /\ Quiet(r, a, d).run = r
         /\ StrobeA(a, d) \in Pins /\ StrobeA(a, d).run = FALSE
         /\ StrobeB(r, a, d) \in Pins /\ StrobeB(r, a, d).run = r
         /\ Both(a, d) \in Pins /\ Both(a, d).run = FALSE
BY DEF Quiet, StrobeA, StrobeB, Both, Pins

LEMMA ShowsOne ==
  ASSUME NEW p \in Pins
  PROVE  Shows(<<p>>, p.run)
BY DEF Shows

LEMMA ShowsTwo ==
  ASSUME NEW p \in Pins, NEW q \in Pins, p.run = q.run
  PROVE  Shows(<<p, q>>, q.run)
BY DEF Shows

LEMMA ShowsThree ==
  ASSUME NEW p \in Pins, NEW q \in Pins, NEW t \in Pins,
         p.run = t.run, q.run = t.run
  PROVE  Shows(<<p, q, t>>, t.run)
BY DEF Shows

LEMMA ShowsFour ==
  ASSUME NEW p \in Pins, NEW q \in Pins, NEW t \in Pins, NEW u \in Pins,
         p.run = u.run, q.run = u.run, t.run = u.run
  PROVE  Shows(<<p, q, t, u>>, u.run)
BY DEF Shows

LEMMA ShowsBoth ==
  ASSUME NEW s, NEW t, NEW r, Shows(s, r), Shows(t, r)
  PROVE  Shows(s \o t, r)
<1>1. s \in Seq(Pins) /\ t \in Seq(Pins) /\ s # << >> /\ t # << >>
  BY DEF Shows
<1>2. s \o t \in Seq(Pins) /\ s \o t # << >>
  BY <1>1
<1>3. ASSUME NEW i \in DOMAIN (s \o t)
      PROVE  (s \o t)[i].run = r
  <2>1. CASE i <= Len(s)
    <3>1. i \in DOMAIN s /\ (s \o t)[i] = s[i]
      BY <1>1, <2>1
    <3> QED BY <3>1 DEF Shows
  <2>2. CASE i > Len(s)
    <3>1. i - Len(s) \in DOMAIN t /\ (s \o t)[i] = t[i - Len(s)]
      BY <1>1, <2>2
    <3> QED BY <3>1 DEF Shows
  <2> QED BY <1>1, <2>1, <2>2
<1> QED BY <1>2, <1>3 DEF Shows

LEMMA Pulses ==
  ASSUME NEW r \in BOOLEAN, NEW a \in Addr, NEW d \in Byte
  PROVE  /\ Shows(PulseA(a, d), FALSE)
         /\ Shows(PulseB(r, a, d), r)
<1>1. Shows(PulseA(a, d), FALSE)
  BY Settings, ShowsTwo DEF PulseA
<1>2. Shows(PulseB(r, a, d), r)
  BY Settings, ShowsTwo, ZenonT(60) DEF PulseB
<1> QED BY <1>1, <1>2

LEMMA CsrPulses ==
  ASSUME NEW a \in Addr, NEW d \in Byte, NEW s \in CsrPulse(a, d)
  PROVE  Shows(s, FALSE)
<1>1. Shows(<<StrobeB(FALSE, a, d), Both(a, d), StrobeB(FALSE, a, d),
              Quiet(FALSE, a, d)>>, FALSE)
  BY Settings, ShowsFour, ZenonT(60)
<1>2. Shows(<<Both(a, d), Quiet(FALSE, a, d)>>, FALSE)
  BY Settings, ShowsTwo
<1>3. /\ Shows(<<Both(a, d), StrobeA(a, d), Quiet(FALSE, a, d)>>, FALSE)
      /\ Shows(<<Both(a, d), StrobeB(FALSE, a, d), Quiet(FALSE, a, d)>>, FALSE)
  BY Settings, ShowsThree
<1>4. CASE CsrHeld
  BY <1>1, <1>4 DEF CsrPulse
<1>5. CASE ~CsrHeld
  BY <1>2, <1>3, <1>5 DEF CsrPulse
<1> QED BY <1>4, <1>5

\* The five address pins carry a nibble and the bit beside it; a byte is two
\* nibbles.
LEMMA NibblePins ==
  ASSUME NEW n \in Nibble
  PROVE  PushPins(n) \in Addr /\ PopPins(n) \in Addr
BY Widths, SMT DEF PushPins, PopPins, Nibble, Addr

LEMMA BytesAreNibbles ==
  ASSUME NEW d \in Byte
  PROVE  d % NibMod \in Nibble /\ d \div NibMod \in Nibble
<1>1. d \in Nat /\ d < NibMod * NibMod /\ NibMod * NibMod \in Nat
  BY Widths, SMT DEF Byte
<1>2. ASSUME NEW n \in Nat \ {0}, d < n * n
      PROVE  d % n \in 0 .. n - 1 /\ d \div n \in 0 .. n - 1
  <2>1. d % n \in 0 .. n - 1
    BY <1>1, <1>2, SMT
  <2>2. d \div n \in 0 .. n - 1
    BY <1>1, <1>2, SMT
  <2> QED BY <2>1, <2>2
<1>3. NibMod \in Nat \ {0} /\ d < NibMod * NibMod
  BY <1>1, Widths
<1> QED BY <1>2, <1>3, Zenon DEF Nibble

-----------------------------------------------------------------------------
\* The kinds of operation and the operands of each.
LEMMA Kinds ==
  ASSUME NEW o \in Op
  PROVE  \/ o.kind = "load" /\ o.a \in Addr /\ o.w \in Byte \X Byte
         \/ o.kind = "loadlow" /\ o.a \in Addr /\ o.d \in Byte
         \/ o.kind = "csr" /\ o.a \in Addr /\ o.d \in Byte
         \/ o.kind \in {"push", "livepush", "livepushpop"} /\ o.d \in Byte
         \/ o.kind \in {"pop", "livepop", "run", "halt"}
         \/ o.kind = "livelow" /\ o.d \in Nibble
BY DEF Op

LEMMA LivePulses ==
  ASSUME NEW n \in Nibble
  PROVE  Shows(LivePulse(n, 0), TRUE)
BY NibblePins, Widths, Pulses DEF LivePulse

\* An operation shows, from its first clock to its last, the mode it ends in.
LEMMA ScriptsShowTheMode ==
  ASSUME NEW o \in Op, NEW s \in Script(o), NEW r \in BOOLEAN, Allowed(o, r)
  PROVE  Shows(s, Runs(o, r))
<1>1. CASE o.kind = "load"
  <2>1. s = PulseA(o.a, o.w[2]) \o PulseA(o.a, o.w[1]) /\ Runs(o, r) = FALSE
    BY <1>1 DEF Script, Runs, Allowed, Live
  <2>2. o.a \in Addr /\ o.w[1] \in Byte /\ o.w[2] \in Byte
    BY <1>1, Kinds
  <2> QED BY <2>1, <2>2, Pulses, ShowsBoth
<1>2. CASE o.kind = "loadlow"
  <2>1. s = PulseA(o.a, o.d) /\ Runs(o, r) = FALSE
    BY <1>2 DEF Script, Runs, Allowed, Live
  <2>2. o.a \in Addr /\ o.d \in Byte
    BY <1>2, Kinds
  <2> QED BY <2>1, <2>2, Pulses
<1>3. CASE o.kind = "csr"
  <2>1. s \in CsrPulse(o.a, o.d) /\ Runs(o, r) = FALSE
    BY <1>3 DEF Script, Runs, Allowed, Live
  <2>2. o.a \in Addr /\ o.d \in Byte
    BY <1>3, Kinds
  <2> QED BY <2>1, <2>2, CsrPulses
<1>4. CASE o.kind = "push"
  <2>1. Runs(o, r) = FALSE /\ \E n \in Nibble : s = PulseB(FALSE, PushPins(n), o.d)
    BY <1>4 DEF Script, Runs, Allowed, Live
  <2>2. o.d \in Byte
    BY <1>4, Kinds
  <2> QED BY <2>1, <2>2, NibblePins, Pulses
<1>5. CASE o.kind = "pop"
  <2>1. Runs(o, r) = FALSE /\ \E n \in Nibble : s = PulseB(FALSE, PopPins(n), 0)
    BY <1>5 DEF Script, Runs, Allowed, Live
  <2> QED BY <2>1, NibblePins, Pulses, Widths
<1>6. CASE o.kind = "livepush"
  <2>1. /\ Runs(o, r) = TRUE
        /\ s = LivePulse(o.d % NibMod, 0) \o LivePulse(o.d \div NibMod, 0)
    BY <1>6 DEF Script, Runs, Allowed, Live
  <2>2. o.d \in Byte
    BY <1>6, Kinds
  <2> QED BY <2>1, <2>2, BytesAreNibbles, LivePulses, ShowsBoth
<1>7. CASE o.kind = "livepushpop"
  <2>1. /\ Runs(o, r) = TRUE
        /\ \E n \in Nibble :
             s = LivePulse(o.d % NibMod, 0) \o PulseB(TRUE, PopPins(n), 0)
                   \o LivePulse(o.d \div NibMod, 0)
    BY <1>7 DEF Script, Runs, Allowed, Live
  <2>2. o.d \in Byte
    BY <1>7, Kinds
  <2>3. PICK n \in Nibble :
          s = LivePulse(o.d % NibMod, 0) \o PulseB(TRUE, PopPins(n), 0)
                \o LivePulse(o.d \div NibMod, 0)
    BY <2>1
  <2>4. Shows(PulseB(TRUE, PopPins(n), 0), TRUE)
    BY NibblePins, Pulses, Widths
  <2> QED BY <2>1, <2>2, <2>3, <2>4, BytesAreNibbles, LivePulses, ShowsBoth
<1>8. CASE o.kind = "livelow"
  <2>1. Runs(o, r) = TRUE /\ s = LivePulse(o.d, 0)
    BY <1>8 DEF Script, Runs, Allowed, Live
  <2>2. o.d \in Nibble
    BY <1>8, Kinds
  <2> QED BY <2>1, <2>2, LivePulses
<1>9. CASE o.kind = "livepop"
  <2>1. Runs(o, r) = TRUE /\ \E n \in Nibble : s = PulseB(TRUE, PopPins(n), 0)
    BY <1>9 DEF Script, Runs, Allowed, Live
  <2> QED BY <2>1, NibblePins, Pulses, Widths
<1>10. CASE o.kind = "run"
  <2>1. s = <<Quiet(TRUE, 0, 0)>> /\ Runs(o, r) = TRUE
    BY <1>10 DEF Script, Runs
  <2> QED BY <2>1, Settings, ShowsOne, Widths
<1>11. CASE o.kind = "halt"
  <2>1. s = <<Quiet(FALSE, 0, 0)>> /\ Runs(o, r) = FALSE
    BY <1>11 DEF Script, Runs
  <2>2. Quiet(FALSE, 0, 0) \in Pins /\ Quiet(FALSE, 0, 0).run = FALSE
    BY Settings, Widths
  <2> QED BY <2>1, <2>2, ShowsOne
<1> QED
  BY Kinds, <1>1, <1>2, <1>3, <1>4, <1>5, <1>6, <1>7, <1>8, <1>9, <1>10, <1>11

-----------------------------------------------------------------------------
\* The mode the engine ran in at the last clock is one the host is in, or is
\* about to be: with a pin setting left to show, the old one or the new one;
\* after the last, the new one.
ModeFollows ==
  /\ op = None => rest = << >> /\ (run_q => on)
  /\ op # None =>
       /\ Allowed(op, on)
       /\ \A i \in DOMAIN rest : rest[i].run = Runs(op, on)
       /\ run_q => Runs(op, on) \/ (on /\ rest # << >>)

HostInv == HostTypeOK /\ ModeFollows

\* What the host may be obliged to do next.
LEMMA FollowUps ==
  ASSUME NEW o
  PROVE  Follows(o) \in {"run", "halt", None}
BY DEF Follows

LEMMA RunsTyped ==
  ASSUME NEW o, NEW r \in BOOLEAN
  PROVE  Runs(o, r) \in BOOLEAN
BY DEF Runs

LEMMA HostInit == Init => HostInv
<1> SUFFICES ASSUME Init PROVE HostInv
  OBVIOUS
<1>1. PortTypeOK
  BY InitInv DEF Init, Inv
<1>2. /\ op = None /\ must = None /\ rest = << >> /\ told = << >> /\ on = FALSE
      /\ run_q = FALSE
  BY DEF Init, PortInit
<1>3. HostTypeOK
  BY <1>1, <1>2, ShortSequences DEF HostTypeOK
<1> QED BY <1>2, <1>3 DEF HostInv, ModeFollows

LEMMA BeginStep ==
  ASSUME HostInv, NEW o \in Op, Begin(o)
  PROVE  HostInv'
<1> USE DEF HostInv
<1>1. Shows(rest', Runs(o, on))
  BY ScriptsShowTheMode DEF Begin, HostTypeOK
<1>2. HostTypeOK'
  BY <1>1 DEF Begin, HostTypeOK, Shows, portvars, wrapper, ghosts, PortTypeOK
<1>3. ModeFollows'
  <2>1. op' = o /\ o # None /\ on' = on /\ run_q' = run_q /\ (run_q => on)
    BY NoneAssumption DEF Begin, portvars, wrapper, ModeFollows
  <2>2. rest' # << >> /\ \A i \in DOMAIN rest' : rest'[i].run = Runs(o, on)
    BY <1>1 DEF Shows
  <2>3. Allowed(o, on)
    BY DEF Begin
  <2> QED BY <2>1, <2>2, <2>3 DEF ModeFollows
<1> QED BY <1>2, <1>3

LEMMA ClockStep ==
  ASSUME HostInv, Clock
  PROVE  HostInv'
<1> USE DEF HostInv
<1> DEFINE p == Head(rest)
<1>1. rest \in Seq(Pins) /\ rest # << >> /\ p \in Pins /\ p = rest[1]
      /\ 1 \in DOMAIN rest /\ Tail(rest) \in Seq(Pins)
  BY DEF Clock, HostTypeOK
<1>2. Edge(p) /\ op' = op /\ on' = on /\ must' = must
      /\ told' = told \o cmd' /\ rest' \in {rest, Tail(rest)}
  BY DEF Clock
<1> HIDE DEF p
<1>3. PortTypeOK'
  BY <1>1, <1>2, EdgeType DEF HostTypeOK
<1>4. told' \in Seq(Command)
  <2>1. told \in Seq(Command) /\ cmd' \in Seq(Command)
    BY <1>3 DEF HostTypeOK, PortTypeOK
  <2> QED BY <1>2, <2>1
<1>5. HostTypeOK'
  BY <1>1, <1>2, <1>3, <1>4 DEF HostTypeOK
<1>6. ModeFollows'
  <2>1. op # None
    BY <1>1 DEF ModeFollows
  <2>2. p.run = Runs(op, on) /\ Allowed(op, on)
    BY <1>1, <2>1 DEF ModeFollows
  <2>3. run_q' => Runs(op, on)
    BY <1>2, <2>2 DEF Edge, running
  <2>4. \A i \in DOMAIN rest' : rest'[i].run = Runs(op, on)
    <3>1. CASE rest' = rest
      BY <3>1, <2>1 DEF ModeFollows
    <3>2. CASE rest' = Tail(rest)
      <4>1. ASSUME NEW i \in DOMAIN rest'
            PROVE  i + 1 \in DOMAIN rest /\ rest'[i] = rest[i + 1]
        BY <1>1, <3>2
      <4> QED BY <4>1, <2>1 DEF ModeFollows
    <3> QED BY <1>2, <3>1, <3>2
  <2> QED BY <1>2, <2>1, <2>2, <2>3, <2>4 DEF ModeFollows
<1> QED BY <1>5, <1>6

LEMMA EndStep ==
  ASSUME HostInv, End
  PROVE  HostInv'
<1> USE DEF HostInv
<1>1. /\ op # None /\ rest = << >> /\ rest' = rest /\ op' = None
      /\ on' = Runs(op, on) /\ told' = << >> /\ must' = Follows(op)
      /\ run_q' = run_q /\ UNCHANGED portvars
  BY DEF End, portvars, wrapper
<1>2. PortTypeOK'
  BY <1>1 DEF portvars, wrapper, ghosts, PortTypeOK, HostTypeOK
<1>3. on' \in BOOLEAN /\ must' \in {"run", "halt", None} /\ told' \in Seq(Command)
  BY <1>1, RunsTyped, FollowUps, ShortSequences DEF HostTypeOK
<1>4. HostTypeOK'
  BY <1>1, <1>2, <1>3 DEF HostTypeOK
<1>5. ModeFollows'
  BY <1>1 DEF ModeFollows
<1> QED BY <1>4, <1>5

LEMMA IdleStep ==
  ASSUME HostInv, IdleClock
  PROVE  HostInv'
<1> USE DEF HostInv
<1>1. /\ op = None /\ op' = op /\ rest' = rest /\ on' = on /\ must' = must
      /\ told' = told \o cmd' /\ Edge(Quiet(on, 0, 0))
  BY DEF IdleClock
<1>2. Quiet(on, 0, 0) \in Pins /\ Quiet(on, 0, 0).run = on
  BY Settings, Widths DEF HostTypeOK
<1>3. PortTypeOK'
  BY <1>1, <1>2, EdgeType DEF HostTypeOK
<1>4. told' \in Seq(Command)
  <2>1. told \in Seq(Command) /\ cmd' \in Seq(Command)
    BY <1>3 DEF HostTypeOK, PortTypeOK
  <2> QED BY <1>1, <2>1
<1>5. HostTypeOK'
  BY <1>1, <1>3, <1>4 DEF HostTypeOK
<1>6. run_q' => on
  BY <1>1, <1>2 DEF Edge, running
<1>7. ModeFollows'
  BY <1>1, <1>6 DEF ModeFollows
<1> QED BY <1>5, <1>7

LEMMA ResetStep ==
  ASSUME HostInv, HostReset
  PROVE  HostInv'
<1> USE DEF HostInv
<1>1. /\ op = None /\ op' = op /\ rest' = rest /\ told' = told
      /\ on' = FALSE /\ must' = None /\ ResetEdge
  BY DEF HostReset
<1>2. PortTypeOK'
  BY <1>1, ResetInv DEF Inv
<1>3. HostTypeOK'
  BY <1>1, <1>2 DEF HostTypeOK
<1>4. ~run_q'
  BY <1>1 DEF ResetEdge
<1>5. ModeFollows'
  BY <1>1, <1>4 DEF ModeFollows
<1> QED BY <1>3, <1>5

LEMMA HostInvInductive == HostInv /\ [Next]_vars => HostInv'
<1> SUFFICES ASSUME HostInv, [Next]_vars PROVE HostInv'
  OBVIOUS
<1>1. ASSUME NEW o \in Op, Begin(o) PROVE HostInv'
  BY <1>1, BeginStep
<1>2. CASE Clock
  BY <1>2, ClockStep
<1>3. CASE End
  BY <1>3, EndStep
<1>4. CASE IdleClock
  BY <1>4, IdleStep
<1>5. CASE HostReset
  BY <1>5, ResetStep
<1>6. CASE UNCHANGED vars
  <2>1. /\ op' = op /\ rest' = rest /\ told' = told /\ on' = on /\ must' = must
        /\ run_q' = run_q /\ UNCHANGED portvars
    BY <1>6 DEF vars, hostvars, portvars, wrapper
  <2>2. PortTypeOK'
    BY <2>1 DEF portvars, wrapper, ghosts, PortTypeOK, HostInv, HostTypeOK
  <2> QED BY <2>1, <2>2 DEF HostInv, HostTypeOK, ModeFollows
<1> QED BY <1>1, <1>2, <1>3, <1>4, <1>5, <1>6 DEF Next

LEMMA HostInvariance == Spec => []HostInv
BY HostInit, HostInvInductive, PTL DEF Spec

-----------------------------------------------------------------------------
\* A host that follows its scripts leaves the port well formed and asks only
\* for what the pins can carry.
THEOREM HostTypeCorrect == Spec => []HostTypeOK
<1>1. HostInv => HostTypeOK
  BY DEF HostInv
<1> QED BY <1>1, HostInvariance, PTL

\* Whatever the hold times, the wrapper has let go of the uio pads when the
\* host puts a byte there.
THEOREM PadsAreFree == Spec => []NoContention
<1>1. HostInv => NoContention
  <2>1. SUFFICES ASSUME HostInv, op # None, rest # << >>,
                        op.kind \in {"load", "loadlow", "csr", "push"}
                 PROVE  ~DrivesPads(Head(rest))
    BY DEF NoContention
  <2>2. on \in BOOLEAN /\ Allowed(op, on)
    BY <2>1 DEF HostInv, HostTypeOK, ModeFollows
  <2>3. ~on /\ Runs(op, on) = on
    BY <2>1, <2>2 DEF Allowed, Live, Runs
  <2>4. ~run_q
    BY <2>1, <2>3 DEF HostInv, ModeFollows
  <2> QED BY <2>4 DEF DrivesPads
<1> QED BY <1>1, HostInvariance, PTL

-----------------------------------------------------------------------------
\* A write and the run behind it.  Every script that raises strobe A lets it
\* go in a setting of its own, before the mode can change.
Releases(s) ==
  \A i \in DOMAIN s :
    s[i].stbA => i + 1 \in DOMAIN s /\ ~s[i].run /\ ~s[i + 1].run

Wrote == \E i \in DOMAIN cmd : cmd[i].kind \in {"csr", "imem"}

\* While the strobe of a write is remembered the host has a halted setting
\* left to show.
Released ==
  /\ Releases(rest)
  /\ we_d => rest # << >> /\ ~rest[1].run
  /\ Wrote => we_d /\ ~run_q

LEMMA Strobes ==
  ASSUME NEW r \in BOOLEAN, NEW a, NEW d
  PROVE  /\ ~Quiet(r, a, d).stbA /\ ~StrobeB(r, a, d).stbA
         /\ Quiet(r, a, d).run = r /\ StrobeB(r, a, d).run = r
         /\ StrobeA(a, d).run = FALSE /\ Both(a, d).run = FALSE
BY DEF Quiet, StrobeA, StrobeB, Both

LEMMA LastReleases ==
  ASSUME NEW p, ~p.stbA
  PROVE  Releases(<<p>>)
BY DEF Releases

LEMMA TwoRelease ==
  ASSUME NEW p, NEW q, p.stbA => ~p.run /\ ~q.run, ~q.stbA
  PROVE  Releases(<<p, q>>)
<1> SUFFICES ASSUME NEW i \in 1 .. 2, <<p, q>>[i].stbA
             PROVE  /\ i + 1 \in 1 .. 2
                    /\ ~<<p, q>>[i].run /\ ~<<p, q>>[i + 1].run
  BY DEF Releases
<1>1. i = 1 \/ i = 2
  OBVIOUS
<1> QED BY <1>1

LEMMA ThreeRelease ==
  ASSUME NEW p, NEW q, NEW t, ~p.run, ~q.run, ~t.run, ~t.stbA
  PROVE  Releases(<<p, q, t>>)
<1> SUFFICES ASSUME NEW i \in 1 .. 3, <<p, q, t>>[i].stbA
             PROVE  /\ i + 1 \in 1 .. 3
                    /\ ~<<p, q, t>>[i].run /\ ~<<p, q, t>>[i + 1].run
  BY DEF Releases
<1>1. i = 1 \/ i = 2 \/ i = 3
  OBVIOUS
<1> QED BY <1>1

LEMMA FourRelease ==
  ASSUME NEW p, NEW q, NEW t, NEW u, ~p.run, ~q.run, ~t.run, ~u.run, ~u.stbA
  PROVE  Releases(<<p, q, t, u>>)
<1> SUFFICES ASSUME NEW i \in 1 .. 4, <<p, q, t, u>>[i].stbA
             PROVE  /\ i + 1 \in 1 .. 4
                    /\ ~<<p, q, t, u>>[i].run /\ ~<<p, q, t, u>>[i + 1].run
  BY DEF Releases
<1>1. i = 1 \/ i = 2 \/ i = 3 \/ i = 4
  OBVIOUS
<1> QED BY <1>1

LEMMA PulsesRelease ==
  ASSUME NEW r \in BOOLEAN, NEW a, NEW d
  PROVE  /\ Releases(PulseA(a, d)) /\ Releases(PulseB(r, a, d))
         /\ Releases(<<Quiet(r, a, d)>>)
<1>1. Releases(PulseA(a, d))
  BY Strobes, TwoRelease DEF PulseA
<1>2. Releases(PulseB(r, a, d))
  BY Strobes, TwoRelease DEF PulseB
<1>3. Releases(<<Quiet(r, a, d)>>)
  BY Strobes, LastReleases
<1> QED BY <1>1, <1>2, <1>3

LEMMA CsrReleases ==
  ASSUME NEW a, NEW d, NEW s \in CsrPulse(a, d)
  PROVE  Releases(s)
<1>1. Releases(<<StrobeB(FALSE, a, d), Both(a, d), StrobeB(FALSE, a, d),
                 Quiet(FALSE, a, d)>>)
  BY Strobes, FourRelease
<1>2. Releases(<<Both(a, d), Quiet(FALSE, a, d)>>)
  BY Strobes, TwoRelease
<1>3. Releases(<<Both(a, d), StrobeA(a, d), Quiet(FALSE, a, d)>>)
  BY Strobes, ThreeRelease
<1>4. Releases(<<Both(a, d), StrobeB(FALSE, a, d), Quiet(FALSE, a, d)>>)
  BY Strobes, ThreeRelease
<1> QED BY <1>1, <1>2, <1>3, <1>4 DEF CsrPulse

LEMMA BothRelease ==
  ASSUME NEW s \in Seq(Pins), NEW t \in Seq(Pins), Releases(s), Releases(t)
  PROVE  Releases(s \o t)
<1> SUFFICES ASSUME NEW i \in DOMAIN (s \o t), (s \o t)[i].stbA
             PROVE  /\ i + 1 \in DOMAIN (s \o t)
                    /\ ~(s \o t)[i].run /\ ~(s \o t)[i + 1].run
  BY DEF Releases
<1>1. CASE i <= Len(s)
  <2>1. i \in DOMAIN s /\ (s \o t)[i] = s[i]
    BY <1>1
  <2>2. i + 1 \in DOMAIN s /\ ~s[i].run /\ ~s[i + 1].run
    BY <2>1 DEF Releases
  <2>3. i + 1 \in DOMAIN (s \o t) /\ (s \o t)[i + 1] = s[i + 1]
    BY <2>2
  <2> QED BY <2>1, <2>2, <2>3
<1>2. CASE i > Len(s)
  <2> DEFINE k == i - Len(s)
  <2>1. k \in DOMAIN t /\ (s \o t)[i] = t[k]
    BY <1>2
  <2>2. k + 1 \in DOMAIN t /\ ~t[k].run /\ ~t[k + 1].run
    BY <2>1 DEF Releases
  <2>3. i + 1 \in DOMAIN (s \o t) /\ (s \o t)[i + 1] = t[k + 1]
    BY <1>2, <2>2
  <2> QED BY <2>1, <2>2, <2>3
<1>3. i \in Nat /\ Len(s) \in Nat
  OBVIOUS
<1> QED BY <1>1, <1>2, <1>3

LEMMA TailReleases ==
  ASSUME NEW s \in Seq(Pins), s # << >>, Releases(s)
  PROVE  Releases(Tail(s))
<1> SUFFICES ASSUME NEW i \in DOMAIN Tail(s), Tail(s)[i].stbA
             PROVE  /\ i + 1 \in DOMAIN Tail(s)
                    /\ ~Tail(s)[i].run /\ ~Tail(s)[i + 1].run
  BY DEF Releases
<1>1. i \in Nat /\ i + 1 \in DOMAIN s /\ Tail(s)[i] = s[i + 1]
  OBVIOUS
<1>2. i + 2 \in DOMAIN s /\ ~s[i + 1].run /\ ~s[i + 2].run
  BY <1>1 DEF Releases
<1>3. i + 1 \in DOMAIN Tail(s) /\ Tail(s)[i + 1] = s[i + 2]
  BY <1>1, <1>2
<1> QED BY <1>1, <1>2, <1>3

LEMMA ScriptsRelease ==
  ASSUME NEW o \in Op, NEW s \in Script(o)
  PROVE  Releases(s)
<1>1. ASSUME NEW r \in BOOLEAN, NEW a \in Addr, NEW d \in Byte
      PROVE  PulseA(a, d) \in Seq(Pins) /\ PulseB(r, a, d) \in Seq(Pins)
  BY Pulses DEF Shows
<1>2. CASE o.kind \in {"load", "loadlow"}
  <2>1. CASE o.kind = "load"
    <3>1. s = PulseA(o.a, o.w[2]) \o PulseA(o.a, o.w[1])
      BY <2>1 DEF Script
    <3>2. o.a \in Addr /\ o.w[1] \in Byte /\ o.w[2] \in Byte
      BY <2>1, Kinds
    <3> QED BY <1>1, <3>1, <3>2, PulsesRelease, BothRelease
  <2>2. CASE o.kind = "loadlow"
    BY <2>2, PulsesRelease DEF Script
  <2> QED BY <1>2, <2>1, <2>2
<1>3. CASE o.kind = "csr"
  <2>1. s \in CsrPulse(o.a, o.d)
    BY <1>3 DEF Script
  <2> QED BY <2>1, CsrReleases
<1>4. CASE o.kind \in {"push", "pop", "livepop"}
  <2>1. \E r \in BOOLEAN : \E a, d : s = PulseB(r, a, d)
    BY <1>4, Zenon DEF Script
  <2> QED BY <2>1, PulsesRelease
<1>5. CASE o.kind \in {"livepush", "livepushpop", "livelow"}
  <2>1. ASSUME NEW n \in Nibble
        PROVE  /\ LivePulse(n, 0) \in Seq(Pins) /\ Releases(LivePulse(n, 0))
               /\ PulseB(TRUE, PopPins(n), 0) \in Seq(Pins)
               /\ Releases(PulseB(TRUE, PopPins(n), 0))
    BY <1>1, NibblePins, Widths, PulsesRelease DEF LivePulse
  <2>2. CASE o.kind = "livepush"
    <3>1. s = LivePulse(o.d % NibMod, 0) \o LivePulse(o.d \div NibMod, 0)
      BY <2>2 DEF Script
    <3>2. o.d \in Byte
      BY <2>2, Kinds
    <3> QED BY <2>1, <3>1, <3>2, BytesAreNibbles, BothRelease
  <2>3. CASE o.kind = "livepushpop"
    <3>1. PICK n \in Nibble :
            s = LivePulse(o.d % NibMod, 0) \o PulseB(TRUE, PopPins(n), 0)
                  \o LivePulse(o.d \div NibMod, 0)
      BY <2>3 DEF Script
    <3>2. o.d \in Byte
      BY <2>3, Kinds
    <3> DEFINE low == LivePulse(o.d % NibMod, 0)
               pop == PulseB(TRUE, PopPins(n), 0)
               high == LivePulse(o.d \div NibMod, 0)
    <3>3. /\ low \in Seq(Pins) /\ Releases(low) /\ pop \in Seq(Pins) /\ Releases(pop)
          /\ high \in Seq(Pins) /\ Releases(high) /\ s = low \o pop \o high
      BY <2>1, <3>1, <3>2, BytesAreNibbles
    <3> HIDE DEF low, pop, high
    <3>4. low \o pop \in Seq(Pins) /\ Releases(low \o pop)
      BY <3>3, BothRelease
    <3> QED BY <3>3, <3>4, BothRelease
  <2>4. CASE o.kind = "livelow"
    <3>1. s = LivePulse(o.d, 0) /\ o.d \in Nibble
      BY <2>4, Kinds DEF Script
    <3> QED BY <2>1, <3>1
  <2> QED BY <1>5, <2>2, <2>3, <2>4
<1>6. CASE o.kind \in {"run", "halt"}
  <2>1. \E r \in BOOLEAN : s = <<Quiet(r, 0, 0)>>
    BY <1>6 DEF Script
  <2> QED BY <2>1, PulsesRelease
<1> QED BY Kinds, <1>2, <1>3, <1>4, <1>5, <1>6

\* An edge remembers the strobe of what it writes.
LEMMA EdgeWrites ==
  ASSUME NEW p \in Pins, PortTypeOK, Edge(p)
  PROVE  /\ we_d' = (p.stbA /\ p.ena /\ ~p.run)
         /\ run_q' => p.run
         /\ Wrote' => we_d' /\ ~run_q'
<1>1. /\ we_d' = we(p) /\ run_q' = running(p) /\ cmd' = Commands(p)
  BY DEF Edge
<1>2. Wrote' => csr_we(p) \/ imem_we(p)
  <2>1. SUFFICES ASSUME ~csr_we(p), ~imem_we(p), NEW i \in DOMAIN cmd'
                 PROVE  cmd'[i].kind \notin {"csr", "imem"}
    BY DEF Wrote
  <2>2. cmd' = If(tx_we(p), Tx(tx_data(p))) \o If(rx_re(p), Rx)
    BY <1>1, <2>1 DEF Commands, If
  <2>3. CASE tx_we(p) /\ rx_re(p)
    BY <2>2, <2>3 DEF If, Tx, Rx
  <2>4. CASE tx_we(p) /\ ~rx_re(p)
    BY <2>2, <2>4 DEF If, Tx, Rx
  <2>5. CASE ~tx_we(p) /\ rx_re(p)
    BY <2>2, <2>5 DEF If, Tx, Rx
  <2>6. CASE ~tx_we(p) /\ ~rx_re(p)
    BY <2>2, <2>6 DEF If
  <2> QED BY <2>3, <2>4, <2>5, <2>6
<1>3. csr_we(p) \/ imem_we(p) => we(p) /\ halt(p)
  BY DEF csr_we, imem_we, we_edge, we
<1>4. halt(p) => ~running(p)
  BY DEF halt, running
<1>5. /\ we(p) = (p.stbA /\ p.ena /\ ~p.run)
      /\ running(p) => p.run
  BY Zenon DEF we, halt, running
<1> QED BY <1>1, <1>2, <1>3, <1>4, <1>5, Zenon

LEMMA ReleasedKept ==
  ASSUME HostInv, Released, [Next]_vars
  PROVE  Released'
<1> USE DEF HostInv
<1>1. ASSUME NEW o \in Op, Begin(o) PROVE Released'
  <2>1. /\ op = None /\ rest = << >> /\ rest' \in Script(o)
        /\ we_d' = we_d /\ run_q' = run_q /\ cmd' = cmd
    BY <1>1 DEF Begin, ModeFollows, portvars, wrapper
  <2> QED BY <2>1, ScriptsRelease DEF Released, Wrote
<1>2. CASE Clock
  <2> DEFINE p == rest[1]
  <2>1. /\ rest \in Seq(Pins) /\ rest # << >> /\ p \in Pins /\ 1 \in DOMAIN rest
        /\ Head(rest) = p /\ PortTypeOK
    BY <1>2 DEF Clock, HostTypeOK
  <2>2. Edge(p) /\ rest' \in {rest, Tail(rest)}
    BY <1>2, <2>1 DEF Clock
  <2>3. Releases(rest')
    BY <2>1, <2>2, TailReleases DEF Released
  <2>4. we_d' = (p.stbA /\ p.ena /\ ~p.run) /\ (Wrote' => we_d' /\ ~run_q')
    BY <2>1, <2>2, EdgeWrites
  <2>5. p.stbA => 2 \in DOMAIN rest /\ ~p.run /\ ~rest[2].run
    BY <2>1 DEF Released, Releases
  <2>6. 2 \in DOMAIN rest => Tail(rest) # << >> /\ Tail(rest)[1] = rest[2]
    <3> HIDE DEF p
    <3>1. Len(rest) \in Nat /\ DOMAIN rest = 1 .. Len(rest)
      BY <2>1
    <3>2. Tail(rest) \in Seq(Pins) /\ Len(Tail(rest)) = Len(rest) - 1
      BY <2>1
    <3>3. 2 <= Len(rest) => Len(Tail(rest)) # 0 /\ Tail(rest)[1] = rest[2]
      BY <2>1, <3>1, <3>2
    <3> QED BY <3>1, <3>3
  <2>7. we_d' => rest' # << >> /\ ~rest'[1].run
    BY <2>1, <2>2, <2>4, <2>5, <2>6
  <2> QED BY <2>3, <2>4, <2>7 DEF Released
<1>3. CASE End
  BY <1>3 DEF End, Released, Wrote, portvars, wrapper
<1>4. CASE IdleClock
  <2>1. /\ op = None /\ rest = << >> /\ rest' = rest /\ on \in BOOLEAN
        /\ Edge(Quiet(on, 0, 0)) /\ PortTypeOK
    BY <1>4 DEF IdleClock, ModeFollows, HostTypeOK
  <2>2. Quiet(on, 0, 0) \in Pins /\ Quiet(on, 0, 0).stbA = FALSE
    BY <2>1, Settings, Widths DEF Quiet
  <2>3. ~we_d' /\ (Wrote' => we_d' /\ ~run_q')
    BY <2>1, <2>2, EdgeWrites
  <2> QED BY <2>1, <2>3 DEF Released
<1>5. CASE HostReset
  <2>1. /\ op = None /\ rest = << >> /\ rest' = rest /\ ~we_d' /\ cmd' = << >>
    BY <1>5 DEF HostReset, ModeFollows, ResetEdge
  <2> QED BY <2>1 DEF Released, Wrote
<1>6. CASE UNCHANGED vars
  BY <1>6 DEF Released, Wrote, vars, hostvars, portvars, wrapper
<1> QED BY <1>1, <1>2, <1>3, <1>4, <1>5, <1>6 DEF Next

LEMMA ReleasedStep ==
  ASSUME HostInv, Released, [Next]_vars, run_q'
  PROVE  ~Wrote
<1> USE DEF HostInv
<1>1. CASE Clock
  <2> DEFINE p == rest[1]
  <2>1. /\ rest \in Seq(Pins) /\ rest # << >> /\ p \in Pins /\ Head(rest) = p /\ PortTypeOK
    BY <1>1 DEF Clock, HostTypeOK
  <2>2. p.run
    <3>1. Edge(p)
      BY <1>1, <2>1 DEF Clock
    <3> QED BY <2>1, <3>1, EdgeWrites
  <2> QED BY <2>2 DEF Released
<1>2. CASE IdleClock
  <2>1. rest = << >>
    BY <1>2 DEF IdleClock, ModeFollows
  <2> QED BY <2>1 DEF Released
<1>3. CASE HostReset
  BY <1>3 DEF HostReset, ResetEdge
<1>4. CASE run_q' = run_q
  BY <1>4 DEF Released
<1>5. (\E o \in Op : Begin(o)) \/ End \/ UNCHANGED vars => run_q' = run_q
  BY DEF Begin, End, vars, portvars, wrapper
<1> QED BY <1>1, <1>2, <1>3, <1>4, <1>5 DEF Next

\* A host of the datasheet leaves the clock that the clocked instruction
\* memory needs between a write and a run.
THEOREM HostIsPatient == Spec => WritesSettle
<1>1. Init => Released
  <2>1. Init => rest = << >> /\ ~we_d /\ cmd = << >>
    BY DEF Init, PortInit
  <2> QED BY <2>1 DEF Released, Releases, Wrote
<1>2. HostInv /\ Released /\ [Next]_vars => Released'
  BY ReleasedKept
<1>3. HostInv /\ Released /\ [Next]_vars =>
        [run_q' => \A i \in DOMAIN cmd : cmd[i].kind \notin {"csr", "imem"}]_vars
  BY ReleasedStep DEF Wrote
<1> QED BY <1>1, <1>2, <1>3, HostInvariance, PTL DEF Spec, WritesSettle

-----------------------------------------------------------------------------
\* What is pending in the wrapper: nothing, the low byte of a word, or the low
\* nibble k of a byte if h.
Rested == ~we_d /\ ~tx_d
Whole == ~hi /\ ~nib_hi
HalfWord(a, d) == hi /\ addr = a /\ lo = d /\ ~nib_hi
HalfByte(h, k) == ~hi /\ (nib_hi <=> h) /\ (h => nib_lo = k)

\* A strobe and the quiet setting behind it, with other settings to follow.
\* The wrapper is in one state until it has taken the strobe, in another from
\* then on, however long either setting is held.
InPulse(pulse, later, taken, before, after) ==
  \/ rest = pulse \o later /\ IF taken THEN after ELSE before /\ Rested
  \/ rest = Tail(pulse) \o later /\ after
Over(after) == rest = << >> /\ after /\ Rested

\* Where a host can be in each operation, with what the engine has been told.
AtLoad ==
  \/ InPulse(PulseA(op.a, op.w[2]), PulseA(op.a, op.w[1]), we_d,
             Whole /\ told = << >>, HalfWord(op.a, op.w[2]) /\ told = << >>)
  \/ InPulse(PulseA(op.a, op.w[1]), << >>, we_d,
             HalfWord(op.a, op.w[2]) /\ told = << >>,
             Whole /\ told = <<Imem(wr_slot, op.a, op.w)>>)
  \/ Over(Whole /\ told = <<Imem(wr_slot, op.a, op.w)>>)

AtLoadLow ==
  \/ InPulse(PulseA(op.a, op.d), << >>, we_d,
             Whole /\ told = << >>, HalfWord(op.a, op.d) /\ told = << >>)
  \/ Over(HalfWord(op.a, op.d) /\ told = << >>)

AtCsr ==
  \/ rest \in CsrPulse(op.a, op.d) /\ Whole
       /\ \/ Rested /\ told = << >>
          \/ we_d /\ tx_d /\ told = <<Csr(op.a, op.d)>>
  \/ rest = PulseA(op.a, op.d) /\ we_d /\ Whole /\ told = <<Csr(op.a, op.d)>>
  \/ rest = PulseB(FALSE, op.a, op.d) /\ tx_d /\ Whole /\ told = <<Csr(op.a, op.d)>>
  \/ rest = <<Quiet(FALSE, op.a, op.d)>> /\ Whole /\ told = <<Csr(op.a, op.d)>>
  \/ Over(Whole /\ told = <<Csr(op.a, op.d)>>)

AtPush ==
  \/ \E n \in Nibble :
       InPulse(PulseB(FALSE, PushPins(n), op.d), << >>, tx_d,
               Whole /\ told = << >>, Whole /\ told = <<Tx(op.d)>>)
  \/ Over(Whole /\ told = <<Tx(op.d)>>)

AtPop ==
  \/ \E n \in Nibble :
       InPulse(PulseB(FALSE, PopPins(n), 0), << >>, tx_d,
               Whole /\ told = << >>, Whole /\ told = <<Rx>>)
  \/ Over(Whole /\ told = <<Rx>>)

AtLivePop ==
  \/ \E n \in Nibble :
       InPulse(PulseB(TRUE, PopPins(n), 0), << >>, tx_d,
               HalfByte(FALSE, 0) /\ told = << >>, HalfByte(FALSE, 0) /\ told = <<Rx>>)
  \/ Over(HalfByte(FALSE, 0) /\ told = <<Rx>>)

AtLiveLow ==
  \/ InPulse(LivePulse(op.d, 0), << >>, tx_d,
             HalfByte(FALSE, 0) /\ told = << >>, HalfByte(TRUE, op.d) /\ told = << >>)
  \/ Over(HalfByte(TRUE, op.d) /\ told = << >>)

LowNib == op.d % NibMod
HighNib == op.d \div NibMod

AtLivePush ==
  \/ InPulse(LivePulse(LowNib, 0), LivePulse(HighNib, 0), tx_d,
             HalfByte(FALSE, 0) /\ told = << >>, HalfByte(TRUE, LowNib) /\ told = << >>)
  \/ InPulse(LivePulse(HighNib, 0), << >>, tx_d,
             HalfByte(TRUE, LowNib) /\ told = << >>, HalfByte(FALSE, 0) /\ told = <<Tx(op.d)>>)
  \/ Over(HalfByte(FALSE, 0) /\ told = <<Tx(op.d)>>)

AtLivePushPop ==
  \/ \E n \in Nibble :
       InPulse(LivePulse(LowNib, 0), PulseB(TRUE, PopPins(n), 0) \o LivePulse(HighNib, 0),
               tx_d, HalfByte(FALSE, 0) /\ told = << >>,
               HalfByte(TRUE, LowNib) /\ told = << >>)
  \/ \E n \in Nibble :
       InPulse(PulseB(TRUE, PopPins(n), 0), LivePulse(HighNib, 0), tx_d,
               HalfByte(TRUE, LowNib) /\ told = << >>, HalfByte(TRUE, LowNib) /\ told = <<Rx>>)
  \/ InPulse(LivePulse(HighNib, 0), << >>, tx_d,
             HalfByte(TRUE, LowNib) /\ told = <<Rx>>,
             HalfByte(FALSE, 0) /\ told = <<Rx, Tx(op.d)>>)
  \/ Over(HalfByte(FALSE, 0) /\ told = <<Rx, Tx(op.d)>>)

AtRun ==
  \/ rest = <<Quiet(TRUE, 0, 0)>> /\ ~nib_hi /\ told = << >>
  \/ Over(Whole /\ told = << >>)

AtHalt ==
  \/ rest = <<Quiet(FALSE, 0, 0)>> /\ ~hi /\ told = << >>
  \/ Over(Whole /\ told = << >>)

\* Between two operations only the half of one that was given up is pending.
Between ==
  /\ told = << >> /\ Rested
  /\ hi => must = "run"
  /\ nib_hi => must = "halt"

Progress ==
  /\ op = None => Between
  /\ op # None =>
       /\ op.kind = "load" => AtLoad
       /\ op.kind = "loadlow" => AtLoadLow
       /\ op.kind = "csr" => AtCsr
       /\ op.kind = "push" => AtPush
       /\ op.kind = "pop" => AtPop
       /\ op.kind = "livepush" => AtLivePush
       /\ op.kind = "livepushpop" => AtLivePushPop
       /\ op.kind = "livelow" => AtLiveLow
       /\ op.kind = "livepop" => AtLivePop
       /\ op.kind = "run" => AtRun
       /\ op.kind = "halt" => AtHalt

-----------------------------------------------------------------------------
\* What the wrapper makes of each setting, by the strobes it has seen before.

LEMMA QuietEdge ==
  ASSUME NEW r \in BOOLEAN, NEW a \in Addr, NEW d \in Byte, Edge(Quiet(r, a, d))
  PROVE  /\ cmd' = << >> /\ Rested' /\ wr_slot' = wr_slot
         /\ hi' <=> hi /\ ~r
         /\ nib_hi' <=> nib_hi /\ r
         /\ addr' = addr /\ lo' = lo /\ nib_lo' = nib_lo
<1> DEFINE p == Quiet(r, a, d)
<1>1. /\ p \in Pins /\ p.ena = TRUE /\ p.run = r /\ ~p.stbA /\ ~p.stbB
  BY Settings DEF Quiet
<1> HIDE DEF p
<1>2. ~we_edge(p) /\ ~fifo_edge(p) /\ ~we(p) /\ ~fifo_stb(p) /\ (running(p) <=> r)
  BY <1>1 DEF we_edge, fifo_edge, we, fifo_stb, running
<1>3. ~csr_we(p) /\ ~imem_we(p) /\ ~tx_we(p) /\ ~rx_re(p)
  BY <1>2 DEF csr_we, imem_we, tx_we, rx_re, tx_we_halt, rx_re_halt, tx_we_run, rx_re_run
<1>4. Edge(p)
  BY DEF p
<1>5. cmd' = << >> /\ Rested'
  BY <1>1, <1>2, <1>3, <1>4, NothingOrOne DEF Edge, Rested
<1>6. CASE r
  BY <1>2, <1>3, <1>4, <1>5, <1>6 DEF Edge, RunEdge
<1>7. CASE ~r
  BY <1>2, <1>3, <1>4, <1>5, <1>7 DEF Edge, StillEdge
<1> QED BY <1>6, <1>7

LEMMA StrobeAEdge ==
  ASSUME NEW a \in Addr, NEW d \in Byte, Edge(StrobeA(a, d))
  PROVE  /\ we_d' /\ wr_slot' = wr_slot /\ ~nib_hi'
         /\ we_d => cmd' = << >> /\ (hi' <=> hi) /\ addr' = addr /\ lo' = lo
         /\ ~we_d /\ ~hi => cmd' = << >> /\ hi' /\ addr' = a /\ lo' = d
         /\ ~we_d /\ hi => cmd' = <<Imem(wr_slot, addr, <<d, lo>>)>> /\ ~hi'
<1> DEFINE p == StrobeA(a, d)
<1>1. p \in Pins /\ p.ena /\ ~p.run /\ p.stbA /\ ~p.stbB /\ p.a = a /\ p.uio = d
  BY Settings DEF StrobeA, Quiet
<1> HIDE DEF p
<1>2. /\ we(p) /\ ~fifo_stb(p) /\ ~fifo_edge(p) /\ ~running(p)
      /\ we_edge(p) <=> ~we_d
  BY <1>1 DEF we_edge, fifo_edge, we, fifo_stb, running, halt
<1>3. /\ ~csr_we(p) /\ ~tx_we(p) /\ ~rx_re(p)
      /\ imem_we(p) <=> ~we_d /\ hi
  BY <1>2 DEF csr_we, imem_we, tx_we, rx_re, tx_we_halt, rx_re_halt, tx_we_run, rx_re_run
<1>4. Edge(p)
  BY DEF p
<1>5. /\ cmd' = Commands(p) /\ we_d' /\ StillEdge(p)
  BY <1>2, <1>4 DEF Edge
<1>6. /\ ~(~we_d /\ hi) => cmd' = << >>
      /\ ~we_d /\ hi => cmd' = <<Imem(wr_slot, addr, <<d, lo>>)>>
  BY <1>1, <1>3, <1>5, NothingOrOne
<1> QED BY <1>1, <1>2, <1>3, <1>5, <1>6 DEF StillEdge

LEMMA StrobeBHaltedEdge ==
  ASSUME NEW a \in Addr, NEW d \in Byte, Edge(StrobeB(FALSE, a, d))
  PROVE  /\ tx_d' /\ wr_slot' = wr_slot /\ ~nib_hi'
         /\ (hi' <=> hi) /\ addr' = addr /\ lo' = lo
         /\ tx_d => cmd' = << >>
         /\ ~tx_d => cmd' = IF a % 2 = 1 THEN <<Rx>> ELSE <<Tx(d)>>
<1> DEFINE p == StrobeB(FALSE, a, d)
<1>1. p \in Pins /\ p.ena /\ ~p.run /\ ~p.stbA /\ p.stbB /\ p.a = a /\ p.uio = d
  BY Settings DEF StrobeB, Quiet
<1> HIDE DEF p
<1>2. /\ ~we(p) /\ ~we_edge(p) /\ fifo_stb(p) /\ ~running(p) /\ halt(p)
      /\ fifo_edge(p) <=> ~tx_d
  BY <1>1 DEF we_edge, fifo_edge, we, fifo_stb, running, halt
<1>3. /\ ~csr_we(p) /\ ~imem_we(p)
      /\ tx_we(p) <=> ~tx_d /\ a % 2 # 1
      /\ rx_re(p) <=> ~tx_d /\ a % 2 = 1
      /\ tx_data(p) = d
  BY <1>1, <1>2
  DEF csr_we, imem_we, tx_we, rx_re, tx_we_halt, rx_re_halt, tx_we_run, rx_re_run,
      PopSel, tx_data
<1>4. Edge(p)
  BY DEF p
<1>5. /\ cmd' = Commands(p) /\ tx_d' /\ StillEdge(p)
  BY <1>2, <1>4 DEF Edge
<1>6. /\ tx_d => cmd' = << >>
      /\ ~tx_d => cmd' = IF a % 2 = 1 THEN <<Rx>> ELSE <<Tx(d)>>
  BY <1>1, <1>3, <1>5, NothingOrOne
<1> QED BY <1>2, <1>3, <1>5, <1>6 DEF StillEdge

LEMMA StrobeBRunningEdge ==
  ASSUME NEW a \in Addr, NEW d \in Byte, Edge(StrobeB(TRUE, a, d))
  PROVE  /\ tx_d' /\ wr_slot' = wr_slot /\ ~hi'
         /\ tx_d => cmd' = << >> /\ (nib_hi' <=> nib_hi) /\ nib_lo' = nib_lo
         /\ ~tx_d /\ a % 2 = 1 => cmd' = <<Rx>> /\ (nib_hi' <=> nib_hi) /\ nib_lo' = nib_lo
         /\ ~tx_d /\ a % 2 # 1 /\ ~nib_hi => cmd' = << >> /\ nib_hi' /\ nib_lo' = a \div 2
         /\ ~tx_d /\ a % 2 # 1 /\ nib_hi =>
              cmd' = <<Tx((a \div 2) * NibMod + nib_lo)>> /\ ~nib_hi'
<1> DEFINE p == StrobeB(TRUE, a, d)
<1>1. p \in Pins /\ p.ena /\ p.run /\ ~p.stbA /\ p.stbB /\ p.a = a
  BY Settings DEF StrobeB, Quiet
<1> HIDE DEF p
<1>2. /\ ~we(p) /\ ~we_edge(p) /\ fifo_stb(p) /\ running(p) /\ ~halt(p)
      /\ fifo_edge(p) <=> ~tx_d
      /\ PopSel(p) <=> a % 2 = 1
  BY <1>1 DEF we_edge, fifo_edge, we, fifo_stb, running, halt, PopSel
<1>3. /\ ~csr_we(p) /\ ~imem_we(p)
      /\ tx_we(p) <=> ~tx_d /\ a % 2 # 1 /\ nib_hi
      /\ rx_re(p) <=> ~tx_d /\ a % 2 = 1
      /\ tx_data(p) = (a \div 2) * NibMod + nib_lo /\ Nib(p) = a \div 2
  BY <1>1, <1>2
  DEF csr_we, imem_we, tx_we, rx_re, tx_we_halt, rx_re_halt, tx_we_run, rx_re_run,
      tx_data, Nib
<1>4. Edge(p)
  BY DEF p
<1>5. /\ cmd' = Commands(p) /\ tx_d' /\ RunEdge(p)
  BY <1>2, <1>4 DEF Edge
<1>6. /\ tx_d => cmd' = << >>
      /\ ~tx_d /\ a % 2 = 1 => cmd' = <<Rx>>
      /\ ~tx_d /\ a % 2 # 1 /\ ~nib_hi => cmd' = << >>
      /\ ~tx_d /\ a % 2 # 1 /\ nib_hi => cmd' = <<Tx((a \div 2) * NibMod + nib_lo)>>
  BY <1>1, <1>3, <1>5, NothingOrOne
<1> QED BY <1>2, <1>3, <1>5, <1>6 DEF RunEdge

LEMMA BothEdge ==
  ASSUME NEW a \in Addr, NEW d \in Byte, Edge(Both(a, d)), Whole
  PROVE  /\ we_d' /\ tx_d' /\ Whole'
         /\ we_d /\ tx_d => cmd' = << >> /\ wr_slot' = wr_slot
         /\ Rested => /\ cmd' = <<Csr(a, d)>>
                      /\ wr_slot' = IF a = CsrWriteSlot THEN d % NSlots ELSE wr_slot
<1> DEFINE p == Both(a, d)
<1>1. p \in Pins /\ p.ena /\ ~p.run /\ p.stbA /\ p.stbB /\ p.a = a /\ p.uio = d
  BY Settings DEF Both, StrobeA, Quiet
<1> HIDE DEF p
<1>2. /\ we(p) /\ fifo_stb(p) /\ ~running(p) /\ halt(p)
      /\ we_edge(p) <=> ~we_d
      /\ fifo_edge(p) <=> ~tx_d
  BY <1>1 DEF we_edge, fifo_edge, we, fifo_stb, running, halt
<1>3. /\ csr_we(p) <=> ~we_d
      /\ ~imem_we(p) /\ ~tx_we(p) /\ ~rx_re(p)
  BY <1>1, <1>2
  DEF csr_we, imem_we, tx_we, rx_re, tx_we_halt, rx_re_halt, tx_we_run, rx_re_run
<1>4. Edge(p)
  BY DEF p
<1>5. /\ cmd' = Commands(p) /\ we_d' /\ tx_d' /\ StillEdge(p)
  BY <1>2, <1>4 DEF Edge
<1>6. Whole'
  BY <1>2, <1>5 DEF StillEdge, Whole
<1>7. we_d => cmd' = << >> /\ wr_slot' = wr_slot
  BY <1>1, <1>3, <1>5, NothingOrOne DEF StillEdge
<1>8. ~we_d => /\ cmd' = <<Csr(a, d)>>
               /\ wr_slot' = IF a = CsrWriteSlot THEN d % NSlots ELSE wr_slot
  BY <1>1, <1>3, <1>5, NothingOrOne DEF StillEdge
<1> QED BY <1>5, <1>6, <1>7, <1>8 DEF Rested

-----------------------------------------------------------------------------
\* A pulse in progress, clock by clock.  Each lemma says what the strobe does
\* and that neither a hold nor the quiet setting does anything.

LEMMA PairOf ==
  ASSUME NEW x, NEW y
  PROVE  <<x>> \o <<y>> = <<x, y>>
<1>1. <<x>> \in Seq({x, y}) /\ <<y>> \in Seq({x, y}) /\ <<x, y>> \in Seq({x, y})
  OBVIOUS
<1>2. <<x>> \o <<y>> \in Seq({x, y}) /\ Len(<<x>> \o <<y>>) = 2
  BY <1>1
<1>3. (<<x>> \o <<y>>)[1] = x /\ (<<x>> \o <<y>>)[2] = y
  BY <1>1
<1>4. Len(<<x, y>>) = 2 /\ <<x, y>>[1] = x /\ <<x, y>>[2] = y
  OBVIOUS
<1>5. \A i \in 1 .. Len(<<x, y>>) : (<<x>> \o <<y>>)[i] = <<x, y>>[i]
  <2> SUFFICES ASSUME NEW i \in 1 .. 2
               PROVE  (<<x>> \o <<y>>)[i] = <<x, y>>[i]
    BY <1>4
  <2>1. i = 1 \/ i = 2
    OBVIOUS
  <2> QED BY <2>1, <1>3, <1>4
<1> QED BY <1>1, <1>2, <1>4, <1>5, SeqEqual

LEMMA PairIsWhole ==
  ASSUME NEW x, NEW y
  PROVE  <<x, y>> \o << >> = <<x, y>>
<1>1. <<x, y>> \in Seq({x, y})
  OBVIOUS
<1> QED BY <1>1, ConcatEmptySeq

LEMMA OneAppended ==
  /\ \A x : << >> \o <<x>> = <<x>>
  /\ \A x : <<x>> \o << >> = <<x>>
<1>1. ASSUME NEW x PROVE << >> \o <<x>> = <<x>> /\ <<x>> \o << >> = <<x>>
  <2>1. <<x>> \in Seq({x})
    OBVIOUS
  <2> QED BY <2>1, ConcatEmptySeq
<1> QED BY <1>1

LEMMA NoneAppended == << >> \o << >> = << >>
<1>1. << >> \in Seq({})
  OBVIOUS
<1> QED BY <1>1, ConcatEmptySeq

LEMMA Appended ==
  /\ \A x : << >> \o <<x>> = <<x>>
  /\ \A x, y : <<x>> \o <<y>> = <<x, y>>
  /\ \A x, y : <<x, y>> \o << >> = <<x, y>>
  /\ \A x : <<x>> \o << >> = <<x>>
  /\ << >> \o << >> = << >>
<1>1. \A x, y : <<x>> \o <<y>> = <<x, y>>
  BY PairOf
<1>2. \A x, y : <<x, y>> \o << >> = <<x, y>>
  BY PairIsWhole
<1> QED BY <1>1, <1>2, OneAppended, NoneAppended

LEMMA PulseClock ==
  ASSUME NEW pulse \in Pins \X Pins, NEW later \in Seq(Pins), Clock,
         rest = pulse \o later \/ rest = Tail(pulse) \o later
  PROVE  /\ pulse \o later # Tail(pulse) \o later
         /\ \/ /\ rest = pulse \o later /\ Edge(pulse[1])
               /\ rest' = pulse \o later \/ rest' = Tail(pulse) \o later
            \/ /\ rest = Tail(pulse) \o later /\ Edge(pulse[2])
               /\ rest' = Tail(pulse) \o later \/ rest' = later
<1>1. PICK s \in Pins, q \in Pins : pulse = <<s, q>>
  OBVIOUS
<1> DEFINE full == pulse \o later
           half == Tail(pulse) \o later
<1>2. full = <<s, q>> \o later /\ half = <<q>> \o later
  BY <1>1, SMT
<1> HIDE DEF full, half
<1>3. Head(full) = s /\ Tail(full) = half
  BY <1>2, SMT
<1>4. Head(half) = q /\ Tail(half) = later
  BY <1>2, SMTT(30)
<1>5. Len(full) = 2 + Len(later) /\ Len(half) = 1 + Len(later) /\ Len(later) \in Nat
  BY <1>2, SMT
<1>6. full # half
  BY <1>5, SMT
<1>7. Edge(Head(rest)) /\ (rest' = rest \/ rest' = Tail(rest))
  BY DEF Clock
<1>8. pulse[1] = s /\ pulse[2] = q
  BY <1>1, SMT
<1>9. \/ rest = full /\ Edge(pulse[1]) /\ (rest' = full \/ rest' = half)
      \/ rest = half /\ Edge(pulse[2]) /\ (rest' = half \/ rest' = later)
  <2>1. CASE rest = full
    BY <1>3, <1>7, <1>8, <2>1
  <2>2. CASE rest = half
    BY <1>4, <1>7, <1>8, <2>2
  <2> QED BY <2>1, <2>2 DEF full, half
<1> QED BY <1>6, <1>9, Zenon DEF full, half

\* The pulses are pairs of settings.
LEMMA PulsePairs ==
  ASSUME NEW r \in BOOLEAN, NEW a \in Addr, NEW d \in Byte
  PROVE  /\ PulseA(a, d) \in Pins \X Pins
         /\ PulseA(a, d)[1] = StrobeA(a, d) /\ PulseA(a, d)[2] = Quiet(FALSE, a, d)
         /\ PulseB(r, a, d) \in Pins \X Pins
         /\ PulseB(r, a, d)[1] = StrobeB(r, a, d) /\ PulseB(r, a, d)[2] = Quiet(r, a, d)
BY Settings DEF PulseA, PulseB

\* The bit beside the nibble tells a push from a pop.
LEMMA NibbleCarried ==
  ASSUME NEW n \in Nibble
  PROVE  /\ PushPins(n) % 2 # 1 /\ PushPins(n) \div 2 = n
         /\ PopPins(n) % 2 = 1
BY Widths, SMT DEF PushPins, PopPins, Nibble

LEMMA LivePairs ==
  ASSUME NEW n \in Nibble
  PROVE  /\ LivePulse(n, 0) \in Pins \X Pins
         /\ LivePulse(n, 0)[1] = StrobeB(TRUE, PushPins(n), 0)
         /\ LivePulse(n, 0)[2] = Quiet(TRUE, PushPins(n), 0)
BY NibblePins, Widths, PulsePairs DEF LivePulse

\* The first strobe of a word latches its low byte.
LEMMA LowHalfPulse ==
  ASSUME NEW a \in Addr, NEW d \in Byte, NEW later \in Seq(Pins), Clock,
         InPulse(PulseA(a, d), later, we_d,
                 Whole /\ told = << >>, HalfWord(a, d) /\ told = << >>)
  PROVE  \/ InPulse(PulseA(a, d), later, we_d,
                    Whole /\ told = << >>, HalfWord(a, d) /\ told = << >>)'
         \/ rest' = later /\ (HalfWord(a, d) /\ told = << >>)' /\ Rested'
<1> DEFINE pulse == PulseA(a, d)
           full == pulse \o later
           half == Tail(pulse) \o later
           before == Whole /\ told = << >>
           after == HalfWord(a, d) /\ told = << >>
<1>1. rest = full \/ rest = half
  BY DEF InPulse
<1>2. pulse \in Pins \X Pins /\ later \in Seq(Pins)
  BY PulsePairs
<1>3. full # half => /\ rest = full => IF we_d THEN after ELSE before /\ Rested
                     /\ rest = half => after
  BY DEF InPulse
<1>4. ((rest' = full /\ we_d') \/ rest' = half) /\ after'
        => InPulse(pulse, later, we_d,
                   Whole /\ told = << >>, HalfWord(a, d) /\ told = << >>)'
  BY DEF InPulse
<1>5. /\ full # half
      /\ \/ rest = full /\ Edge(pulse[1]) /\ (rest' = full \/ rest' = half)
         \/ rest = half /\ Edge(pulse[2]) /\ (rest' = half \/ rest' = later)
  BY <1>1, <1>2, PulseClock
<1> HIDE DEF full, half
<1>6. /\ pulse[1] = StrobeA(a, d)
      /\ pulse[2] = Quiet(FALSE, a, d)
  BY PulsePairs
<1>7. told' = told \o cmd'
  BY DEF Clock
<1>8. CASE rest = full
  <2>1. Edge(StrobeA(a, d)) /\ (rest' = full \/ rest' = half)
    BY <1>5, <1>6, <1>8
  <2>2. we_d' /\ after'
    BY <1>3, <1>5, <1>7, <1>8, <2>1, StrobeAEdge, Appended
    DEF HalfWord, Whole, Rested
  <2> QED BY <1>4, <2>1, <2>2
<1>9. CASE rest = half
  <2>1. Edge(Quiet(FALSE, a, d)) /\ (rest' = half \/ rest' = later)
    BY <1>5, <1>6, <1>9
  <2>2. after' /\ Rested'
    BY <1>3, <1>5, <1>7, <1>9, <2>1, QuietEdge, Widths, Appended
    DEF HalfWord, Whole, Rested
  <2> QED BY <1>4, <2>1, <2>2
<1> QED BY <1>1, <1>8, <1>9

\* The second one loads it.
LEMMA HighHalfPulse ==
  ASSUME NEW a \in Addr, NEW w \in Byte \X Byte, Clock,
         InPulse(PulseA(a, w[1]), << >>, we_d,
                 HalfWord(a, w[2]) /\ told = << >>, Whole /\ told = <<Imem(wr_slot, a, w)>>)
  PROVE  \/ InPulse(PulseA(a, w[1]), << >>, we_d,
                    HalfWord(a, w[2]) /\ told = << >>,
                    Whole /\ told = <<Imem(wr_slot, a, w)>>)'
         \/ rest' = << >> /\ (Whole /\ told = <<Imem(wr_slot, a, w)>>)' /\ Rested'
<1> DEFINE pulse == PulseA(a, w[1])
           full == pulse \o << >>
           half == Tail(pulse) \o << >>
           before == HalfWord(a, w[2]) /\ told = << >>
           after == Whole /\ told = <<Imem(wr_slot, a, w)>>
<1>0. w[1] \in Byte /\ w[2] \in Byte /\ w = <<w[1], w[2]>>
  OBVIOUS
<1>1. rest = full \/ rest = half
  BY DEF InPulse
<1>2. pulse \in Pins \X Pins /\ << >> \in Seq(Pins)
  BY <1>0, PulsePairs, ShortSequences
<1>3. full # half => /\ rest = full => IF we_d THEN after ELSE before /\ Rested
                     /\ rest = half => after
  BY DEF InPulse
<1>4. ((rest' = full /\ we_d') \/ rest' = half) /\ after'
        => InPulse(pulse, << >>, we_d,
                   HalfWord(a, w[2]) /\ told = << >>, Whole /\ told = <<Imem(wr_slot, a, w)>>)'
  BY DEF InPulse
<1>5. /\ full # half
      /\ \/ rest = full /\ Edge(pulse[1]) /\ (rest' = full \/ rest' = half)
         \/ rest = half /\ Edge(pulse[2]) /\ (rest' = half \/ rest' = << >>)
  BY <1>1, <1>2, PulseClock
<1> HIDE DEF full, half
<1>6. /\ pulse[1] = StrobeA(a, w[1])
      /\ pulse[2] = Quiet(FALSE, a, w[1])
  BY <1>0, PulsePairs
<1>7. told' = told \o cmd'
  BY DEF Clock
<1>8. CASE rest = full
  <2>1. Edge(StrobeA(a, w[1])) /\ (rest' = full \/ rest' = half)
    BY <1>5, <1>6, <1>8
  <2>2. we_d' /\ after'
    BY <1>3, <1>5, <1>7, <1>8, <2>1, <1>0, StrobeAEdge, Appended
    DEF HalfWord, Whole, Rested
  <2> QED BY <1>4, <2>1, <2>2
<1>9. CASE rest = half
  <2>1. Edge(Quiet(FALSE, a, w[1])) /\ (rest' = half \/ rest' = << >>)
    BY <1>5, <1>6, <1>9
  <2>2. after' /\ Rested'
    BY <1>3, <1>5, <1>7, <1>9, <2>1, <1>0, QuietEdge, Widths, Appended
    DEF HalfWord, Whole, Rested
  <2> QED BY <1>4, <2>1, <2>2
<1> QED BY <1>1, <1>8, <1>9

\* Strobe B of a halted engine pushes or pops.
LEMMA HaltedPushPulse ==
  ASSUME NEW n \in Nibble, NEW d \in Byte, Clock,
         InPulse(PulseB(FALSE, PushPins(n), d), << >>, tx_d,
                 Whole /\ told = << >>, Whole /\ told = <<Tx(d)>>)
  PROVE  \/ InPulse(PulseB(FALSE, PushPins(n), d), << >>, tx_d,
                    Whole /\ told = << >>, Whole /\ told = <<Tx(d)>>)'
         \/ rest' = << >> /\ (Whole /\ told = <<Tx(d)>>)' /\ Rested'
<1> DEFINE pulse == PulseB(FALSE, PushPins(n), d)
           full == pulse \o << >>
           half == Tail(pulse) \o << >>
           before == Whole /\ told = << >>
           after == Whole /\ told = <<Tx(d)>>
<1>0. PushPins(n) \in Addr /\ PushPins(n) % 2 # 1
  BY NibblePins, NibbleCarried
<1>1. rest = full \/ rest = half
  BY DEF InPulse
<1>2. pulse \in Pins \X Pins /\ << >> \in Seq(Pins)
  BY <1>0, PulsePairs, ShortSequences
<1>3. full # half => /\ rest = full => IF tx_d THEN after ELSE before /\ Rested
                     /\ rest = half => after
  BY DEF InPulse
<1>4. ((rest' = full /\ tx_d') \/ rest' = half) /\ after'
        => InPulse(pulse, << >>, tx_d,
                   Whole /\ told = << >>, Whole /\ told = <<Tx(d)>>)'
  BY DEF InPulse
<1>5. /\ full # half
      /\ \/ rest = full /\ Edge(pulse[1]) /\ (rest' = full \/ rest' = half)
         \/ rest = half /\ Edge(pulse[2]) /\ (rest' = half \/ rest' = << >>)
  BY <1>1, <1>2, PulseClock
<1> HIDE DEF full, half
<1>6. /\ pulse[1] = StrobeB(FALSE, PushPins(n), d)
      /\ pulse[2] = Quiet(FALSE, PushPins(n), d)
  BY <1>0, PulsePairs
<1>7. told' = told \o cmd'
  BY DEF Clock
<1>8. CASE rest = full
  <2>1. Edge(StrobeB(FALSE, PushPins(n), d)) /\ (rest' = full \/ rest' = half)
    BY <1>5, <1>6, <1>8
  <2>2. tx_d' /\ after'
    BY <1>3, <1>5, <1>7, <1>8, <2>1, <1>0, StrobeBHaltedEdge, Appended
    DEF Whole, Rested
  <2> QED BY <1>4, <2>1, <2>2
<1>9. CASE rest = half
  <2>1. Edge(Quiet(FALSE, PushPins(n), d)) /\ (rest' = half \/ rest' = << >>)
    BY <1>5, <1>6, <1>9
  <2>2. after' /\ Rested'
    BY <1>3, <1>5, <1>7, <1>9, <2>1, <1>0, QuietEdge, Widths, Appended
    DEF Whole, Rested
  <2> QED BY <1>4, <2>1, <2>2
<1> QED BY <1>1, <1>8, <1>9

LEMMA HaltedPopPulse ==
  ASSUME NEW n \in Nibble, Clock,
         InPulse(PulseB(FALSE, PopPins(n), 0), << >>, tx_d,
                 Whole /\ told = << >>, Whole /\ told = <<Rx>>)
  PROVE  \/ InPulse(PulseB(FALSE, PopPins(n), 0), << >>, tx_d,
                    Whole /\ told = << >>, Whole /\ told = <<Rx>>)'
         \/ rest' = << >> /\ (Whole /\ told = <<Rx>>)' /\ Rested'
<1> DEFINE pulse == PulseB(FALSE, PopPins(n), 0)
           full == pulse \o << >>
           half == Tail(pulse) \o << >>
           before == Whole /\ told = << >>
           after == Whole /\ told = <<Rx>>
<1>0. PopPins(n) \in Addr /\ PopPins(n) % 2 = 1
  BY NibblePins, NibbleCarried
<1>1. rest = full \/ rest = half
  BY DEF InPulse
<1>2. pulse \in Pins \X Pins /\ << >> \in Seq(Pins)
  BY <1>0, PulsePairs, Widths, ShortSequences
<1>3. full # half => /\ rest = full => IF tx_d THEN after ELSE before /\ Rested
                     /\ rest = half => after
  BY DEF InPulse
<1>4. ((rest' = full /\ tx_d') \/ rest' = half) /\ after'
        => InPulse(pulse, << >>, tx_d,
                   Whole /\ told = << >>, Whole /\ told = <<Rx>>)'
  BY DEF InPulse
<1>5. /\ full # half
      /\ \/ rest = full /\ Edge(pulse[1]) /\ (rest' = full \/ rest' = half)
         \/ rest = half /\ Edge(pulse[2]) /\ (rest' = half \/ rest' = << >>)
  BY <1>1, <1>2, PulseClock
<1> HIDE DEF full, half
<1>6. /\ pulse[1] = StrobeB(FALSE, PopPins(n), 0)
      /\ pulse[2] = Quiet(FALSE, PopPins(n), 0)
  BY <1>0, PulsePairs, Widths
<1>7. told' = told \o cmd'
  BY DEF Clock
<1>8. CASE rest = full
  <2>1. Edge(StrobeB(FALSE, PopPins(n), 0)) /\ (rest' = full \/ rest' = half)
    BY <1>5, <1>6, <1>8
  <2>2. tx_d' /\ after'
    BY <1>3, <1>5, <1>7, <1>8, <2>1, <1>0, StrobeBHaltedEdge, Widths, Appended
    DEF Whole, Rested
  <2> QED BY <1>4, <2>1, <2>2
<1>9. CASE rest = half
  <2>1. Edge(Quiet(FALSE, PopPins(n), 0)) /\ (rest' = half \/ rest' = << >>)
    BY <1>5, <1>6, <1>9
  <2>2. after' /\ Rested'
    BY <1>3, <1>5, <1>7, <1>9, <2>1, <1>0, QuietEdge, Widths, Appended
    DEF Whole, Rested
  <2> QED BY <1>4, <2>1, <2>2
<1> QED BY <1>1, <1>8, <1>9

\* Strobe B of a running one pops, with or without a nibble pending,
LEMMA LivePopPulse ==
  ASSUME NEW n \in Nibble, NEW h \in BOOLEAN, NEW k, NEW later \in Seq(Pins), Clock,
         InPulse(PulseB(TRUE, PopPins(n), 0), later, tx_d,
                 HalfByte(h, k) /\ told = << >>, HalfByte(h, k) /\ told = <<Rx>>)
  PROVE  \/ InPulse(PulseB(TRUE, PopPins(n), 0), later, tx_d,
                    HalfByte(h, k) /\ told = << >>, HalfByte(h, k) /\ told = <<Rx>>)'
         \/ rest' = later /\ (HalfByte(h, k) /\ told = <<Rx>>)' /\ Rested'
<1> DEFINE pulse == PulseB(TRUE, PopPins(n), 0)
           full == pulse \o later
           half == Tail(pulse) \o later
           before == HalfByte(h, k) /\ told = << >>
           after == HalfByte(h, k) /\ told = <<Rx>>
<1>0. PopPins(n) \in Addr /\ PopPins(n) % 2 = 1
  BY NibblePins, NibbleCarried
<1>1. rest = full \/ rest = half
  BY DEF InPulse
<1>2. pulse \in Pins \X Pins /\ later \in Seq(Pins)
  BY <1>0, PulsePairs, Widths
<1>3. full # half => /\ rest = full => IF tx_d THEN after ELSE before /\ Rested
                     /\ rest = half => after
  BY DEF InPulse
<1>4. ((rest' = full /\ tx_d') \/ rest' = half) /\ after'
        => InPulse(pulse, later, tx_d,
                   HalfByte(h, k) /\ told = << >>, HalfByte(h, k) /\ told = <<Rx>>)'
  BY DEF InPulse
<1>5. /\ full # half
      /\ \/ rest = full /\ Edge(pulse[1]) /\ (rest' = full \/ rest' = half)
         \/ rest = half /\ Edge(pulse[2]) /\ (rest' = half \/ rest' = later)
  BY <1>1, <1>2, PulseClock
<1> HIDE DEF full, half
<1>6. /\ pulse[1] = StrobeB(TRUE, PopPins(n), 0)
      /\ pulse[2] = Quiet(TRUE, PopPins(n), 0)
  BY <1>0, PulsePairs, Widths
<1>7. told' = told \o cmd'
  BY DEF Clock
<1>8. CASE rest = full
  <2>1. Edge(StrobeB(TRUE, PopPins(n), 0)) /\ (rest' = full \/ rest' = half)
    BY <1>5, <1>6, <1>8
  <2>2. tx_d' /\ after'
    BY <1>3, <1>5, <1>7, <1>8, <2>1, <1>0, StrobeBRunningEdge, Widths, Appended
    DEF HalfByte, Rested
  <2> QED BY <1>4, <2>1, <2>2
<1>9. CASE rest = half
  <2>1. Edge(Quiet(TRUE, PopPins(n), 0)) /\ (rest' = half \/ rest' = later)
    BY <1>5, <1>6, <1>9
  <2>2. after' /\ Rested'
    BY <1>3, <1>5, <1>7, <1>9, <2>1, <1>0, QuietEdge, Widths, Appended
    DEF HalfByte, Rested
  <2> QED BY <1>4, <2>1, <2>2
<1> QED BY <1>1, <1>8, <1>9

\* latches the low nibble,
LEMMA LowNibblePulse ==
  ASSUME NEW n \in Nibble, NEW later \in Seq(Pins), Clock,
         InPulse(LivePulse(n, 0), later, tx_d,
                 HalfByte(FALSE, 0) /\ told = << >>, HalfByte(TRUE, n) /\ told = << >>)
  PROVE  \/ InPulse(LivePulse(n, 0), later, tx_d,
                    HalfByte(FALSE, 0) /\ told = << >>, HalfByte(TRUE, n) /\ told = << >>)'
         \/ rest' = later /\ (HalfByte(TRUE, n) /\ told = << >>)' /\ Rested'
<1> DEFINE pulse == LivePulse(n, 0)
           full == pulse \o later
           half == Tail(pulse) \o later
           before == HalfByte(FALSE, 0) /\ told = << >>
           after == HalfByte(TRUE, n) /\ told = << >>
<1>0. PushPins(n) \in Addr /\ PushPins(n) % 2 # 1 /\ PushPins(n) \div 2 = n
  BY NibblePins, NibbleCarried
<1>1. rest = full \/ rest = half
  BY DEF InPulse
<1>2. pulse \in Pins \X Pins /\ later \in Seq(Pins)
  BY LivePairs
<1>3. full # half => /\ rest = full => IF tx_d THEN after ELSE before /\ Rested
                     /\ rest = half => after
  BY DEF InPulse
<1>4. ((rest' = full /\ tx_d') \/ rest' = half) /\ after'
        => InPulse(pulse, later, tx_d,
                   HalfByte(FALSE, 0) /\ told = << >>, HalfByte(TRUE, n) /\ told = << >>)'
  BY DEF InPulse
<1>5. /\ full # half
      /\ \/ rest = full /\ Edge(pulse[1]) /\ (rest' = full \/ rest' = half)
         \/ rest = half /\ Edge(pulse[2]) /\ (rest' = half \/ rest' = later)
  BY <1>1, <1>2, PulseClock
<1> HIDE DEF full, half
<1>6. /\ pulse[1] = StrobeB(TRUE, PushPins(n), 0)
      /\ pulse[2] = Quiet(TRUE, PushPins(n), 0)
  BY LivePairs
<1>7. told' = told \o cmd'
  BY DEF Clock
<1>8. CASE rest = full
  <2>1. Edge(StrobeB(TRUE, PushPins(n), 0)) /\ (rest' = full \/ rest' = half)
    BY <1>5, <1>6, <1>8
  <2>2. tx_d' /\ after'
    BY <1>3, <1>5, <1>7, <1>8, <2>1, <1>0, StrobeBRunningEdge, Widths, Appended
    DEF HalfByte, Rested
  <2> QED BY <1>4, <2>1, <2>2
<1>9. CASE rest = half
  <2>1. Edge(Quiet(TRUE, PushPins(n), 0)) /\ (rest' = half \/ rest' = later)
    BY <1>5, <1>6, <1>9
  <2>2. after' /\ Rested'
    BY <1>3, <1>5, <1>7, <1>9, <2>1, <1>0, QuietEdge, Widths, Appended
    DEF HalfByte, Rested
  <2> QED BY <1>4, <2>1, <2>2
<1> QED BY <1>1, <1>8, <1>9

\* and pushes it with the high one.
Told(commands) == told = commands

LEMMA HighNibblePulse ==
  ASSUME NEW n \in Nibble, NEW k \in Nibble, NEW before, NEW after, Clock,
         \/ before = << >> /\ after = <<Tx(n * NibMod + k)>>
         \/ before = <<Rx>> /\ after = <<Rx, Tx(n * NibMod + k)>>,
         InPulse(LivePulse(n, 0), << >>, tx_d,
                 HalfByte(TRUE, k) /\ Told(before), HalfByte(FALSE, 0) /\ Told(after))
  PROVE  \/ InPulse(LivePulse(n, 0), << >>, tx_d,
                    HalfByte(TRUE, k) /\ Told(before), HalfByte(FALSE, 0) /\ Told(after))'
         \/ rest' = << >> /\ (HalfByte(FALSE, 0) /\ Told(after))' /\ Rested'
<1> DEFINE pulse == LivePulse(n, 0)
           full == pulse \o << >>
           half == Tail(pulse) \o << >>
           c == Tx(n * NibMod + k)
           done == HalfByte(FALSE, 0) /\ Told(after)
<1>0. PushPins(n) \in Addr /\ PushPins(n) % 2 # 1 /\ PushPins(n) \div 2 = n
  BY NibblePins, NibbleCarried
<1>1. rest = full \/ rest = half
  BY DEF InPulse
<1>2. pulse \in Pins \X Pins /\ << >> \in Seq(Pins)
  BY LivePairs, ShortSequences
<1>3. full # half =>
        /\ rest = full => IF tx_d THEN done ELSE HalfByte(TRUE, k) /\ Told(before) /\ Rested
        /\ rest = half => done
  BY DEF InPulse
<1>4. ((rest' = full /\ tx_d') \/ rest' = half) /\ done'
        => InPulse(pulse, << >>, tx_d,
                   HalfByte(TRUE, k) /\ Told(before), HalfByte(FALSE, 0) /\ Told(after))'
  BY DEF InPulse
<1>5. /\ full # half
      /\ \/ rest = full /\ Edge(pulse[1]) /\ (rest' = full \/ rest' = half)
         \/ rest = half /\ Edge(pulse[2]) /\ (rest' = half \/ rest' = << >>)
  BY <1>1, <1>2, PulseClock
<1> HIDE DEF full, half
<1>6. /\ pulse[1] = StrobeB(TRUE, PushPins(n), 0)
      /\ pulse[2] = Quiet(TRUE, PushPins(n), 0)
  BY LivePairs
<1>7. told' = told \o cmd'
  BY DEF Clock
<1>8. before \o <<c>> = after /\ after \o << >> = after
  BY Appended
<1>9. CASE rest = full
  <2>1. Edge(StrobeB(TRUE, PushPins(n), 0)) /\ (rest' = full \/ rest' = half)
    BY <1>5, <1>6, <1>9
  <2>2. CASE tx_d
    <3>1. done /\ tx_d' /\ cmd' = << >> /\ HalfByte(FALSE, 0)'
      BY <1>0, <1>3, <1>5, <1>9, <2>1, <2>2, StrobeBRunningEdge, Widths DEF HalfByte
    <3> QED BY <1>4, <1>7, <1>8, <2>1, <3>1 DEF Told
  <2>3. CASE ~tx_d
    <3>1. HalfByte(TRUE, k) /\ Told(before)
      BY <1>3, <1>5, <1>9, <2>3
    <3>2. tx_d' /\ cmd' = <<c>> /\ HalfByte(FALSE, 0)'
      BY <1>0, <2>1, <2>3, <3>1, StrobeBRunningEdge, Widths DEF HalfByte
    <3> QED BY <1>4, <1>7, <1>8, <2>1, <3>1, <3>2 DEF Told
  <2> QED BY <2>2, <2>3
<1>10. CASE rest = half
  <2>1. Edge(Quiet(TRUE, PushPins(n), 0)) /\ (rest' = half \/ rest' = << >>)
    BY <1>5, <1>6, <1>10
  <2>2. done /\ cmd' = << >> /\ HalfByte(FALSE, 0)' /\ Rested'
    BY <1>0, <1>3, <1>5, <1>10, <2>1, QuietEdge, Widths DEF HalfByte
  <2> QED BY <1>4, <1>7, <1>8, <2>1, <2>2 DEF Told
<1> QED BY <1>1, <1>9, <1>10

-----------------------------------------------------------------------------
\* The operations, clock by clock.

LEMMA Scriptless ==
  /\ \A pulse \in Pins \X Pins : pulse \in Seq(Pins) /\ pulse \o << >> = pulse
  /\ \A pulse \in Pins \X Pins, later \in Seq(Pins) :
       pulse \o later # << >> /\ Tail(pulse) \o later # << >>
       /\ pulse \o later \in Seq(Pins)
<1>1. ASSUME NEW pulse \in Pins \X Pins, NEW later \in Seq(Pins)
      PROVE  /\ pulse \in Seq(Pins) /\ pulse \o << >> = pulse
             /\ pulse \o later # << >> /\ Tail(pulse) \o later # << >>
             /\ pulse \o later \in Seq(Pins)
  <2>1. PICK p \in Pins, q \in Pins : pulse = <<p, q>>
    OBVIOUS
  <2>2. pulse \in Seq(Pins) /\ Tail(pulse) = <<q>> /\ <<q>> \in Seq(Pins)
    BY <2>1, SMT
  <2>3. pulse \o << >> = pulse
    BY <2>1, Appended
  <2>4. Len(pulse \o later) = 2 + Len(later) /\ Len(<<q>> \o later) = 1 + Len(later)
    BY <2>1, SMT
  <2> QED BY <2>2, <2>3, <2>4
<1> QED BY <1>1, ShortSequences

LEMMA LoadClock ==
  ASSUME NEW o \in Op, o.kind = "load", op = o, op' = o, AtLoad, Clock
  PROVE  AtLoad'
<1> DEFINE a == o.a
           w == o.w
           low == PulseA(a, w[2])
           high == PulseA(a, w[1])
           none == Whole /\ told = << >>
           half == HalfWord(a, w[2]) /\ told = << >>
           all == Whole /\ told = <<Imem(wr_slot, a, w)>>
<1>1. a \in Addr /\ w \in Byte \X Byte /\ w[1] \in Byte /\ w[2] \in Byte
  BY Kinds
<1>2. low \in Pins \X Pins /\ high \in Pins \X Pins
  BY <1>1, PulsePairs
<1>3. high \in Seq(Pins) /\ high \o << >> = high
  BY <1>2, Scriptless
<1>4. rest # << >>
  BY DEF Clock
<1>5. AtLoad' <=> \/ InPulse(low, high, we_d, none, half)'
                  \/ InPulse(high, << >>, we_d, half, all)'
                  \/ Over(all)'
  BY DEF AtLoad, InPulse, Over
<1>6. CASE InPulse(low, high, we_d, none, half)
  <2>1. \/ InPulse(low, high, we_d, none, half)'
        \/ rest' = high /\ half' /\ Rested'
    BY <1>1, <1>3, <1>6, LowHalfPulse
  <2>2. rest' = high /\ half' /\ Rested' => InPulse(high, << >>, we_d, half, all)'
    BY <1>3 DEF InPulse, Rested
  <2> QED BY <1>5, <2>1, <2>2
<1>7. CASE InPulse(high, << >>, we_d, half, all)
  <2>1. \/ InPulse(high, << >>, we_d, half, all)'
        \/ rest' = << >> /\ all' /\ Rested'
    BY <1>1, <1>7, HighHalfPulse
  <2> QED BY <1>5, <2>1 DEF Over
<1> QED BY <1>4, <1>6, <1>7 DEF AtLoad, Over

LEMMA LoadLowClock ==
  ASSUME NEW o \in Op, o.kind = "loadlow", op = o, op' = o, AtLoadLow, Clock
  PROVE  AtLoadLow'
<1> DEFINE a == o.a
           d == o.d
           none == Whole /\ told = << >>
           half == HalfWord(a, d) /\ told = << >>
<1>1. a \in Addr /\ d \in Byte /\ << >> \in Seq(Pins)
  BY Kinds, ShortSequences
<1>2. AtLoadLow' <=> InPulse(PulseA(a, d), << >>, we_d, none, half)' \/ Over(half)'
  BY DEF AtLoadLow, InPulse, Over
<1>3. CASE InPulse(PulseA(a, d), << >>, we_d, none, half)
  <2>1. \/ InPulse(PulseA(a, d), << >>, we_d, none, half)'
        \/ rest' = << >> /\ half' /\ Rested'
    BY <1>1, <1>3, LowHalfPulse
  <2> QED BY <1>2, <2>1 DEF Over
<1> QED BY <1>3 DEF AtLoadLow, Over, Clock

LEMMA PushClock ==
  ASSUME NEW o \in Op, o.kind = "push", op = o, op' = o, AtPush, Clock
  PROVE  AtPush'
<1> DEFINE d == o.d
           none == Whole /\ told = << >>
           all == Whole /\ told = <<Tx(d)>>
<1>1. d \in Byte
  BY Kinds
<1>2. ASSUME NEW n \in Nibble,
             InPulse(PulseB(FALSE, PushPins(n), d), << >>, tx_d, none, all)
      PROVE  AtPush'
  <2>1. \/ InPulse(PulseB(FALSE, PushPins(n), d), << >>, tx_d, none, all)'
        \/ rest' = << >> /\ all' /\ Rested'
    BY <1>1, <1>2, HaltedPushPulse
  <2> QED BY <2>1 DEF AtPush, InPulse, Over
<1> QED BY <1>2 DEF AtPush, Over, Clock

LEMMA PopClock ==
  ASSUME op' = op, AtPop, Clock
  PROVE  AtPop'
<1> DEFINE none == Whole /\ told = << >>
           all == Whole /\ told = <<Rx>>
<1>1. ASSUME NEW n \in Nibble, InPulse(PulseB(FALSE, PopPins(n), 0), << >>, tx_d, none, all)
      PROVE  AtPop'
  <2>1. \/ InPulse(PulseB(FALSE, PopPins(n), 0), << >>, tx_d, none, all)'
        \/ rest' = << >> /\ all' /\ Rested'
    BY <1>1, HaltedPopPulse
  <2> QED BY <2>1 DEF AtPop, InPulse, Over
<1> QED BY <1>1 DEF AtPop, Over, Clock

LEMMA LivePopClock ==
  ASSUME op' = op, AtLivePop, Clock
  PROVE  AtLivePop'
<1> DEFINE none == HalfByte(FALSE, 0) /\ told = << >>
           all == HalfByte(FALSE, 0) /\ told = <<Rx>>
<1>1. ASSUME NEW n \in Nibble, InPulse(PulseB(TRUE, PopPins(n), 0), << >>, tx_d, none, all)
      PROVE  AtLivePop'
  <2>1. \/ InPulse(PulseB(TRUE, PopPins(n), 0), << >>, tx_d, none, all)'
        \/ rest' = << >> /\ all' /\ Rested'
    BY <1>1, LivePopPulse, ShortSequences
  <2> QED BY <2>1 DEF AtLivePop, InPulse, Over
<1> QED BY <1>1 DEF AtLivePop, Over, Clock

LEMMA LiveLowClock ==
  ASSUME NEW o \in Op, o.kind = "livelow", op = o, op' = o, AtLiveLow, Clock
  PROVE  AtLiveLow'
<1> DEFINE d == o.d
           none == HalfByte(FALSE, 0) /\ told = << >>
           half == HalfByte(TRUE, d) /\ told = << >>
<1>1. d \in Nibble /\ << >> \in Seq(Pins)
  BY Kinds, ShortSequences
<1>2. AtLiveLow' <=> InPulse(LivePulse(d, 0), << >>, tx_d, none, half)' \/ Over(half)'
  BY DEF AtLiveLow, InPulse, Over
<1>3. CASE InPulse(LivePulse(d, 0), << >>, tx_d, none, half)
  <2>1. \/ InPulse(LivePulse(d, 0), << >>, tx_d, none, half)'
        \/ rest' = << >> /\ half' /\ Rested'
    BY <1>1, <1>3, LowNibblePulse
  <2> QED BY <1>2, <2>1 DEF Over
<1> QED BY <1>3 DEF AtLiveLow, Over, Clock

\* The nibbles of a byte make that byte again.
LEMMA NibblesMakeTheByte ==
  ASSUME NEW d \in Byte
  PROVE  (d \div NibMod) * NibMod + (d % NibMod) = d
<1>1. d \in Nat /\ NibMod \in Nat \ {0}
  BY Widths, SMT DEF Byte
<1>2. ASSUME NEW n \in Nat \ {0}
      PROVE  (d \div n) * n + (d % n) = d
  <2> DEFINE q == d \div n
             m == d % n
  <2>1. q \in Int /\ m \in Int
    BY <1>1, SMT
  <2>2. d = n * q + m
    BY <1>1, SMTT(20)
  <2> HIDE DEF q, m
  <2>3. q * n + m = d
    BY <2>1, <2>2, SMT
  <2> QED BY <2>3 DEF q, m
<1> QED BY <1>1, <1>2

LEMMA LivePushClock ==
  ASSUME NEW o \in Op, o.kind = "livepush", op = o, op' = o, AtLivePush, Clock
  PROVE  AtLivePush'
<1> DEFINE l == o.d % NibMod
           h == o.d \div NibMod
           c == Tx(o.d)
           none == HalfByte(FALSE, 0) /\ told = << >>
           half == HalfByte(TRUE, l) /\ told = << >>
           all == HalfByte(FALSE, 0) /\ told = <<c>>
<1>1. l \in Nibble /\ h \in Nibble /\ c = Tx(h * NibMod + l)
  <2>1. o.d \in Byte
    BY Kinds
  <2>2. l \in Nibble /\ h \in Nibble
    BY <2>1, BytesAreNibbles
  <2>3. h * NibMod + l = o.d
    BY <2>1, NibblesMakeTheByte
  <2> QED BY <2>2, <2>3
<1>2. AtLivePush <=> \/ InPulse(LivePulse(l, 0), LivePulse(h, 0), tx_d, none, half)
                     \/ InPulse(LivePulse(h, 0), << >>, tx_d, half, all)
                     \/ Over(all)
  BY DEF AtLivePush, LowNib, HighNib
<1>3. AtLivePush' <=> \/ InPulse(LivePulse(l, 0), LivePulse(h, 0), tx_d, none, half)'
                      \/ InPulse(LivePulse(h, 0), << >>, tx_d, half, all)'
                      \/ Over(all)'
  BY DEF AtLivePush, LowNib, HighNib, InPulse, Over
<1> HIDE DEF l, h
<1>4. LivePulse(h, 0) \in Seq(Pins) /\ LivePulse(h, 0) \o << >> = LivePulse(h, 0)
  BY <1>1, LivePairs, Scriptless
<1>5. CASE InPulse(LivePulse(l, 0), LivePulse(h, 0), tx_d, none, half)
  <2>1. \/ InPulse(LivePulse(l, 0), LivePulse(h, 0), tx_d, none, half)'
        \/ rest' = LivePulse(h, 0) /\ half' /\ Rested'
    BY <1>1, <1>4, <1>5, LowNibblePulse
  <2>2. rest' = LivePulse(h, 0) /\ half' /\ Rested'
          => InPulse(LivePulse(h, 0), << >>, tx_d, half, all)'
    BY <1>4 DEF InPulse, Rested
  <2> QED BY <1>3, <2>1, <2>2
<1>6. CASE InPulse(LivePulse(h, 0), << >>, tx_d, half, all)
  <2> DEFINE was == HalfByte(TRUE, l) /\ Told(<< >>)
             is == HalfByte(FALSE, 0) /\ Told(<<Tx(h * NibMod + l)>>)
  <2>1. InPulse(LivePulse(h, 0), << >>, tx_d, was, is)
    BY <1>1, <1>6 DEF Told
  <2>2. \/ InPulse(LivePulse(h, 0), << >>, tx_d, was, is)'
        \/ rest' = << >> /\ is' /\ Rested'
    BY <1>1, <2>1, HighNibblePulse
  <2> QED BY <1>1, <1>3, <2>2 DEF InPulse, Over, Told
<1> QED BY <1>2, <1>5, <1>6 DEF Over, Clock

LEMMA LivePushPopClock ==
  ASSUME NEW o \in Op, o.kind = "livepushpop", op = o, op' = o, AtLivePushPop, Clock
  PROVE  AtLivePushPop'
<1> DEFINE l == o.d % NibMod
           h == o.d \div NibMod
           c == Tx(o.d)
           high == LivePulse(h, 0)
           none == HalfByte(FALSE, 0) /\ told = << >>
           half == HalfByte(TRUE, l) /\ told = << >>
           popped == HalfByte(TRUE, l) /\ told = <<Rx>>
           all == HalfByte(FALSE, 0) /\ told = <<Rx, c>>
<1>1. l \in Nibble /\ h \in Nibble /\ c = Tx(h * NibMod + l)
  <2>1. o.d \in Byte
    BY Kinds
  <2>2. l \in Nibble /\ h \in Nibble
    BY <2>1, BytesAreNibbles
  <2>3. h * NibMod + l = o.d
    BY <2>1, NibblesMakeTheByte
  <2> QED BY <2>2, <2>3
<1>2. AtLivePushPop =>
        \/ \E n \in Nibble :
             InPulse(LivePulse(l, 0), PulseB(TRUE, PopPins(n), 0) \o high, tx_d, none, half)
        \/ \E n \in Nibble : InPulse(PulseB(TRUE, PopPins(n), 0), high, tx_d, half, popped)
        \/ InPulse(high, << >>, tx_d, popped, all)
        \/ Over(all)
  BY DEF AtLivePushPop, LowNib, HighNib
<1>3. (\/ \E n \in Nibble :
            InPulse(LivePulse(l, 0), PulseB(TRUE, PopPins(n), 0) \o high, tx_d, none, half)'
       \/ \E n \in Nibble : InPulse(PulseB(TRUE, PopPins(n), 0), high, tx_d, half, popped)'
       \/ InPulse(high, << >>, tx_d, popped, all)'
       \/ Over(all)') => AtLivePushPop'
  BY DEF AtLivePushPop, LowNib, HighNib, InPulse, Over
<1>4. high \in Pins \X Pins
  BY <1>1, LivePairs
<1> HIDE DEF l, h
<1>5. high \in Seq(Pins) /\ high \o << >> = high
  BY <1>4, Scriptless
<1>6. ASSUME NEW n \in Nibble
      PROVE  PulseB(TRUE, PopPins(n), 0) \o high \in Seq(Pins)
  BY <1>5, PulsePairs, NibblePins, Widths, Scriptless
<1>7. ASSUME NEW n \in Nibble,
             InPulse(LivePulse(l, 0), PulseB(TRUE, PopPins(n), 0) \o high, tx_d, none, half)
      PROVE  AtLivePushPop'
  <2>1. \/ InPulse(LivePulse(l, 0), PulseB(TRUE, PopPins(n), 0) \o high, tx_d, none, half)'
        \/ rest' = PulseB(TRUE, PopPins(n), 0) \o high /\ half' /\ Rested'
    BY <1>1, <1>6, <1>7, LowNibblePulse
  <2>2. rest' = PulseB(TRUE, PopPins(n), 0) \o high /\ half' /\ Rested'
          => InPulse(PulseB(TRUE, PopPins(n), 0), high, tx_d, half, popped)'
    BY DEF InPulse, Rested
  <2> QED BY <1>3, <2>1, <2>2
<1>8. ASSUME NEW n \in Nibble,
             InPulse(PulseB(TRUE, PopPins(n), 0), high, tx_d, half, popped)
      PROVE  AtLivePushPop'
  <2>1. \/ InPulse(PulseB(TRUE, PopPins(n), 0), high, tx_d, half, popped)'
        \/ rest' = high /\ popped' /\ Rested'
    BY <1>5, <1>8, LivePopPulse
  <2>2. rest' = high /\ popped' /\ Rested' => InPulse(high, << >>, tx_d, popped, all)'
    BY <1>5 DEF InPulse, Rested
  <2> QED BY <1>3, <2>1, <2>2
<1>9. CASE InPulse(high, << >>, tx_d, popped, all)
  <2> DEFINE was == HalfByte(TRUE, l) /\ Told(<<Rx>>)
             is == HalfByte(FALSE, 0) /\ Told(<<Rx, Tx(h * NibMod + l)>>)
  <2>1. InPulse(high, << >>, tx_d, was, is)
    BY <1>1, <1>9 DEF Told
  <2>2. \/ InPulse(high, << >>, tx_d, was, is)'
        \/ rest' = << >> /\ is' /\ Rested'
    BY <1>1, <2>1, HighNibblePulse
  <2> QED BY <1>1, <1>3, <2>2 DEF InPulse, Over, Told
<1> QED BY <1>2, <1>7, <1>8, <1>9 DEF Over, Clock

\* A setting on its own.
LEMMA OneSetting ==
  ASSUME NEW p, rest = <<p>>, Clock
  PROVE  Edge(p) /\ (rest' = <<p>> \/ rest' = << >>)
BY SMT DEF Clock

LEMMA RunOrHaltClock ==
  ASSUME Clock, op' = op, AtRun \/ AtHalt
  PROVE  (AtRun => AtRun') /\ (AtHalt => AtHalt')
<1>1. rest # << >> /\ told' = told \o cmd'
  BY DEF Clock
<1>2. ASSUME NEW r \in BOOLEAN, rest = <<Quiet(r, 0, 0)>>
      PROVE  /\ cmd' = << >> /\ (rest' = <<Quiet(r, 0, 0)>> \/ rest' = << >>)
             /\ Rested' /\ (hi' <=> hi /\ ~r) /\ (nib_hi' <=> nib_hi /\ r)
  <2>1. Edge(Quiet(r, 0, 0)) /\ (rest' = <<Quiet(r, 0, 0)>> \/ rest' = << >>)
    BY <1>2, OneSetting
  <2> QED BY <2>1, QuietEdge, Widths
<1>3. ASSUME AtRun PROVE AtRun'
  <2>1. rest = <<Quiet(TRUE, 0, 0)>> /\ ~nib_hi /\ told = << >>
    BY <1>1, <1>3 DEF AtRun, Over
  <2>2. told' = << >> /\ Whole' /\ Rested'
    BY <1>1, <1>2, <2>1, Appended DEF Whole
  <2>3. rest' = <<Quiet(TRUE, 0, 0)>> \/ rest' = << >>
    BY <1>2, <2>1
  <2> QED BY <2>2, <2>3 DEF AtRun, Over, Whole
<1>4. ASSUME AtHalt PROVE AtHalt'
  <2>1. rest = <<Quiet(FALSE, 0, 0)>> /\ ~hi /\ told = << >>
    BY <1>1, <1>4 DEF AtHalt, Over
  <2>2. told' = << >> /\ Whole' /\ Rested'
    BY <1>1, <1>2, <2>1, Appended DEF Whole
  <2>3. rest' = <<Quiet(FALSE, 0, 0)>> \/ rest' = << >>
    BY <1>2, <2>1
  <2> QED BY <2>2, <2>3 DEF AtHalt, Over, Whole
<1> QED BY <1>3, <1>4

LEMMA ShortTails ==
  /\ \A x, y : Head(<<x, y>>) = x /\ Tail(<<x, y>>) = <<y>>
  /\ \A x, y, z : Head(<<x, y, z>>) = x /\ Tail(<<x, y, z>>) = <<y, z>>
BY SMT

\* A CSR write: the strobes rise together, either may fall first.
LEMMA CsrClock ==
  ASSUME NEW o \in Op, o.kind = "csr", op = o, op' = o, AtCsr, Clock, ~CsrHeld
  PROVE  AtCsr'
<1> DEFINE a == o.a
           d == o.d
           both == Both(a, d)
           quiet == Quiet(FALSE, a, d)
           all == Whole /\ told = <<Csr(a, d)>>
<1>1. a \in Addr /\ d \in Byte
  BY Kinds
<1>2. /\ PulseA(a, d) = <<StrobeA(a, d), quiet>>
      /\ PulseB(FALSE, a, d) = <<StrobeB(FALSE, a, d), quiet>>
  BY DEF PulseA, PulseB
<1>3. CsrPulse(a, d) = {<<both, quiet>>, <<both, StrobeA(a, d), quiet>>,
                        <<both, StrobeB(FALSE, a, d), quiet>>}
  BY DEF CsrPulse
<1>4. rest # << >> /\ Edge(Head(rest)) /\ (rest' = rest \/ rest' = Tail(rest))
      /\ told' = told \o cmd'
  BY DEF Clock
<1>5. AtCsr' <=>
        \/ rest' \in CsrPulse(a, d) /\ Whole'
             /\ \/ Rested' /\ told' = << >>
                \/ we_d' /\ tx_d' /\ told' = <<Csr(a, d)>>
        \/ rest' = PulseA(a, d) /\ we_d' /\ all'
        \/ rest' = PulseB(FALSE, a, d) /\ tx_d' /\ all'
        \/ rest' = <<quiet>> /\ all'
        \/ Over(all)'
  BY DEF AtCsr, Over
<1>6. CASE /\ rest \in CsrPulse(a, d) /\ Whole
           /\ \/ Rested /\ told = << >>
              \/ we_d /\ tx_d /\ told = <<Csr(a, d)>>
  <2> HIDE DEF both, quiet
  <2>1. /\ Head(rest) = both
        /\ Tail(rest) \in {<<quiet>>, PulseA(a, d), PulseB(FALSE, a, d)}
    <3>1. CASE rest = <<both, quiet>>
      BY <3>1, ShortTails
    <3>2. CASE rest = <<both, StrobeA(a, d), quiet>>
      BY <1>2, <3>2, ShortTails
    <3>3. CASE rest = <<both, StrobeB(FALSE, a, d), quiet>>
      BY <1>2, <3>3, ShortTails, ZenonT(60)
    <3> QED BY <1>3, <1>6, <3>1, <3>2, <3>3
  <2>2. rest' \in CsrPulse(a, d) \cup {<<quiet>>, PulseA(a, d), PulseB(FALSE, a, d)}
    BY <1>4, <1>6, <2>1
  <2>3. Edge(Both(a, d))
    BY <1>4, <2>1 DEF both
  <2>4. we_d' /\ tx_d' /\ Whole' /\ told' = <<Csr(a, d)>>
    BY <1>1, <1>4, <1>6, <2>3, BothEdge, Appended
  <2> QED BY <1>5, <2>2, <2>4
<1>7. CASE rest = PulseA(a, d) /\ we_d /\ all
  <2>1. Edge(StrobeA(a, d)) /\ (rest' = PulseA(a, d) \/ rest' = <<quiet>>)
    BY <1>2, <1>4, <1>7, ShortTails
  <2>2. we_d' /\ all'
    BY <1>1, <1>4, <1>7, <2>1, StrobeAEdge, Appended DEF Whole
  <2> QED BY <1>5, <2>1, <2>2
<1>8. CASE rest = PulseB(FALSE, a, d) /\ tx_d /\ all
  <2>1. Edge(StrobeB(FALSE, a, d)) /\ (rest' = PulseB(FALSE, a, d) \/ rest' = <<quiet>>)
    BY <1>2, <1>4, <1>8, ShortTails
  <2>2. tx_d' /\ all'
    BY <1>1, <1>4, <1>8, <2>1, StrobeBHaltedEdge, Appended DEF Whole
  <2> QED BY <1>5, <2>1, <2>2
<1>9. CASE rest = <<quiet>> /\ all
  <2>1. Edge(quiet) /\ (rest' = <<quiet>> \/ rest' = << >>)
    BY <1>9, OneSetting
  <2>2. Rested' /\ all'
    BY <1>1, <1>4, <1>9, <2>1, QuietEdge, Appended DEF Whole
  <2> QED BY <1>5, <2>1, <2>2 DEF Over
<1> QED BY <1>4, <1>6, <1>7, <1>8, <1>9 DEF AtCsr, Over

-----------------------------------------------------------------------------
\* The host's progress through its operations is an invariant.

LEMMA ProgressInit == Init => Progress
BY NoneAssumption DEF Init, PortInit, Progress, Between, Rested

LEMMA ProgressBegin ==
  ASSUME HostInv, Progress, NEW o \in Op, Begin(o), ~CsrHeld
  PROVE  Progress'
<1>1. /\ op = None /\ op' = o /\ o # None /\ told' = told /\ must' = must
      /\ rest' \in Script(o) /\ UNCHANGED <<we_d, tx_d, hi, nib_hi>>
      /\ must # None => o.kind = must
  BY NoneAssumption DEF Begin, portvars, wrapper
<1>2. /\ told' = << >> /\ Rested' /\ Rested
      /\ hi' => o.kind = "run"
      /\ nib_hi' => o.kind = "halt"
  BY <1>1, NoneAssumption DEF Progress, Between, Rested
<1>3. o.kind \notin {"run", "halt"} => Whole' /\ HalfByte(FALSE, 0)'
  BY <1>2 DEF Whole, HalfByte
<1>4. ~we_d' /\ ~tx_d'
  BY <1>2 DEF Rested
<1>5. /\ o.kind = "load" => AtLoad'
      /\ o.kind = "loadlow" => AtLoadLow'
  <2>1. CASE o.kind = "load"
    BY <1>1, <1>2, <1>3, <1>4, <2>1 DEF AtLoad, Script, InPulse
  <2>2. CASE o.kind = "loadlow"
    <3>1. PulseA(o.a, o.d) \o << >> = PulseA(o.a, o.d)
      BY <2>2, Kinds, PulsePairs, Scriptless
    <3> QED BY <1>1, <1>2, <1>3, <1>4, <2>2, <3>1 DEF AtLoadLow, Script, InPulse
  <2> QED BY <2>1, <2>2
<1>6. o.kind = "csr" => AtCsr'
  BY <1>1, <1>2, <1>3 DEF AtCsr, Script
<1>7. o.kind = "push" => AtPush'
  <2>1. SUFFICES ASSUME o.kind = "push" PROVE AtPush'
    OBVIOUS
  <2>2. PICK n \in Nibble : rest' = PulseB(FALSE, PushPins(n), o.d)
    BY <1>1, <2>1 DEF Script
  <2>3. rest' = PulseB(FALSE, PushPins(n), o.d) \o << >>
    BY <2>1, <2>2, Kinds, NibblePins, PulsePairs, Scriptless
  <2> QED BY <1>1, <1>2, <1>3, <1>4, <2>1, <2>3 DEF AtPush, InPulse
<1>8. /\ o.kind = "pop" => AtPop'
      /\ o.kind = "livepop" => AtLivePop'
  <2>1. CASE o.kind = "pop"
    <3>1. PICK n \in Nibble : rest' = PulseB(FALSE, PopPins(n), 0)
      BY <1>1, <2>1 DEF Script
    <3>2. rest' = PulseB(FALSE, PopPins(n), 0) \o << >>
      BY <3>1, NibblePins, PulsePairs, Widths, Scriptless
    <3> QED BY <1>1, <1>2, <1>3, <1>4, <2>1, <3>2 DEF AtPop, InPulse
  <2>2. CASE o.kind = "livepop"
    <3>1. PICK n \in Nibble : rest' = PulseB(TRUE, PopPins(n), 0)
      BY <1>1, <2>2 DEF Script
    <3>2. rest' = PulseB(TRUE, PopPins(n), 0) \o << >>
      BY <3>1, NibblePins, PulsePairs, Widths, Scriptless
    <3> QED BY <1>1, <1>2, <1>3, <1>4, <2>2, <3>2 DEF AtLivePop, InPulse
  <2> QED BY <2>1, <2>2
<1>9. /\ o.kind = "livepush" => AtLivePush'
      /\ o.kind = "livelow" => AtLiveLow'
  <2>1. CASE o.kind = "livepush"
    BY <1>1, <1>2, <1>3, <1>4, <2>1 DEF AtLivePush, Script, InPulse, LowNib, HighNib
  <2>2. CASE o.kind = "livelow"
    <3>1. LivePulse(o.d, 0) \o << >> = LivePulse(o.d, 0)
      BY <2>2, Kinds, LivePairs, Scriptless
    <3> QED BY <1>1, <1>2, <1>3, <1>4, <2>2, <3>1 DEF AtLiveLow, Script, InPulse
  <2> QED BY <2>1, <2>2
<1>10. o.kind = "livepushpop" => AtLivePushPop'
  <2>1. SUFFICES ASSUME o.kind = "livepushpop" PROVE AtLivePushPop'
    OBVIOUS
  <2> DEFINE low == LivePulse(o.d % NibMod, 0)
             high == LivePulse(o.d \div NibMod, 0)
  <2>2. PICK n \in Nibble : rest' = low \o PulseB(TRUE, PopPins(n), 0) \o high
    BY <1>1, <2>1 DEF Script
  <2>3. /\ low \in Pins \X Pins /\ high \in Pins \X Pins
        /\ PulseB(TRUE, PopPins(n), 0) \in Pins \X Pins
    BY <2>1, Kinds, BytesAreNibbles, LivePairs, PulsePairs, NibblePins, Widths
  <2>4. rest' = low \o (PulseB(TRUE, PopPins(n), 0) \o high)
    <3>1. ASSUME NEW x \in Seq(Pins), NEW y \in Seq(Pins), NEW z \in Seq(Pins)
          PROVE  x \o y \o z = x \o (y \o z)
      BY SMT
    <3>2. /\ low \in Seq(Pins) /\ high \in Seq(Pins)
          /\ PulseB(TRUE, PopPins(n), 0) \in Seq(Pins)
      BY <2>3, Scriptless
    <3> HIDE DEF low, high
    <3> QED BY <2>2, <3>1, <3>2
  <2> QED BY <1>1, <1>2, <1>3, <1>4, <2>1, <2>4 DEF AtLivePushPop, InPulse, LowNib, HighNib
<1>11. /\ o.kind = "run" => AtRun'
       /\ o.kind = "halt" => AtHalt'
  BY <1>1, <1>2 DEF AtRun, AtHalt, Script
<1> QED
  BY <1>1, <1>5, <1>6, <1>7, <1>8, <1>9, <1>10, <1>11 DEF Progress

LEMMA ProgressClock ==
  ASSUME HostInv, Progress, Clock, ~CsrHeld
  PROVE  Progress'
<1>1. op' = op /\ op # None /\ op \in Op
  BY DEF Clock, HostInv, ModeFollows, HostTypeOK
<1>2. PICK o \in Op : op = o /\ op' = o
  BY <1>1
<1>3. /\ o.kind = "load" => AtLoad'
      /\ o.kind = "loadlow" => AtLoadLow'
      /\ o.kind = "csr" => AtCsr'
      /\ o.kind = "push" => AtPush'
      /\ o.kind = "pop" => AtPop'
      /\ o.kind = "livepush" => AtLivePush'
      /\ o.kind = "livepushpop" => AtLivePushPop'
      /\ o.kind = "livelow" => AtLiveLow'
      /\ o.kind = "livepop" => AtLivePop'
      /\ o.kind = "run" => AtRun'
      /\ o.kind = "halt" => AtHalt'
  BY <1>1, <1>2, LoadClock, LoadLowClock, CsrClock, PushClock, PopClock, LivePushClock,
     LivePushPopClock, LiveLowClock, LivePopClock, RunOrHaltClock DEF Progress
<1> QED BY <1>1, <1>2, <1>3 DEF Progress

LEMMA NotOver ==
  ASSUME NEW pulse \in Pins \X Pins, NEW later \in Seq(Pins)
  PROVE  rest = pulse \o later \/ rest = Tail(pulse) \o later => rest # << >>
BY Scriptless

\* With no setting left to show, the operation has told the engine what it
\* stands for, and left half a word or half a byte only to be given up.
LEMMA AllTold ==
  ASSUME HostInv, Progress, op # None, rest = << >>
  PROVE  /\ told = Effect(op, wr_slot) /\ Rested
         /\ hi => op.kind = "loadlow"
         /\ nib_hi => op.kind = "livelow"
<1>1. op \in Op /\ << >> \in Seq(Pins)
  BY ShortSequences DEF HostInv, HostTypeOK
<1>2. CASE op.kind = "load"
  <2>1. op.a \in Addr /\ op.w[1] \in Byte /\ op.w[2] \in Byte
    BY <1>1, <1>2, Kinds
  <2>2. PulseA(op.a, op.w[2]) \in Pins \X Pins /\ PulseA(op.a, op.w[1]) \in Pins \X Pins
    BY <2>1, PulsePairs
  <2>3. Over(Whole /\ told = <<Imem(wr_slot, op.a, op.w)>>)
    BY <1>1, <1>2, <2>2, Scriptless, NotOver DEF Progress, AtLoad, InPulse
  <2> QED BY <1>2, <2>3 DEF Over, Whole, Effect
<1>3. CASE op.kind = "loadlow"
  <2>1. PulseA(op.a, op.d) \in Pins \X Pins
    BY <1>1, <1>3, Kinds, PulsePairs
  <2>2. Over(HalfWord(op.a, op.d) /\ told = << >>)
    BY <1>1, <1>3, <2>1, NotOver DEF Progress, AtLoadLow, InPulse
  <2> QED BY <1>3, <2>2 DEF Over, HalfWord, Effect
<1>4. CASE op.kind = "csr"
  <2>1. << >> \notin CsrPulse(op.a, op.d)
    BY DEF CsrPulse
  <2>2. Over(Whole /\ told = <<Csr(op.a, op.d)>>)
    BY <1>4, <2>1 DEF Progress, AtCsr, PulseA, PulseB
  <2> QED BY <1>4, <2>2 DEF Over, Whole, Effect
<1>5. CASE op.kind = "push"
  <2>1. \A n \in Nibble : PulseB(FALSE, PushPins(n), op.d) \in Pins \X Pins
    BY <1>1, <1>5, Kinds, NibblePins, PulsePairs
  <2>2. Over(Whole /\ told = <<Tx(op.d)>>)
    BY <1>1, <1>5, <2>1, NotOver DEF Progress, AtPush, InPulse
  <2> QED BY <1>5, <2>2 DEF Over, Whole, Effect
<1>6. CASE op.kind \in {"pop", "livepop"}
  <2>1. \A r \in BOOLEAN, n \in Nibble : PulseB(r, PopPins(n), 0) \in Pins \X Pins
    BY NibblePins, PulsePairs, Widths
  <2>2. Over(Whole /\ told = <<Rx>>) \/ Over(HalfByte(FALSE, 0) /\ told = <<Rx>>)
    BY <1>1, <1>6, <2>1, NotOver DEF Progress, AtPop, AtLivePop, InPulse
  <2> QED BY <1>6, <2>2 DEF Over, Whole, HalfByte, Effect
<1>7. CASE op.kind \in {"livepush", "livepushpop"}
  <2> DEFINE low == LivePulse(LowNib, 0)
             high == LivePulse(HighNib, 0)
  <2>1. /\ low \in Pins \X Pins /\ high \in Pins \X Pins
        /\ \A n \in Nibble : PulseB(TRUE, PopPins(n), 0) \in Pins \X Pins
    BY <1>1, <1>7, Kinds, BytesAreNibbles, LivePairs, NibblePins, PulsePairs, Widths
    DEF LowNib, HighNib
  <2> HIDE DEF low, high
  <2>2. /\ high \in Seq(Pins)
        /\ \A n \in Nibble : PulseB(TRUE, PopPins(n), 0) \o high \in Seq(Pins)
    BY <2>1, Scriptless
  <2>3. CASE op.kind = "livepush"
    <3>1. Over(HalfByte(FALSE, 0) /\ told = <<Tx(op.d)>>)
      BY <1>1, <2>1, <2>2, <2>3, NotOver DEF Progress, AtLivePush, InPulse, low, high
    <3> QED BY <2>3, <3>1 DEF Over, HalfByte, Effect
  <2>4. CASE op.kind = "livepushpop"
    <3>1. Over(HalfByte(FALSE, 0) /\ told = <<Rx, Tx(op.d)>>)
      BY <1>1, <2>1, <2>2, <2>4, NotOver DEF Progress, AtLivePushPop, InPulse, low, high
    <3> QED BY <2>4, <3>1 DEF Over, HalfByte, Effect
  <2> QED BY <1>7, <2>3, <2>4
<1>8. CASE op.kind = "livelow"
  <2>1. LivePulse(op.d, 0) \in Pins \X Pins
    BY <1>1, <1>8, Kinds, LivePairs
  <2>2. Over(HalfByte(TRUE, op.d) /\ told = << >>)
    BY <1>1, <1>8, <2>1, NotOver DEF Progress, AtLiveLow, InPulse
  <2> QED BY <1>8, <2>2 DEF Over, HalfByte, Effect
<1>9. CASE op.kind \in {"run", "halt"}
  <2>1. Over(Whole /\ told = << >>)
    BY <1>9 DEF Progress, AtRun, AtHalt
  <2> QED BY <1>9, <2>1 DEF Over, Whole, Effect
<1> QED
  BY <1>1, <1>2, <1>3, <1>4, <1>5, <1>6, <1>7, <1>8, <1>9, Kinds

LEMMA ProgressEnd ==
  ASSUME HostInv, Progress, End
  PROVE  Progress'
<1>1. /\ op # None /\ rest = << >> /\ op' = None /\ told' = << >> /\ must' = Follows(op)
      /\ UNCHANGED <<we_d, tx_d, hi, nib_hi>>
  BY DEF End, portvars, wrapper
<1>2. /\ Rested
      /\ hi => op.kind = "loadlow"
      /\ nib_hi => op.kind = "livelow"
  BY <1>1, AllTold
<1> QED BY <1>1, <1>2 DEF Progress, Between, Rested, Follows

LEMMA ProgressIdle ==
  ASSUME HostInv, Progress, IdleClock
  PROVE  Progress'
<1>1. /\ op = None /\ op' = op /\ must' = must /\ told' = told \o cmd'
      /\ on \in BOOLEAN /\ Edge(Quiet(on, 0, 0))
  BY DEF IdleClock, HostInv, HostTypeOK
<1>2. /\ told = << >> /\ hi => must = "run"
      /\ nib_hi => must = "halt"
  BY <1>1 DEF Progress, Between
<1>3. cmd' = << >> /\ Rested' /\ (hi' => hi) /\ (nib_hi' => nib_hi)
  BY <1>1, QuietEdge, Widths
<1> QED BY <1>1, <1>2, <1>3, Appended DEF Progress, Between

LEMMA ProgressReset ==
  ASSUME HostInv, Progress, HostReset
  PROVE  Progress'
BY DEF HostReset, ResetEdge, Progress, Between, Rested

LEMMA ProgressKept ==
  ASSUME HostInv, Progress, [Next]_vars, ~CsrHeld
  PROVE  Progress'
<1>1. ASSUME NEW o \in Op, Begin(o) PROVE Progress'
  BY <1>1, ProgressBegin
<1>2. CASE Clock
  BY <1>2, ProgressClock
<1>3. CASE End
  BY <1>3, ProgressEnd
<1>4. CASE IdleClock
  BY <1>4, ProgressIdle
<1>5. CASE HostReset
  BY <1>5, ProgressReset
<1>6. CASE UNCHANGED vars
  <2>1. UNCHANGED <<op, rest, told, must, we_d, tx_d, hi, addr, lo, nib_hi, nib_lo, wr_slot>>
    BY <1>6 DEF vars, hostvars, portvars, wrapper
  <2>2. (AtLoad => AtLoad') /\ (AtLoadLow => AtLoadLow')
    BY <2>1 DEF AtLoad, AtLoadLow, InPulse, Over, Whole, Rested, HalfWord
  <2>3. AtCsr => AtCsr'
    BY <2>1 DEF AtCsr, Over, Whole, Rested
  <2>4. (AtPush => AtPush') /\ (AtPop => AtPop')
    BY <2>1 DEF AtPush, AtPop, InPulse, Over, Whole, Rested
  <2>5. (AtLivePush => AtLivePush') /\ (AtLiveLow => AtLiveLow')
    BY <2>1 DEF AtLivePush, AtLiveLow, InPulse, Over, HalfByte, Rested, LowNib, HighNib
  <2>6. (AtLivePushPop => AtLivePushPop') /\ (AtLivePop => AtLivePop')
    BY <2>1 DEF AtLivePushPop, AtLivePop, InPulse, Over, HalfByte, Rested, LowNib, HighNib
  <2>7. (AtRun => AtRun') /\ (AtHalt => AtHalt') /\ (Between => Between')
    BY <2>1 DEF AtRun, AtHalt, Between, Over, Whole, Rested
  <2> QED BY <2>1, <2>2, <2>3, <2>4, <2>5, <2>6, <2>7 DEF Progress
<1> QED BY <1>1, <1>2, <1>3, <1>4, <1>5, <1>6 DEF Next

-----------------------------------------------------------------------------
\* What the engine has been told, read off the progress: nothing yet, all of
\* it, or the pop in the middle of a push.
Said(o, s) ==
  {<< >>, Effect(o, s)} \cup (IF o.kind = "livepushpop" THEN {<<Rx>>} ELSE {})

ToldInPart == op # None => told \in Said(op, wr_slot)

LEMMA ToldSoFar == HostInv /\ Progress => ToldInPart
<1> SUFFICES ASSUME HostInv, Progress, op # None
             PROVE  told \in Said(op, wr_slot)
  BY DEF ToldInPart
<1>1. op \in Op
  BY DEF HostInv, HostTypeOK
<1>2. CASE op.kind \in {"load", "loadlow"}
  BY <1>2 DEF Progress, AtLoad, AtLoadLow, InPulse, Over, Said, Effect
<1>3. CASE op.kind \in {"csr", "push", "pop"}
  BY <1>3 DEF Progress, AtCsr, AtPush, AtPop, InPulse, Over, Said, Effect
<1>4. CASE op.kind \in {"livepush", "livelow", "livepop"}
  BY <1>4 DEF Progress, AtLivePush, AtLiveLow, AtLivePop, InPulse, Over, Said, Effect
<1>5. CASE op.kind = "livepushpop"
  BY <1>5 DEF Progress, AtLivePushPop, InPulse, Over, Said, Effect
<1>6. CASE op.kind \in {"run", "halt"}
  BY <1>6 DEF Progress, AtRun, AtHalt, Over, Said, Effect
<1> QED BY <1>1, <1>2, <1>3, <1>4, <1>5, <1>6, Kinds

\* An edge tells the engine one thing at most, and moves the write slot only
\* with a CSR command, by what that command says.
LEMMA EdgeTells ==
  ASSUME NEW p \in Pins, Edge(p)
  PROVE  \/ cmd' = << >> /\ wr_slot' = wr_slot
         \/ \E c : c.kind # "csr" /\ cmd' = <<c>> /\ wr_slot' = wr_slot
         \/ /\ cmd' = <<Csr(p.a, p.uio)>>
            /\ wr_slot' = IF p.a = CsrWriteSlot THEN p.uio % NSlots ELSE wr_slot
<1>1. cmd' = Commands(p)
  BY DEF Edge
<1>2. ~csr_we(p) => wr_slot' = wr_slot
  BY DEF Edge, RunEdge, StillEdge
<1>3. csr_we(p) =>
        wr_slot' = IF p.a = CsrWriteSlot THEN p.uio % NSlots ELSE wr_slot
  BY DEF Edge, StillEdge, csr_we, we_edge, we, halt, running
<1>4. CASE csr_we(p)
  BY <1>1, <1>3, <1>4, NothingOrOne
<1>5. CASE ~csr_we(p)
  <2>1. \/ Commands(p) = <<Imem(wr_slot, addr, <<p.uio, lo>>)>>
        \/ Commands(p) = <<Tx(tx_data(p))>>
        \/ Commands(p) = <<Rx>>
        \/ Commands(p) = << >>
    BY <1>5, NothingOrOne
  <2>2. /\ Imem(wr_slot, addr, <<p.uio, lo>>).kind # "csr"
        /\ Tx(tx_data(p)).kind # "csr" /\ Rx.kind # "csr"
    BY DEF Imem, Tx, Rx
  <2> QED BY <1>1, <1>2, <1>5, <2>1, <2>2
<1> QED BY <1>4, <1>5

\* A sequence of one or two commands is told one by one.
LEMMA Different ==
  /\ \A x : <<x>> # << >>
  /\ \A x, y : <<x, y>> # << >> /\ \A z : <<x, y>> # <<z>>
  /\ \A x, z : <<x>> = <<z>> => x = z
  /\ \A x, y, u, v : <<x, y>> = <<u, v>> => y = v
BY SMT

LEMMA OneByOne ==
  ASSUME NEW t, NEW c, NEW x, NEW z, t \in {<< >>, <<x>>}, t \o <<c>> \in {<< >>, <<z>>}
  PROVE  t = << >> /\ c = z
<1>1. CASE t = << >>
  BY <1>1, Different, Appended
<1>2. CASE t = <<x>>
  <2>1. t \o <<c>> = <<x, c>>
    BY <1>2, Appended
  <2> QED BY <2>1, Different
<1> QED BY <1>1, <1>2

Parts(x, y) == {<< >>, <<x>>, <<x, y>>}

LEMMA TwoByOne ==
  ASSUME NEW t, NEW c, NEW x, NEW y, t \in Parts(x, y), t \o <<c>> \in Parts(x, y)
  PROVE  \/ t = << >> /\ c = x
         \/ t = <<x>> /\ c = y
<1> USE DEF Parts
<1>1. CASE t = << >>
  BY <1>1, Different, Appended
<1>2. CASE t = <<x>>
  BY <1>2, Different, Appended
<1>3. CASE t = <<x, y>>
  <2>1. /\ Len(<<x, y>> \o <<c>>) = 3
        /\ Len(<<x, y>>) = 2 /\ Len(<<x>>) = 1 /\ Len(<< >>) = 0
    BY SMT
  <2> QED BY <1>3, <2>1
<1> QED BY <1>1, <1>2, <1>3

\* The operations by what they tell.
LEMMA Effects ==
  ASSUME NEW o \in Op, NEW s
  PROVE  \/ o.kind \in {"loadlow", "livelow", "run", "halt"} /\ Effect(o, s) = << >>
         \/ o.kind = "load" /\ Effect(o, s) = <<Imem(s, o.a, o.w)>>
         \/ o.kind = "csr" /\ Effect(o, s) = <<Csr(o.a, o.d)>>
         \/ o.kind \in {"push", "livepush"} /\ Effect(o, s) = <<Tx(o.d)>>
         \/ o.kind \in {"pop", "livepop"} /\ Effect(o, s) = <<Rx>>
         \/ o.kind = "livepushpop" /\ Effect(o, s) = <<Rx, Tx(o.d)>>
BY Kinds DEF Effect

LEMMA Telling ==
  ASSUME NEW o \in Op, NEW s, NEW t, NEW c, t \in Said(o, s), t \o <<c>> \in Said(o, s)
  PROVE  /\ Len(t) < Len(Effect(o, s)) /\ t \o <<c>> = Append(t, Effect(o, s)[Len(t) + 1])
         /\ o.kind = "csr" => c = Csr(o.a, o.d)
         /\ o.kind # "csr" => c.kind # "csr"
<1>1. \A x : /\ Len(<< >>) < Len(<<x>>) /\ Append(<< >>, <<x>>[Len(<< >>) + 1]) = <<x>>
             /\ << >> \o <<x>> = <<x>>
  BY SMT
<1>2. ASSUME NEW x, NEW y
      PROVE  /\ Len(<< >>) < Len(<<x, y>>) /\ Len(<<x>>) < Len(<<x, y>>)
             /\ Append(<< >>, <<x, y>>[Len(<< >>) + 1]) = <<x>>
             /\ Append(<<x>>, <<x, y>>[Len(<<x>>) + 1]) = <<x, y>>
             /\ << >> \o <<x>> = <<x>> /\ <<x>> \o <<y>> = <<x, y>>
  <2>1. Len(<< >>) + 1 = 1 /\ Len(<<x>>) + 1 = 2 /\ Len(<<x, y>>) = 2
    BY SMT
  <2>2. <<x, y>>[1] = x /\ <<x, y>>[2] = y
    OBVIOUS
  <2>3. Append(<< >>, x) = <<x>>
    BY SMT
  <2>4. Append(<<x>>, y) = <<x, y>>
    <3>1. <<x>> \in Seq({x, y}) /\ y \in {x, y} /\ Len(<<x>>) = 1
      BY ShortSequences
    <3>2. Append(<<x>>, y) = <<x>> \o <<y>>
      BY <3>1, SMT
    <3> QED BY <3>2, Appended
  <2>5. Len(<< >>) < Len(<<x, y>>) /\ Len(<<x>>) < Len(<<x, y>>)
    BY SMT
  <2> QED BY <2>1, <2>2, <2>3, <2>4, <2>5, Appended
<1>3. Imem(s, o.a, o.w).kind # "csr" /\ Tx(o.d).kind # "csr" /\ Rx.kind # "csr"
  BY DEF Imem, Tx, Rx
<1>4. CASE o.kind = "livepushpop"
  <2>1. Effect(o, s) = <<Rx, Tx(o.d)>>
    BY <1>4, Effects
  <2>2. \/ t = << >> /\ c = Rx
        \/ t = <<Rx>> /\ c = Tx(o.d)
    <3>1. t \in Parts(Rx, Tx(o.d)) /\ t \o <<c>> \in Parts(Rx, Tx(o.d))
      BY <1>4, <2>1 DEF Said, Parts
    <3> QED BY <3>1, TwoByOne
  <2> QED BY <1>1, <1>2, <1>3, <1>4, <2>1, <2>2, SMTT(30)
<1>5. CASE o.kind # "livepushpop" /\ \E x : Effect(o, s) = <<x>>
  <2>1. PICK x : Effect(o, s) = <<x>>
    BY <1>5
  <2>2. t = << >> /\ c = x
    BY <1>5, <2>1, OneByOne DEF Said
  <2>3. /\ o.kind = "csr" => x = Csr(o.a, o.d)
        /\ o.kind # "csr" => x.kind # "csr"
    <3>1. ASSUME NEW y, <<y>> = <<x>> PROVE y = x
      BY <3>1, SMT
    <3> QED BY <1>3, <1>5, <2>1, <3>1, Effects
  <2> QED BY <1>1, <2>1, <2>2, <2>3
<1>6. CASE o.kind # "livepushpop" /\ Effect(o, s) = << >>
  BY <1>6, Different, Appended DEF Said
<1> QED BY <1>4, <1>5, <1>6, Effects

LEMMA SlotMatters ==
  ASSUME NEW o \in Op, o.kind # "load", NEW s, NEW r
  PROVE  Said(o, s) = Said(o, r)
BY DEF Said, Effect

-----------------------------------------------------------------------------
\* Each step of the host is a step of HostCommands, or none.

LEMMA ClockTells ==
  ASSUME HostInv, ToldInPart, ToldInPart', Clock
  PROVE  Commanded!Tell \/ UNCHANGED <<op, told, wr_slot, on>>
<1> DEFINE p == Head(rest)
<1>1. op' = op /\ op # None /\ op \in Op /\ on' = on /\ told' = told \o cmd' /\ Edge(p)
  BY DEF Clock, HostInv, ModeFollows, HostTypeOK
<1>2. p \in Pins
  BY DEF Clock, HostInv, HostTypeOK
<1>3. told \in Said(op, wr_slot) /\ told' \in Said(op, wr_slot')
  BY <1>1 DEF ToldInPart
<1> HIDE DEF p
<1>4. CASE cmd' = << >> /\ wr_slot' = wr_slot
  <2>1. told' = told
    BY <1>1, <1>4, SMT DEF HostInv, HostTypeOK
  <2> QED BY <1>1, <1>4, <2>1
<1>5. ASSUME NEW c, c.kind # "csr", cmd' = <<c>>, wr_slot' = wr_slot
      PROVE  Commanded!Tell
  <2>1. /\ Len(told) < Len(Effect(op, wr_slot))
        /\ told' = Append(told, Effect(op, wr_slot)[Len(told) + 1])
        /\ op.kind = "csr" => c = Csr(op.a, op.d)
    BY <1>1, <1>3, <1>5, Telling
  <2>2. op.kind # "csr"
    BY <1>5, <2>1 DEF Csr
  <2> QED BY <1>1, <1>5, <2>1, <2>2 DEF Commanded!Tell, NewSlot
<1>6. CASE /\ cmd' = <<Csr(p.a, p.uio)>>
           /\ wr_slot' = IF p.a = CsrWriteSlot THEN p.uio % NSlots ELSE wr_slot
  <2> DEFINE c == Csr(p.a, p.uio)
  <2>1. c.kind = "csr" /\ c.a = p.a /\ c.d = p.uio
    BY DEF Csr
  <2>2. told' = told \o <<c>>
    BY <1>1, <1>6
  <2> HIDE DEF c
  <2>3. op.kind # "load"
    <3>1. SUFFICES ASSUME op.kind = "load" PROVE FALSE
      OBVIOUS
    <3>2. /\ told \in {<< >>, <<Imem(wr_slot, op.a, op.w)>>}
          /\ told \o <<c>> \in {<< >>, <<Imem(wr_slot', op.a, op.w)>>}
      BY <1>1, <1>3, <2>2, <3>1 DEF Said, Effect
    <3>3. c = Imem(wr_slot', op.a, op.w)
      BY <3>2, OneByOne
    <3> QED BY <2>1, <3>3 DEF Imem
  <2>4. told \o <<c>> \in Said(op, wr_slot)
    BY <1>1, <1>3, <2>2, <2>3, SlotMatters
  <2>5. /\ Len(told) < Len(Effect(op, wr_slot))
        /\ told' = Append(told, Effect(op, wr_slot)[Len(told) + 1])
        /\ op.kind = "csr" => c = Csr(op.a, op.d)
        /\ op.kind # "csr" => c.kind # "csr"
    BY <1>1, <1>3, <2>2, <2>4, Telling
  <2>6. op.kind = "csr" /\ p.a = op.a /\ p.uio = op.d
    BY <2>1, <2>5 DEF Csr
  <2>7. wr_slot' = NewSlot(op, wr_slot)
    BY <1>6, <2>6 DEF NewSlot
  <2> QED BY <1>1, <2>5, <2>7 DEF Commanded!Tell
<1> QED BY <1>1, <1>2, <1>4, <1>5, <1>6, EdgeTells

LEMMA IdleTells ==
  ASSUME HostInv, IdleClock
  PROVE  UNCHANGED <<op, told, wr_slot, on>>
<1>1. /\ op' = op /\ on' = on /\ told' = told \o cmd'
      /\ on \in BOOLEAN /\ told \in Seq(Command) /\ Edge(Quiet(on, 0, 0))
  BY DEF IdleClock, HostInv, HostTypeOK
<1>2. cmd' = << >> /\ wr_slot' = wr_slot
  BY <1>1, QuietEdge, Widths
<1>3. told' = told
  BY <1>1, <1>2, SMT
<1> QED BY <1>1, <1>2, <1>3

LEMMA StepsAreCommanded ==
  ASSUME HostInv, Progress, ToldInPart, ToldInPart', [Next]_vars
  PROVE  [Commanded!Next]_<<op, told, wr_slot, on>>
<1>1. ASSUME NEW o \in Op, Begin(o) PROVE Commanded!Request(o)
  <2>1. told = << >>
    BY <1>1 DEF Begin, Progress, Between
  <2> QED BY <1>1, <2>1 DEF Begin, portvars, wrapper, Commanded!Request
<1>2. CASE Clock
  BY <1>2, ClockTells DEF Commanded!Next
<1>3. CASE End
  <2>1. told = Effect(op, wr_slot) /\ op # None
    BY <1>3, AllTold DEF End
  <2> QED BY <1>3, <2>1 DEF End, portvars, wrapper, Commanded!Finish, Commanded!Next
<1>4. CASE IdleClock
  BY <1>4, IdleTells
<1>5. CASE HostReset
  BY <1>5 DEF HostReset, ResetEdge, Commanded!Reset, Commanded!Next
<1>6. CASE UNCHANGED vars
  BY <1>6 DEF vars, hostvars, portvars, wrapper
<1> QED BY <1>1, <1>2, <1>3, <1>4, <1>5, <1>6 DEF Next, Commanded!Next

\* Every documented operation tells the engine what it stands for, once, in
\* order and in full, and nothing else is told: for nibbles of any width, any
\* number of slots, any hold times and any order of operations, resets
\* between them, and loads and pushes given up half way (project.v,
\* docs/info.md).  The two strobes of a CSR write rise together.
THEOREM HostIsCommanded ==
  ASSUME ~CsrHeld
  PROVE  Spec => ObeysTheDatasheet
<1>1. Init => Commanded!Init
  BY DEF Init, PortInit, Commanded!Init
<1>2. Spec => []Progress
  <2>1. HostInv /\ Progress /\ [Next]_vars => Progress'
    BY ProgressKept
  <2> QED BY <2>1, ProgressInit, HostInvariance, PTL DEF Spec
<1>3. HostInv /\ Progress /\ ToldInPart /\ ToldInPart' /\ [Next]_vars
        => [Commanded!Next]_<<op, told, wr_slot, on>>
  BY StepsAreCommanded
<1> QED
  BY <1>1, <1>2, <1>3, ToldSoFar, HostInvariance, PTL
  DEF Spec, ObeysTheDatasheet, Commanded!Spec
=============================================================================
