------------------------------- MODULE SmRtl -------------------------------
(***************************************************************************)
(* One enabled clock of a state machine in hardware (rtl.py, _elab_sm).    *)
(* Every register has its next value computed from the registers before    *)
(* the edge, in parallel with all the others.                              *)
(*                                                                         *)
(*   m    the registers                    i    the instruction, decoded   *)
(*   c    the CSRs                         eff  what the pads show         *)
(***************************************************************************)
EXTENDS Isa

\* The pads: a pin some machine drives is low if any of them pulls it down,
\* a pin nobody drives follows the input.
Oe(ms) == UNION {ms[s].oe_reg : s \in DOMAIN ms}
PullsLow(ms) == UNION {ms[s].oe_reg \ ms[s].out_reg : s \in DOMAIN ms}
DrivesHigh(ms) == UNION {ms[s].oe_reg \cap ms[s].out_reg : s \in DOMAIN ms}

\* Mutant: a pin that is driven low still follows the input.
PadLeaks(ms, gpio) == (DrivesHigh(ms) \ PullsLow(ms)) \cup gpio

Pad(ms, gpio) == (DrivesHigh(ms) \ PullsLow(ms)) \cup (gpio \ Oe(ms))

\* What leaves the engine: gpio_out, and Oe as gpio_oe.
GpioOut(ms) ==
  (DrivesHigh(ms) \ PullsLow(ms))
    \cup (UNION {ms[s].out_reg : s \in DOMAIN ms} \ Oe(ms))

-----------------------------------------------------------------------------
\* Mutant: the jump on a pin looks at it upside down.
TakenWhenLow(m, i, eff) ==
  /\ i.op = "JMP"
  /\ \/ i.cond = "ALWAYS"
     \/ i.cond = "X_EQ0" /\ m.x = {}
     \/ i.cond = "Y_EQ0" /\ m.y = {}
     \/ i.cond = "X_DEC" /\ m.x # {}
     \/ i.cond = "Y_DEC" /\ m.y # {}
     \/ i.cond = "PIN" /\ m.in_pin \notin eff
     \/ i.cond = "TX_NE" /\ m.tx # << >>
     \/ i.cond = "TX_EQ0" /\ m.tx = << >>

Taken(m, i, eff) ==
  /\ i.op = "JMP"
  /\ \/ i.cond = "ALWAYS"
     \/ i.cond = "X_EQ0" /\ m.x = {}
     \/ i.cond = "Y_EQ0" /\ m.y = {}
     \/ i.cond = "X_DEC" /\ m.x # {}
     \/ i.cond = "Y_DEC" /\ m.y # {}
     \/ i.cond = "PIN" /\ m.in_pin \in eff
     \/ i.cond = "TX_NE" /\ m.tx # << >>
     \/ i.cond = "TX_EQ0" /\ m.tx = << >>

\* Mutant: a wait is for a high pin, whatever it says.
StallUntilHigh(m, i, eff) ==
  \/ i.op = "WAIT" /\ i.pin \notin eff
  \/ i.op = "PULL" /\ m.tx = << >>
  \/ i.op = "PUSH" /\ Len(m.rx) = Depth

Stall(m, i, eff) ==
  \/ i.op = "WAIT" /\ (i.pin \in eff) # i.pol
  \/ i.op = "PULL" /\ m.tx = << >>
  \/ i.op = "PUSH" /\ Len(m.rx) = Depth

DoPull(m, i) == i.op = "PULL" /\ m.tx # << >>
DoPush(m, i) == i.op = "PUSH" /\ Len(m.rx) # Depth

\* MOV.
DestCur(m, d) ==
  IF d = "X" THEN m.x ELSE IF d = "Y" THEN m.y ELSE
  IF d = "OSR" THEN m.osr ELSE IF d = "ISR" THEN m.isr ELSE
  IF d = "PINS" THEN m.out_reg ELSE {}

MovSrc(m, i, eff) ==
  IF i.src = "X" THEN m.x ELSE IF i.src = "Y" THEN m.y ELSE
  IF i.src = "OSR" THEN m.osr ELSE IF i.src = "ISR" THEN m.isr ELSE
  IF i.src = "PINS" THEN eff ELSE
  IF i.src = "XOR_Y" THEN Xor(DestCur(m, i.dst), m.y) ELSE
  IF i.src = "CRC_LO" THEN m.crc \cap Bits ELSE
  IF i.src = "CRC_HI" THEN {k \in Bits : k + W \in m.crc} ELSE
  IF i.src = "CRC_OUT" THEN Bit(CrcTop(m.crc), 0) ELSE {}

MovTo(i, d) == i.op = "MOV" /\ i.dst = d /\ i.src \notin {"CRC_FEED", "CRC_CLR"}
SetTo(i, d) == i.op = "SET" /\ i.dst = d
PinOp(i, d) == i.op = "SETPIN" /\ i.dst = d

OutBit(m, i) == (IF i.lsb THEN 0 ELSE W - 1) \in m.osr

\* The output and direction registers before side-set (pin_wd, oe_wd).
PinWd(m, i, eff) ==
  IF i.op = "OUT" THEN Put(m.out_reg, m.out_pin, OutBit(m, i)) ELSE
  IF MovTo(i, "PINS") THEN MovSrc(m, i, eff) ELSE
  IF SetTo(i, "PINS") THEN i.imm \cup (m.out_reg \ ImmBits) ELSE
  IF PinOp(i, "BIT") THEN m.out_reg \cup {i.pin} ELSE
  IF PinOp(i, "CLR") THEN m.out_reg \ {i.pin} ELSE m.out_reg

OeWd(m, i, eff) ==
  IF i.op = "OUT" THEN m.oe_reg \cup {m.out_pin} ELSE
  IF MovTo(i, "PINDIRS") THEN MovSrc(m, i, eff) ELSE
  IF SetTo(i, "PINDIRS") THEN i.imm \cup (m.oe_reg \ ImmBits) ELSE
  IF PinOp(i, "BIT") THEN m.oe_reg \cup {i.pin} ELSE m.oe_reg

\* Mutant: side-set raises its pin and never lowers it.
CommitOutSets(c, core, bit) ==
  IF c.side_count /\ bit THEN core \cup {c.side_base} ELSE core

\* Side-set has the last word on its pin.
CommitOut(c, core, bit) ==
  IF c.side_count THEN Put(core, c.side_base, bit) ELSE core

NextX(m, i, eff) ==
  IF i.op = "JMP" /\ i.cond = "X_DEC" /\ m.x # {} THEN Dec(m.x) ELSE
  IF MovTo(i, "X") THEN MovSrc(m, i, eff) ELSE
  IF SetTo(i, "X") THEN i.imm ELSE m.x

NextY(m, i, eff) ==
  IF i.op = "JMP" /\ i.cond = "Y_DEC" /\ m.y # {} THEN Dec(m.y) ELSE
  IF MovTo(i, "Y") THEN MovSrc(m, i, eff) ELSE
  IF SetTo(i, "Y") THEN i.imm ELSE m.y

NextOsr(m, i, eff) ==
  IF i.op = "OUT" THEN (IF i.lsb THEN Shr(m.osr, FALSE) ELSE Shl(m.osr, FALSE)) ELSE
  IF DoPull(m, i) THEN Head(m.tx) ELSE
  IF MovTo(i, "OSR") THEN MovSrc(m, i, eff) ELSE m.osr

NextIsr(m, i, eff) ==
  IF i.op = "IN" THEN (IF i.lsb THEN Shr(m.isr, m.in_pin \in eff)
                                ELSE Shl(m.isr, m.in_pin \in eff)) ELSE
  IF MovTo(i, "ISR") THEN MovSrc(m, i, eff) ELSE m.isr

NextCrc(m, i) ==
  IF i.op # "MOV" THEN m.crc ELSE
  IF i.src = "CRC_FEED"
  THEN IF CrcTop(m.crc) # (0 \in m.osr) THEN Xor(CrcShift(m.crc), Poly)
                                       ELSE CrcShift(m.crc) ELSE
  IF i.src = "CRC_CLR" THEN {} ELSE
  IF i.src = "CRC_OUT" THEN CrcShift(m.crc) ELSE m.crc

\* Mutant: pc does not turn over at the end of the slot.
AdvancePast(m, i, c, eff) ==
  IF Taken(m, i, eff) THEN i.target ELSE
  IF m.pc = c.wrap_top THEN c.wrap_bot ELSE m.pc + 1

\* adv_pc: a taken jump goes past the wrap.
Advance(m, i, c, eff) ==
  IF Taken(m, i, eff) THEN i.target ELSE
  IF m.pc = c.wrap_top THEN c.wrap_bot ELSE (m.pc + 1) % Words

Execute(m, n, c, eff) ==
  LET i == n.code
      bit == c.side_count /\ n.top
      st == Stall(m, i, eff)
  IN  [pc |-> IF st THEN m.pc ELSE Advance(m, i, c, eff),
       x |-> NextX(m, i, eff),
       y |-> NextY(m, i, eff),
       osr |-> NextOsr(m, i, eff),
       isr |-> NextIsr(m, i, eff),
       delay_ctr |-> IF st THEN m.delay_ctr ELSE Delay(n, c),
       out_reg |-> CommitOut(c, PinWd(m, i, eff), bit),
       oe_reg |-> OeWd(m, i, eff),
       out_pin |-> IF PinOp(i, "OUTPIN") THEN i.pin ELSE m.out_pin,
       in_pin |-> IF PinOp(i, "INPIN") THEN i.pin ELSE m.in_pin,
       side_latched |-> bit,
       crc |-> NextCrc(m, i),
       tx |-> IF DoPull(m, i) THEN Tail(m.tx) ELSE m.tx,
       rx |-> IF DoPush(m, i) THEN Append(m.rx, m.isr) ELSE m.rx]

\* A clock of the delay after an instruction.
Linger(m, c) ==
  [m EXCEPT !.delay_ctr = m.delay_ctr - 1,
            !.out_reg = CommitOut(c, m.out_reg, m.side_latched)]

Enabled(m, n, c, eff) ==
  IF m.delay_ctr # 0 THEN Linger(m, c) ELSE Execute(m, n, c, eff)

\* Mutant: the next word is fetched through a stall.
FetchPcThroughStall(m, n, c, eff) ==
  IF m.delay_ctr # 0 THEN m.pc ELSE Advance(m, n.code, c, eff)

\* The address put on the instruction memory during the same clock.
FetchPc(m, n, c, eff) ==
  IF m.delay_ctr # 0 \/ Stall(m, n.code, eff) THEN m.pc
  ELSE Advance(m, n.code, c, eff)
=============================================================================
