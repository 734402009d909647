------------------------------ MODULE SmInterp ------------------------------
(***************************************************************************)
(* One enabled tick of a state machine in the reference interpreter        *)
(* (interp.SM.tick): side-set first, then the pins are sampled, then the   *)
(* instruction changes the machine it finds.                               *)
(***************************************************************************)
EXTENDS Isa

\* Engine._bus: the pads as every machine's tick is given them.
BusOe(ms) == UNION {ms[s].oe_reg : s \in DOMAIN ms}
Drive0(ms) == UNION {ms[s].oe_reg \ ms[s].out_reg : s \in DOMAIN ms}
Drive1(ms) == UNION {ms[s].oe_reg \cap ms[s].out_reg : s \in DOMAIN ms}
Bus(ms, gpio) ==
  (gpio \ BusOe(ms)) \cup (BusOe(ms) \cap (Drive1(ms) \ Drive0(ms)))

\* SM.effective_pins: on the pins it drives a machine reads itself.
EffectivePins(m, bus) == (m.oe_reg \cap m.out_reg) \cup (bus \ m.oe_reg)

ApplySideset(m, c) ==
  IF c.side_count
  THEN [m EXCEPT !.out_reg = Put(m.out_reg, c.side_base, m.side_latched)]
  ELSE m

Latch(m, n, c) ==
  IF c.side_count THEN [m EXCEPT !.side_latched = n.top] ELSE m

-----------------------------------------------------------------------------
\* The instructions, each on the machine side-set left.
Jumps(m, i, eff) ==
  IF i.cond = "ALWAYS" THEN TRUE ELSE
  IF i.cond \in {"X_EQ0", "X_DEC"} THEN (m.x = {}) = (i.cond = "X_EQ0") ELSE
  IF i.cond \in {"Y_EQ0", "Y_DEC"} THEN (m.y = {}) = (i.cond = "Y_EQ0") ELSE
  IF i.cond = "PIN" THEN m.in_pin \in eff
  ELSE (m.tx = << >>) = (i.cond = "TX_EQ0")

ExecJmp(m, i) ==
  IF i.cond = "X_DEC" /\ m.x # {} THEN [m EXCEPT !.x = Dec(m.x)] ELSE
  IF i.cond = "Y_DEC" /\ m.y # {} THEN [m EXCEPT !.y = Dec(m.y)] ELSE m

ExecOut(m, i) ==
  LET bit == IF i.lsb THEN 0 \in m.osr ELSE W - 1 \in m.osr
  IN  [m EXCEPT !.osr = IF i.lsb THEN Shr(m.osr, FALSE) ELSE Shl(m.osr, FALSE),
                !.out_reg = IF bit THEN m.out_reg \cup {m.out_pin}
                                   ELSE m.out_reg \ {m.out_pin},
                !.oe_reg = m.oe_reg \cup {m.out_pin}]

ExecIn(m, i, eff) ==
  LET sample == m.in_pin \in eff
  IN  [m EXCEPT !.isr = IF i.lsb THEN Shr(m.isr, sample) ELSE Shl(m.isr, sample)]

ExecPull(m) ==
  IF m.tx = << >> THEN m
  ELSE [m EXCEPT !.osr = Head(m.tx), !.tx = Tail(m.tx)]

ExecPush(m) ==
  IF Len(m.rx) >= Depth THEN m
  ELSE [m EXCEPT !.rx = Append(m.rx, m.isr)]

MovDst(m, d, v) ==
  IF d = "X" THEN [m EXCEPT !.x = v] ELSE
  IF d = "Y" THEN [m EXCEPT !.y = v] ELSE
  IF d = "OSR" THEN [m EXCEPT !.osr = v] ELSE
  IF d = "ISR" THEN [m EXCEPT !.isr = v] ELSE
  IF d = "PINS" THEN [m EXCEPT !.out_reg = v] ELSE
  IF d = "PINDIRS" THEN [m EXCEPT !.oe_reg = v] ELSE m

Current(m, d) ==
  IF d = "X" THEN m.x ELSE IF d = "Y" THEN m.y ELSE
  IF d = "OSR" THEN m.osr ELSE IF d = "ISR" THEN m.isr ELSE
  IF d = "PINS" THEN m.out_reg ELSE {}

PlainSrc(m, src, eff) ==
  IF src = "X" THEN m.x ELSE IF src = "Y" THEN m.y ELSE
  IF src = "OSR" THEN m.osr ELSE IF src = "ISR" THEN m.isr ELSE
  IF src = "PINS" THEN eff ELSE {}

\* Mutant: the CRC is not cut to its width.
FeedWide(crc, b) ==
  IF CrcTop(crc) # b THEN Xor({k + 1 : k \in crc}, Poly) ELSE {k + 1 : k \in crc}

Feed(crc, b) ==
  IF CrcTop(crc) # b THEN Xor(CrcShift(crc), Poly) ELSE CrcShift(crc)

ExecMov(m, i, eff) ==
  IF i.src = "XOR_Y" THEN MovDst(m, i.dst, Xor(Current(m, i.dst), m.y)) ELSE
  IF i.src = "CRC_FEED" THEN [m EXCEPT !.crc = Feed(m.crc, 0 \in m.osr)] ELSE
  IF i.src = "CRC_LO" THEN MovDst(m, i.dst, m.crc \cap Bits) ELSE
  IF i.src = "CRC_HI" THEN MovDst(m, i.dst, {k \in Bits : k + W \in m.crc}) ELSE
  IF i.src = "CRC_CLR" THEN [m EXCEPT !.crc = {}] ELSE
  IF i.src = "CRC_OUT"
  THEN MovDst([m EXCEPT !.crc = CrcShift(m.crc)], i.dst, Bit(CrcTop(m.crc), 0))
  ELSE MovDst(m, i.dst, PlainSrc(m, i.src, eff))

ExecSet(m, i) ==
  IF i.dst = "PINS" THEN [m EXCEPT !.out_reg = (m.out_reg \ ImmBits) \cup i.imm] ELSE
  IF i.dst = "PINDIRS" THEN [m EXCEPT !.oe_reg = (m.oe_reg \ ImmBits) \cup i.imm] ELSE
  IF i.dst = "X" THEN [m EXCEPT !.x = i.imm] ELSE [m EXCEPT !.y = i.imm]

ExecSetPin(m, i) ==
  IF i.dst = "BIT" THEN [m EXCEPT !.out_reg = m.out_reg \cup {i.pin},
                                  !.oe_reg = m.oe_reg \cup {i.pin}] ELSE
  IF i.dst = "CLR" THEN [m EXCEPT !.out_reg = m.out_reg \ {i.pin}] ELSE
  IF i.dst = "OUTPIN" THEN [m EXCEPT !.out_pin = i.pin]
  ELSE [m EXCEPT !.in_pin = i.pin]

Exec(m, i, eff) ==
  IF i.op = "JMP" THEN ExecJmp(m, i) ELSE
  IF i.op = "OUT" THEN ExecOut(m, i) ELSE
  IF i.op = "IN" THEN ExecIn(m, i, eff) ELSE
  IF i.op = "PULL" THEN ExecPull(m) ELSE
  IF i.op = "PUSH" THEN ExecPush(m) ELSE
  IF i.op = "MOV" THEN ExecMov(m, i, eff) ELSE
  IF i.op = "SET" THEN ExecSet(m, i) ELSE
  IF i.op = "SETPIN" THEN ExecSetPin(m, i) ELSE m

Stalls(m, i, eff) ==
  \/ i.op = "WAIT" /\ (i.pin \in eff) # i.pol
  \/ i.op = "PULL" /\ m.tx = << >>
  \/ i.op = "PUSH" /\ Len(m.rx) >= Depth

Follow(m, i, c, eff) ==
  IF i.op = "JMP" /\ Jumps(m, i, eff) THEN i.target ELSE
  IF m.pc = c.wrap_top THEN c.wrap_bot ELSE (m.pc + 1) % Words

\* An instruction on the machine side-set left (m), then pc and delay unless
\* it stalled.
Run(m, n, c, eff) ==
  IF Stalls(m, n.code, eff) THEN Exec(m, n.code, eff)
  ELSE [Exec(m, n.code, eff) EXCEPT !.pc = Follow(m, n.code, c, eff),
                                    !.delay_ctr = Delay(n, c)]

Tick(m, n, c, bus) ==
  IF m.delay_ctr # 0
  THEN ApplySideset([m EXCEPT !.delay_ctr = m.delay_ctr - 1], c)
  ELSE LET sided == ApplySideset(Latch(m, n, c), c)
       IN  Run(sided, n, c, EffectivePins(sided, bus))
=============================================================================
