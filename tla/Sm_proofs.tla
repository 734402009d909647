------------------------------ MODULE Sm_proofs ------------------------------
(***************************************************************************)
(* A clock of the hardware state machine keeps every register to its       *)
(* width, and puts the pc it arrives at on the instruction memory; a tick  *)
(* of the interpreter keeps the widths too, and leaves the registers the   *)
(* hardware's clock leaves.                                                *)
(***************************************************************************)
EXTENDS SmAgree, TLAPS, WellFoundedInduction

-----------------------------------------------------------------------------
\* Induction on the natural numbers, for a set instead of a predicate.
LEMMA LeastElement ==
  ASSUME NEW T \in SUBSET Nat, T # {}
  PROVE  \E x \in T : \A y \in T : x <= y
<1> DEFINE R == {ss \in Nat \X Nat : ss[1] < ss[2]}
<1>1. IsWellFoundedOn(R, Nat)
  BY NatLessThanWellFounded DEF OpToRel
<1>2. PICK x \in T : \A y \in T : <<y, x>> \notin R
  <2> HIDE DEF R
  <2> QED BY <1>1, WFMin
<1>3. ASSUME NEW y \in T PROVE x <= y
  <2>1. x \in Nat /\ y \in Nat
    OBVIOUS
  <2>2. y < x => <<y, x>> \in R
    BY <2>1
  <2> QED BY <1>2, <2>1, <2>2
<1> QED BY <1>3

LEMMA SetInduction ==
  ASSUME NEW S \in SUBSET Nat, 0 \in S, \A n \in S : n + 1 \in S
  PROVE  S = Nat
<1> DEFINE T == Nat \ S
<1>1. SUFFICES ASSUME T # {} PROVE FALSE
  OBVIOUS
<1>2. PICK x \in T : \A y \in T : x <= y
  <2>1. T \in SUBSET Nat
    OBVIOUS
  <2> HIDE DEF T
  <2> QED BY <1>1, <2>1, LeastElement
<1>3. x \in Nat /\ x # 0 /\ x - 1 \in Nat /\ x = (x - 1) + 1 /\ ~(x <= x - 1)
  OBVIOUS
<1>4. x - 1 \in S
  BY <1>2, <1>3
<1> QED BY <1>3, <1>4

-----------------------------------------------------------------------------

LEMMA BitTypes ==
  ASSUME NEW r \in Reg, NEW q \in Reg, NEW in \in BOOLEAN, NEW k \in Bits
  PROVE  /\ Xor(r, q) \in Reg /\ Dec(r) \in Reg
         /\ Shr(r, in) \in Reg /\ Shl(r, in) \in Reg
         /\ Put(r, k, in) \in Reg
         /\ Bit(in, 0) \in Reg
BY IsaAssumption DEF Xor, Dec, Shr, Shl, Put, Bit, Reg, Bits

LEMMA CrcTypes ==
  ASSUME NEW c \in SUBSET CrcBits
  PROVE  /\ CrcShift(c) \in SUBSET CrcBits
         /\ Xor(CrcShift(c), Poly) \in SUBSET CrcBits
         /\ c \cap Bits \in Reg
BY PolyAssumption DEF CrcShift, Xor, CrcBits, Reg

LEMMA ImmTypes ==
  ASSUME NEW v \in SUBSET ImmBits, NEW r \in Reg
  PROVE  v \in Reg /\ v \cup (r \ ImmBits) \in Reg
BY ImmFits, IsaAssumption DEF ImmBits, Reg, Bits

LEMMA QueueTypes ==
  ASSUME NEW q \in Queue
  PROVE  /\ q # << >> => Head(q) \in Reg /\ Tail(q) \in Queue
         /\ \A v \in Reg : Len(q) # Depth => Append(q, v) \in Queue
<1>1. q \in Seq(Reg) /\ Len(q) <= Depth /\ Len(q) \in Nat /\ Depth \in Nat
  BY IsaAssumption DEF Queue
<1>2. q # << >> => /\ Head(q) \in Reg /\ Tail(q) \in Seq(Reg)
                   /\ Len(Tail(q)) = Len(q) - 1
  BY <1>1
<1>3. \A v \in Reg : Append(q, v) \in Seq(Reg) /\ Len(Append(q, v)) = Len(q) + 1
  BY <1>1
<1> QED BY <1>1, <1>2, <1>3 DEF Queue

\* What is moved is a byte.
LEMMA SourceType ==
  ASSUME NEW m \in Machine, NEW i \in Code, i.op = "MOV", NEW eff \in Reg
  PROVE  MovSrc(m, i, eff) \in Reg
<1>1. /\ m.x \in Reg /\ m.y \in Reg /\ m.osr \in Reg /\ m.isr \in Reg
      /\ m.out_reg \in Reg /\ m.crc \in SUBSET CrcBits
  BY DEF Machine
<1>2. DestCur(m, i.dst) \in Reg
  BY <1>1 DEF DestCur, Reg
<1>3. Xor(DestCur(m, i.dst), m.y) \in Reg
  BY <1>1, <1>2 DEF Xor, Reg
<1>4. m.crc \cap Bits \in Reg /\ {k \in Bits : k + W \in m.crc} \in Reg
  BY DEF Reg
<1>5. Bit(CrcTop(m.crc), 0) \in Reg
  BY IsaAssumption DEF Bit, Reg, Bits
<1>6. {} \in Reg
  BY DEF Reg
<1> QED BY <1>1, <1>3, <1>4, <1>5, <1>6 DEF MovSrc

LEMMA ExecuteType ==
  ASSUME NEW m \in Machine, NEW n \in Node, NEW c \in Config, NEW eff \in Reg
  PROVE  Execute(m, n, c, eff) \in Machine
<1> DEFINE i == n.code
<1>1. /\ m.pc \in Addr /\ m.x \in Reg /\ m.y \in Reg /\ m.osr \in Reg
      /\ m.isr \in Reg /\ m.delay_ctr \in DelayVal /\ m.out_reg \in Reg
      /\ m.oe_reg \in Reg /\ m.out_pin \in Bits /\ m.in_pin \in Bits
      /\ m.crc \in SUBSET CrcBits /\ m.tx \in Queue /\ m.rx \in Queue
  BY DEF Machine
<1>2. i \in Code /\ n.top \in BOOLEAN /\ n.low \in 0 .. HalfDelay - 1
  BY DEF Node
<1>3. /\ c.wrap_bot \in Addr /\ c.wrap_top \in Addr
      /\ c.side_count \in BOOLEAN /\ c.side_base \in Bits
  BY DEF Config
<1>4. i.op = "MOV" => MovSrc(m, i, eff) \in Reg
  BY <1>2, SourceType
<1>5. \A d : MovTo(i, d) => MovSrc(m, i, eff) \in Reg
  BY <1>4 DEF MovTo
<1>6. \A d : SetTo(i, d) => i.imm \in SUBSET ImmBits
  BY <1>2 DEF SetTo, Code
<1>7. \A d : PinOp(i, d) => i.pin \in Bits
  BY <1>2 DEF PinOp, Code
<1>8. Taken(m, i, eff) => i.target \in Addr
  BY <1>2 DEF Taken, Code
<1>9. 0 \in Addr /\ (m.pc + 1) % Words \in Addr
  BY <1>1, IsaAssumption DEF Addr
<1> HIDE DEF i
<1>10. Advance(m, i, c, eff) \in Addr
  BY <1>1, <1>3, <1>8, <1>9 DEF Advance
<1>z. 0 \in Bits
  BY IsaAssumption DEF Bits
<1>11. NextX(m, i, eff) \in Reg
  BY <1>1, <1>5, <1>6, BitTypes, ImmTypes DEF NextX
<1>12. NextY(m, i, eff) \in Reg
  BY <1>1, <1>5, <1>6, BitTypes, ImmTypes DEF NextY
<1>13. DoPull(m, i) => Head(m.tx) \in Reg /\ Tail(m.tx) \in Queue
  BY <1>1, QueueTypes DEF DoPull
<1>14. /\ Shr(m.osr, FALSE) \in Reg /\ Shl(m.osr, FALSE) \in Reg
       /\ Shr(m.isr, m.in_pin \in eff) \in Reg
       /\ Shl(m.isr, m.in_pin \in eff) \in Reg
  <2>1. \A r \in Reg : \A in \in BOOLEAN : Shr(r, in) \in Reg /\ Shl(r, in) \in Reg
    BY <1>z, BitTypes
  <2>2. FALSE \in BOOLEAN /\ (m.in_pin \in eff) \in BOOLEAN
    OBVIOUS
  <2> QED BY <1>1, <2>1, <2>2
<1>15. NextOsr(m, i, eff) \in Reg
  BY <1>1, <1>5, <1>13, <1>14 DEF NextOsr
<1>16. NextIsr(m, i, eff) \in Reg
  BY <1>1, <1>5, <1>14 DEF NextIsr
<1>17. Delay(n, c) \in DelayVal
  BY <1>2, <1>3, IsaAssumption DEF Delay, DelayVal
<1>18. PinWd(m, i, eff) \in Reg
  <2>1. OutBit(m, i) \in BOOLEAN
    BY DEF OutBit
  <2>2. Put(m.out_reg, m.out_pin, OutBit(m, i)) \in Reg
    BY <1>1, <2>1, BitTypes
  <2>3. \A d : SetTo(i, d) => i.imm \cup (m.out_reg \ ImmBits) \in Reg
    BY <1>1, <1>6, ImmTypes
  <2>4. \A d : PinOp(i, d) =>
          m.out_reg \cup {i.pin} \in Reg /\ m.out_reg \ {i.pin} \in Reg
    BY <1>1, <1>7 DEF Reg
  <2> QED BY <1>1, <1>5, <2>2, <2>3, <2>4 DEF PinWd
<1>19. OeWd(m, i, eff) \in Reg
  <2>1. m.oe_reg \cup {m.out_pin} \in Reg
    BY <1>1 DEF Reg
  <2>2. \A d : SetTo(i, d) => i.imm \cup (m.oe_reg \ ImmBits) \in Reg
    BY <1>1, <1>6, ImmTypes
  <2>3. \A d : PinOp(i, d) => m.oe_reg \cup {i.pin} \in Reg
    BY <1>1, <1>7 DEF Reg
  <2> QED BY <1>1, <1>5, <2>1, <2>2, <2>3 DEF OeWd
<1>20. \A b \in BOOLEAN : CommitOut(c, PinWd(m, i, eff), b) \in Reg
  BY <1>3, <1>18, BitTypes DEF CommitOut
<1>21. NextCrc(m, i) \in SUBSET CrcBits
  <2>1. {} \in SUBSET CrcBits
    OBVIOUS
  <2> QED BY <1>1, <2>1, CrcTypes DEF NextCrc
<1>22. /\ (IF PinOp(i, "OUTPIN") THEN i.pin ELSE m.out_pin) \in Bits
       /\ (IF PinOp(i, "INPIN") THEN i.pin ELSE m.in_pin) \in Bits
  BY <1>1, <1>7
<1>23. (IF DoPush(m, i) THEN Append(m.rx, m.isr) ELSE m.rx) \in Queue
  BY <1>1, QueueTypes DEF DoPush
<1>24. (c.side_count /\ n.top) \in BOOLEAN
  BY <1>2, <1>3
<1> QED
  BY <1>1, <1>10, <1>11, <1>12, <1>13, <1>15, <1>16, <1>17, <1>19, <1>20,
     <1>21, <1>22, <1>23, <1>24 DEF Execute, Machine, i

LEMMA LingerType ==
  ASSUME NEW m \in Machine, NEW c \in Config, m.delay_ctr # 0
  PROVE  Linger(m, c) \in Machine
<1>1. m.delay_ctr \in DelayVal /\ m.delay_ctr - 1 \in DelayVal
  BY IsaAssumption DEF Machine, DelayVal
<1>2. c.side_base \in Bits /\ m.out_reg \in Reg /\ m.side_latched \in BOOLEAN
  BY DEF Config, Machine
<1>3. CommitOut(c, m.out_reg, m.side_latched) \in Reg
  BY <1>2, BitTypes DEF CommitOut
<1> QED BY <1>1, <1>3 DEF Linger, Machine

LEMMA EnabledType ==
  ASSUME NEW m \in Machine, NEW n \in Node, NEW c \in Config, NEW eff \in Reg
  PROVE  Enabled(m, n, c, eff) \in Machine
BY ExecuteType, LingerType DEF Enabled

LEMMA ResetType == ResetMachine \in Machine
<1>1. 0 \in Addr /\ 0 \in DelayVal /\ 0 \in Bits /\ {} \in Reg /\ {} \in SUBSET CrcBits
  BY IsaAssumption DEF Addr, DelayVal, Bits, Reg
<1>2. << >> \in Queue
  BY IsaAssumption DEF Queue
<1> QED BY <1>1, <1>2 DEF ResetMachine, Machine

LEMMA HardwarePadType ==
  ASSUME NEW S, NEW ms \in [S -> Machine], NEW gpio \in Reg
  PROVE  Pad(ms, gpio) \in Reg
<1>1. \A t \in S : ms[t].oe_reg \in Reg /\ ms[t].out_reg \in Reg
  BY DEF Machine
<1> QED
  BY <1>1 DEF Pad, DrivesHigh, PullsLow, Oe, Reg

\* The address logic and the pc logic, written apart in the code, agree: what
\* is put on the memory while an instruction executes is the pc the machine
\* has after it.
LEMMA FetchPcIsNextPc ==
  ASSUME NEW m \in Machine, NEW n \in Node, NEW c \in Config, NEW eff \in Reg
  PROVE  /\ Enabled(m, n, c, eff).pc = FetchPc(m, n, c, eff)
         /\ FetchPc(m, n, c, eff) \in Addr
<1>1. m.delay_ctr # 0 => Enabled(m, n, c, eff).pc = FetchPc(m, n, c, eff)
  BY DEF Enabled, FetchPc, Linger, Machine
<1>2. m.delay_ctr = 0 => Enabled(m, n, c, eff).pc = FetchPc(m, n, c, eff)
  BY DEF Enabled, FetchPc, Execute
<1>3. Enabled(m, n, c, eff).pc \in Addr
  BY EnabledType DEF Machine
<1> QED BY <1>1, <1>2, <1>3

-----------------------------------------------------------------------------
\* The interpreter keeps the types too.

LEMMA MovDstType ==
  ASSUME NEW m \in Machine, NEW d, NEW v \in Reg
  PROVE  MovDst(m, d, v) \in Machine
BY DEF MovDst, Machine

LEMMA ExecMovType ==
  ASSUME NEW m \in Machine, NEW i \in Code, i.op = "MOV", NEW eff \in Reg
  PROVE  ExecMov(m, i, eff) \in Machine
<1>1. /\ m.x \in Reg /\ m.y \in Reg /\ m.osr \in Reg /\ m.isr \in Reg
      /\ m.out_reg \in Reg /\ m.crc \in SUBSET CrcBits
  BY DEF Machine
<1>2. Xor(Current(m, i.dst), m.y) \in Reg
  BY <1>1 DEF Current, Xor, Reg
<1>3. m.crc \cap Bits \in Reg /\ {k \in Bits : k + W \in m.crc} \in Reg
  BY DEF Reg
<1>4. Bit(CrcTop(m.crc), 0) \in Reg
  BY IsaAssumption DEF Bit, Reg, Bits
<1>5. PlainSrc(m, i.src, eff) \in Reg
  BY <1>1 DEF PlainSrc, Reg
<1>6. \A v \in SUBSET CrcBits : [m EXCEPT !.crc = v] \in Machine
  BY DEF Machine
<1>7. /\ Feed(m.crc, 0 \in m.osr) \in SUBSET CrcBits
      /\ CrcShift(m.crc) \in SUBSET CrcBits
      /\ {} \in SUBSET CrcBits
  BY <1>1, CrcTypes DEF Feed
<1>8. \A v \in Reg : MovDst(m, i.dst, v) \in Machine
  BY MovDstType
<1>9. MovDst([m EXCEPT !.crc = CrcShift(m.crc)], i.dst, Bit(CrcTop(m.crc), 0))
        \in Machine
  BY <1>4, <1>6, <1>7, MovDstType
<1> QED BY <1>2, <1>3, <1>5, <1>6, <1>7, <1>8, <1>9 DEF ExecMov

LEMMA ExecType ==
  ASSUME NEW m \in Machine, NEW i \in Code, NEW eff \in Reg
  PROVE  Exec(m, i, eff) \in Machine
<1>1. /\ m.x \in Reg /\ m.y \in Reg /\ m.osr \in Reg /\ m.isr \in Reg
      /\ m.out_reg \in Reg /\ m.oe_reg \in Reg
      /\ m.out_pin \in Bits /\ m.in_pin \in Bits
      /\ m.tx \in Queue /\ m.rx \in Queue
  BY DEF Machine
<1>2. 0 \in Bits
  BY IsaAssumption DEF Bits
<1>3. \A q \in Reg : \A in \in BOOLEAN : Shr(q, in) \in Reg /\ Shl(q, in) \in Reg
  BY <1>2, BitTypes
<1>4. i.op = "JMP" => ExecJmp(m, i) \in Machine
  <2>1. Dec(m.x) \in Reg /\ Dec(m.y) \in Reg
    BY <1>1, <1>2, BitTypes
  <2> QED BY <2>1 DEF ExecJmp, Machine
<1>5. i.op = "OUT" => ExecOut(m, i) \in Machine
  <2>1. Shr(m.osr, FALSE) \in Reg /\ Shl(m.osr, FALSE) \in Reg
    BY <1>1, <1>3
  <2>2. /\ m.out_reg \cup {m.out_pin} \in Reg /\ m.out_reg \ {m.out_pin} \in Reg
        /\ m.oe_reg \cup {m.out_pin} \in Reg
    BY <1>1 DEF Reg
  <2> QED BY <2>1, <2>2 DEF ExecOut, Machine
<1>6. i.op = "IN" => ExecIn(m, i, eff) \in Machine
  <2>1. (m.in_pin \in eff) \in BOOLEAN
    OBVIOUS
  <2>2. Shr(m.isr, m.in_pin \in eff) \in Reg /\ Shl(m.isr, m.in_pin \in eff) \in Reg
    BY <1>1, <1>3, <2>1
  <2> QED BY <2>2 DEF ExecIn, Machine
<1>7. ExecPull(m) \in Machine
  <2>1. m.tx # << >> => Head(m.tx) \in Reg /\ Tail(m.tx) \in Queue
    BY <1>1, QueueTypes
  <2> QED BY <2>1 DEF ExecPull, Machine
<1>8. ExecPush(m) \in Machine
  <2>1. ~(Len(m.rx) >= Depth) => Append(m.rx, m.isr) \in Queue
    <3>1. Len(m.rx) \in Nat /\ Depth \in Nat
      BY <1>1, IsaAssumption DEF Queue
    <3>2. ~(Len(m.rx) >= Depth) => Len(m.rx) # Depth
      BY <3>1
    <3> QED BY <1>1, <3>2, QueueTypes
  <2> QED BY <2>1 DEF ExecPush, Machine
<1>9. i.op = "SET" => ExecSet(m, i) \in Machine
  <2>1. i.op = "SET" => i.imm \in SUBSET ImmBits
    BY DEF Code
  <2>2. i.op = "SET" => /\ i.imm \in Reg
                        /\ (m.out_reg \ ImmBits) \cup i.imm \in Reg
                        /\ (m.oe_reg \ ImmBits) \cup i.imm \in Reg
    BY <1>1, <2>1, ImmTypes DEF Reg
  <2> QED BY <2>2 DEF ExecSet, Machine
<1>10. i.op = "SETPIN" => ExecSetPin(m, i) \in Machine
  <2>1. i.op = "SETPIN" => i.pin \in Bits
    BY DEF Code
  <2>2. i.op = "SETPIN" => /\ m.out_reg \cup {i.pin} \in Reg
                           /\ m.out_reg \ {i.pin} \in Reg
                           /\ m.oe_reg \cup {i.pin} \in Reg
    BY <1>1, <2>1 DEF Reg
  <2> QED BY <2>1, <2>2 DEF ExecSetPin, Machine
<1> QED BY <1>4, <1>5, <1>6, <1>7, <1>8, <1>9, <1>10, ExecMovType DEF Exec

LEMMA SidedType ==
  ASSUME NEW m \in Machine, NEW n \in Node, NEW c \in Config
  PROVE  ApplySideset(m, c) \in Machine /\ Latch(m, n, c) \in Machine
<1>1. c.side_base \in Bits /\ m.out_reg \in Reg /\ m.side_latched \in BOOLEAN
      /\ n.top \in BOOLEAN
  BY DEF Config, Machine, Node
<1>2. Put(m.out_reg, c.side_base, m.side_latched) \in Reg
  BY <1>1, BitTypes
<1> QED BY <1>1, <1>2 DEF ApplySideset, Latch, Machine

LEMMA RunType ==
  ASSUME NEW m \in Machine, NEW n \in Node, NEW c \in Config, NEW eff \in Reg
  PROVE  Run(m, n, c, eff) \in Machine
<1>1. n.code \in Code /\ n.top \in BOOLEAN /\ n.low \in 0 .. HalfDelay - 1
  BY DEF Node
<1>2. Exec(m, n.code, eff) \in Machine
  BY <1>1, ExecType
<1>3. Delay(n, c) \in DelayVal
  BY <1>1, IsaAssumption DEF Delay, DelayVal, Config
<1>4. n.code.op = "JMP" => n.code.target \in Addr
  BY <1>1 DEF Code
<1>5. Follow(m, n.code, c, eff) \in Addr
  <2>1. (m.pc + 1) % Words \in Addr /\ c.wrap_bot \in Addr
    BY IsaAssumption DEF Addr, Machine, Config
  <2> QED BY <1>4, <2>1 DEF Follow
<1> QED BY <1>2, <1>3, <1>5 DEF Run, Machine

LEMMA PadTypes ==
  ASSUME NEW S, NEW ms \in [S -> Machine], NEW gpio \in Reg, NEW s \in S
  PROVE  /\ Pad(ms, gpio) \in Reg
         /\ Bus(ms, gpio) \in Reg
         /\ EffectivePins(ms[s], Bus(ms, gpio)) \in Reg
<1>1. \A t \in S : ms[t].oe_reg \in Reg /\ ms[t].out_reg \in Reg
  BY DEF Machine
<1> QED
  BY <1>1 DEF Pad, DrivesHigh, PullsLow, Oe, Bus, BusOe, Drive0, Drive1,
              EffectivePins, Reg

LEMMA TickType ==
  ASSUME NEW m \in Machine, NEW n \in Node, NEW c \in Config, NEW bus \in Reg
  PROVE  Tick(m, n, c, bus) \in Machine
<1>1. CASE m.delay_ctr # 0
  <2>1. m.delay_ctr - 1 \in DelayVal
    BY <1>1, IsaAssumption DEF Machine, DelayVal
  <2>2. [m EXCEPT !.delay_ctr = m.delay_ctr - 1] \in Machine
    BY <2>1 DEF Machine
  <2> QED BY <1>1, <2>2, SidedType DEF Tick
<1>2. CASE m.delay_ctr = 0
  <2> DEFINE sided == ApplySideset(Latch(m, n, c), c)
  <2>1. sided \in Machine
    BY SidedType
  <2>2. EffectivePins(sided, bus) \in Reg
    BY <2>1 DEF EffectivePins, Machine, Reg
  <2>3. Run(sided, n, c, EffectivePins(sided, bus)) \in Machine
    BY <2>1, <2>2, RunType
  <2> QED BY <1>2, <2>3 DEF Tick
<1> QED BY <1>1, <1>2

\* What a move writes.
LEMMA MovDstIs ==
  ASSUME NEW m \in Machine, NEW d, NEW v
  PROVE  /\ MovDst(m, d, v).x = IF d = "X" THEN v ELSE m.x
         /\ MovDst(m, d, v).y = IF d = "Y" THEN v ELSE m.y
         /\ MovDst(m, d, v).osr = IF d = "OSR" THEN v ELSE m.osr
         /\ MovDst(m, d, v).isr = IF d = "ISR" THEN v ELSE m.isr
         /\ MovDst(m, d, v).out_reg = IF d = "PINS" THEN v ELSE m.out_reg
         /\ MovDst(m, d, v).oe_reg = IF d = "PINDIRS" THEN v ELSE m.oe_reg
         /\ MovDst(m, d, v).pc = m.pc
         /\ MovDst(m, d, v).delay_ctr = m.delay_ctr
         /\ MovDst(m, d, v).side_latched = m.side_latched
         /\ MovDst(m, d, v).out_pin = m.out_pin
         /\ MovDst(m, d, v).in_pin = m.in_pin
         /\ MovDst(m, d, v).crc = m.crc
         /\ MovDst(m, d, v).tx = m.tx
         /\ MovDst(m, d, v).rx = m.rx
BY DEF MovDst, Machine

-----------------------------------------------------------------------------
\* The two models beside each other, for one enabled clock.

\* The interpreter's machine after side-set wrote bit to its pin.
RegsAlike(r, g, c, bit) ==
  /\ r.pc = g.pc /\ r.x = g.x /\ r.y = g.y /\ r.osr = g.osr /\ r.isr = g.isr
  /\ r.delay_ctr = g.delay_ctr /\ r.oe_reg = g.oe_reg
  /\ r.out_pin = g.out_pin /\ r.in_pin = g.in_pin /\ r.crc = g.crc
  /\ r.tx = g.tx /\ r.rx = g.rx
  /\ g.out_reg = CommitOut(c, r.out_reg, bit)

\* The registers an instruction leaves, h for the interpreter's.
Became(h, r, g, i, c, eff, bit) ==
  /\ h.pc = r.pc
  /\ h.delay_ctr = r.delay_ctr
  /\ h.side_latched = g.side_latched
  /\ h.x = NextX(r, i, eff)
  /\ h.y = NextY(r, i, eff)
  /\ h.osr = NextOsr(r, i, eff)
  /\ h.isr = NextIsr(r, i, eff)
  /\ h.out_reg = CommitOut(c, PinWd(r, i, eff), bit)
  /\ h.oe_reg = OeWd(r, i, eff)
  /\ h.out_pin = IF PinOp(i, "OUTPIN") THEN i.pin ELSE r.out_pin
  /\ h.in_pin = IF PinOp(i, "INPIN") THEN i.pin ELSE r.in_pin
  /\ h.crc = NextCrc(r, i)
  /\ h.tx = IF DoPull(r, i) THEN Tail(r.tx) ELSE r.tx
  /\ h.rx = IF DoPush(r, i) THEN Append(r.rx, r.isr) ELSE r.rx

\* The pins e and eff are the same to the instruction.
SeesAlike(r, i, e, eff) ==
  /\ i.op = "JMP" /\ i.cond = "PIN" => (r.in_pin \in e <=> r.in_pin \in eff)
  /\ i.op = "WAIT" => (i.pin \in e <=> i.pin \in eff)
  /\ i.op = "IN" => (r.in_pin \in e <=> r.in_pin \in eff)
  /\ i.op = "MOV" /\ i.src = "PINS" => e = eff

\* Writing two pins one after the other, in either order.
LEMMA PutCommutes ==
  ASSUME NEW q, NEW p1, NEW p2, p1 # p2, NEW b1 \in BOOLEAN, NEW b2 \in BOOLEAN
  PROVE  Put(Put(q, p1, b1), p2, b2) = Put(Put(q, p2, b2), p1, b1)
BY DEF Put, Bit

LEMMA PutIs ==
  ASSUME NEW q, NEW k
  PROVE  Put(q, k, TRUE) = q \cup {k} /\ Put(q, k, FALSE) = q \ {k}
BY DEF Put, Bit

\* The interpreter's instruction, on the machine side-set left, comes to the
\* hardware's parallel assignments: r is the hardware's machine, g the
\* interpreter's after side-set wrote bit to its pin, eff and e are the pins
\* each of them samples.
LEMMA ExecMatches ==
  ASSUME NEW r \in Machine, NEW g \in Machine, NEW i \in Code, NEW c \in Config,
         NEW eff \in Reg, NEW e \in Reg, NEW bit \in BOOLEAN,
         RegsAlike(r, g, c, bit),
         SeesAlike(r, i, e, eff),
         c.side_count => ~Writes(r, i, c.side_base)
  PROVE  Became(Exec(g, i, e), r, g, i, c, eff, bit)
<1> USE DEF NextX, NextY, NextOsr, NextIsr, NextCrc, PinWd, OeWd, MovTo, SetTo,
            PinOp, DoPull, DoPush, RegsAlike, SeesAlike, Became
<1>1. CASE i.op = "JMP"
  BY <1>1 DEF Exec, ExecJmp, Machine
<1>2. CASE i.op \in {"WAIT", "NOP"}
  BY <1>2 DEF Exec, Machine
<1>3. CASE i.op = "OUT"
  <2>2. OutBit(g, i) = OutBit(r, i) /\ OutBit(r, i) \in BOOLEAN
    BY DEF OutBit
  <2>1. ExecOut(g, i).out_reg = Put(g.out_reg, g.out_pin, OutBit(g, i))
    <3>1. ExecOut(g, i).out_reg = IF OutBit(g, i) THEN g.out_reg \cup {g.out_pin}
                                                  ELSE g.out_reg \ {g.out_pin}
      BY DEF ExecOut, Machine, OutBit
    <3>2. CASE OutBit(g, i)
      BY <3>1, <3>2, PutIs DEF Put, Bit
    <3>3. CASE ~OutBit(g, i)
      BY <3>1, <3>3, PutIs DEF Put, Bit
    <3> QED BY <3>2, <3>3
  <2>3. CommitOut(c, Put(r.out_reg, r.out_pin, OutBit(r, i)), bit)
          = Put(g.out_reg, g.out_pin, OutBit(r, i))
    BY <1>3, <2>2, PutCommutes DEF CommitOut, Writes
  <2>4. ExecOut(g, i).out_reg = CommitOut(c, PinWd(r, i, eff), bit)
    BY <1>3, <2>1, <2>2, <2>3
  <2> QED BY <1>3, <2>4 DEF Exec, ExecOut, Machine
<1>4. CASE i.op = "IN"
  <2>1. \A q \in Reg : /\ Shr(q, r.in_pin \in e) = Shr(q, r.in_pin \in eff)
                       /\ Shl(q, r.in_pin \in e) = Shl(q, r.in_pin \in eff)
    BY <1>4 DEF Shr, Shl, Bit
  <2> QED BY <1>4, <2>1 DEF Exec, ExecIn, Machine
<1>5. CASE i.op = "PULL"
  <2>1. Exec(g, i, e) = IF r.tx = << >> THEN g
                        ELSE [g EXCEPT !.osr = Head(r.tx), !.tx = Tail(r.tx)]
    BY <1>5 DEF Exec, ExecPull
  <2> HIDE DEF Exec
  <2> QED BY <1>5, <2>1 DEF Machine
<1>6. CASE i.op = "PUSH"
  <2>1. Len(r.rx) \in Nat /\ Len(r.rx) <= Depth /\ Depth \in Nat
    BY IsaAssumption DEF Machine, Queue
  <2>2. Exec(g, i, e) = IF Len(r.rx) = Depth THEN g
                        ELSE [g EXCEPT !.rx = Append(r.rx, r.isr)]
    BY <1>6, <2>1 DEF Exec, ExecPush
  <2> QED BY <1>6, <2>2 DEF Machine
<1>7. CASE i.op = "SET"
  <2>1. /\ i.dst \in {"PINS", "PINDIRS", "X", "Y"} /\ i.imm \in SUBSET ImmBits
    BY <1>7 DEF Code
  <2>2. i.dst = "PINS" => (g.out_reg \ ImmBits) \cup i.imm
                            = CommitOut(c, i.imm \cup (r.out_reg \ ImmBits), bit)
    BY <1>7, <2>1 DEF CommitOut, Writes, Put, Bit
  <2> QED BY <1>7, <2>1, <2>2 DEF Exec, ExecSet, Machine
<1>8. CASE i.op = "SETPIN"
  <2>1. i.dst \in {"BIT", "CLR", "OUTPIN", "INPIN"}
    BY <1>8 DEF Code
  <2>2. i.dst = "BIT" => g.out_reg \cup {i.pin} = CommitOut(c, r.out_reg \cup {i.pin}, bit)
    BY <1>8, <2>1 DEF CommitOut, Writes, Put, Bit
  <2>3. i.dst = "CLR" => g.out_reg \ {i.pin} = CommitOut(c, r.out_reg \ {i.pin}, bit)
    BY <1>8, <2>1 DEF CommitOut, Writes, Put, Bit
  <2> QED BY <1>8, <2>1, <2>2, <2>3 DEF Exec, ExecSetPin, Machine
<1>9. CASE i.op = "MOV"
  <2>1. i.dst \in Dest /\ i.src \in Source
    BY <1>9 DEF Code
  <2>2. c.side_count => i.dst # "PINS"
    BY <1>9 DEF Writes
  <2>3. \A v : i.dst = "PINS" => CommitOut(c, v, bit) = v
    BY <2>2 DEF CommitOut
  <2>4. i.dst = "PINS" => g.out_reg = r.out_reg
    BY <2>3
  <2>5. Current(g, i.dst) = DestCur(r, i.dst)
    BY <2>4 DEF Current, DestCur
  <2>6. i.src \notin {"CRC_FEED", "CRC_CLR", "CRC_OUT"} =>
          Exec(g, i, e) = MovDst(g, i.dst, MovSrc(r, i, eff))
    BY <1>9, <2>1, <2>5 DEF Exec, ExecMov, MovSrc, PlainSrc, Source
  <2>7. i.src = "CRC_OUT" =>
          Exec(g, i, e)
            = MovDst([g EXCEPT !.crc = CrcShift(r.crc)], i.dst, MovSrc(r, i, eff))
    BY <1>9 DEF Exec, ExecMov, MovSrc
  <2>8. i.src = "CRC_FEED" =>
          Exec(g, i, e) = [g EXCEPT !.crc = Feed(r.crc, 0 \in r.osr)]
    BY <1>9 DEF Exec, ExecMov
  <2>9. i.src = "CRC_CLR" => Exec(g, i, e) = [g EXCEPT !.crc = {}]
    BY <1>9 DEF Exec, ExecMov
  <2>10. CASE i.src \notin {"CRC_FEED", "CRC_CLR", "CRC_OUT"}
    BY <1>9, <2>3, <2>6, <2>10, MovDstIs
  <2>11. CASE i.src = "CRC_OUT"
    <3>1. [g EXCEPT !.crc = CrcShift(r.crc)] \in Machine
      BY CrcTypes DEF Machine
    <3> QED BY <1>9, <2>3, <2>7, <2>11, <3>1, MovDstIs DEF Machine
  <2>12. CASE i.src = "CRC_FEED"
    BY <1>9, <2>8, <2>12 DEF Machine, Feed
  <2>13. CASE i.src = "CRC_CLR"
    BY <1>9, <2>9, <2>13 DEF Machine
  <2> QED BY <2>10, <2>11, <2>12, <2>13
<1>10. i.op \in {"JMP", "WAIT", "IN", "OUT", "PULL", "PUSH", "NOP", "MOV", "SET", "SETPIN"}
  BY DEF Code
<1> QED BY <1>1, <1>2, <1>3, <1>4, <1>5, <1>6, <1>7, <1>8, <1>9, <1>10

LEMMA ViewIs ==
  ASSUME NEW r, NEW g
  PROVE  View(r) = View(g) <=>
           /\ r.pc = g.pc /\ r.x = g.x /\ r.y = g.y /\ r.osr = g.osr /\ r.isr = g.isr
           /\ r.delay_ctr = g.delay_ctr /\ r.out_reg = g.out_reg
           /\ r.oe_reg = g.oe_reg /\ r.out_pin = g.out_pin /\ r.in_pin = g.in_pin
           /\ r.crc = g.crc /\ r.tx = g.tx /\ r.rx = g.rx
BY DEF View

\* The whole instruction, pc and delay included.
LEMMA RunMatches ==
  ASSUME NEW r \in Machine, NEW g \in Machine, NEW n \in Node, NEW c \in Config,
         NEW eff \in Reg, NEW e \in Reg, NEW bit \in BOOLEAN,
         bit = (c.side_count /\ n.top),
         RegsAlike(r, g, c, bit),
         c.side_count => g.side_latched = bit,
         SeesAlike(r, n.code, e, eff),
         c.side_count => ~Writes(r, n.code, c.side_base)
  PROVE  Same(Execute(r, n, c, eff), Run(g, n, c, e), c)
<1> DEFINE i == n.code
           h == Exec(g, i, e)
<1>1. i \in Code
  BY DEF Node
<1>2. h \in Machine
  BY <1>1, ExecType
<1>3. Became(h, r, g, i, c, eff, bit)
  BY <1>1, ExecMatches
<1>4. Stalls(g, i, e) <=> Stall(r, i, eff)
  <2>1. Len(r.rx) \in Nat /\ Len(r.rx) <= Depth /\ Depth \in Nat
    BY IsaAssumption DEF Machine, Queue
  <2>2. Len(r.rx) >= Depth <=> Len(r.rx) = Depth
    BY <2>1
  <2> QED BY <2>2 DEF Stalls, Stall, RegsAlike, SeesAlike
<1>5. Follow(g, i, c, e) = Advance(r, i, c, eff)
  <2>1. i.op = "JMP" => (Jumps(g, i, e) <=> Taken(r, i, eff))
    BY <1>1 DEF Jumps, Taken, Code, Condition, RegsAlike, SeesAlike
  <2> QED BY <2>1 DEF Follow, Advance, Taken, RegsAlike
<1> DEFINE k == Execute(r, n, c, eff)
           o == Run(g, n, c, e)
<1>6. /\ k.pc = IF Stall(r, i, eff) THEN r.pc ELSE Advance(r, i, c, eff)
      /\ k.delay_ctr = IF Stall(r, i, eff) THEN r.delay_ctr ELSE Delay(n, c)
      /\ k.side_latched = bit
      /\ k.x = NextX(r, i, eff) /\ k.y = NextY(r, i, eff)
      /\ k.osr = NextOsr(r, i, eff) /\ k.isr = NextIsr(r, i, eff)
      /\ k.out_reg = CommitOut(c, PinWd(r, i, eff), bit)
      /\ k.oe_reg = OeWd(r, i, eff)
      /\ k.out_pin = IF PinOp(i, "OUTPIN") THEN i.pin ELSE r.out_pin
      /\ k.in_pin = IF PinOp(i, "INPIN") THEN i.pin ELSE r.in_pin
      /\ k.crc = NextCrc(r, i)
      /\ k.tx = IF DoPull(r, i) THEN Tail(r.tx) ELSE r.tx
      /\ k.rx = IF DoPush(r, i) THEN Append(r.rx, r.isr) ELSE r.rx
  BY DEF Execute
<1>7. o = IF Stall(r, i, eff) THEN h
          ELSE [h EXCEPT !.pc = Advance(r, i, c, eff), !.delay_ctr = Delay(n, c)]
  BY <1>4, <1>5 DEF Run
<1> HIDE DEF i, h, k, o
<1>8. /\ o.pc = IF Stall(r, i, eff) THEN r.pc ELSE Advance(r, i, c, eff)
      /\ o.delay_ctr = IF Stall(r, i, eff) THEN r.delay_ctr ELSE Delay(n, c)
      /\ o.side_latched = h.side_latched
      /\ o.x = h.x /\ o.y = h.y /\ o.osr = h.osr /\ o.isr = h.isr
      /\ o.out_reg = h.out_reg /\ o.oe_reg = h.oe_reg
      /\ o.out_pin = h.out_pin /\ o.in_pin = h.in_pin
      /\ o.crc = h.crc /\ o.tx = h.tx /\ o.rx = h.rx
  BY <1>2, <1>3, <1>7 DEF Machine, Became
<1>9. View(k) = View(o)
  BY <1>3, <1>6, <1>8, ViewIs DEF Became
<1>10. c.side_count => k.side_latched = o.side_latched
  BY <1>3, <1>6, <1>8 DEF Became
<1> QED BY <1>9, <1>10 DEF Same, k, o

\* An enabled clock, with the pads seen alike.
LEMMA EnabledMatches ==
  ASSUME NEW r \in Machine, NEW g \in Machine, NEW n \in Node, NEW c \in Config,
         NEW eff \in Reg, NEW bus \in Reg,
         Same(r, g, c),
         eff = EffectivePins(r, bus),
         r.delay_ctr = 0 /\ c.side_count =>
           /\ ~Writes(r, n.code, c.side_base)
           /\ c.side_base \in r.oe_reg => ~Samples(r, n.code, c.side_base)
  PROVE  Same(Enabled(r, n, c, eff), Tick(g, n, c, bus), c)
<1>1. /\ r.pc = g.pc /\ r.x = g.x /\ r.y = g.y /\ r.osr = g.osr /\ r.isr = g.isr
      /\ r.delay_ctr = g.delay_ctr /\ r.out_reg = g.out_reg
      /\ r.oe_reg = g.oe_reg /\ r.out_pin = g.out_pin /\ r.in_pin = g.in_pin
      /\ r.crc = g.crc /\ r.tx = g.tx /\ r.rx = g.rx
  BY ViewIs DEF Same
<1>2. CASE r.delay_ctr # 0
  <2> DEFINE k == Linger(r, c)
             o == ApplySideset([g EXCEPT !.delay_ctr = g.delay_ctr - 1], c)
  <2>1. c.side_count => r.side_latched = g.side_latched
    BY <1>2 DEF Same
  <2>2. Enabled(r, n, c, eff) = k /\ Tick(g, n, c, bus) = o
    BY <1>1, <1>2 DEF Enabled, Tick
  <2>3. k.out_reg = o.out_reg
    BY <1>1, <2>1 DEF Linger, ApplySideset, CommitOut, Machine
  <2>4. View(k) = View(o)
    <3>1. /\ k.pc = r.pc /\ k.x = r.x /\ k.y = r.y /\ k.osr = r.osr /\ k.isr = r.isr
          /\ k.delay_ctr = r.delay_ctr - 1 /\ k.oe_reg = r.oe_reg
          /\ k.out_pin = r.out_pin /\ k.in_pin = r.in_pin /\ k.crc = r.crc
          /\ k.tx = r.tx /\ k.rx = r.rx
      BY DEF Linger, Machine
    <3>2. /\ o.pc = g.pc /\ o.x = g.x /\ o.y = g.y /\ o.osr = g.osr /\ o.isr = g.isr
          /\ o.delay_ctr = g.delay_ctr - 1 /\ o.oe_reg = g.oe_reg
          /\ o.out_pin = g.out_pin /\ o.in_pin = g.in_pin /\ o.crc = g.crc
          /\ o.tx = g.tx /\ o.rx = g.rx
      BY DEF ApplySideset, Machine
    <3> HIDE DEF k, o
    <3> QED BY <1>1, <2>3, <3>1, <3>2, ViewIs
  <2>5. c.side_count => k.side_latched = o.side_latched
    BY <2>1 DEF Linger, ApplySideset, Machine
  <2> QED BY <2>2, <2>4, <2>5 DEF Same
<1>3. CASE r.delay_ctr = 0
  <2> DEFINE bit == c.side_count /\ n.top
             sided == ApplySideset(Latch(g, n, c), c)
             e == EffectivePins(sided, bus)
  <2>1. sided \in Machine
    BY SidedType
  <2>2. bit \in BOOLEAN /\ c.side_count \in BOOLEAN
    BY DEF Config, Node
  <2>3. e \in Reg
    BY <2>1 DEF EffectivePins, Machine, Reg
  <2>4. /\ sided.pc = g.pc /\ sided.x = g.x /\ sided.y = g.y /\ sided.osr = g.osr
        /\ sided.isr = g.isr /\ sided.delay_ctr = g.delay_ctr
        /\ sided.oe_reg = g.oe_reg /\ sided.out_pin = g.out_pin
        /\ sided.in_pin = g.in_pin /\ sided.crc = g.crc
        /\ sided.tx = g.tx /\ sided.rx = g.rx
    BY DEF ApplySideset, Latch, Machine
  <2>5. /\ sided.out_reg = CommitOut(c, r.out_reg, bit)
        /\ c.side_count => sided.side_latched = bit
    <3>1. Latch(g, n, c).out_reg = g.out_reg
      BY DEF Latch, Machine
    <3>2. c.side_count => Latch(g, n, c).side_latched = n.top
      BY DEF Latch, Machine
    <3>3. Latch(g, n, c) \in Machine
      BY SidedType
    <3>4. CASE c.side_count
      <4>1. bit = n.top
        BY <3>4, <2>2 DEF Node
      <4>2. sided = [Latch(g, n, c) EXCEPT !.out_reg = Put(g.out_reg, c.side_base, n.top)]
        BY <3>1, <3>2, <3>4 DEF ApplySideset
      <4> HIDE DEF sided, bit
      <4> QED BY <1>1, <3>2, <3>3, <3>4, <4>1, <4>2 DEF CommitOut, Machine
    <3>5. CASE ~c.side_count
      BY <1>1, <3>1, <3>5 DEF ApplySideset, CommitOut
    <3> QED BY <3>4, <3>5
  <2>6. \A j : j # c.side_base => (j \in e <=> j \in eff)
    BY <1>1, <2>4, <2>5 DEF EffectivePins, CommitOut, Put, Bit
  <2>7. ~c.side_count \/ c.side_base \notin r.oe_reg => e = eff
    BY <1>1, <2>4, <2>5 DEF EffectivePins, CommitOut, Put, Bit
  <2> HIDE DEF sided, e, bit
  <2>8. SeesAlike(r, n.code, e, eff)
    BY <1>3, <2>6, <2>7 DEF Samples, SeesAlike
  <2>9. c.side_count => ~Writes(r, n.code, c.side_base)
    BY <1>3
  <2>10. Same(Execute(r, n, c, eff), Run(sided, n, c, e), c)
    <3>1. RegsAlike(r, sided, c, bit)
      BY <1>1, <2>4, <2>5 DEF RegsAlike
    <3> QED BY <2>1, <2>2, <2>3, <2>5, <2>8, <2>9, <3>1, RunMatches DEF bit
  <2> QED BY <1>1, <1>3, <2>10 DEF Enabled, Tick, sided, e
<1> QED BY <1>2, <1>3

-----------------------------------------------------------------------------
\* Without a fight every machine of the interpreter is given, and makes of it,
\* what the hardware's pads show.
LEMMA PadsAlike ==
  ASSUME NEW S, NEW ms \in [S -> Machine], NEW gs \in [S -> Machine], NEW gpio \in Reg,
         \A s \in S : ms[s].oe_reg = gs[s].oe_reg /\ ms[s].out_reg = gs[s].out_reg,
         DrivesHigh(ms) \cap PullsLow(ms) = {},
         NEW s \in S
  PROVE  Pad(ms, gpio) = EffectivePins(ms[s], Bus(gs, gpio))
<1>1. DOMAIN ms = S /\ DOMAIN gs = S
  OBVIOUS
<1>2. /\ BusOe(gs) = Oe(ms)
      /\ Drive0(gs) = PullsLow(ms)
      /\ Drive1(gs) = DrivesHigh(ms)
  BY <1>1 DEF BusOe, Oe, Drive0, PullsLow, Drive1, DrivesHigh
<1>3. /\ ms[s].oe_reg \subseteq Oe(ms)
      /\ ms[s].oe_reg \cap ms[s].out_reg \subseteq DrivesHigh(ms)
      /\ ms[s].oe_reg \ ms[s].out_reg \subseteq PullsLow(ms)
      /\ DrivesHigh(ms) \subseteq Oe(ms)
  BY <1>1 DEF Oe, DrivesHigh, PullsLow
<1> HIDE DEF Oe, DrivesHigh, PullsLow
<1> QED BY <1>2, <1>3 DEF Pad, Bus, EffectivePins
=============================================================================
