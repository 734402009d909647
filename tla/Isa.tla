-------------------------------- MODULE Isa --------------------------------
(***************************************************************************)
(* The instruction set of a state machine (generator/loom/isa.py) and the  *)
(* registers of one (rtl.py, interp.SM).                                   *)
(*                                                                         *)
(* A register is the set of its bits that are 1, so the widths are         *)
(* parameters.  An instruction is the record its decoder makes of it; what *)
(* the five payload bits mean depends on the opcode.                       *)
(***************************************************************************)
EXTENDS Integers, Sequences

CONSTANTS W,         \* pins, and bits of a register: 8
          ImmW,      \* bits of an immediate: 5
          CrcW,      \* bits of the hidden CRC: 15
          Poly,      \* the bits of CRC15_POLY
          Words,     \* IMEM_WORDS
          HalfDelay, \* the delays one bit less of delay can tell apart: 16
          Depth      \* FIFO_DEPTH

ASSUME IsaAssumption ==
  /\ W \in Nat \ {0}
  /\ ImmW \in Nat \ {0}
  /\ CrcW \in Nat \ {0}
  /\ Words \in Nat \ {0}
  /\ HalfDelay \in Nat \ {0}
  /\ Depth \in Nat \ {0}
ASSUME ImmFits == ImmW <= W
ASSUME PolyAssumption == Poly \subseteq 0 .. CrcW - 1

Bits == 0 .. W - 1
Reg == SUBSET Bits
ImmBits == 0 .. ImmW - 1
CrcBits == 0 .. CrcW - 1
Addr == 0 .. Words - 1
DelayVal == 0 .. 2 * HalfDelay - 1

-----------------------------------------------------------------------------
\* Arithmetic on bit sets.
Xor(a, b) == (a \ b) \cup (b \ a)
Bit(b, i) == IF b THEN {i} ELSE {}
Put(r, i, b) == (r \ {i}) \cup Bit(b, i)

\* r - 1 modulo 2^W: a bit with no 1 under it takes the borrow and flips.
Dec(r) == {k \in Bits : (k \in r) <=> (\E j \in r : j < k)}

\* Mutant: the bit that leaves is kept below bit 0.
ShrKeeps(r, in) == {k - 1 : k \in r} \cup Bit(in, W - 1)

\* A shift toward bit 0 or toward the top bit, with the bit that comes in.
Shr(r, in) == {k \in Bits : k + 1 \in r} \cup Bit(in, W - 1)
Shl(r, in) == {k \in Bits : k - 1 \in r} \cup Bit(in, 0)

CrcShift(c) == {k \in CrcBits : k - 1 \in c}
CrcTop(c) == CrcW - 1 \in c

-----------------------------------------------------------------------------
Condition == {"ALWAYS", "X_EQ0", "Y_EQ0", "X_DEC", "Y_DEC", "PIN", "TX_NE", "TX_EQ0"}
Dest == {"X", "Y", "OSR", "ISR", "PINS", "PINDIRS", "NONE"}
Source == {"X", "Y", "OSR", "ISR", "PINS", "NULL", "XOR_Y",
           "CRC_FEED", "CRC_LO", "CRC_HI", "CRC_CLR", "CRC_OUT"}

\* FIFO is two instructions here.  WAIT has one pin bit more than there are
\* pins.
Code ==
  [op : {"JMP"}, cond : Condition, target : Addr]
    \cup [op : {"WAIT"}, pin : 0 .. 2 * W - 1, pol : BOOLEAN]
    \cup [op : {"IN", "OUT"}, lsb : BOOLEAN]
    \cup [op : {"PULL", "PUSH", "NOP"}]
    \cup [op : {"MOV"}, dst : Dest, src : Source]
    \cup [op : {"SET"}, dst : {"PINS", "PINDIRS", "X", "Y"}, imm : SUBSET ImmBits]
    \cup [op : {"SETPIN"}, dst : {"BIT", "CLR", "OUTPIN", "INPIN"}, pin : Bits]

\* The delay field is kept as its top bit, which may be a side-set value, and
\* the rest.
Node == [code : Code, top : BOOLEAN, low : 0 .. HalfDelay - 1]

\* A 16-bit word as the decoders of both models split it.
BitsOf(n) == {k \in 0 .. 7 : (n \div 2^k) % 2 = 1}
RegNames == <<"X", "Y", "OSR", "ISR", "PINS", "PINDIRS", "NONE", "NONE">>
SrcNames == <<"X", "Y", "OSR", "ISR", "PINS", "NULL", "XOR_Y", "CRC_FEED",
              "CRC_LO", "CRC_HI", "CRC_CLR", "CRC_OUT">>
CondNames == <<"ALWAYS", "X_EQ0", "Y_EQ0", "X_DEC", "Y_DEC", "PIN", "TX_NE", "TX_EQ0">>
SetNames == <<"PINS", "PINDIRS", "X", "Y", "BIT", "CLR", "OUTPIN", "INPIN">>

DecodeCode(op, field, payload) ==
  IF op = 0 THEN [op |-> "JMP", cond |-> CondNames[field + 1], target |-> payload] ELSE
  IF op = 1 THEN [op |-> "WAIT", pin |-> payload % 16, pol |-> payload \div 16 = 1] ELSE
  IF op = 2 THEN [op |-> "IN", lsb |-> field = 0] ELSE
  IF op = 3 THEN [op |-> "OUT", lsb |-> field = 0] ELSE
  IF op = 4 THEN [op |-> IF field = 1 THEN "PULL" ELSE "PUSH"] ELSE
  IF op = 5 THEN [op |-> "MOV", dst |-> RegNames[field + 1],
                  src |-> IF payload < 12 THEN SrcNames[payload + 1] ELSE "NULL"] ELSE
  IF op = 6 /\ field < 4
  THEN [op |-> "SET", dst |-> SetNames[field + 1], imm |-> BitsOf(payload)] ELSE
  IF op = 6 THEN [op |-> "SETPIN", dst |-> SetNames[field + 1], pin |-> payload % 8]
  ELSE [op |-> "NOP"]

Decode(word) ==
  [code |-> DecodeCode(word \div 8192, (word \div 32) % 8, word % 32),
   top |-> (word \div 4096) % 2 = 1,
   low |-> (word \div 256) % 16]

-----------------------------------------------------------------------------
\* The registers of a machine, with its FIFOs as the queues they implement,
\* and the CSRs its instructions depend on.
Queue == {q \in Seq(Reg) : Len(q) <= Depth}

Machine == [pc : Addr, x : Reg, y : Reg, osr : Reg, isr : Reg,
            delay_ctr : DelayVal, out_reg : Reg, oe_reg : Reg,
            out_pin : Bits, in_pin : Bits, side_latched : BOOLEAN,
            crc : SUBSET CrcBits, tx : Queue, rx : Queue]

ResetMachine == [pc |-> 0, x |-> {}, y |-> {}, osr |-> {}, isr |-> {},
                 delay_ctr |-> 0, out_reg |-> {}, oe_reg |-> {},
                 out_pin |-> 0, in_pin |-> 0, side_latched |-> FALSE,
                 crc |-> {}, tx |-> << >>, rx |-> << >>]

Config == [wrap_bot : Addr, wrap_top : Addr, side_count : BOOLEAN, side_base : Bits]

\* Delay and side-set share the delay field.
Delay(n, c) ==
  IF c.side_count \/ ~n.top THEN n.low ELSE n.low + HalfDelay
=============================================================================
