---------------------------- MODULE MCSmLockstep ----------------------------
(* Two pins, one-bit immediates, a 3-bit CRC and short programs.           *)
EXTENDS SmLockstep

Plain(c) == [code |-> c, top |-> FALSE, low |-> 0]
Late(c) == [code |-> c, top |-> TRUE, low |-> 1]

Jmp(c, t) == [op |-> "JMP", cond |-> c, target |-> t]
Wait(p, v) == [op |-> "WAIT", pin |-> p, pol |-> v]
Out(l) == [op |-> "OUT", lsb |-> l]
In(l) == [op |-> "IN", lsb |-> l]
Op(o) == [op |-> o]
Mov(d, s) == [op |-> "MOV", dst |-> d, src |-> s]
Set(d, v) == [op |-> "SET", dst |-> d, imm |-> v]
SetPin(d, p) == [op |-> "SETPIN", dst |-> d, pin |-> p]

OneSM == {0}
TwoSM == {0, 1}
PolyBits == {0, 2}
OneByte == {{0}}

NoSide == [wrap_bot |-> 0, wrap_top |-> 1, side_count |-> FALSE, side_base |-> 0]
Side(b) == [NoSide EXCEPT !.side_count = TRUE, !.side_base = b]
PlainConfig == {NoSide}
TwoConfigs == {NoSide, Side(1)}
OneConfigs == TwoConfigs \cup {[NoSide EXCEPT !.wrap_bot = 1, !.wrap_top = 2]}

\* Flow of control: every jump condition, both waits, the FIFOs, delays and
\* the wrap.
Control ==
  {Plain(Jmp(c, 2)) : c \in Condition}
    \cup {Late(Jmp("X_DEC", 0)), Late(Wait(1, TRUE)), Plain(Wait(3, TRUE)),
          Plain(Wait(0, FALSE)), Plain(Op("PULL")), Late(Op("PUSH")),
          Plain(Set("X", {0})), Late(Op("NOP")), Plain(Mov("Y", "OSR"))}
ControlPrograms == [Addr -> Control]

\* The data path: shifts, every kind of move, the CRC, immediates and pins.
\* A byte is pulled first, so that there is something to move.
Data ==
  {Plain(Out(TRUE)), Plain(Out(FALSE)), Plain(In(TRUE)), Plain(In(FALSE))}
    \cup {Plain(Mov(d, "XOR_Y")) : d \in Dest}
    \cup {Plain(Mov("X", s)) : s \in Source}
    \cup {Plain(Mov(d, "OSR")) : d \in Dest}
    \cup {Plain(Mov("PINS", s)) : s \in {"PINS", "ISR", "CRC_LO", "CRC_OUT"}}
    \cup {Plain(Set(d, {0})) : d \in {"PINS", "PINDIRS", "X", "Y"}}
    \cup {Plain(SetPin(d, 1)) : d \in {"BIT", "CLR", "OUTPIN", "INPIN"}}
DataPrograms == {p \in [Addr -> Data \cup {Plain(Op("PULL"))}] : p[0] = Plain(Op("PULL"))}

\* Two machines on the same two pins.
Pins ==
  {Plain(SetPin("BIT", 0)), Plain(SetPin("CLR", 0)), Plain(Set("PINDIRS", {0})),
   Plain(Mov("X", "PINS")), Late(Wait(0, TRUE)), Plain(Jmp("PIN", 0))}
PinPrograms == [Addr -> Pins]

\* Side-set on pin 1, with instructions that keep off it and some that do not.
SideSet ==
  {[code |-> c, top |-> t, low |-> d] :
     c \in {Wait(0, TRUE), SetPin("BIT", 0), Mov("X", "PINS"), SetPin("BIT", 1),
            Mov("PINDIRS", "X"), Set("PINS", {0})},
     t \in BOOLEAN, d \in {0, 1}}
SidePrograms == {p \in [Addr -> SideSet] : p[2] = p[1]}

OnePrograms == ControlPrograms \cup DataPrograms \cup SidePrograms
=============================================================================
