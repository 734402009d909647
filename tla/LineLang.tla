------------------------------ MODULE LineLang ------------------------------
(***************************************************************************)
(* The line languages (generator/loom/line_lang.py, and the UART's of      *)
(* formal_proto.py): for each protocol the waveform of a frame, and the    *)
(* test by which a recorded waveform is accepted as the frame of a byte.   *)
(*                                                                         *)
(* A wave is a sequence of samples, a sample the set of pins that are      *)
(* high.  A byte is the set of its bits that are 1, a bit string a         *)
(* sequence of BOOLEANs.                                                   *)
(***************************************************************************)
EXTENDS Integers, Sequences, FiniteSets

LOCAL INSTANCE SequencesExt

ByteSet == SUBSET (0 .. 7)

\* bits_msb, bits_lsb, pack_msb, pack_lsb.
MsbBits(byte) == [k \in 1 .. 8 |-> 8 - k \in byte]
LsbBits(byte) == [k \in 1 .. 8 |-> k - 1 \in byte]
Slice(s, a, b) == SubSeq(s, a, IF b < Len(s) THEN b ELSE Len(s))
PackMsb(bits) ==
  LET first == Slice(bits, 1, 8)
  IN  {k \in 0 .. Len(first) - 1 : first[Len(first) - k]}
PackLsb(bits) == {k \in 0 .. Len(Slice(bits, 1, 8)) - 1 : bits[k + 1]}

\* A pin at a level, a level for some samples, a wave made bit by bit.
Pin(p, b) == IF b THEN {p} ELSE {}
Times(v, n) == [k \in 1 .. n |-> v]
Drawn(bits, Cell(_)) == FlattenSeq([k \in DOMAIN bits |-> Cell(bits[k])])

\* Where a pin changes to a level, and the data pin there (_sample_rise,
\* _sample_fall).
Edges(wave, clk, level, before) ==
  SelectSeq([k \in 1 .. Len(wave) |-> k],
            LAMBDA i : /\ (clk \in wave[i]) = level
                       /\ (IF i = 1 THEN before ELSE clk \in wave[i - 1]) # level)
DataAt(wave, at) == [k \in DOMAIN at |-> 0 \in wave[at[k]]]
SampleRise(wave, clk, before) == DataAt(wave, Edges(wave, clk, TRUE, before))
SampleFall(wave, clk, before) == DataAt(wave, Edges(wave, clk, FALSE, before))

\* The first position at which something holds, 0 if there is none.
FirstFrom(from, wave, Test(_)) ==
  IF \E i \in from .. Len(wave) : Test(i)
  THEN CHOOSE i \in from .. Len(wave) : Test(i) /\ \A j \in from .. i - 1 : ~Test(j)
  ELSE 0

AfterOnes(bits) ==
  LET low == FirstFrom(1, bits, LAMBDA i : ~bits[i])
  IN  IF low = 0 THEN << >> ELSE SubSeq(bits, low, Len(bits))

\* bus_from_od, a sample of it: what the pads show of outputs and output
\* enables, and of the levels given from outside.
OdPads(out, oe, up) == (up \ oe) \cup (out \cap oe)

-----------------------------------------------------------------------------
\* UART 8N1 (uart_8n1_frame, extract_async_frame).
UartBits(byte) == <<FALSE>> \o LsbBits(byte) \o <<TRUE>>
UartFrame(byte) == Drawn(UartBits(byte), LAMBDA b : Times(b, 8))
UartWave(byte) ==
  [k \in 1 .. 128 |-> Pin(0, k \notin 17 .. 96 \/ UartFrame(byte)[k - 16])]
UartMatches(wave, byte) ==
  Slice(AfterOnes([k \in DOMAIN wave |-> 0 \in wave[k]]), 1, 80) = UartFrame(byte)

\* SPI mode 0: MOSI 0, SCK 1, CS 2.
SpiWave(byte) ==
  Times({2}, 4) \o Times({}, 2)
    \o Drawn(MsbBits(byte),
             LAMBDA b : <<Pin(0, b), Pin(0, b) \cup {1}, Pin(0, b), Pin(0, b)>>)
    \o Times({}, 4) \o Times({2}, 4)
SpiMatches(wave, byte) ==
  LET fall == FirstFrom(2, wave, LAMBDA i : 2 \in wave[i - 1] /\ 2 \notin wave[i])
      rise == FirstFrom(fall + 1, wave, LAMBDA i : 2 \notin wave[i - 1] /\ 2 \in wave[i])
  IN  /\ fall # 0 /\ rise # 0
      /\ PackMsb(SampleRise(SubSeq(wave, fall, rise - 1), 1, FALSE)) = byte

\* I2C: SDA 0, SCL 1.
I2cWave(byte) ==
  Times({0, 1}, 4) \o <<{1}, {1}, {}>>
    \o Drawn(MsbBits(byte) \o <<FALSE>>,
             LAMBDA b : <<Pin(0, b), Pin(0, b) \cup {1}, Pin(0, b) \cup {1}, Pin(0, b)>>)
    \o <<{}, {1}, {0, 1}>> \o Times({0, 1}, 4)
I2cStart(wave) ==
  FirstFrom(2, wave, LAMBDA i : {0, 1} \subseteq wave[i - 1] /\ wave[i] \cap {0, 1} = {1})
I2cMatches(wave, byte) ==
  LET start == I2cStart(wave)
      bits == SampleRise(SubSeq(wave, start, Len(wave)), 1, TRUE)
  IN  /\ start # 0
      /\ Len(bits) >= 9
      /\ PackMsb(bits) = byte
      /\ ~bits[9]
      /\ \E i \in start + 1 .. Len(wave) :
           wave[i - 1] \cap {0, 1} = {1} /\ {0, 1} \subseteq wave[i]

\* i2c_slave_ack: while the ninth clock is high the receiver pulls a released
\* SDA down.
I2cSlaveAck(wave, oe) ==
  LET start == I2cStart(wave)
      rises == SelectSeq(Edges(wave, 1, TRUE, TRUE), LAMBDA i : i > start)
  IN  IF start = 0 \/ Len(rises) < 9 THEN wave ELSE
      [i \in DOMAIN wave |->
         IF i >= rises[9] /\ 0 \notin oe[i] /\ (\A j \in rises[9] .. i : 1 \in wave[j])
         THEN wave[i] \ {0} ELSE wave[i]]

\* JTAG: TDI 0, TCK 1, TMS 2.
JtagClock(tdi, tms) ==
  LET v == Pin(0, tdi) \cup Pin(2, tms) IN <<v, v \cup {1}, v>>
JtagWave(byte) ==
  LET tms == Times(TRUE, 5) \o <<FALSE, TRUE, FALSE, FALSE>>
               \o Times(FALSE, 7) \o <<TRUE, TRUE, FALSE>>
      tdi == Times(FALSE, 9) \o LsbBits(byte) \o Times(FALSE, 2)
  IN  Times({}, 2) \o FlattenSeq([k \in 1 .. 19 |-> JtagClock(tdi[k], tms[k])])
        \o Times({}, 4)
JtagMatches(wave, byte) ==
  LET rises == Edges(wave, 1, TRUE, FALSE)
      tms == [k \in DOMAIN rises |-> 2 \in wave[rises[k]]]
      tdi == DataAt(wave, rises)
  IN  /\ \E i \in 1 .. Len(rises) - 4 : \A k \in i .. i + 4 : tms[k]
      /\ \E i \in 1 .. Len(rises) - 7 :
           /\ \A k \in i .. i + 6 : ~tms[k]
           /\ tms[i + 7]
           /\ PackLsb(SubSeq(tdi, i, i + 7)) = byte

\* SWD: SWDIO 0, SWCLK 1.
SwdWave(byte) ==
  Times({0}, 2)
    \o Drawn(Times(TRUE, 50) \o LsbBits(byte),
             LAMBDA b : <<Pin(0, b), Pin(0, b) \cup {1}, Pin(0, b)>>)
    \o Times({}, 4)
SwdMatches(wave, byte) ==
  LET bits == SampleRise(wave, 1, FALSE)
  IN  /\ Len(bits) >= 50 /\ \A k \in 1 .. 50 : bits[k]
      /\ PackLsb(Slice(bits, 51, 58)) = byte

\* PS/2: DATA 0, CLK 1.
OddParity(byte) == Cardinality(byte) % 2 = 0
Ps2Bits(byte) == <<FALSE>> \o LsbBits(byte) \o <<OddParity(byte), TRUE, FALSE>>
Ps2Wave(byte) ==
  Times({0, 1}, 4)
    \o Drawn(Ps2Bits(byte),
             LAMBDA b : Times(Pin(0, b) \cup {1}, 2) \o Times(Pin(0, b), 2)
                          \o Times(Pin(0, b) \cup {1}, 2))
    \o Times({0, 1}, 4)
\* Mutant: the parity is not looked at.
Ps2MatchesAnyParity(wave, byte) ==
  LET bits == SampleFall(wave, 1, TRUE)
  IN  /\ Len(bits) >= 12
      /\ PackLsb(SubSeq(bits, 2, 9)) = byte
      /\ ~bits[1] /\ bits[11] /\ ~bits[12]

Ps2Matches(wave, byte) ==
  LET bits == SampleFall(wave, 1, TRUE)
  IN  /\ Len(bits) >= 12
      /\ PackLsb(SubSeq(bits, 2, 9)) = byte
      /\ SubSeq(bits, 1, 1) \o SubSeq(bits, 10, 12)
           = <<FALSE, OddParity(byte), TRUE, FALSE>>

\* Ethernet: data 0, clock 1.
EthWave(byte) ==
  Times({}, 4)
    \o Drawn(FlattenSeq(Times(MsbBits({0, 2, 4, 6}), 7))
               \o MsbBits({0, 2, 4, 6, 7}) \o MsbBits(byte),
             LAMBDA b : Times(Pin(0, b), 2) \o Times(Pin(0, b) \cup {1}, 2)
                          \o Times(Pin(0, b), 2))
    \o Times({}, 16)
EthMatches(wave, byte) ==
  LET bits == SampleRise(wave, 1, FALSE)
  IN  /\ Len(bits) >= 72
      /\ \A k \in 0 .. 6 : PackMsb(SubSeq(bits, 8 * k + 1, 8 * k + 8)) = {0, 2, 4, 6}
      /\ PackMsb(SubSeq(bits, 57, 64)) = {0, 2, 4, 6, 7}
      /\ PackMsb(SubSeq(bits, 65, 72)) = byte

-----------------------------------------------------------------------------
\* _clocked_cells: a state on pins 0 and 1 with a clock on pin 2.
ClockedCells(states, idle) ==
  Times(idle, 8)
    \o FlattenSeq([k \in DOMAIN states |->
         Times(states[k], 2) \o Times(states[k] \cup {2}, 8) \o Times(states[k], 6)])
    \o Times(idle, 16)

\* CAN, one dominant or recessive bit on pin 0.
CanPoly == {0, 3, 4, 7, 8, 10, 14}
Crc15(bits) ==
  LET crc[k \in 0 .. Len(bits)] ==
        IF k = 0 THEN {} ELSE
        LET before == crc[k - 1]
            shifted == {i \in 1 .. 14 : i - 1 \in before}
        IN  IF (14 \in before) # bits[k]
            THEN (shifted \ CanPoly) \cup (CanPoly \ shifted) ELSE shifted
  IN  crc[Len(bits)]
CrcBitsOf(crc) == [k \in 1 .. 15 |-> 15 - k \in crc]

\* The length of the run a bit ends: 0 before the first bit.
RunWith(s, b) == IF s.run # 0 /\ b = s.last THEN s.run + 1 ELSE 1

\* Mutant: the stuff bit does not count in the run that follows it.
CanStuffForgetful(bits) ==
  LET at[k \in 0 .. Len(bits)] ==
        IF k = 0 THEN [out |-> << >>, run |-> 0, last |-> FALSE] ELSE
        LET s == at[k - 1]
            run == RunWith(s, bits[k])
        IN  IF run = 5
            THEN [out |-> s.out \o <<bits[k], ~bits[k]>>, run |-> 0, last |-> FALSE]
            ELSE [out |-> Append(s.out, bits[k]), run |-> run, last |-> bits[k]]
  IN  at[Len(bits)].out

CanStuff(bits) ==
  LET at[k \in 0 .. Len(bits)] ==
        IF k = 0 THEN [out |-> << >>, run |-> 0, last |-> FALSE] ELSE
        LET s == at[k - 1]
            run == RunWith(s, bits[k])
        IN  IF run = 5
            THEN [out |-> s.out \o <<bits[k], ~bits[k]>>, run |-> 1, last |-> ~bits[k]]
            ELSE [out |-> Append(s.out, bits[k]), run |-> run, last |-> bits[k]]
  IN  at[Len(bits)].out

\* can_destuff_n: n bits without the stuff bits among and behind them, and the
\* rest of the line.
CanDestuffN(bits, n) ==
  LET at[k \in 0 .. Len(bits)] ==
        IF k = 0 THEN [out |-> << >>, run |-> 0, last |-> FALSE, rest |-> << >>] ELSE
        LET s == at[k - 1]
            b == bits[k]
        IN  IF s.run = 5 THEN [s EXCEPT !.run = 1, !.last = b] ELSE
            IF Len(s.out) = n THEN [s EXCEPT !.rest = Append(s.rest, b)]
            ELSE [s EXCEPT !.out = Append(s.out, b), !.run = RunWith(s, b), !.last = b]
  IN  at[Len(bits)]
CanDestuff(bits) == CanDestuffN(bits, Len(bits)).out

CanBody(byte) == <<FALSE>> \o LsbBits(byte)
CanFrameBits(byte) ==
  CanStuff(CanBody(byte) \o CrcBitsOf(Crc15(CanBody(byte))))
    \o <<TRUE, FALSE, TRUE>> \o Times(TRUE, 7)
CanWave(byte) ==
  LET bits == CanFrameBits(byte)
  IN  ClockedCells([k \in DOMAIN bits |-> Pin(0, bits[k])], {0})

\* _can_cells: clocked on pin 2, or by majority over eight samples.
CanCells(wave) ==
  LET clocked == SampleRise(wave, 2, FALSE)
      line == AfterOnes([k \in DOMAIN wave |-> 0 \in wave[k]])
  IN  IF Len(clocked) >= 8 THEN clocked ELSE
      [k \in 1 .. Len(line) \div 8 |->
         Cardinality({i \in 8 * k - 7 .. 8 * k : line[i]}) >= 4]
CanMatches(wave, byte) ==
  LET frame == CanDestuffN(AfterOnes(CanCells(wave)), 24)
      rest == CanDestuff(frame.rest)
      Ones(bits) == Len(SelectSeq(bits, LAMBDA b : b))
  IN  /\ Len(frame.out) = 24
      /\ PackLsb(SubSeq(frame.out, 2, 9)) = byte
      /\ SubSeq(frame.out, 10, 24) = CrcBitsOf(Crc15(SubSeq(frame.out, 1, 9)))
      /\ \E bits \in {rest, frame.rest} : \E k \in DOMAIN Slice(bits, 1, 8) : ~bits[k]
      /\ \/ Ones(rest) + Ones(frame.rest) >= 7
         \/ Cardinality({k \in Len(wave) - 23 .. Len(wave) : k > 0 /\ 0 \in wave[k]}) >= 8

\* USB low speed: D+ 0, D- 1.
J == {1}
K == {0}
SE0 == {}
Sync == <<K, J, K, J, K, J, K, K>>
Nrzi(bits, start) ==
  [k \in DOMAIN bits |->
     IF Cardinality({i \in 1 .. k : ~bits[i]}) % 2 = 0 THEN start ELSE {0, 1} \ start]

\* Mutant: a stuff bit only before a seventh one.
UsbStuffLate(bits) ==
  LET at[k \in 0 .. Len(bits)] ==
        IF k = 0 THEN [out |-> << >>, ones |-> 0] ELSE
        LET s == at[k - 1]
        IN  IF bits[k] /\ s.ones = 6
            THEN [out |-> s.out \o <<FALSE, TRUE>>, ones |-> 1]
            ELSE [out |-> Append(s.out, bits[k]), ones |-> IF bits[k] THEN s.ones + 1 ELSE 0]
  IN  at[Len(bits)].out

UsbStuff(bits) ==
  LET at[k \in 0 .. Len(bits)] ==
        IF k = 0 THEN [out |-> << >>, ones |-> 0] ELSE
        LET s == at[k - 1]
        IN  IF bits[k] /\ s.ones = 5 THEN [out |-> s.out \o <<TRUE, FALSE>>, ones |-> 0]
            ELSE [out |-> Append(s.out, bits[k]), ones |-> IF bits[k] THEN s.ones + 1 ELSE 0]
  IN  at[Len(bits)].out

\* The loop of usb_tx_matches: a one in the place of a stuff bit ends it.
UsbDestuff(bits) ==
  LET at[k \in 0 .. Len(bits)] ==
        IF k = 0 THEN [out |-> << >>, ones |-> 0] ELSE
        LET s == at[k - 1]
        IN  IF s.ones = 7 THEN s ELSE
            IF s.ones = 6 THEN [s EXCEPT !.ones = IF bits[k] THEN 7 ELSE 0]
            ELSE [out |-> Append(s.out, bits[k]), ones |-> IF bits[k] THEN s.ones + 1 ELSE 0]
  IN  at[Len(bits)].out

UsbWave(byte) ==
  ClockedCells(Sync \o Nrzi(UsbStuff(LsbBits(byte)), K) \o <<SE0, SE0, J>>, J)
UsbMatches(wave, byte) ==
  LET rises == Edges(wave, 2, TRUE, FALSE)
      cells == [k \in DOMAIN rises |-> wave[rises[k]] \cap {0, 1}]
      eop == FirstFrom(9, cells, LAMBDA i : cells[i] \notin {J, K})
      data == SubSeq(cells, 8, IF eop = 0 THEN Len(cells) ELSE eop - 1)
      last == rises[Len(rises)]
  IN  /\ Len(cells) > 8
      /\ SubSeq(cells, 1, 8) = Sync
      /\ Len(data) > 1
      /\ PackLsb(UsbDestuff([k \in 1 .. Len(data) - 1 |-> data[k + 1] = data[k]])) = byte
      /\ Cardinality({i \in last + 1 .. last + 63 :
                        i <= Len(wave) /\ wave[i] \cap {0, 1} = SE0}) >= 2

-----------------------------------------------------------------------------
\* SPECS, and spec_wave and tx_matches_spec for the UART.
SpecWave(lang, byte) ==
  CASE lang = "uart" -> UartWave(byte) [] lang = "spi" -> SpiWave(byte)
    [] lang = "i2c" -> I2cWave(byte)   [] lang = "jtag" -> JtagWave(byte)
    [] lang = "swd" -> SwdWave(byte)   [] lang = "ps2" -> Ps2Wave(byte)
    [] lang = "can" -> CanWave(byte)   [] lang = "usb" -> UsbWave(byte)
    [] lang = "eth" -> EthWave(byte)

Matches(lang, wave, byte) ==
  CASE lang = "uart" -> UartMatches(wave, byte) [] lang = "spi" -> SpiMatches(wave, byte)
    [] lang = "i2c" -> I2cMatches(wave, byte)   [] lang = "jtag" -> JtagMatches(wave, byte)
    [] lang = "swd" -> SwdMatches(wave, byte)   [] lang = "ps2" -> Ps2Matches(wave, byte)
    [] lang = "can" -> CanMatches(wave, byte)   [] lang = "usb" -> UsbMatches(wave, byte)
    [] lang = "eth" -> EthMatches(wave, byte)
=============================================================================
