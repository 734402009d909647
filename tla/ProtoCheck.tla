----------------------------- MODULE ProtoCheck -----------------------------
(***************************************************************************)
(* The protocol checker (generator/loom/formal_proto.py, stream.py): the   *)
(* graphs of a protocol run on the interpreter against its line language.  *)
(*                                                                         *)
(*   "talk"  bytes go into the transmitter's FIFO and come out of the      *)
(*           receiver's, both on the same pins; the transmitter's outputs  *)
(*           are recorded                                                  *)
(*   "frame" a waveform of the line language, "noise" the same with one    *)
(*           bit inverted, "read" the same as it is given to the receiver  *)
(*   "word"  a bit string, for the stuffing rules                          *)
(***************************************************************************)
EXTENDS Loader, LineLang, Plans

CONSTANTS Talks,   \* [lang, bytes]: what is sent through a pair of graphs
          Frames,  \* bytes a waveform is made for
          Heard,   \* those of them a receiver is given
          Tail24,  \* clocks recorded after the transmitter has parked
          MaxHold, \* clocks an I2C peer keeps the clock down alone
          MaxWord, \* bits of a word
          MaxTrace \* clocks recorded at most

VARIABLES mode, lang,
          bytes, \* all that is to be sent, or the byte of the waveform
          src,   \* what is not in the transmitter's FIFO yet
          txp, rxp, \* the two programs
          tx, rx, got, trace,
          tail,  \* clocks since the transmitter parked on its pull
          peer,  \* what an I2C peer does to the clock line
          alone, \* clocks for which only the peer has kept it down
          wave, pos, word

talking == <<src, tx, got, trace, tail, peer, alone>>
vars == <<mode, lang, bytes, txp, rxp, talking, rx, wave, pos, word>>

Langs == {"uart", "spi", "i2c", "jtag", "swd", "ps2", "can", "usb", "eth"}

\* A plan in a machine: its memory and its CSRs.
Program == [imem : [Addr -> Node], csr : Config]
Loaded(raw) == [imem |-> Load(FromDict(raw)), csr |-> ConfigOf(FromDict(raw))]
Clocked(m, p, bus) == Tick(m, p.imem[m.pc], p.csr, bus)

\* A register holds a byte and a sample; no graph is rejected; and a waveform
\* is made of samples.
ASSUME ByteIsReg == W = 8
ASSUME TalksAssumption == Talks \subseteq [lang : Langs, bytes : Seq(ByteSet)]
ASSUME FramesAssumption == Frames \subseteq ByteSet
ASSUME TailAssumption == Tail24 \in Nat
ASSUME HoldAssumption == MaxHold \in Nat
ASSUME GraphsLoad == \A l \in Langs : {Loaded(TxPlan(l)), Loaded(RxPlan(l))} \subseteq Program
ASSUME WavesAreSampled == \A l \in Langs, b \in Frames : SpecWave(l, b) \in Seq(Reg)

-----------------------------------------------------------------------------
Start(how, l, sent) ==
  /\ mode = how /\ lang = l /\ bytes = sent
  /\ txp = Loaded(TxPlan(l)) /\ rxp = Loaded(RxPlan(l))
  /\ tx = ResetMachine /\ rx = ResetMachine /\ got = << >>
  /\ trace = << >> /\ tail = 0 /\ pos = 0 /\ word = << >>
  /\ peer = "free" /\ alone = 0

Init ==
  \/ \E c \in Talks : Start("talk", c.lang, c.bytes) /\ src = c.bytes /\ wave = << >>
  \/ \E l \in Langs, b \in Frames :
       Start("frame", l, <<b>>) /\ src = << >> /\ wave = SpecWave(l, b)
  \/ Start("word", "can", << >>) /\ src = << >> /\ wave = << >>

-----------------------------------------------------------------------------
\* _wired_and: a pin is low if a machine drives it low, and otherwise at the
\* level the pull-ups and the peers give it.
WiredAnd(up) == up \ ((tx.oe_reg \ tx.out_reg) \cup (rx.oe_reg \ rx.out_reg))

Parked(m) ==
  m.tx = << >> /\ m.delay_ctr = 0 /\ txp.imem[m.pc].code.op = "PULL"

\* What the pull-ups and the peer give, and the bus of this clock.
PullUps == IF peer = "low" THEN Bits \ {1} ELSE Bits
Wire == WiredAnd(PullUps)

\* One turn of the loop of roundtrip.
Turn ==
  LET push == src # << >> /\ Len(tx.tx) < Depth
      fed == IF push THEN [tx EXCEPT !.tx = Append(tx.tx, Head(src))] ELSE tx
      heard == Clocked(rx, rxp, Wire)
  IN  /\ src' = IF push THEN Tail(src) ELSE src
      /\ tx' = Clocked(fed, txp, Wire)
      /\ rx' = IF heard.rx = << >> THEN heard ELSE [heard EXCEPT !.rx = Tail(heard.rx)]
      /\ got' = got \o Slice(heard.rx, 1, 1)
      /\ UNCHANGED <<mode, lang, bytes, txp, rxp, wave, pos, word>>

\* An I2C peer sees the bus of a clock and acts in the next (observe).  Once
\* in a talk it may keep the clock line down that it has seen low, from then
\* on until MaxHold clocks after the transmitter has released it.  It does
\* not take the line at the STOP, where the graph would not wait for it.
LetsBe == peer # "low" /\ UNCHANGED <<peer, alone>>
MayHold ==
  \/ peer = "low"
  \/ /\ lang = "i2c" /\ peer = "free" /\ 1 \notin Wire
     /\ I2cOdTx.steps[tx.pc + 1].name # "stop_scl"
Holds ==
  /\ MayHold /\ peer' = "low"
  /\ alone' = (IF 1 \in tx'.oe_reg THEN alone ELSE alone + 1) /\ alone' <= MaxHold
LetsGo == peer = "low" /\ peer' = "over" /\ alone' = 0

\* One entry of the traces: what the transmitter drives after the clock, and
\* what the pads then show.
Record ==
  /\ trace' = Append(trace, [out |-> tx'.out_reg, oe |-> tx'.oe_reg,
                            bus |-> OdPads(tx'.out_reg, tx'.oe_reg, PullUps')])
  /\ tail' = IF Parked(tx') /\ src' = << >> THEN tail + 1 ELSE 0

Talk ==
  /\ mode = "talk" /\ tail < Tail24 /\ Len(trace) < MaxTrace
  /\ Turn
  /\ LetsBe \/ Holds \/ LetsGo
  /\ Record

\* _rx_run, a sample at a time.  The peer that clocks the line may stay at a
\* sample for as long as it likes, if the receiver waits for both edges of
\* every clock.  A UART has none; jtag_shift and swd_rx wait for a high level
\* only and would take a longer one for two; can_rx counts the clocks of its
\* first bit.
WaitsForEdges == {"spi", "i2c", "ps2", "usb", "eth"}
Hear(sample) ==
  /\ rx' = Clocked(rx, rxp, sample)
  /\ UNCHANGED <<mode, lang, bytes, txp, rxp, talking, wave, word>>

Listen ==
  /\ mode = "frame" /\ bytes[1] \in Heard
  /\ mode' = "read"
  /\ UNCHANGED <<lang, bytes, txp, rxp, talking, rx, wave, pos, word>>

Read ==
  /\ mode = "read" /\ pos < Len(wave)
  /\ Hear(wave[pos + 1])
  /\ pos' = pos + 1

Dwell ==
  /\ mode = "read" /\ pos > 0 /\ lang \in WaitsForEdges
  /\ Hear(wave[pos])
  /\ UNCHANGED pos

\* One bit of a PS/2 or a CAN frame is inverted where it is sampled.  Stuff
\* bits, which the checker drops unseen, and the tail of CAN are left alone.
Stuffed(bits, k) == k > 5 /\ \A j \in k - 5 .. k - 1 : bits[j] = bits[k - 1]
Noise ==
  LET at == IF lang = "ps2" THEN Edges(wave, 1, FALSE, TRUE) ELSE Edges(wave, 2, TRUE, FALSE)
  IN  /\ mode = "frame" /\ bytes[1] \in Heard /\ lang \in {"ps2", "can"}
      /\ \E k \in 1 .. Len(at) - (IF lang = "can" THEN 10 ELSE 0) :
           /\ lang = "can" => ~Stuffed(DataAt(wave, at), k)
           /\ wave' = [wave EXCEPT ![at[k]] = (@ \ {0}) \cup ({0} \ @)]
      /\ mode' = "noise"
      /\ UNCHANGED <<lang, bytes, txp, rxp, talking, rx, pos, word>>

Extend(b) ==
  /\ mode = "word" /\ Len(word) < MaxWord
  /\ word' = Append(word, b)
  /\ UNCHANGED <<mode, lang, bytes, txp, rxp, talking, rx, wave, pos>>

Next ==
  Talk \/ Listen \/ Noise \/ Read \/ Dwell \/ \E b \in BOOLEAN : Extend(b)

Spec == Init /\ [][Next]_vars /\ WF_vars(Talk)

-----------------------------------------------------------------------------
TypeOK ==
  /\ tx \in Machine /\ rx \in Machine
  /\ got \in Seq(ByteSet) /\ src \in Seq(ByteSet)
  /\ tail \in 0 .. Tail24 /\ pos \in 0 .. Len(wave)
  /\ peer \in {"free", "low", "over"} /\ alone \in 0 .. MaxHold

\* What prove_tx_encoding compares: for I2C the pads with the receiver's
\* acknowledge, else the outputs.
Recorded ==
  LET out == [k \in DOMAIN trace |-> trace[k].out]
      oe == [k \in DOMAIN trace |-> trace[k].oe]
      bus == [k \in DOMAIN trace |-> trace[k].bus]
  IN  IF lang = "i2c" THEN I2cSlaveAck(bus, oe) ELSE out

\* A wave is the frame of its byte, and of no other that has seven bits in
\* common with it.
Near(byte) == {(byte \ {k}) \cup ({k} \ byte) : k \in 0 .. 7}
MatchesOnly(line) ==
  /\ Matches(lang, line, bytes[1])
  /\ \A b \in Near(bytes[1]) : ~Matches(lang, line, b)

TalkOver == mode = "talk" /\ tail = Tail24

\* What a transmitter graph leaves on the line is the frame of its byte and
\* of no other, also when an I2C peer keeps the clock down while the graph waits
\* to go on, at any bit or the acknowledge (formal_proto.prove_tx_encoding,
\* test_i2c_opendrain.py 51).
TxSpeaksTheLanguage ==
  TalkOver /\ Len(bytes) = 1 => MatchesOnly(Recorded)

\* A receiver graph makes its byte, and only that, of a frame it is given,
\* however long the peer dwells on any sample (formal_proto.prove_rx_spec).
RxUnderstandsTheLanguage ==
  mode = "read" => /\ rx.rx \in {<< >>, bytes}
                   /\ pos = Len(wave) => rx.rx = bytes

\* Bytes sent one behind the other arrive in order, none lost, invented or
\* changed: a frame leaves both graphs ready for the next, which the checker
\* concludes from single bytes (formal_proto.py, "N bytes is N iterations").
RoundTrip ==
  mode = "talk" => /\ got = Slice(bytes, 1, Len(got))
                   /\ TalkOver => got = bytes

\* The two halves of a line language agree: the frame that is synthesised
\* for a byte is accepted for that byte and no other (line_lang.py).  The
\* waveform of USB clocks its end of packet, which no transmitter does and
\* usb_tx_matches rejects: its last three clocks are left out.
AsSent ==
  LET rises == Edges(wave, 2, TRUE, FALSE)
  IN  IF lang = "usb"
      THEN [i \in DOMAIN wave |-> IF i < rises[Len(rises) - 2] THEN wave[i] ELSE wave[i] \ {2}]
      ELSE wave
LanguageAgrees == mode = "frame" => MatchesOnly(AsSent)

\* A PS/2 or a CAN frame with a wrong bit in it is the frame of no byte near:
\* the parity and the CRC of the checker are not idle (line_lang.py).
NoiseIsSeen ==
  mode = "noise" => \A b \in Near(bytes[1]) \cup {bytes[1]} : ~Matches(lang, wave, b)

\* Stuffing breaks every run, and leaves nothing behind when it is undone
\* (can_stuff, can_destuff, usb_stuff and the loop of usb_tx_matches).
Run6(bits) == \E i \in 1 .. Len(bits) - 5 : \A j \in i .. i + 5 : bits[j] = bits[i]
Ones7(bits) == \E i \in 1 .. Len(bits) - 6 : \A j \in i .. i + 6 : bits[j]
StuffingIsUndone ==
  /\ CanDestuff(CanStuff(word)) = word /\ ~Run6(CanStuff(word))
  /\ UsbDestuff(UsbStuff(word)) = word /\ ~Ones7(UsbStuff(word))

\* A transmitter parks again, with everything sent (formal_proto.prove_loop).
Parks == mode = "talk" ~> TalkOver
=============================================================================
