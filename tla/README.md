# Gremlin Board: TLA+ models, model checking and proofs

The repository describes a reprogrammable protocol engine for a Tiny Tapeout
die: two small state machines execute 16-bit *nodes* from four slots of
instruction memory, move bytes through FIFOs and move pins. The hardware is
written in Amaranth (`generator/loom/rtl.py`), emitted as Verilog
(`src/loom_engine.v`) and wrapped for the die by hand (`src/project.v`). A
Python interpreter (`generator/loom/interp.py`) is the golden model the graphs
in `plans/` are verified on, and `docs/info.md` is the protocol of the host
that loads, configures and feeds the chip.

This directory holds TLA+ modules of the engine, the wrapper, the interpreter,
the host, the graph compiler, the protocol graphs and the checker that judges
them, the TLC configurations that check them on small instances, and
TLAPS proofs of their main properties for every value of the constants.

Paths below are relative to the repository root.

## 1. Inventory

| component | source | state it keeps | operations | what makes it correct |
|---|---|---|---|---|
| FIFOs | `generator/loom/rtl.py` 245-295, `interp.py` 56-78 | per machine a TX and an RX ring: memory, read and write pointer, occupancy; `fifo_sel` | host push and pop, machine PULL and PUSH, all four in one clock; CSR 9; reset | pointers and counters agree; bounded first-in first-out; nothing crosses from one machine to the other; flags the host has read stay true |
| Clock divider | `rtl.py` 326-342, `interp.py` 135-153 | `div_down`, `frac_acc`, CSRs 3-5 | running clock, byte-wise CSR writes, halt, reset | no drift over any number of periods; no wrapped reload; never stops; same clocks in both models |
| Instruction set | `isa.py` | none | fields and decode | every word means one node, in both models |
| State machine (hardware) | `rtl.py` 344-660 | `pc`, X, Y, OSR, ISR, delay counter, side-set latch, pin registers, CRC | one node per enabled clock | the same registers, queues and pins as the interpreter |
| Interpreter | `interp.py` | the same, as Python integers and lists | `SM.tick`, `Engine.run_cycles`, `_bus` | it is the reference, so it must be one |
| Clocked instruction memory | `imem.py`, macro `RM_IHPSG13_2P_256x16_c2_bm_bist` | words of four slots, two port outputs | load, read at `next_pc`, slot CSRs, reset | a machine executes the word its slot holds at its `pc`, although every word it sees is a clock old |
| Wrapper | `src/project.v` | strobe history, half a word, half a live byte, its own copy of the write slot, input synchroniser, registered run | strobe decoding, load, CSR write, push, pop, output enable | one strobe, one command; no stale halves; the copies agree; no contention on the pads |
| Host | `docs/info.md`, `test/test.py` | what it is in the middle of | load, CSR write, push, pop, live push and pop, run, halt, reset | each does what the datasheet says and nothing else |
| Graph compiler | `compile.py`, `ir.py`, `isa.encode` | none (pure) | reading and validating a plan, node expansion, pads, jump fix-up, side-set and delay packing, assembly | the words do what the graph says, at the clocks it says, in the interpreter and on the chip |
| Graph stores | `graphfmt.py`, `stores.py` | stored graphs | dump, load | what comes back is the graph that went in |
| Protocol graphs | `plans/*.toml` | programs | the steps of each graph | bytes sent are bytes received, one behind the other and against slow peers |
| Line languages | `line_lang.py` | none | waveform of a byte; test of a recorded waveform; stuffing, CRC, parity | the two halves agree, and are not satisfied by anything else |
| Protocol checker | `formal_proto.py`, `stream.py` | traces | runs of graphs against the languages and against each other | single bytes really say everything about many |
| UART between chips | `plans/uart_8n1_*.toml` on `rtl.py`, `project.v` 81 | all of the above, twice, and a line | clocks that drift, late edges, runt pulses, late hosts | no byte invented, none lost |
| RTL formal harness | `formal.py` | none | k-induction harnesses for yosys | |
| Emission, generated engine | `emit.py`, `src/loom_engine.v` | as `rtl.py` | | equal to `rtl.py` |
| Metrics, viewers | `baud.py`, `perf.py`, `waves.py`, `vcd.py`, ... | none | | |
| Physical design | `scripts/`, `src/macros/` | none | | |

How they interact. The host drives its pins at times of its own; the
wrapper turns them into four kinds of command (`imem_we`, `csr_we`, `tx_we`,
`rx_re`) of one clock each; the engine routes them to memory, CSRs and the FIFO
that `fifo_sel` names. CSR writes and loads are accepted with `run = 0` only,
FIFO traffic always. While `run = 1` every machine whose divider fires executes
the word on its port of the memory, reads the pads, moves at most one byte, and
writes pin registers; the pads combine both machines' drivers and the world,
low winning. In the same clock it puts the address of the *next* word on its
port.

Above the hardware, a *plan* (a graph of named steps with delays and side-set)
is compiled to words, loaded to a slot and executed; a transmitter and a
receiver plan of a protocol meet on the pins, and the line language of the
protocol is what both are checked against.

What is hard here: five strobe conditions decoded side by side from two pins;
host and machine at both ends of a FIFO in one clock; values the host reads
several clocks before it acts on them; a memory that answers a clock late
under jumps, stalls, delays and disabled clocks; two machines on one pin;
side-set, which shares a field with delays and is committed at different times
in the two models; fractional dividers over unbounded time; halts, resets and
reprogramming in the middle of anything; pads and jump targets that move when
one delay is made longer; loops of graphs that count clocks of a line they do
not control; two clocks that are never quite the same. `PROJECT.json` lists these hazards
with the line each one bites at and the property that guards it.

## 2. Modules

| module | models | |
|---|---|---|
| `FifoRing` | one ring of `rtl.py` | operators |
| `ByteQueues` | bounded queues between host and machines (`Fifo` of `interp.py`) | abstract specification |
| `Fifos` | all rings of the engine with `fifo_sel`, host, machines, reset | implements `ByteQueues` |
| `ClkDiv` | divider of one machine; the interpreter's divider as `InterpClk` | |
| `Isa` | nodes, decoding, the registers of a machine | operators shared by both models |
| `SmRtl` | a machine of `rtl.py`: one enabled clock, the pads, the fetch address | operators |
| `SmInterp` | a machine of `interp.py`: one `tick`, the bus | operators |
| `SmAgree` | what the two have to agree on, and what makes them differ | operators |
| `SmLockstep` | both fed with the same programs, CSRs, pins and host traffic | |
| `DirectFetch` | machines that read memory in the clock they execute in | abstract specification |
| `Fetch` | machines on the clocked memory (macro or Array) | implements `DirectFetch` |
| `HostPort` | the host side of the wrapper under any pins | |
| `HostCommands` | what a host operation means to the engine | abstract specification |
| `HostDriver` | a host that follows the datasheet, on `HostPort` | implements `HostCommands` |
| `Plan` | plans of `ir.py`: inputs, validation | operators |
| `Compile` | `compile.py` with `isa.encode`: a plan to words | operators |
| `Loader` | a plan to the memory and CSRs of a machine, to a graph store and back | operators |
| `CompiledGraph` | a plan executed step by step beside its compiled program, in the interpreter and in hardware | the plan is the specification of the program |
| `LineLang` | `line_lang.py`: waveforms, matchers, stuffing, CRC | operators |
| `Plans` | the transmitter and receiver graph of nine protocols | data |
| `ProtoCheck` | graphs against languages and against each other (`formal_proto.py`, `stream.py`) | |
| `UartLink` | two chips, a UART line between them, two clocks, two hosts | composes `SmRtl`, `Compile`, `Plans` and the synchroniser |
| `Protocols_proofs` | theorems and proofs of `ProtoCheck` and `UartLink`, which both have registers of eight bits | |
| `*_proofs` | theorems and proofs of the module they are named for | |
| `MC*` | constants for TLC | |

### Correspondence

* **Clocks.** An action is one clock edge of the engine unless its comment
  says it is the host's move between two edges (`SetRun`, `Begin`, `End`).
  Guards and next values read registers before the edge, exactly as
  `m.d.sync` does; requests of one clock are judged together (`Rings`, `Cycle`).
* **`FifoRing`, `Fifos`.** A ring is the record of `tx_mem`, `tx_r`, `tx_w`,
  `tx_n`; `Clock` is the pair of `with m.If` blocks at `rtl.py` 269-295. A
  machine pulls or pushes at a clock of its own choosing: which node it is at
  belongs to `SmRtl`. The ghost `host` remembers the host's request.
* **`ClkDiv`.** A byte holds `ByteMod` values instead of 256; the integer part
  is two bytes and 0 stands for a full turn, as in the code. Ghosts `phase`
  and `start` count elapsed time against ideal periods.
* **`Isa`.** A node is `[code, top, low]`: the operation with its operands and
  the two sub-fields of the 5-bit delay/side-set field. Registers are sets of
  bits (a shift is a map over bit numbers), which keeps every width a constant.
  `DecodeCode` is the case analysis of `isa.decode`.
* **`SmRtl`, `SmInterp`.** `Enabled` is the body of `_elab_sm` under
  `clk_en`, one operator for each multiplexer; `Tick` is `SM.tick` statement
  by statement, with `ApplySideset` where the Python applies it. The two are
  translated apart on purpose: nothing but `Isa` is shared.
* **`SmLockstep`.** `Cycle(en, gpio)` clocks any subset of the machines, so no
  property depends on a divider setting. `clean` is a ghost, see below.
* **`Fetch`.** `Macro` chooses the SRAM macro (port A does not read while it
  writes; port B returns the old word, and anything at a write to the word it
  reads; no reset; power-up with anything) or the Array of the Python tests
  (write-through, reset). `Patient` says that the host leaves one clock without
  a write between the last load or slot CSR and `run`; `WritesSettle` of `HostDriver`
  shows that a host of the datasheet does. That the macro does
  not read while it writes is taken from its Verilog view.
* **`HostPort`.** Pins are a record `[ena, run, stbA, stbB, a, uio]`, `a` being
  `ui_in[6:2]`. `Commands` lists what the engine is told in that clock.
  `EngineEdge` is the engine's own decoding of the write-slot CSR.
* **`HostDriver`.** An operation is a set of pin sequences; each pin setting is
  held for any number of clocks. The host may give up a load by running and a
  live push by halting, and reset between operations. With `CsrHeld` the
  CSR write follows the datasheet's order to the letter.

* **`Plan`, `Compile`, `Loader`.** A raw plan is what the TOML file holds, an
  input is text, and only the decimal texts of 0 to 63 are numbers (`int(text, 0)`
  also reads larger and hexadecimal ones, which are left out). Errors are
  named values in the order the code raises them. `Instrs` and `Labels` are the
  two passes of `compile_plan`, `Assemble` is `Program.assemble` with
  `isa.encode`, `Load` is `SM.load`: the words and zeros behind them.
* **`CompiledGraph`.** `g` executes the plan. The repository has no such executor:
  `GraphTick` is the reading of a plan that the compiler is measured against, a
  specification and not a translation, so it is not in the map. Every step takes one clock and
  then its delay, jumps go to the step they name, the wrap leads from the last
  word of a step to the step it names. `m` is the interpreter (`Tick`) on the
  words the compiler made, `chip` a machine of the hardware (`Enabled`) on the
  same words, as in `tests/test_rtl.py`; the ghost `clean` holds until an
  instruction uses its own side-set pin. `PageIn` takes the plan through a store
  and loads it again, at any clock. A source is a plan that passed `validate`,
  since `from_dict` raises an error for any other; one that passes and does not
  assemble leaves `imem` empty, and nothing runs.
* **`LineLang`.** A sample is the set of pins that are high, a byte the set of
  its bits that are 1. `SpecWave` and `Matches` select by language among the
  functions of `line_lang.py`, which are translated one by one.
* **`ProtoCheck`.** `Turn` is one turn of the loop of `stream.roundtrip`:
  transmitter and receiver on one wired-AND bus, push if there is room, pop at
  once. An I2C peer beside them is the slave of `tests/test_i2c_opendrain.py`
  51-118, which sees the bus of a clock and pulls in the next: once in a talk, at
  any clock in which SCL is low, it may take SCL (`Holds`) and keep it for up to
  `MaxHold` clocks after the transmitter has released it (`alone` counts them)
  before it lets go (`LetsGo`). `Record` is the entry of the traces: the outputs
  after the clock, and the pads as these and the peer's next pull make them.
  `Read` is a sample of `_rx_run`; `Dwell` gives the same sample again,
  `Noise` inverts one sampled bit.
  The words of a plan are part of the state, so each graph is compiled once.
* **`UartLink`.** `Clock` is one clock of both chips; `SlipA` and `SlipB` are
  clocks that only one of them has. Queues stand for the rings (`Fifos` shows
  that they are queues). `synced` and `due` are ghosts: B has seen a quiet line
  and been served since, and the bytes that are on their way. The hosts act
  only at the moments where a machine would otherwise wait, since an earlier
  push or pop cannot be told from that. Slips, late edges and runts are tried
  only while B is `synced`: a receiver that is not may be started at any clock
  of any frame, so it meets every phase without them. `TxSlot` and `RxSlot` list
  what the fetch of each address gives once the two graphs are compiled and loaded.

## 3. Runs

| run | question | bounds, and why they suffice | size |
|---|---|---|---|
| `fifos` | is every ring a queue at any mix of requests; does a byte ever reach the other machine; do flags go stale? | two machines, depth 2, one byte value: full, empty, wrapping and the mixed requests all occur, and counts alone tell where a byte went. That the order of different bytes is kept is proved for any depth and bytes | 9 k states |
| `clkdiv` | drift, wrap, starvation, agreement with the interpreter | `ByteMod = 4`: 16 integer parts and 4 fractions written a byte at a time at every phase | 218 k states |
| `hostport` | can any pin activity confuse the decoder? | 2-value nibbles, two slots; every pin setting in every state | 21 k states |
| `hostdriver` | does every operation of the datasheet mean what it says, and does memory settle before a run? | all operations, all hold times, in any order | 97 k states |
| `hostdriver_held` | does a CSR write in the datasheet's order leave the FIFOs alone? | violated, see findings | |
| `lockstep_one` | is the interpreter the hardware, one machine? | registers of 2 bits, immediates of 1, CRC of 3, slots of 3 words, delays below 4, depth 1; every program over three families of nodes (control flow, data path, side-set), three wrap and side-set settings changed at any halt | 1.5 M states |
| `lockstep_pins` | the same with two machines on the same pins | every pair of 2-word programs over six pin nodes | 193 k states |
| `lockstep_sidefight` | is it so without provisos (side-set)? | violated, see findings | |
| `fetch` | does a machine execute what its slot holds? | macro, two slots of two words, three nodes: a jump, a wait, a delay; loads, slot writes, runs and resets at any time | 57 k states |
| `compile` | does the compiled program do what the plan says, clock by clock, in both models? | every plan of three steps, one from each of three palettes (pads, side-set, jumps up and down, waits, stalls, numbers in a `delay`), with and without side-set, with the whole memory and with a wrap that pads may move into; registers, immediates and fields at their real widths, so that the provisos of the proof are met. Longer plans are left to the proof | 69 k states, 20 s |
| `protocols` | do the graphs speak and understand their languages, and are the languages sound? | nine protocols; 8 bytes sent singly and 4 pairs of them, 128 waveforms each, 8 of them heard and made noisy bit by bit, dwelling on any sample, an I2C peer that keeps the clock alone for up to 5 clocks at any one bit or acknowledge of a talk, all bit strings up to 11 (a forgotten stuff bit shows at 10); `MaxTrace` is never reached (the longest talk takes over 1000 clocks) | 112 k states, 1 to 2 min |
| `link` | does the UART pair survive two clocks, noise and late hosts? | see below | 413 k states, 2 min |

Deadlock is checked in every run but `protocols`, where a behaviour ends when
the frame or the word is over.

The bounds of `link`: one slip in a bit and two in a frame, the drift of about
3 % that `tests/test_random_jitter.py` tries (with three in a frame TLC finds a
wrong byte: the bound is tight); a runt of at most 4 clocks (5 is a start bit
to `uart_8n1_rx`); 8 clocks between a runt and a frame (5 raise the frame-error
flag); 80 clocks of high line before B is in step (60 are not enough); FIFOs of
one byte, and messages of three bytes with different first and last bits and
of one byte of ones. Each of these numbers says what the graphs tolerate.

The I2C peer of `protocols` has to outlast a bit's high phase, which is four or
five clocks long when nobody holds it: a shorter hold would take no clock pulse
off the line, and the waits of the graph could be delays. With 5 clocks both
`wait_scl` and `ack_wait` are reached with the line held that long, and TLC finds
`TxSpeaksTheLanguage` and `RoundTrip` violated when either wait is replaced by a
delay, for a byte of zeros as for one of ones. A hold of 12 clocks, as long as the
test's, was tried once and shows nothing else. One hold in a talk is enough to try every wait: a wait that
is over leaves the graph at the step and with the registers it has when nobody
holds the line, so that a second hold meets nothing new.

The lockstep bounds are small where the proof makes them irrelevant
(`GoldenModelIsGolden` has no bound at all); TLC is there to find what the
proof cannot say, such as that the provisos are not stronger than needed.

`PROJECT.json` names a mutant for each property of each passing run: a
plausible slip in the modelled code (an operator next to the one it replaces,
commented "Mutant") under which the property fails.

### What the properties say

* `RingsConsistent`, `ImplementsQueues`: the three redundant pieces of state of
  a ring agree, and the rings are bounded queues under simultaneous
  requests; a refused push and an empty pop change nothing.
* `FlagsStayTrue`: `tx_full` and `rx_data` are read clocks before the second
  nibble of a live push lands or a pop commits. Room once seen is only taken
  by the host itself, and the head once seen only goes by the host's pop or a
  reset.
* `NoDrift`, `PhaseAccount`: at every execution the machine is less than one
  clock from the ideal multiple of its period since it was last configured,
  because `phase + ByteMod * div_down + frac_acc` never changes.
* `ReloadFits`, `SameAsInterp`, `KeepsExecuting`: no period wraps to nothing;
  the interpreter's 9-bit sum and the carry of the RTL agree on every clock;
  a running machine executes again and again.
* `OneCommandAtATime`, `CommandNeedsAChange`, `HalvesStayInTheirMode`,
  `SlotCopiesAgree`: whatever the pins do, one edge is one command at most; a
  strobe held high is not taken twice; no word is completed across a run and
  no byte across a halt; the wrapper's and the engine's write slot are equal.
* `ObeysTheDatasheet`, `NoContention`: with any hold times each operation
  yields exactly its command, and the wrapper never drives the pads while the
  host puts a byte on them.
* `WritesSettle`: a clock passes between a write to memory or CSRs and the first
  one the engine runs. It is what `Fetch` assumes of a `Patient` host, so that the two
  components fit, but for one case: a reset of a single clock followed at once by a
  run does not leave that clock (the bench waits ten, `test/test.py` 56).
* `GoldenWhileClean`: after every clock the interpreter has the hardware's
  registers, queues and pin latches, until one of three things happens: two
  machines drive a pin against each other, a node writes its own side-set pin
  or samples it while driving it, or side-set is switched on during a delay.
* `FetchesPc`, `ImplementsDirectFetch`: after one quiet clock the word on each
  port is the one at `pc`, over jumps, stalls, delays, wraps and disabled
  clocks; hence the machines cannot tell the clocked memory from a direct one.
* `SameAsGraph`: whenever the graph is at a step, the program is at that step's
  first word, with the registers, queues and pins of the graph, also after a
  trip through a store. Two provisos, `Exact` and `Storable`, name the plans
  for which the code does not promise it (see "Divergences without a run");
  mutants show that they are not what makes it true.
* `ChipDoesThePlan`: the same for the machine in hardware, which the checker
  never runs a graph on; `tests/test_rtl.py` does so for six graphs and a few
  bytes. The third proviso is `clean`.
* `TxSpeaksTheLanguage`, `RxUnderstandsTheLanguage`: what a transmitter leaves
  on the pins is the frame of its byte and of no byte one bit away; what a
  receiver makes of a frame is its byte, whatever the peer dwells on.
* `RoundTrip`, `Parks`: back-to-back bytes arrive in order, unchanged, and the
  transmitter parks again. `formal_proto.py` concludes this from single bytes
  ("N bytes is N iterations") without checking it; it holds.
* `LanguageAgrees`, `NoiseIsSeen`, `StuffingIsUndone`: the checker itself. A
  synthesised frame is accepted for its byte only; an inverted bit of a PS/2 or
  CAN frame is never taken for a frame of the byte or a near one; stuffing
  breaks every run and is undone exactly.
* `NoFalseByte`, `NoFalseAlarm`, `Delivered`: a receiver in step pushes each
  byte the other chip pulled, once and unchanged, and none of its own making,
  does not raise its error flag, and always pushes it in the end unless its host leaves
  the FIFO full. The synchroniser is cleared while halted, so a receiver begins
  with two low clocks that look like the start of a frame.

### Fairness

`WF_vars(RunClock)` in `ClkDiv` and `WF_vars(Clock)` in `UartLink` say that the
system clock ticks, which is free-running hardware; `WF_vars(Talk)` in
`ProtoCheck` says that the loop of `stream.roundtrip` goes round. Nothing is
assumed of hosts and peers: the host may halt, reset or reconfigure forever
(`KeepsExecuting` allows for it), need not pop (`Delivered` ends when the full
FIFO keeps the machine waiting), and what an I2C peer does is part of `Talk` and
not fair to anyone; its one hold is bounded by `MaxHold`, as the test's is by
`stretch_cycles`. The other properties are safety properties.

### Findings

Two places where the documentation or a comment says one thing and the code
does another have a run whose counterexample shows it.

1. *CSR write in the documented order* (`hostdriver_held`). `docs/info.md` 53
   says to hold `ui_in[7] = 1` and then pulse `ui_in[1]`. Raising `ui_in[7]`
   first is itself a push or a pop (`project.v` 101-102). The bench raises both
   in one clock, where the decoder takes them for one CSR write.
2. *Side-set against the node's own pin* (`lockstep_sidefight`). `rtl.py` 1
   promises the cycle semantics of the interpreter. The hardware commits
   side-set after the node's write and samples pins before it; the
   interpreter applies side-set first.

### Divergences without a run

Met while modelling. Where one limits a property, the proviso is named.

* `interp.py` 400 says that any driver pulling down wins, which is so on the
  bus and in hardware, but `effective_pins` (209) puts the machine's own output
  over the bus: a machine driving high does not see the other pull low
  (proviso `clean` of `GoldenWhileClean`).
* `docs/info.md` 9 and 76 say that `rst_n` clears instruction memory; the SRAM
  macro (`imem.py` 41) has no reset.
* On a write cycle the macro keeps or returns the old word while the Array of
  the Python tests hands the new one through; `imem.py` 9 calls the contracts
  the same.
* A run after a halt goes on from the `pc` and delay the machines stopped at;
  step 7 of the datasheet says `pc = 0`, which holds after a reset.
* The pads of a delay that its field cannot hold follow the instruction, so a
  jump that is taken leaves them behind; they hold the side-set pin low
  (`Exact`). Without side-set a delay above 31 gets pads and is then rejected
  by `encode`, since the field keeps the whole delay.
* `wrap_bottom` and `wrap_top` are copied to the CSRs as they are written
  (`compile.py` 146-154), while pads move the words they name: the wrap may come
  to lead from the middle of a step, or into the pads of one (`ExactWrap`; found
  when the proof needed it, and TLC violates `SameAsGraph` without either half).
* The primitive `delay` ignores its number when the delay field is not 0, also
  when only the side-set bit is set, and a number above 15 sets that bit
  (`Exact`). `perf.py` counts the side-set bit of a field as 16 clocks.
* `graphfmt.graph_to_dict` drops side-set and wrap (`Storable`);
  `tests/test_hello_graphs.py` 43-50 compares only the functions of the steps.
* A step named like a register turns the inputs of other steps that name that
  register into references to it.
* `usb_spec_wave` clocks its end of packet, and `usb_tx_matches` rejects it for
  every byte (`LanguageAgrees` leaves those clocks out; `line_lang.py` 5 says
  the two describe the same language).
* The CAN and USB matchers drop stuff bits without looking at their value
  (`Noise` leaves them alone). `swd_tx_matches` takes exactly eight bits from
  the 50th although its comment says 50 or more, and the CAN functions take the data LSB
  first where the comment says MSB.
* `i2c_od_tx` waits for a stretched clock up to the acknowledge and not for the
  clock of the STOP: a peer that holds the clock there swallows the STOP
  (`MayHold` keeps the peer off it). `README.md` 31 promises clock stretching;
  `tests/test_i2c_opendrain.py` stretches only at the acknowledge.
* `jtag_shift` and `swd_rx` wait for a high level only, and `can_rx` counts the
  clocks of its first bit: a peer that dwells there is misread
  (`WaitsForEdges`).
* The clamp of `baud.py` 18 may round up to 65536, which the CSRs do not hold.

## 4. Proofs

All theorems are for arbitrary constants under the named assumptions of the
modules: any FIFO depth from 1, any bytes, any set of machines containing 0
(`Fifos`); any byte width from 2 values (`ClkDiv`); any register, immediate and
CRC width, any slot length and delay range, any programs, configurations, host
bytes and number of machines (`SmLockstep`); any nibble width from 2 values and
any number of slots (`HostPort`, `HostDriver`); any slots, nodes and both memories
(`Fetch`); any plans, any width of a register from 8 bits and of an immediate from
5, any CRC, FIFO depth and input pins (`CompiledGraph`); words of any length
(`ProtoCheck`); any list of messages, number of runts and FIFO depth (`UartLink`).
`FieldsAssumption` says that a register has room for the numbers a
word can hold and a slot has 32 words, as `isa.py` lays down; `SourcesAssumption`
that a file holds what TOML and `from_dict` can make a plan of, with a side-set pin
that exists (the code does not check that one); `GpioAssumption` that the inputs
are pins. `ProtoCheck` is about the widths the checker has: `ByteIsReg` says that a
register holds a byte, `TalksAssumption`, `FramesAssumption`, `TailAssumption` and `HoldAssumption` give the
types of what is tried. `UartLink` assumes the bounds of the
run as inequalities: at most two slips in a frame, runts of at most four clocks, eight clocks or more
between a runt and a frame, eighty or more of quiet; and `TxSlot` and `RxSlot`, which TLC
evaluates in the run `link` and the provers cannot, since `ToString` has no definition.

| theorem | states | argument |
|---|---|---|
| `Fifos_proofs!TypeCorrect`, `RingsAgree` | `TypeOK`, `RingsConsistent` | together inductive: each ring takes one `Clock`, and the lemmas on `FifoRing` show that `Clock` preserves the type and `w = (r + n) % Depth` for each of the four combinations of granted requests |
| `Fifos_proofs!FlagsAreNotStale` | `FlagsStayTrue` | from the same invariant, by the rings' step lemmas |
| `Fifos_proofs!FifosImplementQueues` | `ImplementsQueues` | `Contents` reads the ring as a sequence; `Clock` appends to it and takes its tail; every action maps to a step of `ByteQueues` or a stutter |
| `ClkDiv_proofs!TypeCorrect`, `AccountBalances`, `DividerDoesNotDrift`, `ReloadsFit`, `DividerMatchesInterp` | the divider's safety properties | `PhaseAccount` is the inductive invariant: `NoDrift` alone is not, since it says nothing of the clocks between two executions; when `div_down = 0` it leaves only `frac_acc`, which is less than a clock |
| `HostDriver_proofs!TypeCorrect`, `OneCommandAnEdge`, `SlotsAgree`, `NoStaleHalves`, `HeldStrobeIsOneCommand` | the invariants of the wrapper under any pins | together inductive with `StrobesRemembered`, which says what the edge detectors' registers hold: without it nothing tells a new strobe from an old one; `NothingOrOne` shows that the five conditions exclude each other |
| `HostDriver_proofs!HostTypeCorrect`, `PadsAreFree` | `HostTypeOK`, `NoContention` | inductive with `ModeFollows`: every pin setting of an operation shows the mode the operation ends in (`ScriptsShowTheMode`), so that while the wrapper's registered run is up the host is in running mode or about to leave it, and it puts a byte on the pads only while halted or on its way there. The one assumption is that `None` is neither an operation nor a mode |
| `HostDriver_proofs!HostIsPatient` | `WritesSettle` | inductive with `ModeFollows` is `Released`: what is left of a script lets go of strobe A in a halted setting of its own (`ScriptsRelease`, from the pulses the scripts are made of), and while the edge detector remembers a strobe such a setting is still to be shown. Both orders of a CSR write are covered |
| `HostDriver_proofs!HostIsCommanded` | `ObeysTheDatasheet` | for `~CsrHeld`. Inductive with the two above is `Progress`: for each operation, the setting shown, whether the strobe in it has been taken, the half a slot write or a load still owes, and the part of `Effect` told so far. Every script is made of pulses (`InPulse`: a strobe and the quiet setting behind it), with one lemma for each kind of pulse; a completed script has told all (`AllTold`), and no edge tells what is not next (`ToldInPart`, `EdgeTells`), so each clock is a `Tell` or a stutter of `HostCommands`. With `CsrHeld` it is false, as the violated run shows |
| `SmLockstep_proofs!TypeCorrect` | `TypeOK` | one lemma for each register in `Sm_proofs`, and the machine invariants they share |
| `SmLockstep_proofs!GoldenModelIsGolden` | `GoldenWhileClean` | inductive with `TypeOK`: the two pad equations agree when no pin is fought over; every node leaves machines that agree agreeing, node by node (`ExecMatches`, `EnabledMatches` in `Sm_proofs`); side-set commutes with a node that keeps off its pin |
| `Fetch_proofs!TypeCorrect`, `FetchIsInTime` | `TypeOK`, `FetchesPc` | `FetchPcIsNextPc` (`Sm_proofs`): the address on the port is the `pc` the machine will have, for each way `pc` can move; memory and slots do not change while running |
| `Fetch_proofs!FetchIsDirect` | `ImplementsDirectFetch` | for a `Patient` host, from `FetchIsInTime`: what is executed is what memory holds |
| `CompiledGraph_proofs!DecodeEncode` | no property: a lemma worth knowing | a word is four digits of different weight, and an instruction that `encode` accepts is what `decode` reads out of it |
| `CompiledGraph_proofs!TypeCorrect` | `TypeOK` | `TypeInv`: the source is what `from_dict` made of a file and passed `validate` (`Sound`), the plan is the source or what a store kept of it (`Alike`, `Bare`), memory is what the plan was loaded to, and no jump of a plan that assembles leaves its steps (`Runnable`) |
| `CompiledGraph_proofs!CompilerIsExact` | `SameAsGraph` | see below |
| `CompiledGraph_proofs!ChipIsExact` | `ChipDoesThePlan` | from `CompilerIsExact` and `EnabledMatches`: `ChipInv`, that the chip and the interpreter agree, is inductive beside `TypeInv`, since a machine alone on its pads fights with nobody (`AlonePads`) |
| `Protocols_proofs!StuffingUndone` | `StuffingIsUndone` | see below |
| `Protocols_proofs!CheckerTyped` | `TypeOK` | inductive with the types of the programs, bytes and waveform (`TypeInv`) and that nothing is heard before the waveform is given; a clock of either machine keeps its type by `TickType` (`Sm_proofs`) |
| `Protocols_proofs!LinkStaysInStep` | no property: the inductive invariant `LinkInv` | see below |
| `Protocols_proofs!LinkTypeCorrect` | `LinkTypeOK` | part of `LinkInv`; a machine's clock keeps its type by `Sm_proofs` |
| `Protocols_proofs!NoFalseByteEver`, `NoFalseAlarmEver` | `NoFalseByte`, `NoFalseAlarm` | from `LinkInv`: B pushes at clock 77 of its frame only, where the bits it has taken are all of A's oldest byte due, and it is at the clock that raises the flag only if it is not in step |

*The compiler.* `SameAsGraph` is not inductive: it says nothing of the clocks inside a
step. `StepsInv` does: apart from `pc` and the delay counter the machine has the graph's
registers, and either it is at the word of the graph's step with the graph's clocks left
counted by the delay field and the pads behind it (`AtStep`), or in those pads
(`InPads`). What a step does to a machine is a lemma for each way a clock can go: wait
(`WaitInStep`), a pad (`PadInStep`), the last word behind the program (`EndInStep`), an
instruction (`RunInStep`). They rest on what `compile_plan` and `SM.load` lay in memory
(`LaidIs`): labels are sums of the steps and pads before them (`LabelsAre`, `LabelsGrow`),
each address belongs to one step (`StepAtIs`), each accepted instruction fits its fields
(`AcceptedIs`), and its word decodes to it. The store is covered by `TwinIs`: a plan that
comes back has the same instructions at the same places if it was `Storable`. Two facts
came out of the attempt: the wrap has to be restricted (`ExactWrap`), and validation has
to be part of `Init`, as it is of `from_dict`.

*Stuffing.* The functions are recursive along the string, so that the proof needs
induction over data. The induction theorems of the library take an operator and cannot be
used; `SetInduction` (`Sm_proofs`) does the same for a set of numbers, from the
well-foundedness of `<` on them, and `Along` for positions of a string. `Carried` shows
that a state carried along a string exists as a function and `SameRun` that there is only
one, which is what the `CHOOSE` behind a recursive function asks for. The argument is then
two prefix invariants: destuffing the line made of the first k bits gives those k bits
back with the same run counted (`CanUndone`, `UsbUndone`), and the bits at the end of the
line are the run that is counted, so that no run grows to the forbidden length
(`CanBroken`, `UsbLineBroken`).

*The link.* The two properties say nothing of how far the two frames are apart, so
`LinkInv` does. A frame of A has clocks t = 0 .. 84 (82 is the parked transmitter, 83 and 84
the two instructions after reset) and one of B u = 0 .. 83; `SendsAt` and `HearsAt` say
which registers a machine has there, `Sends` which bits of the byte A has yet to send and
`Got` which B has taken. In step, there are four phases: nothing on its way (`Idle`), B
through with a byte A still gives its stop bit to (`Ending`), a frame B has not noticed
(`Coming`), and a frame both are in (`Receiving`), where u is t less the start and the
synchroniser, four or five clocks, and the slips so far. `Receiving` ties what is in the two flip-flops
and in `was` to a level A had on the line in the last few clocks, which is why a sample
in the middle of a bit is that bit. `Pulse` follows a runt through the flip-flops: it
is over before B looks at the start bit a second time. Out of step, `Unsynced` bounds
where A and B can be by how long the line has been quiet, so that eighty clocks of it leave
both parked. Every step of the proof is one clock of A, one of B or both: what each machine
does at a clock of its frame is one lemma for each node of its graph, and
the cases of t and u against the phases are lemmas of arithmetic. The run `link` sits on
the edge of these assumptions, so that it tries the worst the theorem allows. `LinkInv` was tried by TLC on
the first two hundred thousand states of `link` before it was proved; its quantifiers make it
too slow for the whole run.

What stays with TLC, and why.

* `KeepsExecuting`, `Parks` and `Delivered`: liveness under fairness.
* `TxSpeaksTheLanguage`, `RxUnderstandsTheLanguage`, `RoundTrip`: what eighteen given
  programs do over hundreds of clocks. For one pair the proof of `LinkInv` is such an
  execution, with one case for each clock of a frame; for the others the quantifiers
  range over a byte and a stretch, which TLC tries.
* `LanguageAgrees`, `NoiseIsSeen`: bytes and frames are finite; the run tries half of the 256
  waveforms of a language, and every inverted bit of eight of them.
* That the eighteen graphs assemble, and that a waveform is made of samples: the first
  depends on the text of numbers, which TLA+ leaves open (`ToString`), the second on
  `FlattenSeq`, which is recursive. Both are named assumptions of `ProtoCheck`
  (`GraphsLoad`, `WavesAreSampled`) that TLC evaluates on every run of it, for each graph
  and each byte of `Frames`; `CheckerTyped` rests on them.
* The violated properties, of course.

No module a proof uses declares a RECURSIVE operator.

## 5. What is not modelled

* The read-back multiplexer `uo_out` of the wrapper, and the CSR file and the
  reset of the whole chip in one module (planned: `Chip`).
* The four banks of `Engine.load` and `bind_slot` of the interpreter, `fmt` of
  `isa.py`: they set up and print tests.
* The variants of the graphs: `uart_tx`, `i2c_tx`, `spi_burst`, the re-pinned
  `*_p3` and `*_p345`, `uart_rx_frame`, `jtag_tck` (11 of 29 files). They are
  the loops of the graphs in `Plans` on other pins, or with fewer checks.
* Of the checker: the syntactic certificates (they read the graph's text), the
  wave kinds no case uses, and `spi_payload_from_tx`, a helper of the tests.
* Hexadecimal numerals, the wording of errors, JSON and the names of the media.
* The BIST port of the memory macro: tied off in `imem.py`.
* The RTL formal harness (`formal.py`) prints harnesses for yosys; `emit.py`
  prints Verilog; `loom_engine.v` is generated.
* Metrics, viewers, physical design: no state of the system.

## 6. Plan

In order of importance. The first fifteen are done.

1. `FifoRing`, `ByteQueues`, `Fifos` with proofs.
2. `ClkDiv` with proofs.
3. `Isa`, `SmRtl`, `SmInterp`, `SmLockstep` with proofs.
4. `HostPort` with proofs, `HostCommands`, `HostDriver`.
5. `DirectFetch`, `Fetch` with proofs.
6. Type correctness, the main invariants and three refinements proved.
7. `Plan`, `Compile`, `Loader`, `CompiledGraph`.
8. `LineLang`, `Plans`, `ProtoCheck`.
9. `UartLink`.
10. Proof of `NoContention`.
11. Proof of `ObeysTheDatasheet`.
12. Proof that the compiler is right, and of what follows for the hardware.
13. Proof of `StuffingIsUndone`.
14. Proof that the host leaves the clocked memory its clock (`WritesSettle`).
15. Proof of the safety of the UART link: types, `NoFalseByte`, `NoFalseAlarm`.
16. `Chip`: the CSR file, the reset, `HostDriver` and `Fetch` in one specification.
