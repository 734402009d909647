------------------------------ MODULE HostPort ------------------------------
(***************************************************************************)
(* The host side of the Tiny Tapeout wrapper (src/project.v): the strobe   *)
(* edge detectors, the two-strobe instruction load, the two-nibble live    *)
(* push, the CSR write and the write-slot register the wrapper keeps next  *)
(* to the engine's own.  One action is one clock edge; its argument is     *)
(* what the pins showed before the edge.                                   *)
(*                                                                         *)
(* A nibble holds 0 .. NibMod - 1 (16 in the code), a byte two of them.    *)
(* The five pins ui_in[6:2] are one number a: its lowest bit ui_in[2] says *)
(* pop or push to strobe B, the rest is the nibble ui_in[6:3].             *)
(***************************************************************************)
EXTENDS Naturals, Sequences

CONSTANTS NibMod,
          NSlots,       \* graph slots in instruction memory
          CsrWriteSlot, \* CSR_WRITE_SLOT
          CsrFifoSel    \* CSR_FIFO_SEL

ASSUME NibModAssumption == NibMod \in Nat \ {0, 1}
ASSUME NSlotsAssumption == NSlots \in Nat \ {0}

VARIABLES we_d, tx_d,       \* the strobes at the last edge
          hi, addr, lo,     \* a low byte is latched, for this address
          nib_hi, nib_lo,   \* a low nibble is latched
          run_q,            \* the engine ran at the last edge
          wr_slot,          \* wrapper: the slot instruction words go to
          write_slot,       \* engine: CSR 0
          fifo_sel,         \* engine: CSR 9
          cmd,              \* what the engine was told at the last edge
          seen,             \* ghost: run, ena and the strobe pins at the last edge
          change            \* ghost: what differed there from the edge before

wrapper == <<we_d, tx_d, hi, addr, lo, nib_hi, nib_lo, run_q, wr_slot>>
ghosts == <<seen, change>>
portvars == <<wrapper, write_slot, fifo_sel, cmd, ghosts>>

Nibble == 0 .. NibMod - 1
Byte == 0 .. NibMod * NibMod - 1
Addr == 0 .. 2 * NibMod - 1
Slot == 0 .. NSlots - 1

Pins == [ena : BOOLEAN, run : BOOLEAN, stbA : BOOLEAN, stbB : BOOLEAN,
         a : Addr, uio : Byte]

PopSel(p) == p.a % 2 = 1
Nib(p) == p.a \div 2

\* What the engine can be told.
Csr(a, d) == [kind |-> "csr", a |-> a, d |-> d]
Imem(s, a, d) == [kind |-> "imem", slot |-> s, a |-> a, d |-> d]
Tx(d) == [kind |-> "tx", d |-> d]
Rx == [kind |-> "rx"]

Command == [kind : {"csr"}, a : Addr, d : Byte]
             \cup [kind : {"imem"}, slot : Slot, a : Addr, d : Byte \X Byte]
             \cup [kind : {"tx"}, d : Byte] \cup {Rx}

\* Types: the wrapper latches slots, nibbles and commands of their widths.
PortTypeOK ==
  /\ we_d \in BOOLEAN /\ tx_d \in BOOLEAN
  /\ hi \in BOOLEAN /\ addr \in Addr /\ lo \in Byte
  /\ nib_hi \in BOOLEAN /\ nib_lo \in Nibble
  /\ run_q \in BOOLEAN
  /\ wr_slot \in Slot /\ write_slot \in Slot
  /\ fifo_sel \in {0, 1}
  /\ cmd \in Seq(Command)
  /\ seen \in [ena : BOOLEAN, run : BOOLEAN, stbA : BOOLEAN, stbB : BOOLEAN]
  /\ change \in {"strobe", "mode", "none"}

Low == [ena |-> FALSE, run |-> FALSE, stbA |-> FALSE, stbB |-> FALSE]

PortInit ==
  /\ we_d = FALSE /\ tx_d = FALSE
  /\ hi = FALSE /\ addr = 0 /\ lo = 0
  /\ nib_hi = FALSE /\ nib_lo = 0
  /\ run_q = FALSE
  /\ wr_slot = 0 /\ write_slot = 0 /\ fifo_sel = 0
  /\ cmd = << >>
  /\ seen = Low /\ change = "none"

-----------------------------------------------------------------------------
\* The wires of the wrapper.
halt(p) == p.ena /\ ~p.run
running(p) == p.ena /\ p.run
we(p) == p.stbA /\ halt(p)
fifo_stb(p) == p.stbB /\ p.ena

\* Mutant: strobe A is taken by level.
we_level(p) == we(p)

we_edge(p) == we(p) /\ ~we_d
fifo_edge(p) == fifo_stb(p) /\ ~tx_d

csr_we(p) == we_edge(p) /\ fifo_stb(p)

\* Mutant: the first strobe commits already.
imem_we_early(p) == we_edge(p) /\ ~fifo_stb(p)

\* Mutant: the word is written when the strobe falls.
imem_we_late(p) == we_d /\ ~p.stbA /\ halt(p) /\ hi /\ ~fifo_stb(p)

imem_we(p) == we_edge(p) /\ hi /\ ~fifo_stb(p)

\* Mutant: a push does not look at strobe A.
tx_we_halt_any(p) == fifo_edge(p) /\ ~PopSel(p) /\ halt(p)

tx_we_halt(p) == fifo_edge(p) /\ ~we(p) /\ ~PopSel(p) /\ halt(p)
rx_re_halt(p) == fifo_edge(p) /\ ~we(p) /\ PopSel(p) /\ halt(p)
tx_we_run(p) == fifo_edge(p) /\ ~PopSel(p) /\ running(p) /\ nib_hi
rx_re_run(p) == fifo_edge(p) /\ PopSel(p) /\ running(p)
tx_we(p) == tx_we_halt(p) \/ tx_we_run(p)
rx_re(p) == rx_re_halt(p) \/ rx_re_run(p)

tx_data(p) == IF running(p) THEN Nib(p) * NibMod + nib_lo ELSE p.uio

If(c, x) == IF c THEN <<x>> ELSE << >>

Commands(p) ==
  If(csr_we(p), Csr(p.a, p.uio)) \o If(imem_we(p), Imem(wr_slot, addr, <<p.uio, lo>>))
    \o If(tx_we(p), Tx(tx_data(p))) \o If(rx_re(p), Rx)

\* Mutant: half a word survives a run.
RunEdgeKeepsHalf(p) ==
  /\ IF fifo_edge(p) /\ ~PopSel(p)
     THEN /\ nib_hi' = ~nib_hi
          /\ nib_lo' = IF nib_hi THEN nib_lo ELSE Nib(p)
     ELSE UNCHANGED <<nib_hi, nib_lo>>
  /\ UNCHANGED <<hi, addr, lo, wr_slot>>

\* The edge while the engine runs: the load is abandoned, a push strobe
\* latches the low nibble or completes the byte.
RunEdge(p) ==
  /\ hi' = FALSE
  /\ IF fifo_edge(p) /\ ~PopSel(p)
     THEN /\ nib_hi' = ~nib_hi
          /\ nib_lo' = IF nib_hi THEN nib_lo ELSE Nib(p)
     ELSE UNCHANGED <<nib_hi, nib_lo>>
  /\ UNCHANGED <<addr, lo, wr_slot>>

\* Mutant: the wrapper keeps the whole byte as the slot.
StillEdgeWholeByte(p) ==
  /\ nib_hi' = FALSE
  /\ UNCHANGED nib_lo
  /\ wr_slot' = IF csr_we(p) /\ p.a = CsrWriteSlot THEN p.uio ELSE wr_slot
  /\ IF we_edge(p) /\ ~fifo_stb(p)
     THEN IF hi
          THEN hi' = FALSE /\ UNCHANGED <<addr, lo>>
          ELSE hi' = TRUE /\ addr' = p.a /\ lo' = p.uio
     ELSE UNCHANGED <<hi, addr, lo>>

\* Mutant: the wrapper takes any CSR for the slot.
StillEdgeAnyCsr(p) ==
  /\ nib_hi' = FALSE
  /\ UNCHANGED nib_lo
  /\ wr_slot' = IF csr_we(p) THEN p.uio % NSlots ELSE wr_slot
  /\ IF we_edge(p) /\ ~fifo_stb(p)
     THEN IF hi
          THEN hi' = FALSE /\ UNCHANGED <<addr, lo>>
          ELSE hi' = TRUE /\ addr' = p.a /\ lo' = p.uio
     ELSE UNCHANGED <<hi, addr, lo>>

\* The edge while it does not (halted, or not selected): a half-pushed byte
\* is abandoned, strobe A writes the slot CSR or a half of a word.
StillEdge(p) ==
  /\ nib_hi' = FALSE
  /\ UNCHANGED nib_lo
  /\ wr_slot' = IF csr_we(p) /\ p.a = CsrWriteSlot THEN p.uio % NSlots ELSE wr_slot
  /\ IF we_edge(p) /\ ~fifo_stb(p)
     THEN IF hi
          THEN hi' = FALSE /\ UNCHANGED <<addr, lo>>
          ELSE hi' = TRUE /\ addr' = p.a /\ lo' = p.uio
     ELSE UNCHANGED <<hi, addr, lo>>

\* Mutant: the FIFO selector takes the whole byte.
EngineEdgeWholeByte(p) ==
  /\ write_slot' = IF csr_we(p) /\ ~running(p) /\ p.a = CsrWriteSlot
                   THEN p.uio % NSlots ELSE write_slot
  /\ fifo_sel' = IF csr_we(p) /\ ~running(p) /\ p.a = CsrFifoSel
                 THEN p.uio ELSE fifo_sel

\* What the engine makes of the same edge, as far as the host port reads it
\* back: its own copy of the write slot, and the FIFO selector.
EngineEdge(p) ==
  /\ write_slot' = IF csr_we(p) /\ ~running(p) /\ p.a = CsrWriteSlot
                   THEN p.uio % NSlots ELSE write_slot
  /\ fifo_sel' = IF csr_we(p) /\ ~running(p) /\ p.a = CsrFifoSel
                 THEN p.uio % 2 ELSE fifo_sel

Edge(p) ==
  /\ we_d' = we(p)
  /\ tx_d' = fifo_stb(p)
  /\ run_q' = running(p)
  /\ IF running(p) THEN RunEdge(p) ELSE StillEdge(p)
  /\ EngineEdge(p)
  /\ cmd' = Commands(p)
  /\ seen' = [ena |-> p.ena, run |-> p.run, stbA |-> p.stbA, stbB |-> p.stbB]
  /\ change' = CASE (p.stbA /\ ~seen.stbA) \/ (p.stbB /\ ~seen.stbB) -> "strobe"
                 [] p.ena # seen.ena \/ p.run # seen.run -> "mode"
                 [] OTHER -> "none"

\* rst_n = 0: every register of wrapper and engine.
ResetEdge ==
  /\ we_d' = FALSE /\ tx_d' = FALSE
  /\ hi' = FALSE /\ addr' = 0 /\ lo' = 0
  /\ nib_hi' = FALSE /\ nib_lo' = 0
  /\ run_q' = FALSE
  /\ wr_slot' = 0 /\ write_slot' = 0 /\ fifo_sel' = 0
  /\ cmd' = << >>
  /\ seen' = Low /\ change' = "none"

\* Mutant: the pads are driven whenever the design is selected.
DrivesPadsSelected(p) == p.ena

\* The pads are driven only a clock after the engine started, and off with
\* ena.
DrivesPads(p) == run_q /\ p.ena

-----------------------------------------------------------------------------
\* The port with a host that does anything with its pins.
PortNext == ResetEdge \/ \E p \in Pins : Edge(p)

PortSpec == PortInit /\ [][PortNext]_portvars

\* One edge is never taken for two commands, although five conditions are
\* decoded side by side from two strobes that may rise together.
OneCommandAtATime == Len(cmd) <= 1

\* The write slot is decoded twice, by the wrapper and by the engine, from
\* the same pins: the two copies agree whatever the pins do.
SlotCopiesAgree == wr_slot = write_slot

\* Half a word and half a byte are never both pending, and each belongs to
\* the mode it was started in: no word is completed across a run and no live
\* byte across a halt.
HalvesStayInTheirMode == (hi => ~run_q) /\ (nib_hi => run_q)

\* A strobe is counted when it rises, never again while it stays high.  The
\* one other thing that can look like a rise is the engine being halted,
\* started, selected or reset under a strobe that is already high.
CommandNeedsAChange == cmd # << >> => change # "none"
=============================================================================
