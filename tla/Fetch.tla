-------------------------------- MODULE Fetch --------------------------------
(***************************************************************************)
(* Clocked instruction memory (generator/loom/imem.py) and its two readers *)
(* (rtl.py).  A read port answers a clock late, so while a machine         *)
(* executes the word on its port it puts the address of the next one       *)
(* there.  The memory is an IHP SRAM macro on the chip (Macro) and an      *)
(* Array of flip-flops in the Python tests.                                *)
(*                                                                         *)
(* Machine 0 reads port A, which is also the write port; machine 1 reads   *)
(* port B.                                                                 *)
(***************************************************************************)
EXTENDS SmRtl

CONSTANTS Slots,    \* 0 .. n_slots - 1
          Nodes,    \* the words the host may load
          Blank,    \* word 0: JMP ALWAYS 0
          Cfg,      \* the CSRs of a machine
          Macro,    \* the SRAM macro, or the Array
          Patient   \* the host leaves a quiet clock before it raises run

SM == {0, 1}

ASSUME SlotsAssumption == SM \subseteq Slots
ASSUME NodesAssumption == Nodes \subseteq Node /\ Blank \in Nodes
ASSUME CfgAssumption == Cfg \in Config
ASSUME MemoryKind == Macro \in BOOLEAN /\ Patient \in BOOLEAN

VARIABLES ms,       \* the registers of the machines
          mem,      \* mem[k][a]: word a of slot k
          sm_slot,  \* CSR 1 and 2: the slot a machine executes
          dout,     \* dout[s]: the output register of the port of machine s
          run,      \* the last edge was one with run = 1
          settled   \* ghost: no load, slot write or reset at the last edge

vars == <<ms, mem, sm_slot, dout, run, settled>>

Memory == [Slots -> [Addr -> Nodes]]
Blanks == [k \in Slots |-> [a \in Addr |-> Blank]]

\* The host's write in a clock, if any (imem_we).
Quiet == [we |-> FALSE]
Write == {Quiet} \cup [we : {TRUE}, slot : Slots, a : Addr, n : Nodes]

\* Types: registers, memory and port outputs keep to their widths.
TypeOK ==
  /\ ms \in [SM -> Machine]
  /\ mem \in Memory
  /\ sm_slot \in [SM -> Slots]
  /\ dout \in [SM -> Nodes]
  /\ run \in BOOLEAN
  /\ settled \in BOOLEAN

\* Mutant: one slot too far.
ResetSlotsNext == [s \in SM |-> s + 1]

\* A machine starts in the slot of its own number.
ResetSlots == [s \in SM |-> s]

\* The macro powers up with anything in it.
Init ==
  /\ ms = [s \in SM |-> ResetMachine]
  /\ sm_slot = ResetSlots
  /\ IF Macro THEN mem \in Memory /\ dout \in [SM -> Nodes]
              ELSE mem = Blanks /\ dout = [s \in SM |-> Blank]
  /\ run = FALSE
  /\ settled = FALSE

-----------------------------------------------------------------------------

\* The addresses on the ports in a clock that enables the machines in en.
At(en, gpio) ==
  [s \in SM |->
     [slot |-> sm_slot[s],
      a |-> IF s \in en THEN FetchPc(ms[s], dout[s], Cfg, Pad(ms, gpio))
                        ELSE ms[s].pc]]

After(machines, s, n, gpio) == Enabled(machines[s], n, Cfg, Pad(machines, gpio))

Word(memory, at) == memory[at.slot][at.a]

Written(w) == IF w.we THEN [mem EXCEPT ![w.slot][w.a] = w.n] ELSE mem
Hits(w, at) == w.we /\ w.slot = at.slot /\ w.a = at.a

\* The macro: port A writes or reads, port B reads what was there, and a
\* read of the word being written returns anything.  The Array hands the new
\* word through on both ports.
Ports(w, at) ==
  IF Macro
  THEN /\ dout'[0] = IF w.we THEN dout[0] ELSE Word(mem, at[0])
       /\ dout'[1] \in IF Hits(w, at[1]) THEN Nodes ELSE {Word(mem, at[1])}
  ELSE \A s \in SM : dout'[s] = Word(Written(w), at[s])

Outputs(w, at) == dout' \in [SM -> Nodes] /\ Ports(w, at)

\* Mutant: delays are counted down while halted.
HaltClockCounts(w) ==
  /\ ms' = [s \in SM |-> IF ms[s].delay_ctr # 0 THEN Linger(ms[s], Cfg) ELSE ms[s]]
  /\ mem' = Written(w)
  /\ Outputs(w, At({}, {}))
  /\ run' = FALSE
  /\ settled' = ~w.we
  /\ UNCHANGED sm_slot

\* run = 0: the ports read at pc, the host may load a word.
HaltClock(w) ==
  /\ mem' = Written(w)
  /\ Outputs(w, At({}, {}))
  /\ run' = FALSE
  /\ settled' = ~w.we
  /\ UNCHANGED <<ms, sm_slot>>

\* run = 0 and a write of CSR 1 or 2; the ports still read the old slot.
SlotClock(s, k) ==
  /\ sm_slot' = [sm_slot EXCEPT ![s] = k]
  /\ Outputs(Quiet, At({}, {}))
  /\ run' = FALSE
  /\ settled' = FALSE
  /\ UNCHANGED <<ms, mem>>

\* run = 1: the machines in en execute what is on their ports.
RunClock(en, gpio) ==
  /\ Patient => settled
  /\ ms' = [s \in SM |->
              IF s \in en THEN After(ms, s, dout[s], gpio) ELSE ms[s]]
  /\ Outputs(Quiet, At(en, gpio))
  /\ run' = TRUE
  /\ settled' = TRUE
  /\ UNCHANGED <<mem, sm_slot>>

\* The macro has no reset: it writes and reads with whatever is on its ports.
ResetMemory(w, at) ==
  IF Macro THEN mem' = Written(w) /\ Outputs(w, at)
           ELSE mem' = Blanks /\ dout' = [s \in SM |-> Blank]

\* rst_n = 0 at an edge.
ResetClock(w, en, gpio) ==
  /\ w.we => en = {}
  /\ ms' = [s \in SM |-> ResetMachine]
  /\ sm_slot' = ResetSlots
  /\ ResetMemory(w, At(en, gpio))
  /\ run' = FALSE
  /\ settled' = FALSE

Next ==
  \/ \E w \in Write : HaltClock(w)
  \/ \E s \in SM, k \in Slots : SlotClock(s, k)
  \/ \E en \in SUBSET SM, gpio \in Reg :
       \/ RunClock(en, gpio)
       \/ \E w \in Write : ResetClock(w, en, gpio)

Spec == Init /\ [][Next]_vars

-----------------------------------------------------------------------------
\* One quiet clock is enough: from then on, for as long as the engine runs
\* and over every jump, stall, delay and disabled clock, the word on each
\* port is the one its slot holds at its pc.
FetchesPc == settled => \A s \in SM : dout[s] = mem[sm_slot[s]][ms[s].pc]

\* With a host that leaves that clock, the machines cannot tell the clocked
\* memory from one that is read in the same clock.
Direct == INSTANCE DirectFetch WITH Inputs <- Reg

ImplementsDirectFetch == Direct!Spec
=============================================================================
