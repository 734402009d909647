-------------------------------- MODULE Fifos --------------------------------
(***************************************************************************)
(* The FIFOs of GraphEngine with everything that touches them in a clock:  *)
(* the host port (tx_we, rx_re, routed by the fifo_sel CSR), the CSR write *)
(* that moves fifo_sel while the engine is halted, and the FIFO            *)
(* instruction of every state machine while it runs.                       *)
(*                                                                         *)
(* A state machine executes PULL or PUSH on a clock of its own choosing    *)
(* here; which instruction it is at is the subject of module SmLockstep.   *)
(***************************************************************************)
EXTENDS FifoRing

CONSTANT SM       \* the state machines, 0 .. n_sm - 1

ASSUME SMAssumption == 0 \in SM

VARIABLES tx,       \* tx[s]: ring written by the host, read by machine s
          rx,       \* rx[s]: ring written by machine s, read by the host
          fifo_sel, \* CSR 9: the machine the host port talks to
          osr,      \* osr[s]: the byte machine s pulled last
          host      \* what the host port asked for at the last edge

vars == <<tx, rx, fifo_sel, osr, host>>

\* The requests of one clock at the host port; the data matters to a push only.
HostOp == [push : {TRUE}, data : Byte, pop : BOOLEAN]
            \cup [push : {FALSE}, data : {Zero}, pop : BOOLEAN]
Asked == [push : BOOLEAN, pop : BOOLEAN, rst : BOOLEAN]
Ask(op) == [push |-> op.push, pop |-> op.pop, rst |-> FALSE]

\* Types: occupancies never leave 0 .. Depth, pointers never leave the memory.
TypeOK ==
  /\ tx \in [SM -> Ring]
  /\ rx \in [SM -> Ring]
  /\ fifo_sel \in SM
  /\ osr \in [SM -> Byte]
  /\ host \in Asked

Init ==
  /\ tx = [s \in SM |-> ResetRing]
  /\ rx = [s \in SM |-> ResetRing]
  /\ fifo_sel = 0
  /\ osr = [s \in SM |-> Zero]
  /\ host = [push |-> FALSE, pop |-> FALSE, rst |-> FALSE]

\* The flags and the byte the host sees.
tx_full == IsFull(tx[fifo_sel])
rx_empty == IsEmpty(rx[fifo_sel])
rx_data == Front(rx[fifo_sel])

\* Mutant: the host's pop is not routed by fifo_sel.
RingsPopBoth(op, pulls, pushes, w) ==
  /\ tx' = [s \in SM |->
             Clock(tx[s], op.push /\ fifo_sel = s, op.data, s \in pulls)]
  /\ rx' = [s \in SM |-> Clock(rx[s], s \in pushes, w[s], op.pop)]
  /\ osr' = [s \in SM |->
              IF Yields(tx[s], s \in pulls) THEN Front(tx[s]) ELSE osr[s]]

\* Mutant: the host's push is not routed by fifo_sel.
RingsPushBoth(op, pulls, pushes, w) ==
  /\ tx' = [s \in SM |-> Clock(tx[s], op.push, op.data, s \in pulls)]
  /\ rx' = [s \in SM |->
             Clock(rx[s], s \in pushes, w[s], op.pop /\ fifo_sel = s)]
  /\ osr' = [s \in SM |->
              IF Yields(tx[s], s \in pulls) THEN Front(tx[s]) ELSE osr[s]]

\* The rings after an edge: host requests reach the selected machine's
\* rings, machine s in pulls reads its TX ring, machine s in pushes writes
\* w[s] to its RX ring.
Rings(op, pulls, pushes, w) ==
  /\ tx' = [s \in SM |->
             Clock(tx[s], op.push /\ fifo_sel = s, op.data, s \in pulls)]
  /\ rx' = [s \in SM |->
             Clock(rx[s], s \in pushes, w[s], op.pop /\ fifo_sel = s)]
  /\ osr' = [s \in SM |->
              IF Yields(tx[s], s \in pulls) THEN Front(tx[s]) ELSE osr[s]]

NoBytes == [s \in {} |-> Zero]

\* run = 0: no machine executes, the host may move data.
HaltClock(op) ==
  /\ Rings(op, {}, {}, NoBytes)
  /\ host' = Ask(op)
  /\ UNCHANGED fifo_sel

\* run = 0 with a CSR write to CSR_FIFO_SEL in the same clock: the data path
\* still uses the old selector.
HaltSelect(op, s) ==
  /\ Rings(op, {}, {}, NoBytes)
  /\ host' = Ask(op)
  /\ fifo_sel' = s

\* run = 1: a machine executes at most one FIFO instruction per clock; what
\* it pushes is its shift register.
RunClock(op, pulls, pushes, w) ==
  /\ pulls \cap pushes = {}
  /\ Rings(op, pulls, pushes, w)
  /\ host' = Ask(op)
  /\ UNCHANGED fifo_sel

\* rst_n = 0: pointers, counters, memories and the selector go back to their
\* reset values, whatever else happens at that edge.
Reset ==
  /\ tx' = [s \in SM |-> ResetRing]
  /\ rx' = [s \in SM |-> ResetRing]
  /\ fifo_sel' = 0
  /\ osr' = [s \in SM |-> Zero]
  /\ host' = [push |-> FALSE, pop |-> FALSE, rst |-> TRUE]

Next ==
  \/ Reset
  \/ \E op \in HostOp :
       \/ HaltClock(op)
       \/ \E s \in SM : HaltSelect(op, s)
       \/ \E pulls, pushes \in SUBSET SM : \E w \in [pushes -> Byte] :
            RunClock(op, pulls, pushes, w)

Spec == Init /\ [][Next]_vars

-----------------------------------------------------------------------------
\* In every ring the write pointer, the read pointer and the occupancy
\* counter agree, whatever mix of host and machine requests each edge
\* carried (tx_r, tx_w, tx_n and rx_r, rx_w, rx_n are updated by separate
\* conditions).
RingsConsistent == \A s \in SM : Consistent(tx[s]) /\ Consistent(rx[s])

\* Room a host has seen in a TX ring stays until the host itself pushes to
\* it, and a byte it has seen in an RX ring stays at its head until the host
\* itself pops it: tx_full and rx_data read before the several clocks of a
\* live push or pop are not stale when the strobe lands.
FlagsStayTrue ==
  [][\A s \in SM :
      /\ ~IsFull(tx[s]) /\ IsFull(tx'[s]) => host'.push /\ fifo_sel = s
      /\ ~IsEmpty(rx[s]) /\ ~(host'.pop /\ fifo_sel = s) /\ ~host'.rst =>
           ~IsEmpty(rx'[s]) /\ Front(rx'[s]) = Front(rx[s])]_vars

\* The rings implement the bounded queues of module ByteQueues: no byte is
\* lost, duplicated, reordered or handed to the other machine except by a
\* push to a full queue.
Queues == INSTANCE ByteQueues WITH
            txq <- [s \in SM |-> Contents(tx[s])],
            rxq <- [s \in SM |-> Contents(rx[s])],
            sel <- fifo_sel,
            got <- osr

ImplementsQueues == Queues!Spec
=============================================================================
