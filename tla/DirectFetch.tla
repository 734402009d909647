----------------------------- MODULE DirectFetch -----------------------------
(***************************************************************************)
(* What instruction memory promises the state machines: every executed     *)
(* instruction is the word its slot holds at its pc.  This is how the      *)
(* engine with one slot per machine fetches (rtl.py), and what             *)
(* docs/SRAM-IMEM-PLAN.md asks of the clocked memory that replaced it.     *)
(***************************************************************************)
CONSTANTS SM, Slots, Addr, Nodes,
          Inputs,             \* what the input pins may show
          ResetMachine,
          After(_, _, _, _)   \* the machines, one of them, its word and the
                              \* input pins, to its registers a clock later

VARIABLES ms,       \* the registers of the machines
          mem,      \* mem[k][a]: word a of slot k
          sm_slot   \* CSR 1 and 2: the slot a machine executes

vars == <<ms, mem, sm_slot>>

Memory == [Slots -> [Addr -> Nodes]]

Init ==
  /\ ms = [s \in SM |-> ResetMachine]
  /\ mem \in Memory
  /\ sm_slot \in [SM -> Slots]

Load ==
  /\ \E k \in Slots, a \in Addr, n \in Nodes : mem' = [mem EXCEPT ![k][a] = n]
  /\ UNCHANGED <<ms, sm_slot>>

Select ==
  /\ \E s \in SM, k \in Slots : sm_slot' = [sm_slot EXCEPT ![s] = k]
  /\ UNCHANGED <<ms, mem>>

Run(en, gpio) ==
  /\ ms' = [s \in SM |->
              IF s \in en THEN After(ms, s, mem[sm_slot[s]][ms[s].pc], gpio)
                          ELSE ms[s]]
  /\ UNCHANGED <<mem, sm_slot>>

\* What is left of the programs after a reset depends on the memory.
Reset ==
  /\ ms' = [s \in SM |-> ResetMachine]
  /\ mem' \in Memory
  /\ sm_slot' \in [SM -> Slots]

Next ==
  \/ Reset
  \/ Select
  \/ Load
  \/ \E en \in SUBSET SM, gpio \in Inputs : Run(en, gpio)

Spec == Init /\ [][Next]_vars
=============================================================================
