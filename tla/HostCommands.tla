---------------------------- MODULE HostCommands ----------------------------
(***************************************************************************)
(* What the host protocol of docs/info.md promises: the host asks for one  *)
(* operation at a time, the engine is told exactly what the operation      *)
(* stands for, once, in order and before the operation is over, and is     *)
(* told nothing else.                                                      *)
(***************************************************************************)
EXTENDS Naturals, Sequences

CONSTANTS Ops,                  \* the operations a host may ask for
          None,
          Effect(_, _),         \* what the engine is told, given the slot
          NewSlot(_, _),        \* the write slot after an operation
          Allowed(_, _),        \* in halted or running mode
          Runs(_, _)            \* the mode after it

VARIABLES op, told, slot, on

Init == op = None /\ told = << >> /\ slot = 0 /\ on = FALSE

Request(o) ==
  /\ op = None
  /\ Allowed(o, on)
  /\ op' = o
  /\ told' = << >>
  /\ UNCHANGED <<slot, on>>

\* The next command of the operation reaches the engine.
Tell ==
  /\ op # None
  /\ Len(told) < Len(Effect(op, slot))
  /\ told' = Append(told, Effect(op, slot)[Len(told) + 1])
  /\ slot' = NewSlot(op, slot)
  /\ UNCHANGED <<op, on>>

Finish ==
  /\ op # None
  /\ Len(told) = Len(Effect(op, slot))
  /\ op' = None
  /\ told' = << >>
  /\ on' = Runs(op, on)
  /\ UNCHANGED slot

\* rst_n between two operations.
Reset ==
  /\ op = None
  /\ slot' = 0
  /\ on' = FALSE
  /\ UNCHANGED <<op, told>>

Next == (\E o \in Ops : Request(o)) \/ Tell \/ Finish \/ Reset

Spec == Init /\ [][Next]_<<op, told, slot, on>>
=============================================================================
