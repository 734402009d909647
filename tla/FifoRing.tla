------------------------------ MODULE FifoRing ------------------------------
(***************************************************************************)
(* The ring buffer behind every TX and RX FIFO of GraphEngine              *)
(* (generator/loom/rtl.py): a byte memory, a read and a write pointer that *)
(* wrap, and an occupancy counter of its own.  The counter is kept apart   *)
(* from the pointers, so that the three agree is a property and not a      *)
(* definition.                                                             *)
(*                                                                         *)
(* One clock edge may carry a request from each side.  Both requests are   *)
(* judged on the occupancy before the edge.                                *)
(***************************************************************************)
EXTENDS Naturals, Sequences

CONSTANTS Depth,    \* FIFO_DEPTH
          Byte,     \* the values of an 8-bit FIFO entry
          Zero      \* the reset value of an entry

ASSUME DepthAssumption == Depth \in Nat \ {0}
ASSUME ByteAssumption == Zero \in Byte

Index == 0 .. Depth - 1

Ring == [mem : [Index -> Byte], r : Index, w : Index, n : 0 .. Depth]

ResetRing == [mem |-> [i \in Index |-> Zero], r |-> 0, w |-> 0, n |-> 0]

IsFull(f) == f.n = Depth
IsEmpty(f) == f.n = 0
Front(f) == f.mem[f.r]

\* In the code Depth is 4 and a pointer has 2 bits: adding one wraps it
\* modulo Depth.
Inc(i) == (i + 1) % Depth

\* Mutant: a push to a full ring goes through.
AcceptsWhenFull(f, push) == push

Accepts(f, push) == push /\ ~IsFull(f)
Yields(f, pop) == pop /\ ~IsEmpty(f)

\* Mutant: the counter forgets a pop that comes with a push.
ClockMiscounts(f, push, v, pop) ==
  [mem |-> IF Accepts(f, push) THEN [f.mem EXCEPT ![f.w] = v] ELSE f.mem,
   w   |-> IF Accepts(f, push) THEN Inc(f.w) ELSE f.w,
   r   |-> IF Yields(f, pop) THEN Inc(f.r) ELSE f.r,
   n   |-> CASE Accepts(f, push) -> f.n + 1
             [] ~Accepts(f, push) /\ Yields(f, pop) -> f.n - 1
             [] OTHER -> f.n]

\* The registers after an edge with a push request (carrying v) and a pop
\* request.  The occupancy does not move when both are granted.
Clock(f, push, v, pop) ==
  [mem |-> IF Accepts(f, push) THEN [f.mem EXCEPT ![f.w] = v] ELSE f.mem,
   w   |-> IF Accepts(f, push) THEN Inc(f.w) ELSE f.w,
   r   |-> IF Yields(f, pop) THEN Inc(f.r) ELSE f.r,
   n   |-> CASE Accepts(f, push) /\ ~Yields(f, pop) -> f.n + 1
             [] ~Accepts(f, push) /\ Yields(f, pop) -> f.n - 1
             [] OTHER -> f.n]

-----------------------------------------------------------------------------
\* The write pointer is where the counter says it is.
Consistent(f) == f.w = (f.r + f.n) % Depth

\* The bytes in the ring, oldest first.
Contents(f) == [k \in 1 .. f.n |-> f.mem[(f.r + k - 1) % Depth]]
=============================================================================
