----------------------------- MODULE ByteQueues -----------------------------
(***************************************************************************)
(* What the FIFOs of the engine promise: per state machine a bounded       *)
(* first-in first-out queue of bytes in each direction, as loom.interp     *)
(* keeps them (class Fifo), and one selector that says whose queues the    *)
(* host talks to.  A push to a full queue is dropped, a pop of an empty    *)
(* queue does nothing.                                                     *)
(***************************************************************************)
EXTENDS Naturals, Sequences

CONSTANTS Depth, Byte, SM, Zero

VARIABLES txq, rxq, sel,
          got       \* got[s]: the byte machine s pulled last

\* Fifo.push and Fifo.pop; the two of one edge are judged on the queue
\* before it.
Push(q, v, rest) == IF Len(q) < Depth THEN Append(rest, v) ELSE rest
Pop(q) == IF q = << >> THEN q ELSE Tail(q)
Step(q, push, v, pop) ==
  LET rest == IF pop THEN Pop(q) ELSE q
  IN  IF push THEN Push(q, v, rest) ELSE rest

Init ==
  /\ txq = [s \in SM |-> << >>]
  /\ rxq = [s \in SM |-> << >>]
  /\ sel = 0
  /\ got = [s \in SM |-> Zero]

\* The host asks one thing of the selected machine; every machine may pull
\* from its own TX queue and push to its own RX queue.
Transfer(hostPush, v, hostPop, pulls, pushes, w) ==
  /\ txq' = [s \in SM |-> Step(txq[s], hostPush /\ sel = s, v, s \in pulls)]
  /\ rxq' = [s \in SM |-> Step(rxq[s], s \in pushes, w[s], hostPop /\ sel = s)]
  /\ got' = [s \in SM |->
              IF s \in pulls /\ txq[s] # << >> THEN Head(txq[s]) ELSE got[s]]

\* A reset forgets everything.
Forget ==
  /\ txq' = [s \in SM |-> << >>]
  /\ rxq' = [s \in SM |-> << >>]
  /\ sel' = 0
  /\ got' = [s \in SM |-> Zero]

Move ==
  /\ \E hostPush, hostPop \in BOOLEAN, v \in Byte, pulls, pushes \in SUBSET SM :
       \E w \in [pushes -> Byte] :
         Transfer(hostPush, v, hostPop, pulls, pushes, w)
  /\ sel' \in SM

Next == Forget \/ Move

vars == <<txq, rxq, sel, got>>

Spec == Init /\ [][Next]_vars
=============================================================================
