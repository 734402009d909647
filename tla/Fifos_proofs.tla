---------------------------- MODULE Fifos_proofs ----------------------------
(***************************************************************************)
(* The FIFOs are correct for every depth, every byte set and every set of  *)
(* state machines.  The inductive invariant is the type invariant together *)
(* with RingsConsistent: without the agreement of pointers and counter the *)
(* slot a push writes could be one that is still occupied.                 *)
(***************************************************************************)
EXTENDS Fifos, FifoRing, SequenceTheorems, TLAPS

\* The operators of FifoRing.

\* A pointer that is one short of the end wraps, any other one moves up.
LEMMA IncWraps ==
  ASSUME NEW i \in Index
  PROVE  /\ Inc(i) = IF i = Depth - 1 THEN 0 ELSE i + 1
         /\ Inc(i) \in Index
BY DepthAssumption, SMT DEF Index, Inc

\* Reduction of a position less than two turns from the start.
LEMMA ModTwoTurns ==
  ASSUME NEW p \in 0 .. (2 * Depth - 1)
  PROVE  /\ p % Depth = IF p < Depth THEN p ELSE p - Depth
         /\ p % Depth \in Index
BY DepthAssumption, SMT DEF Index

\* Where a consistent ring writes next, without the remainder.
LEMMA WriteSlot ==
  ASSUME NEW f \in Ring, Consistent(f)
  PROVE  f.w = IF f.r + f.n < Depth THEN f.r + f.n ELSE f.r + f.n - Depth
<1>1. f.r \in Index /\ f.n \in 0 .. Depth
  BY DEF Ring
<1> QED BY <1>1, DepthAssumption, ModTwoTurns, SMT DEF Consistent, Index

\* The occupancy after an edge.
LEMMA ClockCount ==
  ASSUME NEW f \in Ring, NEW push \in BOOLEAN, NEW v, NEW pop \in BOOLEAN
  PROVE  /\ Clock(f, push, v, pop).n \in 0 .. Depth
         /\ Clock(f, push, v, pop).n =
              (f.n + (IF Accepts(f, push) THEN 1 ELSE 0))
                   - (IF Yields(f, pop) THEN 1 ELSE 0)
BY DepthAssumption, SMT
DEF Ring, Clock, Accepts, Yields, IsFull, IsEmpty

\* An edge keeps the ring well-typed.
LEMMA ClockType ==
  ASSUME NEW f \in Ring, NEW push \in BOOLEAN, NEW pop \in BOOLEAN,
         NEW v, push => v \in Byte
  PROVE  Clock(f, push, v, pop) \in Ring
<1>1. Inc(f.w) \in Index /\ Inc(f.r) \in Index
  BY IncWraps DEF Ring
<1>2. Accepts(f, push) => [f.mem EXCEPT ![f.w] = v] \in [Index -> Byte]
  BY DEF Ring, Accepts
<1>3. Clock(f, push, v, pop).n \in 0 .. Depth
  BY ClockCount
<1> QED BY <1>1, <1>2, <1>3 DEF Ring, Clock

\* An edge keeps the write pointer where the counter says it is.
LEMMA ClockConsistent ==
  ASSUME NEW f \in Ring, Consistent(f), NEW push \in BOOLEAN,
         NEW pop \in BOOLEAN, NEW v
  PROVE  Consistent(Clock(f, push, v, pop))
<1> DEFINE g == Clock(f, push, v, pop)
<1>1. f.r \in Index /\ f.w \in Index /\ f.n \in 0 .. Depth
  BY DEF Ring
<1>2. f.w = IF f.r + f.n < Depth THEN f.r + f.n ELSE f.r + f.n - Depth
  BY WriteSlot
<1>3. /\ g.w = IF Accepts(f, push) THEN Inc(f.w) ELSE f.w
      /\ g.r = IF Yields(f, pop) THEN Inc(f.r) ELSE f.r
  BY DEF Clock
<1>4. /\ Inc(f.w) = IF f.w = Depth - 1 THEN 0 ELSE f.w + 1
      /\ Inc(f.r) = IF f.r = Depth - 1 THEN 0 ELSE f.r + 1
  BY <1>1, IncWraps
<1>5. g.n = (f.n + (IF Accepts(f, push) THEN 1 ELSE 0))
                 - (IF Yields(f, pop) THEN 1 ELSE 0)
  BY ClockCount
<1>6. g.n \in 0 .. Depth /\ g.r \in Index
  BY ClockCount, <1>1, IncWraps, <1>3
<1>7. Accepts(f, push) => f.n # Depth
  BY DEF Accepts, IsFull
<1>8. Yields(f, pop) => f.n # 0
  BY DEF Yields, IsEmpty
<1>9. g.w = IF g.r + g.n < Depth THEN g.r + g.n ELSE g.r + g.n - Depth
  <2> HIDE DEF g
  <2> QED BY <1>1, <1>2, <1>3, <1>4, <1>5, <1>6, <1>7, <1>8,
             DepthAssumption, SMT DEF Index
<1>10. (g.r + g.n) % Depth =
         IF g.r + g.n < Depth THEN g.r + g.n ELSE g.r + g.n - Depth
  <2> HIDE DEF g
  <2>1. CASE g.r + g.n < 2 * Depth
    BY <2>1, <1>6, DepthAssumption, ModTwoTurns, SMT DEF Index
  <2> QED BY <2>1, <1>6, DepthAssumption, SMT DEF Index
<1> QED BY <1>9, <1>10 DEF Consistent

\* What is in the ring after an edge: a granted pop takes the oldest byte
\* off, a granted push puts v behind the youngest.
LEMMA ClockContents ==
  ASSUME NEW f \in Ring, Consistent(f), NEW push \in BOOLEAN,
         NEW pop \in BOOLEAN, NEW v
  PROVE  LET left == IF Yields(f, pop) THEN 1 ELSE 0
             g == Clock(f, push, v, pop)
         IN  \A k \in 1 .. g.n :
               Contents(g)[k] = IF k + left <= f.n THEN Contents(f)[k + left]
                                                   ELSE v
<1> DEFINE left == IF Yields(f, pop) THEN 1 ELSE 0
           g == Clock(f, push, v, pop)
<1>1. f.r \in Index /\ f.w \in Index /\ f.n \in 0 .. Depth
  BY DEF Ring
<1>m. f.mem \in [Index -> Byte]
  BY DEF Ring
<1>2. f.w = IF f.r + f.n < Depth THEN f.r + f.n ELSE f.r + f.n - Depth
  BY WriteSlot
<1>w. g.mem = IF Accepts(f, push) THEN [f.mem EXCEPT ![f.w] = v] ELSE f.mem
  BY DEF Clock
<1>3. g.r = IF left = 1 THEN Inc(f.r) ELSE f.r
  BY DEF Clock
<1>4. Inc(f.r) = IF f.r = Depth - 1 THEN 0 ELSE f.r + 1
  BY <1>1, IncWraps
<1>5. /\ g.n \in 0 .. Depth
      /\ g.n = (f.n + (IF Accepts(f, push) THEN 1 ELSE 0)) - left
  BY ClockCount
<1>6. g.r \in Index
  BY <1>1, IncWraps, <1>3
<1>7. Accepts(f, push) => f.n # Depth
  BY DEF Accepts, IsFull
<1>8. left \in {0, 1} /\ (left = 1 => f.n # 0)
  BY DEF Yields, IsEmpty
<1>9. ASSUME NEW k \in 1 .. g.n
      PROVE  Contents(g)[k] = IF k + left <= f.n THEN Contents(f)[k + left]
                                                 ELSE v
  <2> DEFINE p == g.r + (k - 1)
             pos == p % Depth
             p0 == f.r + (k + left - 1)
             pos0 == p0 % Depth
  <2>0. p = g.r + (k - 1) /\ p0 = f.r + (k + left - 1)
    OBVIOUS
  <2>1. Contents(g)[k] = g.mem[pos]
    <3>1. g.r + k - 1 = p
      <4> HIDE DEF g
      <4> QED BY <1>5, <1>6, SMT DEF Index
    <3> QED BY <3>1 DEF Contents
  <2> HIDE DEF p, p0
  <2>2. pos \in Index /\ pos = IF p < Depth THEN p ELSE p - Depth
    <3> HIDE DEF g
    <3>1. p \in 0 .. (2 * Depth - 1)
      BY <2>0, <1>5, <1>6, DepthAssumption, SMT DEF Index
    <3> QED BY <3>1, ModTwoTurns
  <2>3. CASE k + left <= f.n
    <3>1. Contents(f)[k + left] = f.mem[pos0]
      <4>1. f.r + (k + left) - 1 = p0
        <5> HIDE DEF g, left
        <5> QED BY <2>0, <1>1, <1>5, <1>8, SMT DEF Index
      <4>2. k + left \in 1 .. f.n
        <5> HIDE DEF g, left
        <5> QED BY <2>3, <1>1, <1>5, <1>8, SMT
      <4> QED BY <4>1, <4>2 DEF Contents
    <3>2. pos0 = IF p0 < Depth THEN p0 ELSE p0 - Depth
      <4> HIDE DEF g, left
      <4>1. p0 \in 0 .. (2 * Depth - 1)
        BY <2>0, <2>3, <1>1, <1>5, <1>8, DepthAssumption, SMT DEF Index
      <4> QED BY <4>1, ModTwoTurns
    <3>3. pos = pos0
      <4> HIDE DEF g, pos, pos0, left
      <4> QED BY <2>0, <3>2, <2>2, <1>1, <1>3, <1>4, <1>5, <1>6, <1>8, <2>3,
                 DepthAssumption, SMT DEF Index
    <3>4. Accepts(f, push) => pos # f.w
      <4> HIDE DEF g, pos, pos0, left
      <4> QED BY <2>0, <3>2, <3>3, <1>1, <1>2, <1>5, <1>7, <1>8, <2>3,
                 DepthAssumption, SMT DEF Index
    <3>5. g.mem[pos] = f.mem[pos]
      BY <3>4, <1>w, <1>m, <1>1, <2>2
    <3> QED BY <2>1, <2>3, <3>1, <3>3, <3>5
  <2>4. CASE ~(k + left <= f.n)
    <3>1. Accepts(f, push) /\ k + left = f.n + 1
      BY <2>4, <1>1, <1>5, SMT
    <3>2. pos = f.w
      <4> HIDE DEF g, pos, pos0, left
      <4> QED BY <2>0, <3>1, <2>2, <1>1, <1>2, <1>3, <1>4, <1>5, <1>6, <1>7, <1>8,
                 DepthAssumption, SMT DEF Index
    <3>3. g.mem[pos] = v
      BY <3>1, <3>2, <1>w, <1>m, <1>1
    <3> QED BY <2>1, <2>4, <3>3
  <2> QED BY <2>3, <2>4
<1> QED BY <1>9

-----------------------------------------------------------------------------
\* Contents.

\* The bytes of a ring form a sequence as long as its counter says.
LEMMA ContentsIsSeq ==
  ASSUME NEW f \in Ring
  PROVE  /\ Contents(f) \in Seq(Byte)
         /\ Len(Contents(f)) = f.n
         /\ IsEmpty(f) <=> Contents(f) = << >>
         /\ ~IsEmpty(f) => Head(Contents(f)) = Front(f)
<1>1. f.n \in Nat /\ f.r \in Index /\ f.mem \in [Index -> Byte]
  BY DepthAssumption, SMT DEF Ring, Index
<1>2. \A k \in 1 .. f.n : (f.r + k - 1) % Depth \in Index
  BY <1>1, DepthAssumption, SMT DEF Index
<1>3. Contents(f) \in [1 .. f.n -> Byte]
  BY <1>1, <1>2 DEF Contents
<1>4. Contents(f) \in Seq(Byte) /\ Len(Contents(f)) = f.n
  BY <1>1, <1>3, SMT
<1>5. IsEmpty(f) <=> Contents(f) = << >>
  BY <1>1, <1>4, EmptySeq, SMT DEF IsEmpty
<1>6. ASSUME ~IsEmpty(f) PROVE Head(Contents(f)) = Front(f)
  <2>1. 1 \in 1 .. f.n /\ f.r + 1 - 1 = f.r /\ f.r % Depth = f.r
    BY <1>1, <1>6, DepthAssumption, SMT DEF IsEmpty, Index
  <2>2. Contents(f)[1] = Front(f)
    BY <2>1 DEF Contents, Front
  <2> QED BY <2>2, <1>4, HeadTailProperties DEF Head
<1> QED BY <1>4, <1>5, <1>6

\* One edge of a ring is one step of the bounded queue it implements.
LEMMA ClockIsStep ==
  ASSUME NEW f \in Ring, Consistent(f), NEW push \in BOOLEAN,
         NEW pop \in BOOLEAN, NEW v, push => v \in Byte
  PROVE  Contents(Clock(f, push, v, pop))
           = Queues!Step(Contents(f), push, v, pop)
<1> DEFINE g == Clock(f, push, v, pop)
           q == Contents(f)
           rest == IF pop THEN Queues!Pop(q) ELSE q
           left == IF Yields(f, pop) THEN 1 ELSE 0
<1>1. f.n \in 0 .. Depth /\ g \in Ring
  BY ClockType DEF Ring
<1>2. /\ q \in Seq(Byte) /\ Len(q) = f.n
      /\ Contents(g) \in Seq(Byte) /\ Len(Contents(g)) = g.n
      /\ IsEmpty(f) <=> q = << >>
  BY <1>1, ContentsIsSeq
<1>3. \A k \in 1 .. g.n :
        Contents(g)[k] = IF k + left <= f.n THEN q[k + left] ELSE v
  BY ClockContents
<1>4. g.n = (f.n + (IF Accepts(f, push) THEN 1 ELSE 0)) - left
  BY ClockCount
<1>5. Queues!Step(q, push, v, pop) =
        IF Accepts(f, push) THEN Append(rest, v) ELSE rest
  <2>1. Accepts(f, push) <=> push /\ Len(q) < Depth
    BY <1>1, <1>2, DepthAssumption, SMT DEF Accepts, IsFull
  <2> QED BY <2>1 DEF Queues!Step, Queues!Push
<1>6. /\ rest \in Seq(Byte) /\ Len(rest) = f.n - left
      /\ \A k \in 1 .. f.n - left : rest[k] = q[k + left]
  <2>1. CASE Yields(f, pop)
    <3>1. rest = Tail(q) /\ q # << >>
      BY <2>1, <1>2 DEF Queues!Pop, Yields
    <3>2. left = 1
      BY <2>1
    <3> HIDE DEF q, rest, left, g
    <3> QED BY <3>1, <3>2, <1>1, <1>2, HeadTailProperties
  <2>2. CASE ~Yields(f, pop)
    <3>1. rest = q
      BY <2>2, <1>2 DEF Queues!Pop, Yields
    <3>2. left = 0
      BY <2>2
    <3> HIDE DEF q, rest, left, g
    <3> QED BY <3>1, <3>2, <1>1, <1>2, SMT
  <2> QED BY <2>1, <2>2
<1>7. left \in {0, 1} /\ (left = 1 => f.n # 0)
  BY DEF Yields, IsEmpty
<1>8. CASE Accepts(f, push)
  <2> DEFINE t == Append(rest, v)
  <2>1. v \in Byte
    BY <1>8 DEF Accepts
  <2>2. g.n = f.n + 1 - left
    <3> HIDE DEF g, left
    <3> QED BY <1>8, <1>1, <1>4, <1>7, SMT
  <2> HIDE DEF g, q, rest, left
  <2>3. t \in Seq(Byte) /\ Len(t) = f.n + 1 - left
    BY <2>1, <1>1, <1>6, <1>7, SMT
  <2>4. \A k \in 1 .. Len(t) :
          t[k] = IF k + left <= f.n THEN q[k + left] ELSE v
    BY <2>1, <1>1, <1>6, <1>7, SMT
  <2>5. Contents(g) = t
    <3> HIDE DEF t
    <3> QED BY <2>2, <2>3, <2>4, <1>2, <1>3, SeqEqual
  <2> QED BY <2>5, <1>5, <1>8 DEF q, g
<1>9. CASE ~Accepts(f, push)
  <2> HIDE DEF g, q, rest, left
  <2>1. g.n = f.n - left
    BY <1>9, <1>1, <1>4, <1>7, SMT
  <2>2. \A k \in 1 .. g.n : Contents(g)[k] = rest[k]
    BY <2>1, <1>1, <1>3, <1>6, <1>7, SMT
  <2>3. Contents(g) = rest
    BY <2>1, <2>2, <1>2, <1>6, SeqEqual
  <2> QED BY <2>3, <1>5, <1>9 DEF q, g
<1> QED BY <1>8, <1>9

-----------------------------------------------------------------------------
Inv == TypeOK /\ RingsConsistent

\* Every action but the reset is an edge of all rings with some host request, some set of
\* pulling and some set of pushing machines.
LEMMA NextIsEdge ==
  ASSUME Next, ~Reset
  PROVE  \E op \in HostOp, pulls, pushes \in SUBSET SM :
           \E w \in [pushes -> Byte] :
             /\ Rings(op, pulls, pushes, w)
             /\ host' = Ask(op)
             /\ fifo_sel' = fifo_sel \/ fifo_sel' \in SM
<1>1. PICK op \in HostOp :
        \/ HaltClock(op)
        \/ \E s \in SM : HaltSelect(op, s)
        \/ \E pulls, pushes \in SUBSET SM : \E w \in [pushes -> Byte] :
             RunClock(op, pulls, pushes, w)
  BY DEF Next
<1>2. NoBytes \in [{} -> Byte] /\ {} \in SUBSET SM
  BY DEF NoBytes
<1>3. CASE HaltClock(op)
  BY <1>2, <1>3 DEF HaltClock
<1>4. CASE \E s \in SM : HaltSelect(op, s)
  BY <1>2, <1>4 DEF HaltSelect
<1>5. CASE \E pulls, pushes \in SUBSET SM : \E w \in [pushes -> Byte] :
             RunClock(op, pulls, pushes, w)
  BY <1>5 DEF RunClock
<1> QED BY <1>1, <1>3, <1>4, <1>5

\* What an edge asks of the TX and the RX ring of one machine is well-typed.
LEMMA RequestTypes ==
  ASSUME NEW op \in HostOp
  PROVE  /\ op.push \in BOOLEAN /\ op.pop \in BOOLEAN /\ op.data \in Byte
         /\ Ask(op) \in Asked
BY ByteAssumption DEF HostOp, Ask, Asked

\* A ring that was just reset is well-typed, consistent and empty.
LEMMA ResetIsOK ==
  /\ ResetRing \in Ring
  /\ Consistent(ResetRing)
  /\ Contents(ResetRing) = << >>
<1>1. ResetRing \in Ring /\ IsEmpty(ResetRing)
  BY DepthAssumption, ByteAssumption, SMT
  DEF ResetRing, Ring, Index, IsEmpty
<1>2. Consistent(ResetRing)
  BY DepthAssumption, SMT DEF ResetRing, Consistent
<1> QED BY <1>1, <1>2, ContentsIsSeq

\* Inv holds initially and every step keeps it.
LEMMA InvInductive ==
  /\ Init => Inv
  /\ Inv /\ [Next]_vars => Inv'
<1>1. Init => Inv
  <2> SUFFICES ASSUME Init PROVE Inv
    OBVIOUS
  <2> QED BY ResetIsOK, SMAssumption, ByteAssumption
          DEF Init, Inv, TypeOK, RingsConsistent, Asked
<1>2. Inv /\ [Next]_vars => Inv'
  <2> SUFFICES ASSUME Inv, [Next]_vars PROVE Inv'
    OBVIOUS
  <2>1. CASE UNCHANGED vars
    BY <2>1 DEF Inv, TypeOK, RingsConsistent, vars
  <2>r. CASE Reset
    BY <2>r, ResetIsOK, SMAssumption, ByteAssumption
    DEF Reset, Inv, TypeOK, RingsConsistent, Asked
  <2>2. CASE Next /\ ~Reset
    <3>1. PICK op \in HostOp, pulls \in SUBSET SM, pushes \in SUBSET SM :
            \E w \in [pushes -> Byte] :
              /\ Rings(op, pulls, pushes, w)
              /\ host' = Ask(op)
              /\ fifo_sel' = fifo_sel \/ fifo_sel' \in SM
      BY <2>2, NextIsEdge
    <3>2. PICK w \in [pushes -> Byte] :
              /\ Rings(op, pulls, pushes, w)
              /\ host' = Ask(op)
              /\ fifo_sel' = fifo_sel \/ fifo_sel' \in SM
      BY <3>1
    <3>3. ASSUME NEW s \in SM
          PROVE  /\ tx'[s] \in Ring /\ Consistent(tx'[s])
                 /\ rx'[s] \in Ring /\ Consistent(rx'[s])
      <4>1. /\ tx'[s] = Clock(tx[s], op.push /\ fifo_sel = s, op.data, s \in pulls)
            /\ rx'[s] = Clock(rx[s], s \in pushes, w[s], op.pop /\ fifo_sel = s)
        BY <3>2 DEF Rings
      <4>2. /\ tx[s] \in Ring /\ Consistent(tx[s])
            /\ rx[s] \in Ring /\ Consistent(rx[s])
        BY DEF Inv, TypeOK, RingsConsistent
      <4>3. s \in pushes => w[s] \in Byte
        BY <3>2
      <4> DEFINE push == op.push /\ fifo_sel = s
                 pop == op.pop /\ fifo_sel = s
                 pulling == s \in pulls
                 pushing == s \in pushes
      <4>4. /\ push \in BOOLEAN /\ pop \in BOOLEAN
            /\ pulling \in BOOLEAN /\ pushing \in BOOLEAN
            /\ op.data \in Byte
        BY RequestTypes
      <4>5. pushing => w[s] \in Byte
        BY <4>3
      <4> HIDE DEF push, pop, pulling, pushing
      <4>6. /\ Clock(tx[s], push, op.data, pulling) \in Ring
            /\ Consistent(Clock(tx[s], push, op.data, pulling))
        BY <4>2, <4>4, ClockType, ClockConsistent
      <4>7. /\ Clock(rx[s], pushing, w[s], pop) \in Ring
            /\ Consistent(Clock(rx[s], pushing, w[s], pop))
        BY <4>2, <4>4, <4>5, ClockType, ClockConsistent
      <4> QED BY <4>1, <4>6, <4>7 DEF push, pop, pulling, pushing
    <3>4. osr' \in [SM -> Byte]
      <4>1. \A s \in SM : Front(tx[s]) \in Byte
        BY DEF Inv, TypeOK, Ring, Front
      <4> QED BY <4>1, <3>2 DEF Rings, Inv, TypeOK
    <3>5. TypeOK'
      <4>1. tx' \in [SM -> Ring] /\ rx' \in [SM -> Ring]
        BY <3>2, <3>3 DEF Rings
      <4> QED BY <4>1, <3>2, <3>4, RequestTypes DEF Inv, TypeOK
    <3> QED BY <3>3, <3>5 DEF Inv, RingsConsistent
  <2> QED BY <2>1, <2>r, <2>2 DEF vars
<1> QED BY <1>1, <1>2

\* The type invariant, and the agreement of pointers and counter in every
\* ring, hold in every reachable state.
THEOREM TypeCorrect == Spec => []TypeOK
<1>1. Spec => []Inv
  BY InvInductive, PTL DEF Spec
<1> QED BY <1>1, PTL DEF Inv

THEOREM RingsAgree == Spec => []RingsConsistent
<1>1. Spec => []Inv
  BY InvInductive, PTL DEF Spec
<1> QED BY <1>1, PTL DEF Inv

\* The rings implement the bounded queues of ByteQueues.
THEOREM FifosImplementQueues == Spec => ImplementsQueues
<1>1. Init => Queues!Init
  <2> SUFFICES ASSUME Init PROVE Queues!Init
    OBVIOUS
  <2> QED BY ResetIsOK DEF Init, Queues!Init
<1>2. Inv /\ [Next]_vars => [Queues!Next]_(Queues!vars)
  <2> SUFFICES ASSUME Inv, [Next]_vars PROVE [Queues!Next]_(Queues!vars)
    OBVIOUS
  <2>1. CASE UNCHANGED vars
    BY <2>1 DEF vars, Queues!vars
  <2>r. CASE Reset
    <3>1. Queues!Forget
      BY <2>r, ResetIsOK DEF Reset, Queues!Forget
    <3> QED BY <3>1 DEF Queues!Next
  <2>2. CASE Next /\ ~Reset
    <3>1. PICK op \in HostOp, pulls \in SUBSET SM, pushes \in SUBSET SM :
            \E w \in [pushes -> Byte] :
              /\ Rings(op, pulls, pushes, w)
              /\ host' = Ask(op)
              /\ fifo_sel' = fifo_sel \/ fifo_sel' \in SM
      BY <2>2, NextIsEdge
    <3>2. PICK w \in [pushes -> Byte] :
              /\ Rings(op, pulls, pushes, w)
              /\ fifo_sel' = fifo_sel \/ fifo_sel' \in SM
      BY <3>1
    <3>3. ASSUME NEW s \in SM
          PROVE  /\ Contents(tx'[s]) =
                      Queues!Step(Contents(tx[s]), op.push /\ fifo_sel = s,
                                  op.data, s \in pulls)
                 /\ Contents(rx'[s]) =
                      Queues!Step(Contents(rx[s]), s \in pushes, w[s],
                                  op.pop /\ fifo_sel = s)
                 /\ osr'[s] = IF s \in pulls /\ Contents(tx[s]) # << >>
                              THEN Head(Contents(tx[s])) ELSE osr[s]
      <4>1. /\ tx'[s] = Clock(tx[s], op.push /\ fifo_sel = s, op.data, s \in pulls)
            /\ rx'[s] = Clock(rx[s], s \in pushes, w[s], op.pop /\ fifo_sel = s)
            /\ osr'[s] = IF Yields(tx[s], s \in pulls) THEN Front(tx[s]) ELSE osr[s]
        BY <3>2 DEF Rings
      <4>2. /\ tx[s] \in Ring /\ Consistent(tx[s])
            /\ rx[s] \in Ring /\ Consistent(rx[s])
        BY DEF Inv, TypeOK, RingsConsistent
      <4> DEFINE push == op.push /\ fifo_sel = s
                 pop == op.pop /\ fifo_sel = s
                 pulling == s \in pulls
                 pushing == s \in pushes
      <4>3. /\ push \in BOOLEAN /\ pop \in BOOLEAN
            /\ pulling \in BOOLEAN /\ pushing \in BOOLEAN
            /\ op.data \in Byte /\ (pushing => w[s] \in Byte)
        BY <3>2, RequestTypes
      <4> HIDE DEF push, pop, pulling, pushing
      <4>4. Contents(Clock(tx[s], push, op.data, pulling)) =
              Queues!Step(Contents(tx[s]), push, op.data, pulling)
        BY <4>2, <4>3, ClockIsStep
      <4>5. Contents(Clock(rx[s], pushing, w[s], pop)) =
              Queues!Step(Contents(rx[s]), pushing, w[s], pop)
        BY <4>2, <4>3, ClockIsStep
      <4>6. osr'[s] = IF pulling /\ Contents(tx[s]) # << >>
                      THEN Head(Contents(tx[s])) ELSE osr[s]
        BY <4>1, <4>2, ContentsIsSeq DEF Yields, pulling
      <4> QED BY <4>1, <4>4, <4>5, <4>6 DEF push, pop, pulling, pushing
    <3>4. Queues!Transfer(op.push, op.data, op.pop, pulls, pushes, w)
      <4>1. osr' = [s \in SM |-> osr'[s]]
        BY <3>2 DEF Rings
      <4> QED BY <3>3, <4>1 DEF Queues!Transfer
    <3>5. fifo_sel' \in SM
      BY <3>2 DEF Inv, TypeOK
    <3> QED BY <3>4, <3>5, RequestTypes DEF Queues!Next, Queues!Move
  <2> QED BY <2>1, <2>r, <2>2
<1>3. Spec => []Inv
  BY InvInductive, PTL DEF Spec
<1> QED BY <1>1, <1>2, <1>3, PTL DEF Spec, ImplementsQueues, Queues!Spec

\* What the host read from tx_full, rx_empty and rx_data stays true until it
\* acts on it itself.
THEOREM FlagsAreNotStale == Spec => FlagsStayTrue
<1> DEFINE Stays(s) ==
      /\ ~IsFull(tx[s]) /\ IsFull(tx'[s]) => host'.push /\ fifo_sel = s
      /\ ~IsEmpty(rx[s]) /\ ~(host'.pop /\ fifo_sel = s) /\ ~host'.rst =>
           ~IsEmpty(rx'[s]) /\ Front(rx'[s]) = Front(rx[s])
<1>1. Inv /\ [Next]_vars => [\A s \in SM : Stays(s)]_vars
  <2> SUFFICES ASSUME Inv, Next, NEW s \in SM PROVE Stays(s)
    OBVIOUS
  <2>r. CASE Reset
    <3>1. host'.rst /\ tx'[s] = ResetRing
      BY <2>r DEF Reset
    <3>2. ~IsFull(tx'[s])
      BY <3>1, DepthAssumption, SMT DEF IsFull, ResetRing
    <3> QED BY <3>1, <3>2
  <2> SUFFICES ASSUME ~Reset PROVE Stays(s)
    BY <2>r
  <2>1. PICK op \in HostOp, pulls \in SUBSET SM, pushes \in SUBSET SM :
          \E w \in [pushes -> Byte] :
            Rings(op, pulls, pushes, w) /\ host' = Ask(op)
    BY NextIsEdge
  <2>2. PICK w \in [pushes -> Byte] :
            Rings(op, pulls, pushes, w) /\ host' = Ask(op)
    BY <2>1
  <2> DEFINE push == op.push /\ fifo_sel = s
             pop == op.pop /\ fifo_sel = s
             pulling == s \in pulls
             pushing == s \in pushes
  <2>3. /\ tx'[s] = Clock(tx[s], push, op.data, pulling)
        /\ rx'[s] = Clock(rx[s], pushing, w[s], pop)
    BY <2>2 DEF Rings
  <2>4. /\ tx[s] \in Ring /\ rx[s] \in Ring
        /\ push \in BOOLEAN /\ pop \in BOOLEAN
        /\ pulling \in BOOLEAN /\ pushing \in BOOLEAN
    BY RequestTypes DEF Inv, TypeOK
  <2>5. host'.push = op.push /\ host'.pop = op.pop
    BY <2>2 DEF Ask
  <2> HIDE DEF push, pop, pulling, pushing
  <2>6. ASSUME ~IsFull(tx[s]), IsFull(tx'[s]) PROVE push
    <3>1. tx'[s].n = (tx[s].n + (IF Accepts(tx[s], push) THEN 1 ELSE 0))
                       - (IF Yields(tx[s], pulling) THEN 1 ELSE 0)
      BY <2>3, <2>4, ClockCount
    <3>2. tx[s].n \in 0 .. Depth
      BY <2>4 DEF Ring
    <3> QED BY <2>6, <3>1, <3>2, DepthAssumption, SMT DEF IsFull, Accepts
  <2>7. ASSUME ~IsEmpty(rx[s]), ~pop
        PROVE  ~IsEmpty(rx'[s]) /\ Front(rx'[s]) = Front(rx[s])
    <3>1. rx'[s].n = (rx[s].n + (IF Accepts(rx[s], pushing) THEN 1 ELSE 0))
                       - (IF Yields(rx[s], pop) THEN 1 ELSE 0)
      BY <2>3, <2>4, ClockCount
    <3>2. /\ rx[s].n \in 0 .. Depth /\ rx[s].r \in Index
          /\ rx[s].w \in Index /\ rx[s].mem \in [Index -> Byte]
      BY <2>4 DEF Ring
    <3>3. ~Yields(rx[s], pop)
      BY <2>7 DEF Yields
    <3>4. ~IsEmpty(rx'[s])
      BY <2>7, <3>1, <3>2, <3>3, DepthAssumption, SMT DEF IsEmpty
    <3>5. rx'[s].r = rx[s].r
      BY <2>3, <3>3 DEF Clock
    <3>6. Accepts(rx[s], pushing) => rx[s].w # rx[s].r
      <4>1. Consistent(rx[s])
        BY DEF Inv, RingsConsistent
      <4>2. rx[s].w = IF rx[s].r + rx[s].n < Depth THEN rx[s].r + rx[s].n
                      ELSE rx[s].r + rx[s].n - Depth
        BY <4>1, <2>4, WriteSlot
      <4> QED BY <4>2, <3>2, <2>7, DepthAssumption, SMT
              DEF Accepts, IsFull, IsEmpty, Index
    <3>7. rx'[s].mem[rx[s].r] = rx[s].mem[rx[s].r]
      <4>1. rx'[s].mem = IF Accepts(rx[s], pushing)
                         THEN [rx[s].mem EXCEPT ![rx[s].w] = w[s]] ELSE rx[s].mem
        BY <2>3 DEF Clock
      <4> QED BY <4>1, <3>2, <3>6
    <3> QED BY <3>4, <3>5, <3>7 DEF Front
  <2> QED BY <2>5, <2>6, <2>7 DEF push, pop
<1>2. Spec => []Inv
  BY InvInductive, PTL DEF Spec
<1> QED BY <1>1, <1>2, PTL DEF Spec, FlagsStayTrue
=============================================================================
